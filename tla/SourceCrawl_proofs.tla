-------------------------- MODULE SourceCrawl_proofs --------------------------
(***************************************************************************)
(* A crawl, the cached taxonomies and the portal's listing, for every      *)
(* number of endpoints, pages, announcements, attempts and readers.        *)
(*                                                                         *)
(* Stale adds that a reader about to write what the table no longer holds  *)
(* is known to be behind.  Swept adds, for each page of a sweep, that what *)
(* the pages before it hold has been collected; it rests on two facts      *)
(* about pages: announcements only move away from the first one while none *)
(* is withdrawn, and an empty page has none after it.  The dates at the    *)
(* end are those of Announcements, for all integers.                       *)
(***************************************************************************)
EXTENDS SourceCrawl, Announcements, FiniteSetTheorems, WellFoundedInduction, TLAPS

\* Where the crawl goes next keeps the types.
LEMMA GotoType ==
  ASSUME TypeOK, NEW p \in {"idle", "sync", "forget", "page", "read"},
         NEW n \in 1 .. Endpoints + ListingPages, Goto(p, n)
  PROVE (pc \in {"idle", "sync", "forget", "page", "read"})'
        /\ (step \in 1 .. Endpoints + ListingPages)' /\ (attempt \in 1 .. MaxAttempts)'
  BY ListingAssumption DEF Goto

\* The first endpoint and the first page are where there can be one.
LEMMA First == 1 \in 1 .. Endpoints + ListingPages /\ Pages \in 1 .. ListingPages
  BY ListingAssumption DEF Pages

\* The initial states are well typed.
LEMMA InitType == Init => TypeOK
  <1> SUFFICES ASSUME Init PROVE TypeOK
    OBVIOUS
  <1>1. 0 \in Labels /\ 0 \in 0 .. MaxIds /\ 1 \in 1 .. MaxAttempts
    BY BoundAssumption, ListingAssumption DEF Labels
  <1>2. labels \in Copy /\ stored \in Copy
    BY <1>1 DEF Init, Copy
  <1> QED
    BY <1>1, <1>2, First DEF Init, TypeOK

\* Every step of the portal and of a reader keeps the types.
LEMMA OutsideType ==
  ASSUME TypeOK,
         \/ Portal \/ Expire
         \/ \E r \in Reader : Miss(r) \/ Load(r) \/ Write(r) \/ ReadFails(r)
  PROVE TypeOK'
  <1>1. CASE Publish
    <2>1. published + 1 \in Id /\ published + 1 \in 0 .. MaxIds
      BY <1>1, BoundAssumption DEF TypeOK, Publish, Id
    <2> QED
      BY <1>1, <2>1 DEF TypeOK, Publish, settings, crawl, readers
  <1>2. CASE \E x \in Id : Withdraw(x)
    BY <1>2 DEF TypeOK, Withdraw, settings, crawl, readers
  <1>3. ASSUME NEW e \in Endpoint, Relabel(e) PROVE TypeOK'
    <2>1. labels[e] + 1 \in Labels
      BY <1>3, BoundAssumption DEF TypeOK, Relabel, Copy, Labels
    <2>2. labels' \in Copy
      BY <1>3, <2>1 DEF TypeOK, Relabel, Copy
    <2> QED
      BY <1>3, <2>2 DEF TypeOK, Relabel, settings, crawl, readers, sweep
  <1>4. ASSUME NEW r \in Reader, Miss(r) \/ Load(r) \/ Write(r) \/ ReadFails(r) PROVE TypeOK'
    <2>1. /\ rpc' \in [Reader -> {"idle", "load", "write"}]
          /\ held' \in [Reader -> Copy \cup {None}]
          /\ behind' \in SUBSET Reader
      BY <1>4 DEF TypeOK, Miss, Load, Write, ReadFails, Return
    <2>2. cache' \in {cache, held[r]}
      BY <1>4 DEF Miss, Load, Write, ReadFails
    <2>3. late' = late \/ late' = (r \in behind)
      BY <1>4, Zenon DEF Miss, Load, Write, ReadFails
    <2>4. late' \in BOOLEAN
      <3>1. (r \in behind) \in BOOLEAN
        OBVIOUS
      <3> QED
        BY <2>3, <3>1 DEF TypeOK
    <2>5. UNCHANGED <<settings, portal, stored, crawl, torn, sweep>>
      BY <1>4 DEF Miss, Load, Write, ReadFails
    <2> QED
      BY <2>1, <2>2, <2>5, <2>4 DEF TypeOK, settings, portal, crawl, sweep
  <1>5. CASE Expire
    BY <1>5 DEF TypeOK, Expire, settings, portal, crawl, readers, sweep
  <1> QED
    BY <1>1, <1>3, <1>4, <1>5, <1>2 DEF Portal

\* Every step of the crawl keeps the types.
LEMMA CrawlType ==
  ASSUME TypeOK, Sync \/ Sweep \/ Crash
  PROVE TypeOK'
  <1> USE First DEF settings, portal, readers, sweep
  <1>1. CASE Start \/ PassOver
    <2>1. step' \in 1 .. Endpoints + ListingPages /\ attempt' \in 1 .. MaxAttempts
          /\ pc' \in {"sync", "forget"}
      BY <1>1, ListingAssumption DEF TypeOK, Start, PassOver, NextEndpoint, Goto
    <2> QED
      BY <1>1, <2>1 DEF TypeOK, Start, PassOver
  <1>2. CASE Upsert
    <2>1. step' \in 1 .. Endpoints + ListingPages /\ attempt' \in 1 .. MaxAttempts
          /\ pc' \in {"sync", "forget"}
      BY <1>2, ListingAssumption DEF TypeOK, Upsert, NextEndpoint, Goto
    <2>2. [stored EXCEPT ![step] = labels[step]] \in Copy
      BY DEF TypeOK, Copy
    <2> QED
      BY <1>2, <2>1, <2>2 DEF TypeOK, Upsert
  <1>3. CASE TryAgain
    BY <1>3, ListingAssumption DEF TypeOK, TryAgain, Exhausted
  <1>4. CASE SyncFails \/ ListingFails \/ Leave \/ Crash
    BY <1>4, GotoType DEF TypeOK, SyncFails, ListingFails, Leave, Crash, Abandon
  <1>5. CASE Forget \/ ForgetFails
    BY <1>5, GotoType DEF TypeOK, Forget, ForgetFails
  <1>6. ASSUME NEW found \in SUBSET Id, NEW n, SweepEnds(found, n),
               UNCHANGED <<settings, portal, stored, cache, readers, late, torn>>
        PROVE TypeOK'
    <2>1. OnPages(1 .. n) \in SUBSET Id
      BY DEF TypeOK, OnPages
    <2> QED
      BY <1>6, <2>1, GotoType DEF TypeOK, SweepEnds
  <1>7. CASE EndOfArchive \/ CutShort
    BY <1>6, <1>7 DEF TypeOK, EndOfArchive, CutShort
  <1>8. CASE ReadPage
    <2>1. entries \cup OnPages({step}) \in SUBSET Id
      BY DEF TypeOK, OnPages
    <2>2. CASE step < Pages
      <3>1. step + 1 \in 1 .. Endpoints + ListingPages
        BY <2>2, ListingAssumption DEF TypeOK
      <3> QED
        BY <1>8, <2>1, <2>2, <3>1, GotoType DEF TypeOK, ReadPage
    <2>3. CASE ~(step < Pages)
      BY <1>6, <1>8, <2>1, <2>3 DEF ReadPage
    <2> QED
      BY <2>2, <2>3
  <1> QED
    BY <1>1, <1>2, <1>3, <1>4, <1>5, <1>7, <1>8 DEF Sync, Sweep

\* Every step keeps the types.
LEMMA NextType == TypeOK /\ [Next]_vars => TypeOK'
  <1>1. TypeOK /\ UNCHANGED vars => TypeOK'
    BY DEF TypeOK, vars, settings, portal, crawl, readers, sweep
  <1> QED
    BY <1>1, OutsideType, CrawlType DEF Next

\* The variables keep their types.
THEOREM TypeCorrect == Spec => []TypeOK
  BY InitType, NextType, PTL DEF Spec

---------------------------------------------------------------------------
(* The cached copy.                                                        *)

\* A reader about to write what the table no longer holds is known to be behind.
Stale ==
    /\ StaleOnlyIfOvertaken
    /\ \A r \in Reader : rpc[r] = "write" => held[r] = stored \/ r \in behind

\* Every step keeps it.
LEMMA NextStale == TypeOK /\ Stale /\ [Next]_vars => Stale'
  <1> SUFFICES ASSUME TypeOK, Stale, [Next]_vars PROVE Stale'
    OBVIOUS
  <1> USE DEF Stale, StaleOnlyIfOvertaken
  <1>1. CASE Portal
    BY <1>1 DEF Portal, Publish, Withdraw, Relabel, crawl, readers
  <1>2. CASE Start \/ PassOver \/ TryAgain
    BY <1>2 DEF Start, PassOver, TryAgain, NextEndpoint, Goto, readers
  <1>3. CASE Upsert
    BY <1>3 DEF Upsert, NextEndpoint, Goto
  <1>4. CASE SyncFails \/ Forget \/ ForgetFails
    BY <1>4 DEF SyncFails, Forget, ForgetFails, Abandon, Goto, readers
  <1>5. CASE Sweep
    <2>1. pc \notin {"sync", "forget"} /\ UNCHANGED <<stored, cache, readers, late, torn>>
      BY <1>5 DEF Sweep, ReadPage, EndOfArchive, CutShort, ListingFails, Leave
    <2> QED
      BY <2>1 DEF readers
  <1>6. ASSUME NEW r \in Reader, Miss(r) \/ Load(r) \/ Write(r) \/ ReadFails(r) PROVE Stale'
    BY <1>6 DEF TypeOK, Miss, Load, Write, ReadFails, Return, crawl
  <1>7. CASE Expire
    BY <1>7 DEF Expire, crawl, readers
  <1>8. CASE Crash
    BY <1>8 DEF Crash, Abandon, Goto
  <1>9. CASE UNCHANGED vars
    BY <1>9 DEF vars, crawl, readers
  <1> QED
    BY <1>1, <1>2, <1>3, <1>4, <1>5, <1>6, <1>7, <1>8, <1>9 DEF Next, Sync

\* A cached copy that differs from the table is one that a sync is about to drop, that a
\* failed run or a failed delete left behind, or that an overtaken reader wrote.
THEOREM CacheFollowsTable == Spec => []StaleOnlyIfOvertaken
  <1>1. Init => Stale
    BY DEF Init, Stale, StaleOnlyIfOvertaken
  <1>2. Stale => StaleOnlyIfOvertaken
    BY DEF Stale
  <1> QED
    BY InitType, NextType, NextStale, <1>1, <1>2, PTL DEF Spec

---------------------------------------------------------------------------
(* Pages.                                                                  *)

\* A set of natural numbers has a least element.
LEMMA Least ==
  ASSUME NEW S \in SUBSET Nat, S # {}
  PROVE \E m \in S : \A n \in S : m <= n
  <1>1. PICK m \in S : \A n \in S : <<n, m>> \notin OpToRel(<, Nat)
    BY NatLessThanWellFounded, WFMin
  <1>2. \A n \in S : ~(n < m)
    BY <1>1, Zenon DEF OpToRel
  <1> QED
    BY <1>2

\* A set of announcements has a latest one.
LEMMA Latest ==
  ASSUME NEW S \in SUBSET Id, S # {}
  PROVE \E m \in S : \A n \in S : n <= m
  <1> DEFINE T == {MaxIds - n : n \in S}
  <1> USE BoundAssumption DEF Id
  <1>1. T \in SUBSET Nat
    OBVIOUS
  <1>2. T # {}
    OBVIOUS
  <1>3. PICK t \in T : \A u \in T : t <= u
    <2> HIDE DEF T
    <2> QED
      BY <1>1, <1>2, Least
  <1>4. PICK m \in S : t = MaxIds - m
    BY <1>3
  <1>5. ASSUME NEW n \in S PROVE n <= m
    <2>1. t <= MaxIds - n
      BY <1>3
    <2> QED
      BY <1>4, <2>1
  <1> QED
    BY <1>5

After(x) == {y \in listed : y > x}

\* A set of announcements can be counted.
LEMMA Countable ==
  ASSUME NEW S \in SUBSET Id
  PROVE IsFiniteSet(S) /\ Cardinality(S) \in Nat
  <1>1. IsFiniteSet(Id)
    BY BoundAssumption, FS_Interval DEF Id
  <1> QED
    BY <1>1, FS_Subset, FS_CardinalityType

\* So can those listed after a given one, now and after any step.
LEMMA AfterType ==
  ASSUME TypeOK, TypeOK', NEW x
  PROVE /\ IsFiniteSet(After(x)) /\ Cardinality(After(x)) \in Nat
        /\ IsFiniteSet(After(x)') /\ Cardinality(After(x)') \in Nat
  <1>1. After(x) \in SUBSET Id /\ After(x)' \in SUBSET Id
    BY DEF After, TypeOK
  <1> QED
    BY <1>1, Countable

\* One more announcement moves another by at most one page, and never towards the first.
LEMMA PageStep ==
  ASSUME NEW n \in Nat, NEW m \in Nat, m <= n
  PROVE /\ n \div PageSize \in Nat /\ m \div PageSize <= n \div PageSize
        /\ (n + 1) \div PageSize <= n \div PageSize + 1
  BY ListingAssumption

\* Pages are numbered from one.
LEMMA PageType ==
  ASSUME TypeOK, TypeOK', NEW x
  PROVE PageOf(x) \in Nat \ {0} /\ PageOf(x)' \in Nat \ {0}
  <1>1. Cardinality(After(x)) \div PageSize \in Nat
        /\ Cardinality(After(x)') \div PageSize \in Nat
    BY AfterType, PageStep
  <1> QED
    BY <1>1 DEF PageOf, After

\* No announcement moves towards the first page while none is withdrawn.
LEMMA PagesGrow ==
  ASSUME TypeOK, TypeOK', UNCHANGED source, listed \subseteq listed', NEW x
  PROVE PageOf(x) <= PageOf(x)'
  <1>1. CASE source = "OCSC"
    BY <1>1 DEF PageOf
  <1>2. CASE source # "OCSC"
    <2>1. After(x) \in SUBSET After(x)'
      BY DEF After
    <2>2. IsFiniteSet(After(x)') /\ Cardinality(After(x)') \in Nat
      BY AfterType
    <2>3. Cardinality(After(x)) <= Cardinality(After(x)') /\ Cardinality(After(x)) \in Nat
      BY <2>1, <2>2, FS_Subset, AfterType
    <2>4. Cardinality(After(x)) \div PageSize <= Cardinality(After(x)') \div PageSize
          /\ Cardinality(After(x)) \div PageSize \in Nat
          /\ Cardinality(After(x)') \div PageSize \in Nat
      BY <2>2, <2>3, PageStep
    <2>5. /\ PageOf(x) = Cardinality(After(x)) \div PageSize + 1
          /\ PageOf(x)' = Cardinality(After(x)') \div PageSize + 1
      BY <1>2 DEF PageOf, After
    <2> QED
      BY <2>4, <2>5
  <1> QED
    BY <1>1, <1>2

\* An empty page is past the end: there is none with announcements after it.
LEMMA NoGap ==
  ASSUME TypeOK, TypeOK', NEW s \in Nat \ {0}, NEW x \in listed, PageOf(x) > s
  PROVE OnPages({s}) # {}
  <1> DEFINE Rest == {y \in listed : PageOf(y) >= s}
  <1> USE BoundAssumption DEF Id
  <1>1. source # "OCSC"
    BY DEF PageOf
  <1>2. \A y : PageOf(y) = Cardinality(After(y)) \div PageSize + 1 /\ PageOf(y) \in Nat
    BY <1>1, PageType DEF PageOf, After
  <1>3. listed \in SUBSET Id /\ Id \in SUBSET Nat /\ listed \in SUBSET Nat
    BY DEF TypeOK
  <1>4. PICK y \in listed : PageOf(y) >= s /\ \A z \in listed : PageOf(z) >= s => z <= y
    <2>1. PageOf(x) >= s
      BY PageType
    <2>2. Rest \in SUBSET Id /\ x \in Rest
      BY <1>3, <2>1
    <2>3. PICK y \in Rest : \A z \in Rest : z <= y
      <3> HIDE DEF Rest
      <3> QED
        BY <2>2, Latest
    <2> QED
      BY <2>3
  <1> HIDE DEF Rest
  <1>5. \A z \in After(y) : PageOf(z) < s
    <2> SUFFICES ASSUME NEW z \in After(y) PROVE PageOf(z) < s
      OBVIOUS
    <2>1. z \in listed /\ z > y /\ z \in Nat /\ y \in Nat
      BY <1>3 DEF After
    <2> QED
      BY <1>2, <1>4, <2>1
  <1>6. CASE After(y) = {}
    <2>1. 0 \div PageSize = 0
      BY ListingAssumption
    <2>2. PageOf(y) = 1
      BY <1>2, <1>6, <2>1, FS_EmptySet
    <2> QED
      BY <1>4, <2>2 DEF OnPages
  <1>7. CASE After(y) # {}
    <2>1. After(y) \in SUBSET Nat
      BY <1>3 DEF After
    <2>2. PICK z \in After(y) : \A w \in After(y) : z <= w
      BY <1>7, <2>1, Least
    <2>3. After(y) = After(z) \cup {z} /\ z \notin After(z)
      <3>1. z \in listed /\ z \in Nat /\ y \in Nat /\ z > y
        BY <1>3 DEF After
      <3>2. \A w \in listed : w \in Nat /\ (w > y <=> w > z \/ w = z)
        <4> SUFFICES ASSUME NEW w \in listed PROVE w \in Nat /\ (w > y <=> w > z \/ w = z)
          OBVIOUS
        <4>1. w > y => z <= w
          BY <2>2 DEF After
        <4> QED
          BY <1>3, <3>1, <4>1
      <3>3. ~(z > z)
        BY <3>1
      <3>4. \A w : w \in After(y) <=> w \in After(z) \/ w = z
        BY <3>1, <3>2, Zenon DEF After
      <3>5. z \notin After(z)
        BY <3>3 DEF After
      <3> QED
        BY <3>4, <3>5
    <2>4. Cardinality(After(y)) = Cardinality(After(z)) + 1 /\ Cardinality(After(z)) \in Nat
      BY <2>3, AfterType, FS_AddElement
    <2>5. Cardinality(After(y)) \div PageSize <= Cardinality(After(z)) \div PageSize + 1
          /\ Cardinality(After(z)) \div PageSize \in Nat
          /\ Cardinality(After(y)) \div PageSize \in Nat
      BY <2>4, PageStep
    <2>6. PageOf(y) <= PageOf(z) + 1
      BY <1>2, <2>5
    <2>7. PageOf(z) < s
      BY <1>5
    <2>8. PageOf(y) = s
      BY <1>2, <1>4, <2>6, <2>7
    <2> QED
      BY <1>4, <2>8 DEF OnPages
  <1> QED
    BY <1>6, <1>7

---------------------------------------------------------------------------
(* The sweep.                                                              *)

\* What the pages already read hold has been collected, but for what was published since.
Swept ==
    /\ SweepMissesNothing
    /\ pc = "page" => shrunk \/ \A x \in listed \ fresh : PageOf(x) < step => x \in entries

\* A sweep that ends has collected what the pages it swept hold.
LEMMA EndSwept ==
  ASSUME TypeOK, NEW found, NEW n, SweepEnds(found, n),
         shrunk \/ \A x \in listed \ fresh : PageOf(x) \in 1 .. n => x \in found
  PROVE Swept'
  BY DEF SweepEnds, Goto, Swept, SweepMissesNothing, OnPages

\* Every step keeps it.
LEMMA NextSwept == TypeOK /\ TypeOK' /\ Swept /\ [Next]_vars => Swept'
  <1> SUFFICES ASSUME TypeOK, TypeOK', Swept, [Next]_vars PROVE Swept'
    OBVIOUS
  <1>1. ASSUME pc' = "page" => pc = "page" /\ step' = step,
               pc' = "read" => pc = "read",
               UNCHANGED <<source, listed, entries, sweep>>
        PROVE Swept'
    BY <1>1 DEF Swept, SweepMissesNothing, PageOf, sweep
  <1>2. CASE Publish
    <2>1. /\ UNCHANGED <<source, pc, step, entries, shrunk, due>>
          /\ listed' = listed \cup {published + 1}
          /\ pc = "page" => fresh' = fresh \cup {published + 1}
      BY <1>2 DEF Publish, settings, crawl
    <2>2. ASSUME NEW x \in listed' \ fresh', pc = "page", ~shrunk, PageOf(x)' < step
          PROVE x \in entries
      <3>1. x \in listed \ fresh
        BY <2>1, <2>2
      <3>2. PageOf(x) <= PageOf(x)' /\ PageOf(x) \in Nat /\ PageOf(x)' \in Nat /\ step \in Nat
        <4>1. PageOf(x) <= PageOf(x)'
          BY <2>1, PagesGrow
        <4>2. PageOf(x) \in Nat /\ PageOf(x)' \in Nat
          BY PageType
        <4> QED
          BY <4>1, <4>2, ListingAssumption DEF TypeOK
      <3>3. PageOf(x) < step
        BY <2>2, <3>2
      <3> QED
        BY <2>2, <3>1, <3>3 DEF Swept
    <2> QED
      BY <2>1, <2>2 DEF Swept, SweepMissesNothing
  <1>3. ASSUME NEW x \in Id, Withdraw(x) PROVE Swept'
    BY <1>3 DEF Withdraw, crawl, Swept, SweepMissesNothing
  <1>4. CASE (\E e \in Endpoint : Relabel(e)) \/ Expire
    BY <1>1, <1>4 DEF Relabel, Expire, settings, portal, crawl
  <1>5. CASE Start \/ Upsert \/ PassOver \/ SyncFails \/ ListingFails \/ Leave \/ Crash
    <2>1. pc' \in {"idle", "sync", "forget"}
      BY <1>5 DEF Start, Upsert, PassOver, NextEndpoint, SyncFails, ListingFails, Leave, Crash,
                  Abandon, Goto
    <2> QED
      BY <2>1 DEF Swept, SweepMissesNothing
  <1>6. CASE TryAgain
    BY <1>1, <1>6 DEF TryAgain, settings, portal
  <1>7. CASE Forget \/ ForgetFails
    <2>1. pc' = "page" /\ step' = 1 /\ UNCHANGED listed
      BY <1>7 DEF Forget, ForgetFails, Goto, portal
    <2>2. \A x : PageOf(x)' \in Nat \ {0}
      BY PageType
    <2> QED
      BY <2>1, <2>2 DEF Swept, SweepMissesNothing
  <1>8. CASE ReadPage
    <2> DEFINE found == entries \cup OnPages({step})
    <2>1. /\ pc = "page" /\ step \in Nat /\ Pages \in Nat
          /\ UNCHANGED <<source, listed>>
          /\ \A x : PageOf(x) \in Nat \ {0}
      BY <1>8, ListingAssumption, First, PageType DEF ReadPage, settings, portal, TypeOK
    <2>2. shrunk \/ \A x \in listed \ fresh : PageOf(x) <= step => x \in found
      BY <2>1 DEF Swept, OnPages
    <2>3. CASE step < Pages
      <3>1. pc' = "page" /\ step' = step + 1 /\ entries' = found /\ UNCHANGED sweep
        BY <1>8, <2>3 DEF ReadPage, Goto
      <3>2. \A x : PageOf(x)' = PageOf(x)
        BY <2>1 DEF PageOf
      <3> HIDE DEF found
      <3> QED
        BY <2>1, <2>2, <3>1, <3>2 DEF Swept, SweepMissesNothing, sweep
    <2>4. CASE ~(step < Pages)
      <3>1. SweepEnds(found, Pages)
        BY <1>8, <2>4 DEF ReadPage
      <3>2. shrunk \/ \A x \in listed \ fresh : PageOf(x) \in 1 .. Pages => x \in found
        BY <2>1, <2>2, <2>4
      <3> HIDE DEF found
      <3> QED
        BY <3>1, <3>2, EndSwept
    <2> QED
      BY <2>3, <2>4
  <1>9. CASE EndOfArchive
    <2>1. /\ pc = "page" /\ OnPages({step}) = {} /\ SweepEnds(entries, Pages)
          /\ step \in Nat \ {0}
      BY <1>9, ListingAssumption DEF EndOfArchive, TypeOK
    <2>2. \A x : PageOf(x) \in Nat \ {0}
      BY PageType
    <2>3. \A x \in listed : PageOf(x) < step
      <3> SUFFICES ASSUME NEW x \in listed PROVE PageOf(x) < step
        OBVIOUS
      <3>1. PageOf(x) # step
        BY <2>1 DEF OnPages
      <3>2. ~(PageOf(x) > step)
        BY <2>1, NoGap
      <3> QED
        BY <2>1, <2>2, <3>1, <3>2
    <2>4. shrunk \/ \A x \in listed \ fresh : x \in entries
      BY <2>1, <2>3 DEF Swept
    <2> QED
      BY <2>1, <2>4, EndSwept
  <1>10. CASE CutShort
    <2>1. /\ pc = "page" /\ step \in Nat \ {0} /\ SweepEnds(entries, step - 1)
          /\ \A x : PageOf(x) \in Nat \ {0}
      BY <1>10, ListingAssumption, PageType DEF CutShort, TypeOK
    <2>2. shrunk \/ \A x \in listed \ fresh : PageOf(x) \in 1 .. step - 1 => x \in entries
      BY <2>1 DEF Swept
    <2> QED
      BY <2>1, <2>2, EndSwept
  <1>11. ASSUME NEW r \in Reader, Miss(r) \/ Load(r) \/ Write(r) \/ ReadFails(r) PROVE Swept'
    BY <1>1, <1>11 DEF Miss, Load, Write, ReadFails, settings, portal, crawl
  <1>12. CASE UNCHANGED vars
    BY <1>1, <1>12 DEF vars, settings, portal, crawl
  <1> QED
    BY <1>2, <1>3, <1>4, <1>5, <1>6, <1>7, <1>8, <1>9, <1>10, <1>11, <1>12
       DEF Next, Portal, Sync, Sweep

\* A sweep collects everything that its pages hold when it ends and that was listed when
\* it began, unless an announcement was withdrawn meanwhile.
THEOREM SweepIsComplete == Spec => []SweepMissesNothing
  <1>1. Init => Swept
    BY DEF Init, Swept, SweepMissesNothing
  <1>2. Swept => SweepMissesNothing
    BY DEF Swept
  <1> QED
    BY InitType, NextType, NextSwept, <1>1, <1>2, PTL DEF Spec

---------------------------------------------------------------------------
(* Dates.                                                                  *)

\* The two ways a portal writes a date are read alike, in either era, and only a date on the
\* calendar is read (parseThaiDate, parseSlashDate).
THEOREM DatesAreReadAlike ==
  ASSUME NEW d \in Int, NEW m \in Int, NEW y \in Int
  PROVE /\ ParseThaiDate(d, <<m, "full">>, y) = ParseSlashDate(d, m, y)
        /\ y \in 1857 .. 2399 => ParseSlashDate(d, m, y) = ParseSlashDate(d, m, y + 543)
        /\ \A date \in ParseSlashDate(d, m, y) : OnCalendar(date[1], date[2], date[3])
  <1>1. ASSUME NEW e \in Int, NEW raw \in Int
        PROVE Gregorian(e, m, raw) =
                IF OnCalendar(GregorianYear(raw), m, e) THEN {<<GregorianYear(raw), m, e>>} ELSE {}
    BY DEF Gregorian
  <1>2. ParseThaiDate(d, <<m, "full">>, y) = ParseSlashDate(d, m, y)
    <2>1. {n \in 1 .. 12 : <<m, "full">> \in ThaiMonths[n]} = {m} \cap 1 .. 12
      <3>1. \A n \in 1 .. 12 : <<m, "full">> \in ThaiMonths[n] <=> n = m
        BY DEF ThaiMonths
      <3> QED
        BY <3>1
    <2>2. CASE m \in 1 .. 12
      BY <2>1, <2>2 DEF ParseThaiDate, ParseSlashDate
    <2>3. CASE m \notin 1 .. 12
      <3>1. Gregorian(d, m, y) = {}
        BY <1>1, <2>3 DEF OnCalendar
      <3> QED
        BY <2>1, <2>3, <3>1 DEF ParseThaiDate, ParseSlashDate
    <2> QED
      BY <2>2, <2>3
  <1>3. ASSUME y \in 1857 .. 2399 PROVE ParseSlashDate(d, m, y) = ParseSlashDate(d, m, y + 543)
    <2>1. GregorianYear(y) = y /\ GregorianYear(y + 543) = y
      BY <1>3 DEF GregorianYear
    <2>2. Gregorian(d, m, y) = IF OnCalendar(y, m, d) THEN {<<y, m, d>>} ELSE {}
      BY <1>1, <2>1
    <2>3. Gregorian(d, m, y + 543) = IF OnCalendar(y, m, d) THEN {<<y, m, d>>} ELSE {}
      <3>1. y + 543 \in Int
        OBVIOUS
      <3>2. Gregorian(d, m, y + 543) =
              IF OnCalendar(GregorianYear(y + 543), m, d)
              THEN {<<GregorianYear(y + 543), m, d>>} ELSE {}
        BY <1>1, <3>1
      <3> QED
        BY <2>1, <3>2
    <2> QED
      BY <2>2, <2>3 DEF ParseSlashDate
  <1>4. \A date \in ParseSlashDate(d, m, y) : OnCalendar(date[1], date[2], date[3])
    BY <1>1 DEF ParseSlashDate
  <1> QED
    BY <1>2, <1>3, <1>4

=============================================================================
