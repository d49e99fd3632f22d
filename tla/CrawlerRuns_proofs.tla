------------------------- MODULE CrawlerRuns_proofs -------------------------
(***************************************************************************)
(* Safety of the run slot for every number of callers, sources and rows.   *)
(*                                                                         *)
(* OverlapOnlyPastLimit is not inductive.  SlotInv adds what it rests on:  *)
(* a crawl holds a row of its own and of its own source, and as long as    *)
(* that row has not outlived StaleAfter it is still RUNNING.               *)
(***************************************************************************)
EXTENDS CrawlerRuns, TLAPS

\* What ties the calls to the rows they claimed.
Holding ==
    \A c \in Caller :
        /\ Crawling(c) <=> run[c] # None
        /\ Crawling(c) => source[run[c]] = at[c]
        /\ Crawling(c) => status[run[c]] = "RUNNING" \/ age[run[c]] > StaleAfter
        /\ pc[c] \in {"release", "claim"} => at[c] \in Source

HeldAlone ==
    \A c1, c2 \in Caller :
        (run[c1] = run[c2] /\ run[c1] # None) => c1 = c2

SlotInv == TypeOK /\ Holding /\ HeldAlone /\ OneActivePerSource

\* The initial states satisfy the inductive invariant.
LEMMA InitSlotInv == Init => SlotInv
  BY NoneAssumption, StaleAfterAssumption
  DEF Init, SlotInv, TypeOK, Holding, HeldAlone, OneActivePerSource, Crawling,
      Status, Age, Place

\* Every value the code stores has the type of its column or local.
LEMMA TypeStep == TypeOK /\ [Next]_vars => TypeOK'
  <1> SUFFICES ASSUME TypeOK, [Next]_vars PROVE TypeOK'
    OBVIOUS
  <1> USE RegisteredAssumption, StaleAfterAssumption DEF TypeOK, Status, Age, Place
  <1>1. CASE Tick
    BY <1>1 DEF Tick
  <1>2. CASE UNCHANGED vars
    BY <1>2 DEF vars, rows
  <1>3. ASSUME NEW c \in Caller, Step(c) PROVE TypeOK'
    <2>1. CASE Call(c, Registered)
      BY <2>1 DEF Call, rows
    <2>2. ASSUME NEW s \in Source, Call(c, {s}) PROVE TypeOK'
      BY <2>2 DEF Call, rows
    <2>3. ASSUME NEW s \in Source, Begin(c, s) PROVE TypeOK'
      BY <2>3 DEF Begin, rows
    <2>4. ASSUME NEW s \in Source, NotRegistered(c, s) PROVE TypeOK'
      BY <2>4 DEF NotRegistered, rows
    <2>5. CASE Return(c)
      BY <2>5 DEF Return, Leave, rows
    <2>6. CASE ReleaseStaleRuns(c)
      BY <2>6 DEF ReleaseStaleRuns
    <2>7. ASSUME NEW r \in RunId, StartRun(c, r) PROVE TypeOK'
      BY <2>7 DEF StartRun
    <2>8. CASE Conflict(c)
      BY <2>8 DEF Conflict, NextSource, rows
    <2>9. CASE DatabaseError(c)
      BY <2>9 DEF DatabaseError, NextSource, rows
    <2>10. CASE CrawlEnds(c)
      BY <2>10 DEF CrawlEnds, rows
    <2>11. CASE CrawlThrows(c)
      BY <2>11 DEF CrawlThrows, rows
    <2>12. CASE RecordSuccess(c)
      BY <2>12 DEF RecordSuccess, Record, NextSource
    <2>13. CASE RecordFailure(c)
      BY <2>13 DEF RecordFailure, Record, NextSource
    <2>14. CASE Crash(c)
      BY <2>14 DEF Crash, Leave, rows
    <2> QED
      BY <1>3, <2>1, <2>2, <2>3, <2>4, <2>5, <2>6, <2>7, <2>8, <2>9, <2>10,
         <2>11, <2>12, <2>13, <2>14 DEF Step
  <1> QED
    BY <1>1, <1>2, <1>3 DEF Next

\* A call's step keeps rows and calls tied together: the release leaves a row
\* RUNNING until it is past the limit, and a claim takes a row nobody refers to.
LEMMA CallStep ==
  ASSUME SlotInv, TypeOK', NEW c \in Caller, Step(c)
  PROVE (Holding /\ HeldAlone /\ OneActivePerSource)'
  <1> USE RegisteredAssumption, NoneAssumption, StaleAfterAssumption
      DEF SlotInv, TypeOK, Status, Age, Place, Holding, HeldAlone,
          OneActivePerSource, Crawling
  <1>1. CASE Call(c, Registered)
    BY <1>1 DEF Call, rows
  <1>2. ASSUME NEW s \in Source, Call(c, {s})
        PROVE (Holding /\ HeldAlone /\ OneActivePerSource)'
    BY <1>2 DEF Call, rows
  <1>3. ASSUME NEW s \in Source, Begin(c, s)
        PROVE (Holding /\ HeldAlone /\ OneActivePerSource)'
    BY <1>3 DEF Begin, rows
  <1>4. ASSUME NEW s \in Source, NotRegistered(c, s)
        PROVE (Holding /\ HeldAlone /\ OneActivePerSource)'
    BY <1>4 DEF NotRegistered, rows
  <1>5. CASE Return(c)
    BY <1>5 DEF Return, Leave, rows
  <1>6. CASE ReleaseStaleRuns(c)
    BY <1>6 DEF ReleaseStaleRuns, IsStale
  <1>7. ASSUME NEW r \in RunId, StartRun(c, r)
        PROVE (Holding /\ HeldAlone /\ OneActivePerSource)'
    <2>1. /\ pc[c] = "claim" /\ ~SlotTaken(at[c]) /\ Unused(r) /\ run[c] = None
          /\ status' = [status EXCEPT ![r] = "RUNNING"]
          /\ source' = [source EXCEPT ![r] = at[c]]
          /\ age' = [age EXCEPT ![r] = 0]
          /\ run' = [run EXCEPT ![c] = r]
          /\ pc' = [pc EXCEPT ![c] = "crawl"]
          /\ at' = at
      BY <1>7 DEF StartRun
    <2>2. Holding'
      BY <2>1 DEF Unused
    <2>3. HeldAlone'
      BY <2>1 DEF Unused
    <2>4. OneActivePerSource'
      BY <2>1 DEF SlotTaken
    <2> QED
      BY <2>2, <2>3, <2>4
  <1>8. CASE Conflict(c)
    BY <1>8 DEF Conflict, NextSource, rows
  <1>9. CASE DatabaseError(c)
    BY <1>9 DEF DatabaseError, NextSource, rows
  <1>10. CASE CrawlEnds(c)
    BY <1>10 DEF CrawlEnds, rows
  <1>11. CASE CrawlThrows(c)
    BY <1>11 DEF CrawlThrows, rows
  <1>12. CASE RecordSuccess(c)
    BY <1>12 DEF RecordSuccess, Record, NextSource
  <1>13. CASE RecordFailure(c)
    BY <1>13 DEF RecordFailure, Record, NextSource
  <1>14. CASE Crash(c)
    BY <1>14 DEF Crash, Leave, rows
  <1> QED
    BY <1>1, <1>2, <1>3, <1>4, <1>5, <1>6, <1>7, <1>8, <1>9, <1>10, <1>11,
       <1>12, <1>13, <1>14 DEF Step

\* SlotInv is inductive.
LEMMA SlotStep == SlotInv /\ [Next]_vars => SlotInv'
  <1> SUFFICES ASSUME SlotInv, [Next]_vars PROVE SlotInv'
    OBVIOUS
  <1>1. TypeOK'
    BY TypeStep DEF SlotInv
  <1>2. CASE Tick
    BY <1>1, <1>2, StaleAfterAssumption
    DEF Tick, SlotInv, TypeOK, Status, Age, Place, Holding, HeldAlone,
        OneActivePerSource, Crawling
  <1>3. CASE UNCHANGED vars
    BY <1>1, <1>3
    DEF vars, rows, SlotInv, Holding, HeldAlone, OneActivePerSource, Crawling
  <1>4. ASSUME NEW c \in Caller, Step(c) PROVE SlotInv'
    BY <1>1, <1>4, CallStep DEF SlotInv
  <1> QED
    BY <1>2, <1>3, <1>4 DEF Next

\* The whole inductive invariant holds of the specification.
THEOREM SlotInvariant == Spec => []SlotInv
  <1> QED
    BY InitSlotInv, SlotStep, PTL DEF Spec

\* Every column and local keeps its type, for all values of the constants.
THEOREM TypeCorrect == Spec => []TypeOK
  <1>1. SlotInv => TypeOK
    BY DEF SlotInv
  <1> QED
    BY <1>1, SlotInvariant, PTL

\* At most one RUNNING row per source, through every claim, release, crash and
\* late final update.
THEOREM OneActive == Spec => []OneActivePerSource
  <1>1. SlotInv => OneActivePerSource
    BY DEF SlotInv
  <1> QED
    BY <1>1, SlotInvariant, PTL

\* Two crawls of one source overlap only once one of them is older than the
\* limit at which releaseStaleRuns gives its slot away.
THEOREM OverlapBounded == Spec => []OverlapOnlyPastLimit
  <1>1. SlotInv => OverlapOnlyPastLimit
    <2> SUFFICES ASSUME SlotInv, NEW c1 \in Caller, NEW c2 \in Caller,
                        c1 # c2, Crawling(c1), Crawling(c2), at[c1] = at[c2],
                        ~(age[run[c1]] > StaleAfter), ~(age[run[c2]] > StaleAfter)
                 PROVE FALSE
      BY DEF OverlapOnlyPastLimit
    <2>1. /\ run[c1] \in RunId /\ run[c2] \in RunId
          /\ status[run[c1]] = "RUNNING" /\ status[run[c2]] = "RUNNING"
          /\ source[run[c1]] = source[run[c2]]
      BY DEF SlotInv, TypeOK, Holding
    <2>2. run[c1] = run[c2]
      BY <2>1 DEF SlotInv, OneActivePerSource
    <2> QED
      BY <2>1, <2>2, NoneAssumption DEF SlotInv, HeldAlone
  <1> QED
    BY <1>1, SlotInvariant, PTL

\* A row that has ended is not revived by its own crawl: the only write of RUNNING is
\* the insert of a row no call refers to.
THEOREM EndedForGood == Spec => EndedStaysEnded
  <1> DEFINE Revives == \E c \in Caller, r \in RunId :
               run[c] = r /\ status[r] # "RUNNING" /\ status'[r] = "RUNNING"
  <1>1. SlotInv /\ [Next]_vars => ~Revives
    <2> SUFFICES ASSUME SlotInv, [Next]_vars, NEW c \in Caller, NEW r \in RunId,
                        run[c] = r, status[r] # "RUNNING", status'[r] = "RUNNING"
                 PROVE FALSE
      OBVIOUS
    <2>1. UNCHANGED status => FALSE
      OBVIOUS
    <2>2. ASSUME NEW d \in Caller, Step(d) PROVE FALSE
      <3>1. ASSUME NEW q \in RunId, StartRun(d, q) PROVE FALSE
        BY <3>1 DEF StartRun, Unused, SlotInv, TypeOK
      <3>2. CASE ReleaseStaleRuns(d)
        BY <3>2 DEF ReleaseStaleRuns
      <3>3. CASE RecordSuccess(d) \/ RecordFailure(d)
        BY <3>3 DEF RecordSuccess, RecordFailure, Record, SlotInv, TypeOK
      <3> QED
        BY <2>1, <2>2, <3>1, <3>2, <3>3
        DEF Step, Call, Begin, NotRegistered, Return, Leave, Conflict, NextSource,
            DatabaseError, CrawlEnds, CrawlThrows, Crash, rows
    <2> QED
      BY <2>1, <2>2 DEF Next, Tick, vars, rows
  <1>2. ~Revives => (\A c \in Caller, r \in RunId :
            (run[c] = r /\ status[r] # "RUNNING") => status'[r] # "RUNNING")
    OBVIOUS
  <1>3. SlotInv /\ [Next]_vars =>
          [\A c \in Caller, r \in RunId :
            (run[c] = r /\ status[r] # "RUNNING") => status'[r] # "RUNNING"]_vars
    BY <1>1, <1>2
  <1> QED
    BY <1>3, SlotInvariant, PTL DEF Spec, EndedStaysEnded

=============================================================================
