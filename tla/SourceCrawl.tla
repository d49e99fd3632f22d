------------------------------ MODULE SourceCrawl ------------------------------
(***************************************************************************)
(* One crawl of a source up to the point where its announcements are       *)
(* persisted (CrawlIngest): syncReference, the invalidation of the cached  *)
(* taxonomies, and crawl(), one request or database call per step, while   *)
(* the portal publishes, withdraws and relabels, and visitors read the     *)
(* taxonomies through CacheService.remember.                               *)
(*                                                                         *)
(* OCSC has taxonomies and one list of everything; DOL and MDES have no    *)
(* taxonomies and a listing in pages, newest first.  Announcements are     *)
(* numbered in the order of publication.  A taxonomy is one endpoint's     *)
(* labels, a number that grows when the portal edits them; English names   *)
(* are ours and never written here.  Left out: which announcements are     *)
(* kept (Announcements), delays between attempts, and announcements the    *)
(* portal pins to every page.                                              *)
(***************************************************************************)
EXTENDS Naturals, FiniteSets

CONSTANTS
    Source,         \* sources crawled
    Provider,       \* caches configured: memory, upstash
    Endpoints,      \* REFERENCE_ENDPOINTS, by number
    ListingPages,   \* config.listingPages
    PageSize,       \* announcements on a page of the listing
    MaxAttempts,    \* maxAttempts of fetchText and fetchJson
    Reader,         \* requests for the taxonomies in progress together
    MaxIds,         \* bound on the announcements published
    MaxLabels,      \* bound on the edits of a taxonomy
    None            \* no copy

Id == 1 .. MaxIds
Endpoint == 1 .. Endpoints
Labels == 0 .. MaxLabels
Copy == [Endpoint -> Labels]

ASSUME SourceAssumption == Source \subseteq {"OCSC", "DOL", "MDES"}
ASSUME ProviderAssumption == Provider \subseteq {"memory", "upstash"}
ASSUME ListingAssumption ==
    Endpoints \in Nat \ {0} /\ ListingPages \in Nat \ {0} /\ PageSize \in Nat \ {0}
    /\ MaxAttempts \in Nat \ {0}
ASSUME BoundAssumption == MaxIds \in Nat /\ MaxLabels \in Nat
ASSUME NoneAssumption == None \notin Copy

VARIABLES
    source,     \* the source crawled, and
    provider,   \* the cache in use: both set once
    listed,     \* announcements the portal lists
    published,  \* announcements it has published
    labels,     \* the labels its taxonomy endpoints answer
    stored,     \* reference_item.name_th
    cache,      \* the copy under reference:source
    pc,         \* the call a crawl is at
    step,       \* the endpoint or page it asks for next
    attempt,    \* of that request
    entries,    \* announcements collected from the listing
    rpc,        \* the call a reader is at
    held,       \* the copy it has loaded
    behind,     \* history: readers whose copy the table has moved on from
    late,       \* history: the cached copy was written by such a reader
    torn,       \* history: the table has changed and the invalidation after it never came
    fresh,      \* history: announcements published during this sweep
    shrunk,     \* history: one was withdrawn during this sweep
    due         \* history: what the pages of this sweep held when it ended

portal == <<listed, published, labels>>
crawl == <<pc, step, attempt, entries>>
readers == <<rpc, held, behind>>
sweep == <<fresh, shrunk, due>>
settings == <<source, provider>>
vars == <<settings, portal, stored, cache, crawl, readers, late, torn, sweep>>

TypeOK ==
    /\ source \in Source /\ provider \in Provider
    /\ listed \in SUBSET Id
    /\ published \in 0 .. MaxIds
    /\ labels \in Copy /\ stored \in Copy
    /\ cache \in Copy \cup {None}
    /\ pc \in {"idle", "sync", "forget", "page", "read"}
    /\ step \in 1 .. Endpoints + ListingPages
    /\ attempt \in 1 .. MaxAttempts
    /\ entries \in SUBSET Id
    /\ rpc \in [Reader -> {"idle", "load", "write"}]
    /\ held \in [Reader -> Copy \cup {None}]
    /\ behind \in SUBSET Reader
    /\ late \in BOOLEAN /\ torn \in BOOLEAN /\ shrunk \in BOOLEAN
    /\ fresh \in SUBSET Id /\ due \in SUBSET Id

Init ==
    /\ source \in Source /\ provider \in Provider
    /\ listed = {} /\ published = 0
    /\ labels = [e \in Endpoint |-> 0]
    /\ stored = [e \in Endpoint |-> 0]
    /\ cache = None
    /\ pc = "idle" /\ step = 1 /\ attempt = 1
    /\ entries = {}
    /\ rpc = [r \in Reader |-> "idle"]
    /\ held = [r \in Reader |-> None]
    /\ behind = {}
    /\ late = FALSE /\ torn = FALSE
    /\ fresh = {} /\ shrunk = FALSE /\ due = {}

\* Without credentials the cache is a map in the process.
InMemory == provider = "memory"

---------------------------------------------------------------------------
(* The portal.                                                             *)

Publish ==
    LET x == published + 1 IN
    /\ x \in Id
    /\ published' = x
    /\ listed' = listed \cup {x}
    /\ fresh' = IF pc = "page" THEN fresh \cup {x} ELSE fresh
    /\ UNCHANGED <<settings, labels, stored, cache, crawl, readers, late, torn, shrunk, due>>

Withdraw(x) ==
    /\ x \in listed
    /\ listed' = listed \ {x}
    /\ shrunk' = (shrunk \/ pc = "page")
    /\ UNCHANGED <<settings, published, labels, stored, cache, crawl, readers, late, torn,
                   fresh, due>>

Relabel(e) ==
    /\ source = "OCSC"
    /\ labels[e] < MaxLabels
    /\ labels' = [labels EXCEPT ![e] = @ + 1]
    /\ UNCHANGED <<settings, listed, published, stored, cache, crawl, readers, late, torn,
                   sweep>>

---------------------------------------------------------------------------
(* The crawl: taxonomies first.                                            *)

\* A request that failed has been tried as often as it will be.
Exhausted == attempt = MaxAttempts

Goto(p, n) == pc' = p /\ step' = n /\ attempt' = 1

\* The run is FAILED, or its process is gone.
Abandon ==
    /\ Goto("idle", 1)
    /\ entries' = {}
    /\ fresh' = {} /\ shrunk' = FALSE /\ due' = {}

Start ==
    /\ pc = "idle"
    /\ IF source = "OCSC" THEN Goto("sync", 1) ELSE Goto("forget", 1)
    /\ UNCHANGED <<settings, portal, stored, cache, entries, readers, late, torn, sweep>>

NextEndpoint == IF step < Endpoints THEN Goto("sync", step + 1) ELSE Goto("forget", 1)

\* An endpoint answered, and its labels are upserted.  A reader may hold the old ones.
Upsert ==
    LET table == [stored EXCEPT ![step] = labels[step]] IN
    /\ pc = "sync"
    /\ stored' = table
    /\ behind' = IF table = stored THEN behind
                 ELSE behind \cup {r \in Reader : rpc[r] = "write"}
    /\ NextEndpoint
    /\ UNCHANGED <<settings, portal, cache, entries, rpc, held, late, torn, sweep>>

\* Rows that are not an array, or none: the endpoint is passed over.
PassOver ==
    /\ pc = "sync"
    /\ NextEndpoint
    /\ UNCHANGED <<settings, portal, stored, cache, entries, readers, late, torn, sweep>>

\* Mutant: an attempt too many.
TryOnceMore ==
    /\ pc \in {"sync", "page"}
    /\ attempt <= MaxAttempts
    /\ attempt' = attempt + 1
    /\ UNCHANGED <<settings, portal, stored, cache, pc, step, entries, readers, late, torn,
                   sweep>>

\* A request failed: it is tried again, up to MaxAttempts times.
TryAgain ==
    /\ pc \in {"sync", "page"}
    /\ ~Exhausted
    /\ attempt' = attempt + 1
    /\ UNCHANGED <<settings, portal, stored, cache, pc, step, entries, readers, late, torn,
                   sweep>>

\* The last attempt failed, or an upsert did: the run fails where it is, and the cached
\* copy is not dropped.
SyncFails ==
    /\ pc = "sync"
    /\ torn' = TRUE
    /\ Abandon
    /\ UNCHANGED <<settings, portal, stored, cache, readers, late>>

\* Mutant: only the copy in the process's memory is dropped.
ForgetInMemory ==
    /\ pc = "forget"
    /\ cache' = IF InMemory THEN None ELSE cache
    /\ late' = FALSE
    /\ torn' = FALSE
    /\ Goto("page", 1)
    /\ UNCHANGED <<settings, portal, stored, entries, readers, sweep>>

\* invalidate.
Forget ==
    /\ pc = "forget"
    /\ cache' = None
    /\ late' = FALSE
    /\ torn' = FALSE
    /\ Goto("page", 1)
    /\ UNCHANGED <<settings, portal, stored, entries, readers, sweep>>

\* The delete failed, which forget logs and ignores.
ForgetFails ==
    /\ pc = "forget"
    /\ ~InMemory
    /\ torn' = TRUE
    /\ Goto("page", 1)
    /\ UNCHANGED <<settings, portal, stored, cache, entries, readers, late, sweep>>

---------------------------------------------------------------------------
(* The crawl: the listing.                                                 *)

Pages == IF source = "OCSC" THEN 1 ELSE ListingPages

\* The page an announcement is on; OCSC's one list has everything.
PageOf(x) ==
    IF source = "OCSC" THEN 1
    ELSE Cardinality({y \in listed : y > x}) \div PageSize + 1

OnPages(P) == {x \in listed : PageOf(x) \in P}

\* The sweep is over.  `due` is what the pages `swept` hold now, but for what was
\* published since it began.
SweepEnds(found, swept) ==
    /\ entries' = found
    /\ due' = OnPages(1 .. swept) \ fresh
    /\ Goto("read", 1)
    /\ UNCHANGED <<fresh, shrunk>>

\* Mutant: a page that has nothing new ends the sweep.
ReadPageUntilSeen ==
    LET found == entries \cup OnPages({step}) IN
    /\ pc = "page"
    /\ OnPages({step}) # {}
    /\ IF step < Pages /\ found # entries
       THEN Goto("page", step + 1) /\ entries' = found /\ UNCHANGED sweep
       ELSE SweepEnds(found, Pages)
    /\ UNCHANGED <<settings, portal, stored, cache, readers, late, torn>>

\* The announcements of a page join those collected; the first sighting wins.
ReadPage ==
    LET found == entries \cup OnPages({step}) IN
    /\ pc = "page"
    /\ OnPages({step}) # {}
    /\ IF step < Pages
       THEN Goto("page", step + 1) /\ entries' = found /\ UNCHANGED sweep
       ELSE SweepEnds(found, Pages)
    /\ UNCHANGED <<settings, portal, stored, cache, readers, late, torn>>

\* An empty page past the first is the end of the archive.
EndOfArchive ==
    /\ pc = "page"
    /\ step > 1
    /\ OnPages({step}) = {}
    /\ SweepEnds(entries, Pages)
    /\ UNCHANGED <<settings, portal, stored, cache, readers, late, torn>>

\* A page past the first failed MaxAttempts times: what the pages before it had is kept.
CutShort ==
    /\ pc = "page"
    /\ step > 1
    /\ Exhausted
    /\ SweepEnds(entries, step - 1)
    /\ UNCHANGED <<settings, portal, stored, cache, readers, late, torn>>

\* The first page failed MaxAttempts times, or had nothing on it.
ListingFails ==
    /\ pc = "page"
    /\ step = 1
    /\ Exhausted \/ OnPages({1}) = {}
    /\ Abandon
    /\ UNCHANGED <<settings, portal, stored, cache, readers, late, torn>>

\* Every entry becomes a job or a rejection, and crawl() returns.
Leave ==
    /\ pc = "read"
    /\ Abandon
    /\ UNCHANGED <<settings, portal, stored, cache, readers, late, torn>>

---------------------------------------------------------------------------
(* Readers: CacheService.remember around ReferenceService.load.            *)

\* Nothing under the key, or a cache that does not answer.
Miss(r) ==
    /\ rpc[r] = "idle"
    /\ cache = None \/ ~InMemory
    /\ rpc' = [rpc EXCEPT ![r] = "load"]
    /\ UNCHANGED <<settings, portal, stored, cache, crawl, held, behind, late, torn, sweep>>

Load(r) ==
    /\ rpc[r] = "load"
    /\ rpc' = [rpc EXCEPT ![r] = "write"]
    /\ held' = [held EXCEPT ![r] = stored]
    /\ UNCHANGED <<settings, portal, stored, cache, crawl, behind, late, torn, sweep>>

Return(r) ==
    /\ rpc' = [rpc EXCEPT ![r] = "idle"]
    /\ held' = [held EXCEPT ![r] = None]
    /\ behind' = behind \ {r}

Write(r) ==
    /\ rpc[r] = "write"
    /\ cache' = held[r]
    /\ late' = (r \in behind)
    /\ Return(r)
    /\ UNCHANGED <<settings, portal, stored, crawl, torn, sweep>>

\* The load failed, which fails the request, or the write did, which does not.
ReadFails(r) ==
    /\ rpc[r] # "idle"
    /\ Return(r)
    /\ UNCHANGED <<settings, portal, stored, cache, crawl, late, torn, sweep>>

\* The copy is an hour old.
Expire ==
    /\ cache # None
    /\ cache' = None
    /\ late' = FALSE
    /\ UNCHANGED <<settings, portal, stored, crawl, readers, torn, sweep>>

\* The process dies, and a cache in its memory with it.
Crash ==
    /\ cache' = IF InMemory THEN None ELSE cache
    /\ late' = (late /\ ~InMemory)
    /\ torn' = (torn \/ pc \in {"sync", "forget"})
    /\ Abandon
    /\ rpc' = [r \in Reader |-> "idle"]
    /\ held' = [r \in Reader |-> None]
    /\ behind' = {}
    /\ UNCHANGED <<settings, portal, stored>>

Portal == Publish \/ (\E x \in Id : Withdraw(x)) \/ (\E e \in Endpoint : Relabel(e))

Sync == Start \/ Upsert \/ PassOver \/ TryAgain \/ SyncFails \/ Forget \/ ForgetFails

Sweep == ReadPage \/ EndOfArchive \/ CutShort \/ ListingFails \/ Leave

Next ==
    \/ Portal
    \/ Sync
    \/ Sweep
    \/ \E r \in Reader : Miss(r) \/ Load(r) \/ Write(r) \/ ReadFails(r)
    \/ Expire
    \/ Crash

Spec == Init /\ [][Next]_vars

---------------------------------------------------------------------------

\* "The crawler drops the entry when it syncs the taxonomies": a cached copy that differs
\* from the table is one that a sync in progress is about to drop, that a failed run or a
\* failed delete left behind, or that a reader had loaded before the sync and wrote after.
StaleOnlyIfOvertaken ==
    cache # None /\ cache # stored => late \/ torn \/ pc \in {"sync", "forget"}

\* A sweep collects everything that its pages hold when it ends and that was listed when
\* it began, however far new announcements have pushed the others down meanwhile, unless
\* one was withdrawn, which pulls the others up past a page already read.
SweepMissesNothing ==
    pc = "read" => shrunk \/ due \subseteq entries

=============================================================================
