---------------------------- MODULE CrawlerRuns ----------------------------
(***************************************************************************)
(* The run slot of a source: CrawlerService.run and runAll, and the        *)
(* crawler_run table whose partial unique index admits one RUNNING row per *)
(* source.  A call claims the slot, crawls for as long as it takes, and    *)
(* records how it ended; a later call releases a row left RUNNING for more *)
(* than StaleAfter.  Nothing tells a released crawl that it was released.  *)
(*                                                                         *)
(* Time is the age of each RUNNING row, saturating just above StaleAfter,  *)
(* and the id of an ended row that no live call refers to stands for a     *)
(* fresh id, so neither the clock nor the number of crawls is bounded.     *)
(***************************************************************************)
EXTENDS Naturals, FiniteSets

CONSTANTS
    Source,      \* the members of JobSource
    Registered,  \* the sources the registry has a crawler for
    Caller,      \* concurrent calls of run / runAll: HTTP requests, cron ticks
    Cron,        \* the one among them that is the scheduler's
    RunId,       \* ids of crawler_run rows
    None,        \* no row, no source
    StaleAfter   \* STALE_RUN_MINUTES, in clock ticks

ASSUME RegisteredAssumption == Registered \subseteq Source
ASSUME CronAssumption == Cron \in Caller
ASSUME NoneAssumption == None \notin RunId \cup Source
ASSUME StaleAfterAssumption == StaleAfter \in Nat

VARIABLES
    status,    \* crawler_run.status, "NONE" where there is no such row
    source,    \* crawler_run.source
    age,       \* ticks since crawler_run.started_at, while RUNNING
    pc,        \* where each call is
    todo,      \* the sources its loop has still to run
    at,        \* the source it is running
    run        \* the row it claimed

rows == <<status, source, age>>
vars == <<rows, pc, todo, at, run>>

Status == {"NONE", "RUNNING", "SUCCESS", "FAILED"}
Age == 0 .. StaleAfter + 1

\* The control points of run(): between calls, before releaseStaleRuns, before
\* startRun, inside the try block, before the SUCCESS update, before the FAILED one.
Place == {"idle", "next", "release", "claim", "crawl", "succeed", "fail"}

TypeOK ==
    /\ status \in [RunId -> Status]
    /\ source \in [RunId -> Source \cup {None}]
    /\ age \in [RunId -> Age]
    /\ pc \in [Caller -> Place]
    /\ todo \in [Caller -> SUBSET Source]
    /\ at \in [Caller -> Source \cup {None}]
    /\ run \in [Caller -> RunId \cup {None}]

Init ==
    /\ status = [r \in RunId |-> "NONE"]
    /\ source = [r \in RunId |-> None]
    /\ age = [r \in RunId |-> 0]
    /\ pc = [c \in Caller |-> "idle"]
    /\ todo = [c \in Caller |-> {}]
    /\ at = [c \in Caller |-> None]
    /\ run = [c \in Caller |-> None]

---------------------------------------------------------------------------

\* The call is inside the try block of run(), or about to record how it ended.
Crawling(c) == pc[c] \in {"crawl", "succeed", "fail"}

\* An id the next insert may use.
Unused(r) ==
    /\ status[r] # "RUNNING"
    /\ \A c \in Caller : run[c] # r

\* Mutant: startedAt <= now - STALE_RUN_MINUTES.
IsStaleAtLimit(r) == age[r] >= StaleAfter

\* startedAt < now - STALE_RUN_MINUTES
IsStale(r) == age[r] > StaleAfter

\* Mutant: the slot is looked up among the calls in memory, not in the table.
SlotTakenInMemory(s) == \E c \in Caller : Crawling(c) /\ at[c] = s

\* What uq_crawler_run_active refuses to insert beside.
SlotTaken(s) == \E r \in RunId : source[r] = s /\ status[r] = "RUNNING"

---------------------------------------------------------------------------

\* runAll(trigger), or run(source, trigger) through a controller: the loop over
\* one source.  An unregistered source is refused by registry.get with no row.
Call(c, S) ==
    /\ pc[c] = "idle"
    /\ pc' = [pc EXCEPT ![c] = "next"]
    /\ todo' = [todo EXCEPT ![c] = S]
    /\ UNCHANGED <<rows, at, run>>

\* The next turn of the loop: registry.get(source) finds its crawler.
Begin(c, s) ==
    /\ pc[c] = "next"
    /\ s \in todo[c]
    /\ s \in Registered
    /\ todo' = [todo EXCEPT ![c] = @ \ {s}]
    /\ at' = [at EXCEPT ![c] = s]
    /\ pc' = [pc EXCEPT ![c] = "release"]
    /\ UNCHANGED <<rows, run>>

\* registry.get throws NotFoundException, before anything is written.
NotRegistered(c, s) ==
    /\ pc[c] = "next"
    /\ s \in todo[c]
    /\ s \notin Registered
    /\ todo' = [todo EXCEPT ![c] = @ \ {s}]
    /\ UNCHANGED <<rows, pc, at, run>>

\* The locals of a call go with it.
Leave(c) ==
    /\ pc' = [pc EXCEPT ![c] = "idle"]
    /\ todo' = [todo EXCEPT ![c] = {}]
    /\ at' = [at EXCEPT ![c] = None]
    /\ run' = [run EXCEPT ![c] = None]
    /\ UNCHANGED rows

\* The summary is returned.
Return(c) ==
    /\ pc[c] = "next"
    /\ todo[c] = {}
    /\ Leave(c)

\* Mutant: run() goes straight to startRun.
NoRelease(c) ==
    /\ pc[c] = "release"
    /\ pc' = [pc EXCEPT ![c] = "claim"]
    /\ UNCHANGED <<rows, todo, at, run>>

\* releaseStaleRuns: one UPDATE over the rows of the source.
ReleaseStaleRuns(c) ==
    /\ pc[c] = "release"
    /\ status' = [r \in RunId |->
                    IF source[r] = at[c] /\ status[r] = "RUNNING" /\ IsStale(r)
                    THEN "FAILED" ELSE status[r]]
    /\ pc' = [pc EXCEPT ![c] = "claim"]
    /\ UNCHANGED <<source, age, todo, at, run>>

\* startRun: the insert succeeds.
StartRun(c, r) ==
    /\ pc[c] = "claim"
    /\ ~SlotTaken(at[c])
    /\ Unused(r)
    /\ status' = [status EXCEPT ![r] = "RUNNING"]
    /\ source' = [source EXCEPT ![r] = at[c]]
    /\ age' = [age EXCEPT ![r] = 0]
    /\ run' = [run EXCEPT ![c] = r]
    /\ pc' = [pc EXCEPT ![c] = "crawl"]
    /\ UNCHANGED <<todo, at>>

\* run() returns or throws, and the loop of runAll goes on either way.
NextSource(c) ==
    /\ pc' = [pc EXCEPT ![c] = "next"]
    /\ at' = [at EXCEPT ![c] = None]
    /\ run' = [run EXCEPT ![c] = None]
    /\ UNCHANGED todo

\* startRun: unique violation, turned into a ConflictException.
Conflict(c) ==
    /\ pc[c] = "claim"
    /\ SlotTaken(at[c])
    /\ NextSource(c)
    /\ UNCHANGED rows

\* The database refuses the UPDATE of releaseStaleRuns, the INSERT of startRun,
\* or the UPDATE in the catch block: run() rejects.  In the last case the row
\* is left RUNNING with nobody behind it.
DatabaseError(c) ==
    /\ pc[c] \in {"release", "claim", "fail"}
    /\ NextSource(c)
    /\ UNCHANGED rows

\* Mutant: the counters are written by saving the entity loaded at the start.
CrawlEndsBySave(c) ==
    /\ pc[c] = "crawl"
    /\ pc' = [pc EXCEPT ![c] = "succeed"]
    /\ status' = [status EXCEPT ![run[c]] = "RUNNING"]
    /\ UNCHANGED <<source, age, todo, at, run>>

\* The try block up to the SUCCESS update: syncReference, crawl, persist, enqueue.
CrawlEnds(c) ==
    /\ pc[c] = "crawl"
    /\ pc' = [pc EXCEPT ![c] = "succeed"]
    /\ UNCHANGED <<rows, todo, at, run>>

\* Something in the try block throws, the SUCCESS update included.
CrawlThrows(c) ==
    /\ pc[c] \in {"crawl", "succeed"}
    /\ pc' = [pc EXCEPT ![c] = "fail"]
    /\ UNCHANGED <<rows, todo, at, run>>

\* The final update goes by id alone, whatever has happened to the row meanwhile.
Record(c, outcome) ==
    /\ status' = [status EXCEPT ![run[c]] = outcome]
    /\ NextSource(c)
    /\ UNCHANGED <<source, age>>

\* Mutant: the status of another table's enum.
RecordCompleted(c) ==
    /\ pc[c] = "succeed"
    /\ Record(c, "COMPLETED")

RecordSuccess(c) ==
    /\ pc[c] = "succeed"
    /\ Record(c, "SUCCESS")

RecordFailure(c) ==
    /\ pc[c] = "fail"
    /\ Record(c, "FAILED")

\* The process dies: the row it claimed stays as it is.
Crash(c) ==
    /\ pc[c] # "idle"
    /\ Leave(c)

\* A minute passes for every RUNNING row.
Tick ==
    /\ age' = [r \in RunId |->
                IF status[r] = "RUNNING" /\ age[r] <= StaleAfter
                THEN age[r] + 1 ELSE age[r]]
    /\ UNCHANGED <<status, source, pc, todo, at, run>>

Step(c) ==
    \/ Call(c, Registered)
    \/ \E s \in Source : Call(c, {s})
    \/ \E s \in Source : Begin(c, s)
    \/ \E s \in Source : NotRegistered(c, s)
    \/ Return(c)
    \/ ReleaseStaleRuns(c)
    \/ \E r \in RunId : StartRun(c, r)
    \/ Conflict(c)
    \/ DatabaseError(c)
    \/ CrawlEnds(c)
    \/ CrawlThrows(c)
    \/ RecordSuccess(c)
    \/ RecordFailure(c)
    \/ Crash(c)

Next == Tick \/ \E c \in Caller : Step(c)

Spec == Init /\ [][Next]_vars

\* The cron calls runAll for ever, whatever other requests come between, requests
\* to a source time out so that a crawl ends, and the clock runs.  A process that
\* dies, or finds the database down, every single time it comes to a source is
\* not a schedule the code defends against: the steps from the cron's call to
\* the release are strongly fair.  Nothing is assumed of the other callers.
Progress(c) ==
    \/ \E s \in Source : NotRegistered(c, s)
    \/ Return(c)
    \/ Conflict(c)
    \/ \E r \in RunId : StartRun(c, r)
    \/ CrawlEnds(c)
    \/ RecordSuccess(c)
    \/ RecordFailure(c)

Fairness ==
    /\ WF_vars(Tick)
    /\ SF_vars(Call(Cron, Registered))
    /\ \A s \in Registered :
        /\ SF_vars(Begin(Cron, s))
        /\ SF_vars(at[Cron] = s /\ ReleaseStaleRuns(Cron))
    /\ WF_vars(Progress(Cron))

FairSpec == Spec /\ Fairness

---------------------------------------------------------------------------

\* uq_crawler_run_active: no source has two RUNNING rows (README, "enforced by a
\* partial unique index").
OneActivePerSource ==
    \A r1, r2 \in RunId :
        /\ status[r1] = "RUNNING"
        /\ status[r2] = "RUNNING"
        /\ source[r1] = source[r2]
        => r1 = r2

\* Two crawls of one source are in progress together only if one of them has
\* outlived STALE_RUN_MINUTES: the slot is mutual exclusion up to that limit and
\* neither a crash, a database error nor a racing release breaks it earlier.
OverlapOnlyPastLimit ==
    \A c1, c2 \in Caller :
        /\ c1 # c2
        /\ Crawling(c1)
        /\ Crawling(c2)
        /\ at[c1] = at[c2]
        => age[run[c1]] > StaleAfter \/ age[run[c2]] > StaleAfter

\* A row that has ended is not made RUNNING again by the crawl it belongs to, even
\* when that crawl outlived its release and records its own end afterwards.
EndedStaysEnded ==
    [][\A c \in Caller, r \in RunId :
        (run[c] = r /\ status[r] # "RUNNING") => status'[r] # "RUNNING"]_vars

\* A slot nobody is behind any more (the process died, or could not record the
\* end of its crawl) is eventually released, so a crash cannot block every
\* future crawl of the source.
Orphaned(s) ==
    \E r \in RunId :
        /\ status[r] = "RUNNING"
        /\ source[r] = s
        /\ \A c \in Caller : run[c] # r

OrphanIsReleased == \A s \in Registered : Orphaned(s) ~> ~Orphaned(s)

\* README: "One run per source at a time".  The released crawl is still running,
\* so this does not hold of the crawls, only of the rows.
OneCrawlPerSource ==
    \A c1, c2 \in Caller :
        (Crawling(c1) /\ Crawling(c2) /\ at[c1] = at[c2]) => c1 = c2

=============================================================================
