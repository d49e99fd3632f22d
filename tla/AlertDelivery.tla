--------------------------- MODULE AlertDelivery ---------------------------
(***************************************************************************)
(* From an announcement to an email: JobMatchingProcessor with             *)
(* AlertMatchingService and NotificationDispatchService.dispatchImmediate, *)
(* the digests of dispatchDigests, and EmailNotificationProcessor, one     *)
(* database or queue call per step, over the two BullMQ queues and under   *)
(* the edits users make meanwhile.                                         *)
(*                                                                         *)
(* A piece of queued work is a matching task or an email.  The id of an    *)
(* immediate email is the match it carries: immediateEmailJobId hashes the *)
(* set of matches of one dispatch, and a task dispatches the matches of    *)
(* one announcement, so for each alert that set is one match.  The id of a *)
(* digest is its alert, frequency and period.                              *)
(*                                                                         *)
(* Left out: what an email says, email_log, and alert.lastSentAt, which    *)
(* nothing reads back to decide anything.                                  *)
(***************************************************************************)
EXTENDS Naturals, FiniteSets

CONSTANTS
    Alert, Job,
    Criteria,       \* the alerts and announcements that satisfy each other
    Task,           \* ids of the matching queue
    JobOf,          \* the announcement of a task
    FromCrawl,      \* tasks with a crawlerRunId; the others follow a document
    Frequency,      \* frequencies users choose from
    Attempts,       \* DEFAULT_JOB_OPTIONS.attempts
    MaxStalled,     \* BullMQ's maxStalledCount
    Keep,           \* DEFAULT_JOB_OPTIONS.removeOnComplete.count
    TaskSlots,      \* concurrency of the matching worker
    EmailSlots,     \* concurrency of the email worker
    Days,           \* bound: days before the day counter wraps
    Week,           \* days in a week
    MaxFaults,      \* bound on failures and deaths
    MaxEdits        \* bound on edits of alerts that are not paused

Match == Alert \X Job
Period == 0 .. Days - 1
DigestId == Alert \X (Frequency \ {"IMMEDIATE"}) \X Period
EmailId == Match \cup DigestId
Work == Task \cup EmailId

ASSUME FiniteAssumption == IsFiniteSet(Alert) /\ IsFiniteSet(Job)
ASSUME CriteriaAssumption == Criteria \subseteq Match
ASSUME TaskAssumption == JobOf \in [Task -> Job] /\ FromCrawl \subseteq Task
ASSUME IdAssumption == Task \cap EmailId = {} /\ Match \cap DigestId = {}
ASSUME FrequencyAssumption == Frequency \subseteq {"IMMEDIATE", "DAILY", "WEEKLY"}
ASSUME BoundAssumption ==
    /\ Attempts \in Nat \ {0}
    /\ MaxStalled \in Nat
    /\ Keep \in Nat
    /\ Days \in Nat \ {0}
    /\ Week \in Nat \ {0}
    /\ MaxFaults \in Nat
    /\ MaxEdits \in Nat

VARIABLES
    life,         \* whether an alert is there, and is_active
    freq,         \* alert.frequency
    below,        \* announcements with firstSeenAt below alert.matchFrom
    discovered,   \* announcements stored
    match,        \* job_alert_match: "gone" once deleted with its alert
    alertMatches, \* crawler_run.alertMatches
    work,         \* the queues' record of each id
    step,         \* the call a worker is at
    held,         \* the matches it holds there
    body,         \* matchIds of a queued email
    digest,       \* the digests dispatchDigests is about to add
    day,
    old,          \* ids completed before today, whose retention may be over
    sent,         \* history: accepted emails that carried a match
    offered,      \* history: emails queued that carry a match
    digested,     \* history: digests queued under an id in its period
    lost,         \* history: emails accepted whose matches were then not marked
    edited,       \* history: alerts edited
    faults,
    edits

alerts == <<life, freq, below, discovered>>
queue == <<work, step, held, body>>
history == <<sent, offered, digested, lost>>
bounds == <<edited, faults, edits>>
vars == <<alerts, match, alertMatches, queue, digest, day, old, history, bounds>>

WorkState == {"absent", "waiting", "active", "completed", "failed"}
WorkRecord == [st : WorkState, fails : 0 .. Attempts, stalls : 0 .. MaxStalled + 1]
StepName == {"idle", "insert", "count", "pick", "add", "read", "send", "mark", "return"}

TypeOK ==
    /\ life \in [Alert -> {"absent", "active", "paused", "deleted"}]
    /\ freq \in [Alert -> Frequency]
    /\ below \in [Alert -> SUBSET Job]
    /\ discovered \in SUBSET Job
    /\ match \in [Match -> {"none", "pending", "notified", "gone"}]
    /\ alertMatches \in Nat
    /\ work \in [Work -> WorkRecord]
    /\ step \in [Work -> StepName]
    /\ held \in [Work -> SUBSET Match]
    /\ body \in [EmailId -> SUBSET Match]
    /\ digest \in SUBSET [id : DigestId, body : SUBSET Match]
    /\ day \in Period
    /\ old \in SUBSET Work
    /\ sent \in [Match -> Nat]
    /\ offered \in [Match -> Nat]
    /\ digested \in [DigestId -> Nat]
    /\ lost \in Nat
    /\ edited \in SUBSET Alert
    /\ faults \in 0 .. MaxFaults
    /\ edits \in 0 .. MaxEdits

Absent == [st |-> "absent", fails |-> 0, stalls |-> 0]
Waiting == [st |-> "waiting", fails |-> 0, stalls |-> 0]
Finished == [st |-> "completed", fails |-> 0, stalls |-> 0]

Init ==
    /\ life = [a \in Alert |-> "absent"]
    /\ freq \in [Alert -> Frequency]
    /\ below = [a \in Alert |-> {}]
    /\ discovered = {}
    /\ match = [m \in Match |-> "none"]
    /\ alertMatches = 0
    /\ work = [w \in Work |-> Absent]
    /\ step = [w \in Work |-> "idle"]
    /\ held = [w \in Work |-> {}]
    /\ body = [e \in EmailId |-> {}]
    /\ digest = {}
    /\ day = 0
    /\ old = {}
    /\ sent = [m \in Match |-> 0]
    /\ offered = [m \in Match |-> 0]
    /\ digested = [e \in DigestId |-> 0]
    /\ lost = 0
    /\ edited = {}
    /\ faults = 0
    /\ edits = 0

Active(a) == life[a] = "active"
PendingIn(S) == {m \in S : match[m] = "pending"}

---------------------------------------------------------------------------
(* Users and announcements.                                                *)

\* A new alert matches only what is discovered from now on.
Create(a) ==
    /\ life[a] = "absent"
    /\ life' = [life EXCEPT ![a] = "active"]
    /\ below' = [below EXCEPT ![a] = discovered]
    /\ UNCHANGED <<freq, discovered, match, alertMatches, queue, digest, day, old,
                   history, bounds>>

\* What a paused alert goes through is bounded by the pauses.
Edit(a) ==
    /\ \/ life[a] = "paused" /\ UNCHANGED edits
       \/ life[a] # "paused" /\ edits < MaxEdits /\ edits' = edits + 1
    /\ edited' = edited \cup {a}
    /\ UNCHANGED <<discovered, alertMatches, queue, digest, day, old, history, faults>>

\* pause, unsubscribe, or PATCH isActive: false.
Pause(a) ==
    /\ life[a] = "active"
    /\ life' = [life EXCEPT ![a] = "paused"]
    /\ Edit(a)
    /\ UNCHANGED <<freq, below, match>>

\* resume moves the floor, of an active alert too.
Resume(a) ==
    /\ life[a] \in {"active", "paused"}
    /\ life' = [life EXCEPT ![a] = "active"]
    /\ below' = [below EXCEPT ![a] = discovered]
    /\ Edit(a)
    /\ UNCHANGED <<freq, match>>

\* PATCH isActive: true does not.
Reactivate(a) ==
    /\ life[a] = "paused"
    /\ life' = [life EXCEPT ![a] = "active"]
    /\ Edit(a)
    /\ UNCHANGED <<freq, below, match>>

\* PATCH frequency.
SetFrequency(a, f) ==
    /\ life[a] \in {"active", "paused"}
    /\ freq[a] # f
    /\ freq' = [freq EXCEPT ![a] = f]
    /\ Edit(a)
    /\ UNCHANGED <<life, below, match>>

\* Mutant: the foreign key of a match is SET NULL instead of CASCADE.
RemoveSetNull(a) ==
    /\ life[a] \in {"active", "paused"}
    /\ life' = [life EXCEPT ![a] = "deleted"]
    /\ match' = [m \in Match |-> IF m[1] = a /\ match[m] # "none" THEN "orphan"
                                 ELSE match[m]]
    /\ Edit(a)
    /\ UNCHANGED <<freq, below>>

\* Deleting an alert takes its matches with it.
Remove(a) ==
    /\ life[a] \in {"active", "paused"}
    /\ life' = [life EXCEPT ![a] = "deleted"]
    /\ match' = [m \in Match |-> IF m[1] = a /\ match[m] # "none" THEN "gone"
                                 ELSE match[m]]
    /\ Edit(a)
    /\ UNCHANGED <<freq, below>>

\* A crawl stores an announcement; an alert made since the crawl's seenAt has its
\* floor above it.
Discover(j, L) ==
    /\ j \notin discovered
    /\ discovered' = discovered \cup {j}
    /\ below' = [a \in Alert |-> IF a \in L THEN below[a] \cup {j} ELSE below[a]]
    /\ UNCHANGED <<life, freq, match, alertMatches, queue, digest, day, old, history,
                   bounds>>

---------------------------------------------------------------------------
(* The queues.                                                             *)

\* add drops an id the queue still has.
Enqueue(t) ==
    /\ JobOf[t] \in discovered
    /\ work[t].st = "absent"
    /\ work' = [work EXCEPT ![t] = Waiting]
    /\ UNCHANGED <<alerts, match, alertMatches, step, held, body, digest, day, old,
                   history, bounds>>

\* A worker with a free slot takes the work and makes its first call.
Take(w, kind, slots) ==
    /\ work[w].st = "waiting"
    /\ Cardinality({v \in kind : work[v].st = "active"}) < slots

Proceed(w, s, S) ==
    /\ work' = [work EXCEPT ![w].st = "active"]
    /\ step' = [step EXCEPT ![w] = s]
    /\ held' = [held EXCEPT ![w] = S]

Clear(w) ==
    /\ step' = [step EXCEPT ![w] = "idle"]
    /\ held' = [held EXCEPT ![w] = {}]

\* process() returned.  A task that follows a document has removeOnComplete.
Complete(w) ==
    /\ work' = [work EXCEPT ![w] = IF w \in Task \ FromCrawl THEN Absent ELSE Finished]
    /\ Clear(w)

Return(w) ==
    /\ step[w] = "return"
    /\ Complete(w)
    /\ UNCHANGED <<alerts, match, alertMatches, body, digest, day, old, history, bounds>>

\* A job that failed waits for its next attempt, while it has one.
Retry(r) ==
    [st |-> IF r.fails + 1 < Attempts THEN "waiting" ELSE "failed",
     fails |-> r.fails + 1,
     stalls |-> r.stalls]

\* A stalled one goes back to the queue MaxStalled times.
Recover(r) ==
    [st |-> IF r.stalls < MaxStalled THEN "waiting" ELSE "failed",
     fails |-> r.fails,
     stalls |-> r.stalls + 1]

\* An email that was accepted is lost if its matches are not marked after it.
Lose(w) == lost' = IF step[w] = "mark" THEN lost + 1 ELSE lost

\* A call of process() throws: a database, queue or provider error.  An email that
\* the provider took and email_log could not record fails at "mark".
Fail(w) ==
    /\ work[w].st = "active"
    /\ faults < MaxFaults
    /\ work' = [work EXCEPT ![w] = Retry(@)]
    /\ Clear(w)
    /\ Lose(w)
    /\ faults' = faults + 1
    /\ UNCHANGED <<alerts, match, alertMatches, body, digest, day, old, sent, offered,
                   digested, edited, edits>>

\* The process dies, and the queue finds the work stalled.
Stall(w) ==
    /\ work[w].st = "active"
    /\ faults < MaxFaults
    /\ work' = [work EXCEPT ![w] = Recover(@)]
    /\ Clear(w)
    /\ Lose(w)
    /\ faults' = faults + 1
    /\ UNCHANGED <<alerts, match, alertMatches, body, digest, day, old, sent, offered,
                   digested, edited, edits>>

Completed(kind) == {w \in kind : work[w].st = "completed"}

Forget(w) ==
    /\ work' = [work EXCEPT ![w] = Absent]
    /\ body' = IF w \in EmailId THEN [body EXCEPT ![w] = {}] ELSE body
    /\ old' = old \ {w}
    /\ UNCHANGED <<alerts, match, alertMatches, step, held, digest, day, history, bounds>>

\* Mutant: completed emails are not retained.
EvictAtOnce(w) ==
    /\ work[w].st = "completed"
    /\ Forget(w)

\* removeOnComplete: a record goes after a day, or when there are too many.
Evict(w) ==
    /\ work[w].st = "completed"
    /\ \/ w \in old
       \/ \E kind \in {Task, EmailId} : w \in kind /\ Cardinality(Completed(kind)) > Keep
    /\ Forget(w)

PeriodOf(f, d) == IF f = "WEEKLY" THEN d \div Week ELSE d

\* Midnight, which no call of the digests straddles (bound: one takes seconds).  When
\* the day counter wraps, the ids of a new period are fresh ones.
NewDay ==
    LET tomorrow == (day + 1) % Days
        fresh == {e \in DigestId : /\ e[3] = PeriodOf(e[2], tomorrow)
                                   /\ e[2] = "WEEKLY" => tomorrow % Week = 0}
    IN
    /\ \A e \in fresh : work[e].st \notin {"waiting", "active"}
    /\ digest = {}
    /\ day' = tomorrow
    /\ work' = [w \in Work |-> IF w \in fresh THEN Absent ELSE work[w]]
    /\ body' = [e \in EmailId |-> IF e \in fresh THEN {} ELSE body[e]]
    /\ digested' = [e \in DigestId |-> IF e \in fresh THEN 0 ELSE digested[e]]
    /\ old' = Completed(Work) \ fresh
    /\ UNCHANGED <<alerts, match, alertMatches, step, held, digest, sent, offered, lost,
                   bounds>>

---------------------------------------------------------------------------
(* The matching worker.                                                    *)

\* findMatchingAlerts: active alerts, floor at or below the announcement,
\* criteria satisfied.
Satisfied(j) ==
    {m \in Criteria : m[2] = j /\ Active(m[1]) /\ j \notin below[m[1]]}

FindAlerts(t) ==
    /\ Take(t, Task, TaskSlots)
    /\ IF Satisfied(JobOf[t]) = {}
       THEN Complete(t)
       ELSE Proceed(t, "insert", Satisfied(JobOf[t]))
    /\ UNCHANGED <<alerts, match, alertMatches, body, digest, day, old, history, bounds>>

Deleted(a) == life[a] = "deleted"

\* Mutant: only a task of a crawl goes on to dispatch.
InsertedForRun(t, made) ==
    /\ IF made = {} \/ t \notin FromCrawl
       THEN Complete(t)
       ELSE Proceed(t, "count", made)
    /\ UNCHANGED <<alerts, alertMatches, body, digest, day, old, history, bounds>>

\* The insert has given the task the matches `made` to account for.
Inserted(t, made) ==
    /\ IF made = {}
       THEN Complete(t)
       ELSE Proceed(t, IF t \in FromCrawl THEN "count" ELSE "pick", made)
    /\ UNCHANGED <<alerts, alertMatches, body, digest, day, old, history, bounds>>

\* Mutant: the matches that were there already are returned as well.
InsertAll(t) ==
    /\ step[t] = "insert"
    /\ \A m \in held[t] : ~Deleted(m[1])
    /\ match' = [m \in Match |-> IF m \in held[t] /\ match[m] = "none" THEN "pending"
                                 ELSE match[m]]
    /\ Inserted(t, held[t])

\* Mutant: the conflicting rows are overwritten instead of left alone.
InsertOrUpdate(t) ==
    /\ step[t] = "insert"
    /\ \A m \in held[t] : ~Deleted(m[1])
    /\ match' = [m \in Match |-> IF m \in held[t] THEN "pending" ELSE match[m]]
    /\ Inserted(t, held[t])

\* INSERT ... ON CONFLICT DO NOTHING returns the rows it created.
InsertMatches(t) ==
    /\ step[t] = "insert"
    /\ \A m \in held[t] : ~Deleted(m[1])
    /\ match' = [m \in Match |-> IF m \in held[t] /\ match[m] = "none" THEN "pending"
                                 ELSE match[m]]
    /\ Inserted(t, {m \in held[t] : match[m] = "none"})

\* It fails as a whole if an alert it names is gone by then (foreign key).
InsertRejected(t) ==
    /\ step[t] = "insert"
    /\ \E m \in held[t] : Deleted(m[1])
    /\ work' = [work EXCEPT ![t] = Retry(@)]
    /\ Clear(t)
    /\ UNCHANGED <<alerts, match, alertMatches, body, digest, day, old, history, bounds>>

\* The run's count, before anything is queued.
CountMatches(t) ==
    /\ step[t] = "count"
    /\ alertMatches' = alertMatches + Cardinality(held[t])
    /\ Proceed(t, "pick", held[t])
    /\ UNCHANGED <<alerts, match, body, digest, day, old, history, bounds>>

\* dispatchImmediate reads the matches back and keeps those to email now.
PickImmediate(t) ==
    LET now == {m \in PendingIn(held[t]) : Active(m[1]) /\ freq[m[1]] = "IMMEDIATE"} IN
    /\ step[t] = "pick"
    /\ IF now = {} THEN Complete(t) ELSE Proceed(t, "add", now)
    /\ UNCHANGED <<alerts, match, alertMatches, body, digest, day, old, history, bounds>>

\* One email for each match, unless the queue has its id.
AddEmails(t) ==
    LET new == {m \in held[t] : work[m].st = "absent"} IN
    /\ step[t] = "add"
    /\ work' = [w \in Work |-> IF w \in new THEN Waiting ELSE work[w]]
    /\ body' = [e \in EmailId |-> IF e \in new THEN {e} ELSE body[e]]
    /\ offered' = [m \in Match |-> IF m \in new THEN offered[m] + 1 ELSE offered[m]]
    /\ step' = [step EXCEPT ![t] = "return"]
    /\ held' = [held EXCEPT ![t] = {}]
    /\ UNCHANGED <<alerts, match, alertMatches, digest, day, old, sent, digested, lost,
                   bounds>>

---------------------------------------------------------------------------
(* The digests, on a call of POST /internal/digests/run.                   *)

DigestReady(a, f) ==
    Active(a) /\ freq[a] = f /\ PendingIn({a} \X Job) # {}

\* Mutant: a match that has been queued once is not read again.
CollectUnqueued(f) ==
    LET ready == {a \in Alert : /\ DigestReady(a, f)
                                /\ \E j \in Job : offered[<<a, j>>] = 0}
    IN
    /\ digest = {}
    /\ ready # {}
    /\ digest' = {[id |-> <<a, f, PeriodOf(f, day)>>,
                   body |-> {m \in PendingIn({a} \X Job) : offered[m] = 0}] : a \in ready}
    /\ UNCHANGED <<alerts, match, alertMatches, queue, day, old, history, bounds>>

\* Everything pending is read, alert by alert.
CollectDigests(f) ==
    LET ready == {a \in Alert : DigestReady(a, f)} IN
    /\ digest = {}
    /\ ready # {}
    /\ digest' = {[id |-> <<a, f, PeriodOf(f, day)>>, body |-> PendingIn({a} \X Job)] :
                    a \in ready}
    /\ UNCHANGED <<alerts, match, alertMatches, queue, day, old, history, bounds>>

\* It is queued, unless the queue has a digest of that alert and period.
AddDigests ==
    LET new == {d \in digest : work[d.id].st = "absent"} IN
    /\ digest # {}
    /\ work' = [w \in Work |-> IF \E d \in new : d.id = w THEN Waiting ELSE work[w]]
    /\ body' = [e \in EmailId |-> IF \E d \in new : d.id = e
                                  THEN (CHOOSE d \in new : d.id = e).body ELSE body[e]]
    /\ offered' = [m \in Match |-> IF \E d \in new : m \in d.body THEN offered[m] + 1
                                   ELSE offered[m]]
    /\ digested' = [e \in DigestId |-> IF \E d \in new : d.id = e THEN digested[e] + 1
                                       ELSE digested[e]]
    /\ digest' = {}
    /\ UNCHANGED <<alerts, match, alertMatches, step, held, day, old, sent, lost, bounds>>

\* The call fails or the process dies before that.
LoseDigests ==
    /\ digest # {}
    /\ faults < MaxFaults
    /\ digest' = {}
    /\ faults' = faults + 1
    /\ UNCHANGED <<alerts, match, alertMatches, queue, day, old, history, edited, edits>>

---------------------------------------------------------------------------
(* The email worker.                                                       *)

\* A paused or deleted alert is sent nothing.
LoadAlert(e) ==
    /\ Take(e, EmailId, EmailSlots)
    /\ IF Active(e[1]) THEN Proceed(e, "read", {}) ELSE Complete(e)
    /\ UNCHANGED <<alerts, match, alertMatches, body, digest, day, old, history, bounds>>

\* Mutant: the payload is trusted.
ReadPayload(e) ==
    /\ step[e] = "read"
    /\ Proceed(e, "send", body[e])
    /\ UNCHANGED <<alerts, match, alertMatches, body, digest, day, old, history, bounds>>

\* What is still to be told, whatever the payload says.
ReadMatches(e) ==
    /\ step[e] = "read"
    /\ IF PendingIn(body[e]) = {}
       THEN Complete(e)
       ELSE Proceed(e, "send", PendingIn(body[e]))
    /\ UNCHANGED <<alerts, match, alertMatches, body, digest, day, old, history, bounds>>

\* Mutant: the provider's refusal is swallowed.
SendOrNot(e) ==
    /\ step[e] = "send"
    /\ step' = [step EXCEPT ![e] = "mark"]
    /\ sent' \in {sent, [m \in Match |-> IF m \in held[e] THEN sent[m] + 1 ELSE sent[m]]}
    /\ UNCHANGED <<alerts, match, alertMatches, work, held, body, digest, day, old,
                   offered, digested, lost, bounds>>

\* EmailService.send: the provider takes the message.
Send(e) ==
    /\ step[e] = "send"
    /\ step' = [step EXCEPT ![e] = "mark"]
    /\ sent' = [m \in Match |-> IF m \in held[e] THEN sent[m] + 1 ELSE sent[m]]
    /\ UNCHANGED <<alerts, match, alertMatches, work, held, body, digest, day, old,
                   offered, digested, lost, bounds>>

\* notifiedAt is set on the matches that were in it and are still there.  The write
\* of lastSentAt follows, at "return".
Mark(e) ==
    /\ step[e] = "mark"
    /\ match' = [m \in Match |-> IF m \in held[e] /\ match[m] = "pending" THEN "notified"
                                 ELSE match[m]]
    /\ step' = [step EXCEPT ![e] = "return"]
    /\ held' = [held EXCEPT ![e] = {}]
    /\ UNCHANGED <<alerts, alertMatches, work, body, digest, day, old, history, bounds>>

---------------------------------------------------------------------------

User(a) ==
    \/ Create(a)
    \/ Pause(a)
    \/ Resume(a)
    \/ Reactivate(a)
    \/ \E f \in Frequency : SetFrequency(a, f)
    \/ Remove(a)

TaskStep(t) ==
    \/ FindAlerts(t)
    \/ InsertMatches(t)
    \/ InsertRejected(t)
    \/ CountMatches(t)
    \/ PickImmediate(t)
    \/ AddEmails(t)
    \/ Return(t)

EmailStep(e) ==
    \/ LoadAlert(e)
    \/ ReadMatches(e)
    \/ Send(e)
    \/ Mark(e)
    \/ Return(e)

Digests == AddDigests \/ LoseDigests \/ \E f \in Frequency \ {"IMMEDIATE"} : CollectDigests(f)

Next ==
    \/ \E a \in Alert : User(a)
    \/ \E j \in Job, L \in SUBSET Alert : Discover(j, L)
    \/ \E t \in Task : Enqueue(t) \/ TaskStep(t)
    \/ \E e \in EmailId : EmailStep(e)
    \/ \E w \in Work : Fail(w) \/ Stall(w) \/ Evict(w)
    \/ Digests
    \/ NewDay

Spec == Init /\ [][Next]_vars

\* Days pass, the workers keep working and the workflow keeps calling.  A waiting
\* email gets its turn (the queue is first come, first served), and failures come
\* to an end.
FairSpec ==
    /\ Spec
    /\ SF_vars(NewDay)
    /\ WF_vars(AddDigests)
    /\ \A f \in Frequency \ {"IMMEDIATE"} : WF_vars(CollectDigests(f))
    /\ \A e \in DigestId : SF_vars(EmailStep(e))

---------------------------------------------------------------------------

\* At-least-once, from its other side: what is marked notified was in an email the
\* provider took.
NotifiedMeansSent == \A m \in Match : match[m] = "notified" => sent[m] > 0

\* The pipeline keeps the promises of MatchLedger.
Ledger == INSTANCE MatchLedger WITH delivered <- {m \in Match : sent[m] > 0}
KeepsLedger == Ledger!LedgerSpec

\* README: "a send that is idempotent except across that crash window".  A match is
\* sent once for each email queued with it, and again only where an email had been
\* accepted and its matches were not marked.
SentOncePerOffer == \A m \in Match : sent[m] <= offered[m] + lost

\* "one announcement is only ever notified once per alert": while its owner leaves an
\* immediate alert alone, no retry, second task or forgotten id queues a second email.
OfferedOnce ==
    \A m \in Match :
        (freq[m[1]] = "IMMEDIATE" /\ m[1] \notin edited) => offered[m] <= 1

\* A match is counted against its run at most once, whatever is retried.
CountedAtMostOnce ==
    alertMatches <= Cardinality({m \in Match : match[m] # "none"})

Carried(m) ==
    \/ work[m].st \in {"waiting", "active"}
    \/ \E t \in Task : m \in held[t] /\ step[t] \in {"count", "pick", "add"}

\* A pending match of an untouched immediate alert is in somebody's hands, as long as
\* nothing fails.
CarriedUntilFault ==
    \A m \in Match :
        /\ match[m] = "pending"
        /\ freq[m[1]] = "IMMEDIATE"
        /\ m[1] \notin edited
        /\ faults = 0
        => Carried(m)

\* README: "A cron that fires twice in one period still produces one digest."
OneDigestPerPeriod == \A e \in DigestId : digested[e] <= 1

Unfinished(j) == \E t \in Task : JobOf[t] = j /\ work[t].st \in {"waiting", "active"}

\* "a missed job alert is the exact failure this product exists to prevent": with fewer
\* failures than a job has attempts, an immediate match of an untouched alert is in
\* somebody's hands once the tasks of its announcement are done.
ImmediateIsCarried ==
    \A m \in Match :
        /\ match[m] = "pending"
        /\ freq[m[1]] = "IMMEDIATE"
        /\ m[1] \notin edited
        /\ faults < Attempts
        => Carried(m) \/ Unfinished(m[2])

\* A pending match of a daily alert reaches its owner, by a later digest if the first
\* one failed, unless the owner pauses, deletes or reschedules the alert.
DailyIsDelivered ==
    \A m \in Match :
        (match[m] = "pending" /\ Active(m[1]) /\ freq[m[1]] = "DAILY")
            ~> (match[m] # "pending" \/ ~Active(m[1]) \/ freq[m[1]] # "DAILY")

=============================================================================
