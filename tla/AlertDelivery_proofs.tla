------------------------ MODULE AlertDelivery_proofs ------------------------
(***************************************************************************)
(* Safety of alert delivery for any number of alerts, announcements, tasks *)
(* and days; that it implements MatchLedger, and each queue TaskQueue; and *)
(* what the operators of Digests group, name and print for every input.    *)
(*                                                                         *)
(* NotifiedMeansSent is not inductive: a match is marked by a worker that  *)
(* sent it a step earlier.  Holds adds what an email worker knows of the   *)
(* matches it holds, and Busy and Tries tie a worker's place to the        *)
(* queue's record of its work, without which not even the types survive a  *)
(* retry.  OfferInv gives a match to one task; CountInv, CarryInv and      *)
(* SendInv say what a match may still be counted in, be carried by and be  *)
(* sent with.  DayInv bounds the digests of a period by the days it has    *)
(* had, for as long as the queue keeps every email it completed.           *)
(***************************************************************************)
EXTENDS AlertDelivery, Digests, FiniteSetTheorems, WellFoundedInduction, TLAPS

QueueType ==
    /\ work \in [Work -> WorkRecord]
    /\ step \in [Work -> StepName]
    /\ held \in [Work -> SUBSET Match]

\* A worker is somewhere exactly while its work is active.
Busy == \A w \in Work : step[w] # "idle" <=> work[w].st = "active"

\* Work that will run has tries left.
Tries == \A w \in Work : work[w].st \in {"waiting", "active"} =>
            work[w].fails < Attempts /\ work[w].stalls <= MaxStalled

QueueInv == QueueType /\ Busy /\ Tries

\* What an email worker is about to send is recorded, and what it is about to mark
\* was sent.
Holds == \A e \in EmailId : \A m \in held[e] :
            /\ step[e] \in {"send", "mark"} => match[m] # "none"
            /\ step[e] = "mark" => sent[m] > 0

DeliveryInv == TypeOK /\ Busy /\ Tries /\ Holds /\ NotifiedMeansSent

---------------------------------------------------------------------------
(* The queues' records.                                                    *)

\* The three records an id starts, waits and ends with.
LEMMA RecordTypes ==
    /\ Absent \in WorkRecord
    /\ Waiting \in WorkRecord
    /\ Finished \in WorkRecord
  BY BoundAssumption DEF Absent, Waiting, Finished, WorkRecord, WorkState

\* A failed attempt with another one left goes back to the queue, and only then.
LEMMA RetryRecord ==
  ASSUME NEW r \in WorkRecord, r.fails < Attempts, r.stalls <= MaxStalled
  PROVE /\ Retry(r) \in WorkRecord
        /\ Retry(r).st \in {"waiting", "failed"}
        /\ Retry(r).st = "waiting" =>
              Retry(r).fails < Attempts /\ Retry(r).stalls <= MaxStalled
  BY BoundAssumption DEF Retry, WorkRecord, WorkState

\* So does stalled work, up to MaxStalled times.
LEMMA RecoverRecord ==
  ASSUME NEW r \in WorkRecord, r.fails < Attempts, r.stalls <= MaxStalled
  PROVE /\ Recover(r) \in WorkRecord
        /\ Recover(r).st \in {"waiting", "failed"}
        /\ Recover(r).st = "waiting" =>
              Recover(r).fails < Attempts /\ Recover(r).stalls <= MaxStalled
  BY BoundAssumption DEF Recover, WorkRecord, WorkState

\* The ids of the two queues are apart, and those of emails are ids of work.
LEMMA Ids ==
    /\ Match \subseteq EmailId /\ DigestId \subseteq EmailId
    /\ EmailId \subseteq Work /\ Task \subseteq Work
    /\ Task \cap EmailId = {}
  BY IdAssumption DEF EmailId, Work

\* Work that completes is no longer in a worker's hands.
LEMMA CompleteQueue ==
  ASSUME QueueInv, NEW w \in Work, Complete(w)
  PROVE QueueInv'
  BY RecordTypes DEF QueueInv, QueueType, Busy, Tries, Complete, Clear, Absent,
     Finished, StepName

\* A worker that goes on keeps its record but for its state.
LEMMA ProceedQueue ==
  ASSUME QueueInv, NEW w \in Work, NEW s \in StepName \ {"idle"},
         NEW S \in SUBSET Match, work[w].st \in {"waiting", "active"},
         Proceed(w, s, S)
  PROVE QueueInv'
  BY DEF QueueInv, QueueType, Busy, Tries, Proceed, StepName, WorkRecord, WorkState

\* A worker that only moves on.
LEMMA StepQueue ==
  ASSUME QueueInv, NEW w \in Work, NEW s \in StepName \ {"idle"},
         NEW S \in SUBSET Match, step[w] # "idle", work' = work,
         step' = [step EXCEPT ![w] = s], held' = [held EXCEPT ![w] = S]
  PROVE QueueInv'
  BY DEF QueueInv, QueueType, Busy, Tries

\* A worker that failed or died is idle, and its work waits only with tries left.
LEMMA AgainQueue ==
  ASSUME QueueInv, NEW w \in Work, work[w].st = "active", Clear(w),
         \/ work' = [work EXCEPT ![w] = Retry(@)]
         \/ work' = [work EXCEPT ![w] = Recover(@)]
  PROVE QueueInv'
  <1>1. /\ work[w] \in WorkRecord
        /\ work[w].fails < Attempts
        /\ work[w].stalls <= MaxStalled
    BY DEF QueueInv, QueueType, Tries
  <1>2. CASE work' = [work EXCEPT ![w] = Retry(@)]
    BY <1>1, <1>2, RetryRecord DEF QueueInv, QueueType, Busy, Tries, Clear, StepName
  <1>3. CASE work' = [work EXCEPT ![w] = Recover(@)]
    BY <1>1, <1>3, RecoverRecord DEF QueueInv, QueueType, Busy, Tries, Clear, StepName
  <1> QED
    BY <1>2, <1>3

\* Ids that nobody works on may be given a fresh record.
LEMMA RenewQueue ==
  ASSUME QueueInv, NEW N \in SUBSET Work, NEW r \in {Absent, Waiting},
         \A w \in N : work[w].st # "active",
         work' = [w \in Work |-> IF w \in N THEN r ELSE work[w]],
         step' = step, held' = held
  PROVE QueueInv'
  BY RecordTypes, BoundAssumption DEF QueueInv, QueueType, Busy, Tries, Absent, Waiting

\* The period of a day is one of the periods.
LEMMA PeriodType == ASSUME NEW f, NEW d \in Period PROVE PeriodOf(f, d) \in Period
  <1>1. Week \in Nat /\ Week > 0 /\ d \in Nat
    BY BoundAssumption DEF Period
  <1>2. d \div Week \in 0 .. d
    BY <1>1, SMT
  <1> QED
    BY <1>2, BoundAssumption DEF PeriodOf, Period


---------------------------------------------------------------------------
(* Types.                                                                  *)

\* The initial states satisfy the inductive invariant.
LEMMA InitDeliveryInv == Init => DeliveryInv
  <1> SUFFICES ASSUME Init PROVE DeliveryInv
    OBVIOUS
  <1>1. 0 \in Period /\ 0 \in 0 .. MaxFaults /\ 0 \in 0 .. MaxEdits
    BY BoundAssumption DEF Period
  <1>2. TypeOK
    BY <1>1, RecordTypes DEF Init, TypeOK, StepName
  <1>3. Busy /\ Tries
    BY BoundAssumption DEF Init, Busy, Tries, Absent
  <1>4. Holds /\ NotifiedMeansSent
    BY Ids DEF Init, Holds, NotifiedMeansSent
  <1> QED
    BY <1>2, <1>3, <1>4 DEF DeliveryInv

\* TypeOK without the queues.
TableType ==
    /\ life \in [Alert -> {"absent", "active", "paused", "deleted"}]
    /\ freq \in [Alert -> Frequency]
    /\ below \in [Alert -> SUBSET Job]
    /\ discovered \in SUBSET Job
    /\ match \in [Match -> {"none", "pending", "notified", "gone"}]
    /\ alertMatches \in Nat
    /\ body \in [EmailId -> SUBSET Match]
    /\ digest \in SUBSET [id : DigestId, body : SUBSET Match]
    /\ day \in Period
    /\ old \in SUBSET Work
    /\ sent \in [Match -> Nat]
    /\ offered \in [Match -> Nat]
    /\ digested \in [DigestId -> Nat]
    /\ lost \in Nat
    /\ edited \in SUBSET Alert
    /\ faults \in 0 .. MaxFaults
    /\ edits \in 0 .. MaxEdits

Typed == TableType /\ QueueInv

\* The two halves make up the invariant's types.
LEMMA TypedSplits == Typed <=> TypeOK /\ Busy /\ Tries
  BY DEF Typed, TableType, QueueInv, QueueType, TypeOK

\* What users do keeps the types.
LEMMA UserTyped == ASSUME Typed, NEW a \in Alert, User(a) PROVE Typed'
  <1> USE BoundAssumption DEF Typed, TableType
  <1>1. CASE Create(a)
    BY <1>1 DEF Create, queue, history, bounds, QueueInv, QueueType, Busy, Tries
  <1>2. CASE Pause(a)
    BY <1>2 DEF Pause, Edit, queue, history, QueueInv, QueueType, Busy, Tries
  <1>3. CASE Resume(a)
    BY <1>3 DEF Resume, Edit, queue, history, QueueInv, QueueType, Busy, Tries
  <1>4. CASE Reactivate(a)
    BY <1>4 DEF Reactivate, Edit, queue, history, QueueInv, QueueType, Busy, Tries
  <1>5. ASSUME NEW f \in Frequency, SetFrequency(a, f) PROVE Typed'
    BY <1>5 DEF SetFrequency, Edit, queue, history, QueueInv, QueueType, Busy, Tries
  <1>6. CASE Remove(a)
    BY <1>6 DEF Remove, Edit, queue, history, QueueInv, QueueType, Busy, Tries
  <1> QED
    BY <1>1, <1>2, <1>3, <1>4, <1>5, <1>6 DEF User

\* So does the matching worker: the one number it adds to is a finite count.
LEMMA TaskTyped == ASSUME Typed, NEW t \in Task, TaskStep(t) PROVE Typed'
  <1> USE Ids DEF Typed, TableType, alerts, history, bounds
  <1>1. /\ t \in Work /\ held[t] \in SUBSET Match
        /\ step[t] # "idle" => work[t].st = "active"
        /\ QueueInv
    BY DEF QueueInv, QueueType, Busy
  <1>2. CASE FindAlerts(t)
    <2>1. Satisfied(JobOf[t]) \in SUBSET Match
      BY CriteriaAssumption DEF Satisfied
    <2>2. QueueInv'
      BY <1>1, <1>2, <2>1, CompleteQueue, ProceedQueue DEF FindAlerts, Take, StepName
    <2> QED
      BY <1>2, <2>2 DEF FindAlerts
  <1>3. CASE InsertMatches(t)
    <2>1. QueueInv'
      BY <1>1, <1>3, CompleteQueue, ProceedQueue DEF InsertMatches, Inserted, StepName
    <2> QED
      BY <1>3, <2>1 DEF InsertMatches, Inserted
  <1>4. CASE InsertRejected(t)
    <2>1. QueueInv'
      BY <1>1, <1>4, AgainQueue DEF InsertRejected
    <2> QED
      BY <1>4, <2>1 DEF InsertRejected
  <1>5. CASE CountMatches(t)
    <2>1. QueueInv'
      BY <1>1, <1>5, ProceedQueue DEF CountMatches, StepName
    <2>2. IsFiniteSet(Match)
      BY FiniteAssumption, FS_Product DEF Match
    <2>3. Cardinality(held[t]) \in Nat
      BY <1>1, <2>2, FS_Subset, FS_CardinalityType
    <2> QED
      BY <1>5, <2>1, <2>3 DEF CountMatches
  <1>6. CASE PickImmediate(t)
    <2>1. QueueInv'
      BY <1>1, <1>6, CompleteQueue, ProceedQueue
      DEF PickImmediate, PendingIn, StepName
    <2> QED
      BY <1>6, <2>1 DEF PickImmediate
  <1>7. CASE AddEmails(t)
    <2> DEFINE new == {m \in held[t] : work[m].st = "absent"}
    <2>1. /\ new \in SUBSET Work /\ new \subseteq Match /\ t \notin new
          /\ \A w \in new : work[w].st = "absent" /\ step[w] = "idle"
      BY <1>1, <1>7 DEF AddEmails, QueueInv, QueueType, Busy, StepName
    <2>2. QueueInv'
      BY <1>1, <1>7, <2>1, RecordTypes, BoundAssumption
      DEF AddEmails, QueueInv, QueueType, Busy, Tries, Waiting, StepName
    <2> QED
      BY <1>7, <2>1, <2>2 DEF AddEmails
  <1>8. CASE Return(t)
    <2>1. QueueInv'
      BY <1>1, <1>8, CompleteQueue DEF Return
    <2> QED
      BY <1>8, <2>1 DEF Return
  <1> QED
    BY <1>2, <1>3, <1>4, <1>5, <1>6, <1>7, <1>8 DEF TaskStep

\* And the email worker.
LEMMA EmailTyped == ASSUME Typed, NEW e \in EmailId, EmailStep(e) PROVE Typed'
  <1> USE Ids DEF Typed, TableType, alerts, history, bounds
  <1>1. /\ e \in Work /\ held[e] \in SUBSET Match /\ body[e] \in SUBSET Match
        /\ step[e] # "idle" => work[e].st = "active"
        /\ QueueInv
    BY DEF QueueInv, QueueType, Busy
  <1>2. CASE LoadAlert(e)
    <2>1. QueueInv'
      BY <1>1, <1>2, CompleteQueue, ProceedQueue DEF LoadAlert, Take, StepName
    <2> QED
      BY <1>2, <2>1 DEF LoadAlert
  <1>3. CASE ReadMatches(e)
    <2>1. QueueInv'
      BY <1>1, <1>3, CompleteQueue, ProceedQueue
      DEF ReadMatches, PendingIn, StepName
    <2> QED
      BY <1>3, <2>1 DEF ReadMatches
  <1>4. CASE Send(e)
    <2>1. held' = [held EXCEPT ![e] = held[e]]
      BY <1>1, <1>4 DEF Send, QueueInv, QueueType
    <2>2. QueueInv'
      BY <1>1, <1>4, <2>1, StepQueue DEF Send, StepName
    <2> QED
      BY <1>4, <2>2 DEF Send
  <1>5. CASE Mark(e)
    <2>1. QueueInv'
      BY <1>1, <1>5, StepQueue DEF Mark, StepName
    <2> QED
      BY <1>5, <2>1 DEF Mark
  <1>6. CASE Return(e)
    <2>1. QueueInv'
      BY <1>1, <1>6, CompleteQueue DEF Return
    <2> QED
      BY <1>6, <2>1 DEF Return
  <1> QED
    BY <1>2, <1>3, <1>4, <1>5, <1>6 DEF EmailStep

\* Nor do the queues themselves break one.
LEMMA QueueTyped ==
  ASSUME Typed, NEW w \in Work, Fail(w) \/ Stall(w) \/ Evict(w)
  PROVE Typed'
  <1> USE BoundAssumption DEF Typed, TableType, alerts, history, bounds
  <1>1. CASE Fail(w)
    <2>1. QueueInv'
      BY <1>1, AgainQueue DEF Fail
    <2> QED
      BY <1>1, <2>1 DEF Fail, Lose
  <1>2. CASE Stall(w)
    <2>1. QueueInv'
      BY <1>2, AgainQueue DEF Stall
    <2> QED
      BY <1>2, <2>1 DEF Stall, Lose
  <1>3. CASE Evict(w)
    <2>1. QueueInv'
      BY <1>3, RecordTypes
      DEF Evict, Forget, QueueInv, QueueType, Busy, Tries, Absent
    <2> QED
      BY <1>3, <2>1 DEF Evict, Forget
  <1> QED
    BY <1>1, <1>2, <1>3

\* Nor the digests: an id is made of an alert, a frequency and a period.
LEMMA DigestTyped == ASSUME Typed, Digests PROVE Typed'
  <1> USE Ids DEF Typed, TableType, alerts, queue, history, bounds
  <1>1. CASE AddDigests
    <2> DEFINE new == {d \in digest : work[d.id].st = "absent"}
               N == {d.id : d \in new}
    <2>1. \A d \in new : d.id \in DigestId /\ d.body \in SUBSET Match
      OBVIOUS
    <2>2. N \in SUBSET Work /\ \A w \in N : work[w].st = "absent"
      BY <2>1
    <2>3. work' = [w \in Work |-> IF w \in N THEN Waiting ELSE work[w]]
      BY <1>1, <2>2 DEF AddDigests
    <2>4. QueueInv'
      BY <1>1, <2>2, <2>3, RenewQueue DEF AddDigests
    <2>5. body' \in [EmailId -> SUBSET Match]
      BY <1>1, <2>1 DEF AddDigests
    <2> QED
      BY <1>1, <2>4, <2>5 DEF AddDigests
  <1>2. CASE LoseDigests
    BY <1>2, BoundAssumption DEF LoseDigests, QueueInv, QueueType, Busy, Tries
  <1>3. ASSUME NEW f \in Frequency \ {"IMMEDIATE"}, CollectDigests(f) PROVE Typed'
    <2>1. PeriodOf(f, day) \in Period
      BY PeriodType
    <2>2. \A a \in Alert : <<a, f, PeriodOf(f, day)>> \in DigestId
      BY <2>1 DEF DigestId
    <2>3. \A a \in Alert : PendingIn({a} \X Job) \in SUBSET Match
      BY DEF PendingIn, Match
    <2>4. \A d \in digest' : \E a \in Alert :
            d = [id |-> <<a, f, PeriodOf(f, day)>>, body |-> PendingIn({a} \X Job)]
      BY <1>3, Zenon DEF CollectDigests
    <2>5. ASSUME NEW d \in digest' PROVE d \in [id : DigestId, body : SUBSET Match]
      <3>1. PICK a \in Alert :
              d = [id |-> <<a, f, PeriodOf(f, day)>>, body |-> PendingIn({a} \X Job)]
        BY <2>4
      <3>2. /\ <<a, f, PeriodOf(f, day)>> \in DigestId
            /\ PendingIn({a} \X Job) \in SUBSET Match
        BY <2>2, <2>3
      <3> HIDE DEF Typed, TableType
      <3> QED
        BY <3>1, <3>2
    <2> QED
      BY <1>3, <2>5 DEF CollectDigests, QueueInv, QueueType, Busy, Tries
  <1> QED
    BY <1>1, <1>2, <1>3 DEF Digests

\* Nor a new day, which touches no id that is being worked on.
LEMMA DayTyped == ASSUME Typed, NewDay PROVE Typed'
  <1> DEFINE tomorrow == (day + 1) % Days
             fresh == {e \in DigestId : /\ e[3] = PeriodOf(e[2], tomorrow)
                                        /\ e[2] = "WEEKLY" => tomorrow % Week = 0}
  <1>1. tomorrow \in Period
    <2>1. Days \in Nat /\ Days > 0 /\ day + 1 \in Nat
      BY BoundAssumption DEF Typed, TableType, Period
    <2> QED
      BY <2>1, SMT DEF Period
  <1>2. /\ \A e \in fresh : work[e].st \notin {"waiting", "active"}
        /\ day' = tomorrow
        /\ work' = [w \in Work |-> IF w \in fresh THEN Absent ELSE work[w]]
        /\ body' = [e \in EmailId |-> IF e \in fresh THEN {} ELSE body[e]]
        /\ digested' = [e \in DigestId |-> IF e \in fresh THEN 0 ELSE digested[e]]
        /\ old' = Completed(Work) \ fresh
        /\ UNCHANGED <<alerts, match, alertMatches, step, held, digest, sent, offered,
                       lost, bounds>>
    BY DEF NewDay
  <1>3. fresh \in SUBSET Work
    BY Ids
  <1> HIDE DEF fresh, tomorrow
  <1>4. QueueInv'
    BY <1>2, <1>3, RenewQueue DEF Typed
  <1> QED
    BY <1>1, <1>2, <1>4 DEF Typed, TableType, Completed, alerts, bounds

\* No step breaks a type.
LEMMA TypedStep == Typed /\ [Next]_vars => Typed'
  <1> SUFFICES ASSUME Typed, [Next]_vars PROVE Typed'
    OBVIOUS
  <1>1. ASSUME NEW j \in Job, NEW L \in SUBSET Alert, Discover(j, L) PROVE Typed'
    BY <1>1 DEF Discover, Typed, TableType, queue, history, bounds, QueueInv,
       QueueType, Busy, Tries
  <1>2. ASSUME NEW t \in Task, Enqueue(t) PROVE Typed'
    BY <1>2, Ids, RecordTypes, BoundAssumption
    DEF Enqueue, Typed, TableType, alerts, history, bounds, QueueInv, QueueType,
        Busy, Tries, Waiting
  <1>3. CASE UNCHANGED vars
    BY <1>3 DEF vars, alerts, queue, history, bounds, Typed, TableType, QueueInv,
       QueueType, Busy, Tries
  <1> QED
    BY <1>1, <1>2, <1>3, UserTyped, TaskTyped, EmailTyped, QueueTyped, DigestTyped,
       DayTyped DEF Next

---------------------------------------------------------------------------
(* What is marked was sent.                                                *)

Told == Holds /\ NotifiedMeansSent

\* Steps that leave the email workers' places, the matches and the sends alone.
LEMMA TellsNothing ==
  ASSUME Told, UNCHANGED <<match, sent>>,
         \A e \in EmailId : held'[e] = {} \/ (held'[e] = held[e] /\ step'[e] = step[e])
  PROVE Told'
  BY DEF Told, Holds, NotifiedMeansSent

\* A task works in places of its own; the matches it inserts were not there.
LEMMA TaskTold == ASSUME Typed, Told, NEW t \in Task, TaskStep(t) PROVE Told'
  <1> USE Ids DEF Typed, TableType, QueueInv, QueueType, history
  <1>1. t \notin EmailId /\ t \in Work
    OBVIOUS
  <1>2. CASE FindAlerts(t)
    BY <1>1, <1>2, TellsNothing DEF FindAlerts, Complete, Proceed, Clear
  <1>3. CASE InsertMatches(t)
    <2>1. \A e \in EmailId : held'[e] = held[e] /\ step'[e] = step[e]
      BY <1>1, <1>3 DEF InsertMatches, Inserted, Complete, Proceed, Clear
    <2>2. \A m \in Match : /\ match[m] # "none" => match'[m] = match[m]
                           /\ match'[m] # "notified" \/ match[m] = "notified"
                           /\ sent'[m] = sent[m]
      BY <1>3 DEF InsertMatches, Inserted
    <2>3. Holds'
      BY <2>1, <2>2 DEF Told, Holds
    <2> QED
      BY <2>2, <2>3 DEF Told, NotifiedMeansSent
  <1>4. CASE InsertRejected(t)
    BY <1>1, <1>4, TellsNothing DEF InsertRejected, Clear
  <1>5. CASE CountMatches(t)
    BY <1>1, <1>5, TellsNothing DEF CountMatches, Proceed
  <1>6. CASE PickImmediate(t)
    BY <1>1, <1>6, TellsNothing DEF PickImmediate, Complete, Proceed, Clear
  <1>7. CASE AddEmails(t)
    BY <1>1, <1>7, TellsNothing DEF AddEmails
  <1>8. CASE Return(t)
    BY <1>1, <1>8, TellsNothing DEF Return, Complete, Clear
  <1> QED
    BY <1>2, <1>3, <1>4, <1>5, <1>6, <1>7, <1>8 DEF TaskStep

\* An email worker marks what it sent, having sent what it read as pending.
LEMMA EmailTold == ASSUME Typed, Told, NEW e \in EmailId, EmailStep(e) PROVE Told'
  <1> USE Ids DEF Typed, TableType, QueueInv, QueueType, history
  <1>1. e \in Work /\ held[e] \in SUBSET Match
    OBVIOUS
  <1>2. CASE LoadAlert(e)
    BY <1>1, <1>2, TellsNothing DEF LoadAlert, Complete, Proceed, Clear
  <1>3. CASE ReadMatches(e)
    <2>1. CASE PendingIn(body[e]) = {}
      BY <1>1, <1>3, <2>1, TellsNothing DEF ReadMatches, Complete, Clear
    <2>2. CASE PendingIn(body[e]) # {}
      <3>1. /\ step' = [step EXCEPT ![e] = "send"]
            /\ held' = [held EXCEPT ![e] = PendingIn(body[e])]
            /\ UNCHANGED <<match, sent>>
        BY <1>3, <2>2 DEF ReadMatches, Proceed
      <3> QED
        BY <1>1, <3>1 DEF Told, Holds, NotifiedMeansSent, PendingIn
    <2> QED
      BY <2>1, <2>2
  <1>4. CASE Send(e)
    <2>1. \A m \in Match : sent'[m] >= sent[m] /\ (m \in held[e] => sent'[m] > 0)
      BY <1>4 DEF Send
    <2>2. NotifiedMeansSent'
      BY <1>4, <2>1 DEF Send, Told, NotifiedMeansSent
    <2>3. Holds'
      BY <1>1, <1>4, <2>1 DEF Send, Told, Holds
    <2> QED
      BY <2>2, <2>3 DEF Told
  <1>5. CASE Mark(e)
    <2>1. \A m \in Match : match[m] # "none" => match'[m] # "none"
      BY <1>5 DEF Mark
    <2>2. NotifiedMeansSent'
      BY <1>1, <1>5 DEF Mark, Told, Holds, NotifiedMeansSent
    <2>3. Holds'
      BY <1>1, <1>5, <2>1 DEF Mark, Told, Holds
    <2> QED
      BY <2>2, <2>3 DEF Told
  <1>6. CASE Return(e)
    BY <1>1, <1>6, TellsNothing DEF Return, Complete, Clear
  <1> QED
    BY <1>2, <1>3, <1>4, <1>5, <1>6 DEF EmailStep

\* No step marks a match that was not sent.
LEMMA ToldStep == Typed /\ Told /\ [Next]_vars => Told'
  <1> SUFFICES ASSUME Typed, Told, [Next]_vars PROVE Told'
    OBVIOUS
  <1> USE Ids
  <1>1. ASSUME NEW a \in Alert, User(a) PROVE Told'
    <2>1. /\ \A m \in Match : match'[m] = match[m] \/ (match[m] # "none" /\ match'[m] = "gone")
          /\ UNCHANGED <<step, held, sent>>
      BY <1>1 DEF User, Create, Pause, Resume, Reactivate, SetFrequency, Remove, Edit,
         queue, history, Typed, TableType
    <2> QED
      BY <2>1 DEF Told, Holds, NotifiedMeansSent, Typed, TableType, QueueInv, QueueType
  <1>2. ASSUME NEW j \in Job, NEW L \in SUBSET Alert, Discover(j, L) PROVE Told'
    BY <1>2, TellsNothing DEF Discover, queue, history
  <1>3. ASSUME NEW t \in Task, Enqueue(t) PROVE Told'
    BY <1>3, TellsNothing DEF Enqueue, history
  <1>4. ASSUME NEW w \in Work, Fail(w) \/ Stall(w) \/ Evict(w) PROVE Told'
    BY <1>4, TellsNothing
    DEF Fail, Stall, Evict, Forget, Clear, history, Typed, QueueInv, QueueType
  <1>5. CASE Digests
    BY <1>5, TellsNothing DEF Digests, AddDigests, LoseDigests, CollectDigests, queue,
       history
  <1>6. CASE NewDay
    BY <1>6, TellsNothing DEF NewDay
  <1>7. CASE UNCHANGED vars
    BY <1>7, TellsNothing DEF vars, queue, history
  <1> QED
    BY <1>1, <1>2, <1>3, <1>4, <1>5, <1>6, <1>7, TaskTold, EmailTold DEF Next

\* The inductive invariant holds of the specification.
THEOREM DeliveryInvariant == Spec => []DeliveryInv
  <1>1. DeliveryInv <=> Typed /\ Told
    BY TypedSplits DEF DeliveryInv, Told
  <1>2. DeliveryInv /\ [Next]_vars => DeliveryInv'
    <2> SUFFICES ASSUME DeliveryInv, [Next]_vars PROVE DeliveryInv'
      OBVIOUS
    <2>1. Typed' /\ Told'
      BY <1>1, TypedStep, ToldStep
    <2> QED
      BY <2>1 DEF DeliveryInv, Typed, TableType, QueueInv, QueueType, Told, TypeOK
  <1> QED
    BY <1>2, InitDeliveryInv, PTL DEF Spec

\* Every table, queue record and worker local keeps its type: a record never counts
\* more attempts than the queue gives.
THEOREM DeliveryTypeCorrect == Spec => []TypeOK
  <1>1. DeliveryInv => TypeOK
    BY DEF DeliveryInv
  <1> QED
    BY <1>1, DeliveryInvariant, PTL

\* Nothing is marked notified that no accepted email carried, through every retry,
\* death, edit and concurrent email.
THEOREM NotifiedSent == Spec => []NotifiedMeansSent
  <1>1. DeliveryInv => NotifiedMeansSent
    BY DEF DeliveryInv
  <1> QED
    BY <1>1, DeliveryInvariant, PTL

---------------------------------------------------------------------------
(* An untouched immediate match is queued once.                            *)

Untouched(m) == freq[m[1]] = "IMMEDIATE" /\ m[1] \notin edited

\* The task is to see to the email of a match it created.
Accounts(t, m) == m \in held[t] /\ step[t] \in {"count", "pick", "add"}

\* A match is created by one task, which is the only one to see to its email and has
\* not queued it before; a digest is made for other alerts.
OfferInv ==
    \A m \in Match :
        /\ \A t1, t2 \in Task : Accounts(t1, m) /\ Accounts(t2, m) => t1 = t2
        /\ \A t \in Task : Accounts(t, m) => match[m] # "none"
        /\ Untouched(m) =>
              /\ offered[m] <= 1
              /\ match[m] = "none" => offered[m] = 0
              /\ \A t \in Task : Accounts(t, m) => offered[m] = 0
              /\ \A d \in digest : m \notin d.body

\* Steps of others: nobody takes a match on, and nothing is queued or forgotten.
LEMMA OffersNothing ==
  ASSUME OfferInv, UNCHANGED <<offered, digest>>,
         \A m \in Match : Untouched(m)' => Untouched(m),
         \A m \in Match : match[m] # "none" <=> match'[m] # "none",
         \A t \in Task, m \in Match : Accounts(t, m)' => Accounts(t, m)
  PROVE OfferInv'
  BY DEF OfferInv

\* The matching worker: the insert is what makes a task the one, and the queueing
\* ends it.
LEMMA TaskOffers == ASSUME Typed, OfferInv, NEW t \in Task, TaskStep(t) PROVE OfferInv'
  <1> USE Ids DEF Typed, TableType, QueueInv, QueueType, alerts, history, bounds
  <1>1. t \in Work /\ held[t] \in SUBSET Match
    OBVIOUS
  <1>2. CASE FindAlerts(t)
    BY <1>1, <1>2, OffersNothing
    DEF FindAlerts, Complete, Proceed, Clear, Accounts, Untouched
  <1>3. CASE InsertMatches(t)
    <2>1. /\ UNCHANGED <<alerts, digest, history, bounds>>
          /\ \A m \in Match : match'[m] # "none" <=> match[m] # "none" \/ m \in held[t]
      BY <1>3 DEF InsertMatches, Inserted
    <2>2. \A m \in Match, v \in Task : Accounts(v, m)' =>
             \/ v # t /\ Accounts(v, m)
             \/ v = t /\ m \in held[t] /\ match[m] = "none"
      BY <1>1, <1>3 DEF InsertMatches, Inserted, Complete, Proceed, Clear, Accounts
    <2>3. \A m \in Match, v \in Task : Accounts(v, m) => match[m] # "none"
      BY DEF OfferInv
    <2> QED
      BY <2>1, <2>2, <2>3 DEF OfferInv, Untouched
  <1>4. CASE InsertRejected(t)
    BY <1>1, <1>4, OffersNothing DEF InsertRejected, Clear, Accounts, Untouched
  <1>5. CASE CountMatches(t)
    BY <1>1, <1>5, OffersNothing DEF CountMatches, Proceed, Accounts, Untouched
  <1>6. CASE PickImmediate(t)
    BY <1>1, <1>6, OffersNothing
    DEF PickImmediate, PendingIn, Complete, Proceed, Clear, Accounts, Untouched
  <1>7. CASE AddEmails(t)
    <2>1. /\ UNCHANGED <<alerts, match, digest, bounds>>
          /\ \A m \in Match : \/ offered'[m] = offered[m]
                              \/ offered'[m] = offered[m] + 1 /\ Accounts(t, m)
      BY <1>7 DEF AddEmails, Accounts
    <2>2. \A m \in Match, v \in Task : Accounts(v, m)' => v # t /\ Accounts(v, m)
      BY <1>1, <1>7 DEF AddEmails, Accounts
    <2> QED
      BY <2>1, <2>2 DEF OfferInv, Untouched
  <1>8. CASE Return(t)
    BY <1>1, <1>8, OffersNothing DEF Return, Complete, Clear, Accounts, Untouched
  <1> QED
    BY <1>2, <1>3, <1>4, <1>5, <1>6, <1>7, <1>8 DEF TaskStep

\* The email worker queues nothing.
LEMMA EmailOffers == ASSUME Typed, OfferInv, NEW e \in EmailId, EmailStep(e) PROVE OfferInv'
  <1> USE Ids DEF Typed, TableType, QueueInv, QueueType
  <1>1. /\ UNCHANGED <<alerts, offered, digest, bounds>>
        /\ \A v \in Task : step'[v] = step[v] /\ held'[v] = held[v]
        /\ \A m \in Match : match[m] # "none" <=> match'[m] # "none"
    BY DEF EmailStep, LoadAlert, ReadMatches, Send, Mark, Return, Complete, Proceed,
       Clear, history
  <1> QED
    BY <1>1, OffersNothing DEF Accounts, Untouched, alerts, bounds

\* A digest is collected for alerts of another frequency, so it carries no untouched
\* immediate match.
LEMMA DigestOffers == ASSUME Typed, OfferInv, Digests PROVE OfferInv'
  <1> USE DEF Accounts, Untouched, alerts, queue, history, bounds
  <1>1. CASE AddDigests
    <2>1. /\ UNCHANGED <<alerts, match, step, held, bounds>> /\ digest' = {}
          /\ \A m \in Match : Untouched(m) => offered'[m] = offered[m]
      BY <1>1 DEF AddDigests, OfferInv
    <2> QED
      BY <2>1 DEF OfferInv
  <1>2. CASE LoseDigests
    BY <1>2 DEF LoseDigests, OfferInv
  <1>3. ASSUME NEW f \in Frequency \ {"IMMEDIATE"}, CollectDigests(f) PROVE OfferInv'
    <2>1. UNCHANGED <<alerts, match, queue, history, bounds>>
      BY <1>3 DEF CollectDigests
    <2>2. ASSUME NEW m \in Match, NEW d \in digest', m \in d.body PROVE freq[m[1]] = f
      <3>1. PICK a \in {b \in Alert : DigestReady(b, f)} :
              d = [id |-> <<a, f, PeriodOf(f, day)>>, body |-> PendingIn({a} \X Job)]
        BY <1>3, Zenon DEF CollectDigests
      <3>2. m \in {a} \X Job
        BY <2>2, <3>1 DEF PendingIn
      <3> QED
        BY <3>1, <3>2 DEF DigestReady
    <2> QED
      BY <2>1, <2>2 DEF OfferInv
  <1> QED
    BY <1>1, <1>2, <1>3 DEF Digests

\* An untouched immediate match is queued at most once, whatever is retried.
LEMMA OfferStep == Typed /\ OfferInv /\ [Next]_vars => OfferInv'
  <1> SUFFICES ASSUME Typed, OfferInv, [Next]_vars PROVE OfferInv'
    OBVIOUS
  <1> USE Ids DEF Accounts, Untouched
  <1>1. ASSUME NEW a \in Alert, User(a) PROVE OfferInv'
    <2>1. /\ UNCHANGED <<offered, digest, step, held>>
          /\ \A m \in Match : match[m] # "none" <=> match'[m] # "none"
          /\ \A m \in Match : Untouched(m)' => Untouched(m)
      BY <1>1 DEF User, Create, Pause, Resume, Reactivate, SetFrequency, Remove, Edit,
         queue, history, bounds, Typed, TableType, Match
    <2> QED
      BY <2>1, OffersNothing
  <1>2. ASSUME NEW j \in Job, NEW L \in SUBSET Alert, Discover(j, L) PROVE OfferInv'
    BY <1>2, OffersNothing DEF Discover, queue, history, bounds
  <1>3. ASSUME NEW t \in Task, Enqueue(t) PROVE OfferInv'
    BY <1>3, OffersNothing DEF Enqueue, alerts, history, bounds
  <1>4. ASSUME NEW w \in Work, Fail(w) \/ Stall(w) \/ Evict(w) PROVE OfferInv'
    BY <1>4, OffersNothing
    DEF Fail, Stall, Evict, Forget, Clear, alerts, history, bounds, Typed, QueueInv,
        QueueType
  <1>5. CASE NewDay
    BY <1>5, OffersNothing DEF NewDay, alerts, bounds
  <1>6. CASE UNCHANGED vars
    BY <1>6, OffersNothing DEF vars, alerts, queue, history, bounds
  <1> QED
    BY <1>1, <1>2, <1>3, <1>4, <1>5, <1>6, TaskOffers, EmailOffers, DigestOffers
    DEF Next

\* An immediate alert its owner leaves alone hears of an announcement through one
\* email job, through every retry, second task, death and forgotten id.
THEOREM OneOffer == Spec => []OfferedOnce
  <1>1. Init => OfferInv
    BY Ids DEF Init, OfferInv, Accounts
  <1>2. DeliveryInv => Typed
    BY TypedSplits DEF DeliveryInv
  <1>3. DeliveryInv /\ OfferInv /\ [Next]_vars => OfferInv'
    BY <1>2, OfferStep
  <1>4. OfferInv => OfferedOnce
    BY DEF OfferInv, OfferedOnce, Untouched
  <1> QED
    BY <1>1, <1>3, <1>4, DeliveryInvariant, PTL DEF Spec

---------------------------------------------------------------------------
(* A match is counted once.                                                *)

\* The matches that are there or were, and those a task is about to count.
Known == {m \in Match : match[m] # "none"}
Uncounted == {m \in Match : \E t \in Task : step[t] = "count" /\ m \in held[t]}

\* What was counted and what will be are different matches, all of them known.
CountInv == alertMatches + Cardinality(Uncounted) <= Cardinality(Known)

\* Matches are finitely many.
LEMMA MatchesAreFinite ==
  ASSUME NEW S \in SUBSET Match
  PROVE IsFiniteSet(S) /\ Cardinality(S) \in Nat
  BY FiniteAssumption, FS_Product, FS_Subset, FS_CardinalityType DEF Match

\* Two sets of them, put together.
LEMMA MatchesTogether ==
  ASSUME NEW S \in SUBSET Match, NEW T \in SUBSET Match
  PROVE /\ Cardinality(S \cup T) <= Cardinality(S) + Cardinality(T)
        /\ S \cap T = {} => Cardinality(S \cup T) = Cardinality(S) + Cardinality(T)
  <1>1. /\ IsFiniteSet(S) /\ Cardinality(S) \in Nat
        /\ IsFiniteSet(T) /\ Cardinality(T) \in Nat
        /\ Cardinality(S \cap T) \in Nat
    BY MatchesAreFinite
  <1>2. Cardinality(S \cup T) = Cardinality(S) + Cardinality(T) - Cardinality(S \cap T)
    BY <1>1, FS_Union
  <1>3. S \cap T = {} => Cardinality(S \cap T) = 0
    BY FS_EmptySet
  <1> QED
    BY <1>1, <1>2, <1>3

\* A step that counts nothing and gives no task more to count.
LEMMA CountsNothing ==
  ASSUME Typed, CountInv, UNCHANGED alertMatches,
         Known \subseteq Known', Uncounted' \subseteq Uncounted
  PROVE CountInv'
  <1>1. Known' \subseteq Match /\ Uncounted \subseteq Match
    BY DEF Known, Uncounted
  <1>2. /\ Cardinality(Known) \in Nat /\ Cardinality(Known') \in Nat
        /\ Cardinality(Uncounted) \in Nat /\ Cardinality(Uncounted') \in Nat
        /\ Cardinality(Known) <= Cardinality(Known')
        /\ Cardinality(Uncounted') <= Cardinality(Uncounted)
    BY <1>1, MatchesAreFinite, FS_Subset
  <1>3. alertMatches \in Nat
    BY DEF Typed, TableType
  <1> QED
    BY <1>2, <1>3 DEF CountInv

\* A task inserts what it will count, and counts what no other task will.
LEMMA TaskCounts ==
  ASSUME Typed, OfferInv, CountInv, NEW t \in Task, TaskStep(t)
  PROVE CountInv'
  <1> USE Ids DEF Typed, TableType, QueueInv, QueueType
  <1>1. t \in Work /\ held[t] \in SUBSET Match
    OBVIOUS
  <1>2. CASE InsertMatches(t)
    <2> DEFINE made == {m \in held[t] : match[m] = "none"}
    <2>1. /\ step[t] = "insert" /\ UNCHANGED alertMatches
          /\ Known' = Known \cup made
          /\ Uncounted' \subseteq Uncounted \cup made
      <3>1. /\ step[t] = "insert" /\ UNCHANGED alertMatches
            /\ match' = [m \in Match |-> IF m \in held[t] /\ match[m] = "none" THEN "pending"
                                         ELSE match[m]]
            /\ Inserted(t, made)
        BY <1>2 DEF InsertMatches, Inserted
      <3>2. Known' = Known \cup made
        BY <1>1, <3>1 DEF Known
      <3>3. \A v \in Task : /\ v # t => step'[v] = step[v] /\ held'[v] = held[v]
                            /\ step'[t] = "count" => held'[t] = made
        BY <1>1, <3>1 DEF Inserted, Complete, Proceed, Clear
      <3> QED
        BY <3>1, <3>2, <3>3 DEF Uncounted
    <2>2. /\ Known \in SUBSET Match /\ Uncounted \in SUBSET Match /\ made \in SUBSET Match
          /\ Known \cap made = {} /\ Uncounted' \in SUBSET Match
      BY <1>1 DEF Known, Uncounted
    <2> HIDE DEF made
    <2>3. Cardinality(Known \cup made) = Cardinality(Known) + Cardinality(made)
      BY <2>2, MatchesTogether
    <2>4. Cardinality(Uncounted') <= Cardinality(Uncounted) + Cardinality(made)
      <3>1. Cardinality(Uncounted \cup made) <= Cardinality(Uncounted) + Cardinality(made)
        BY <2>2, MatchesTogether
      <3>2. Cardinality(Uncounted') <= Cardinality(Uncounted \cup made)
        <4>1. Uncounted \cup made \in SUBSET Match
          BY <2>2
        <4> QED
          BY <2>1, <4>1, MatchesAreFinite, FS_Subset
      <3>3. /\ Cardinality(Uncounted') \in Nat /\ Cardinality(Uncounted \cup made) \in Nat
            /\ Cardinality(Uncounted) \in Nat /\ Cardinality(made) \in Nat
        <4>1. Uncounted \cup made \in SUBSET Match
          BY <2>2
        <4> QED
          BY <2>2, <4>1, MatchesAreFinite
      <3> QED
        BY <3>1, <3>2, <3>3
    <2>5. /\ Cardinality(Uncounted') \in Nat /\ Cardinality(Uncounted) \in Nat
          /\ Cardinality(Known) \in Nat /\ Cardinality(made) \in Nat /\ alertMatches \in Nat
      BY <2>2, MatchesAreFinite
    <2>6. alertMatches' = alertMatches /\ Cardinality(Known') = Cardinality(Known \cup made)
      BY <2>1
    <2> QED
      BY <2>3, <2>4, <2>5, <2>6 DEF CountInv
  <1>3. CASE CountMatches(t)
    <2>1. /\ step[t] = "count"
          /\ alertMatches' = alertMatches + Cardinality(held[t])
          /\ step' = [step EXCEPT ![t] = "pick"] /\ held' = [held EXCEPT ![t] = held[t]]
          /\ Known' = Known
      BY <1>3 DEF CountMatches, Proceed, Known
    <2>2. Uncounted' = Uncounted \ held[t] /\ held[t] \subseteq Uncounted
      <3>1. \A v \in Task, m \in Match : step[v] = "count" /\ m \in held[v] /\ m \in held[t]
               => v = t
        BY <2>1 DEF OfferInv, Accounts
      <3> QED
        BY <1>1, <2>1, <3>1 DEF Uncounted
    <2>3. /\ IsFiniteSet(Uncounted) /\ Cardinality(Uncounted) \in Nat
          /\ Cardinality(held[t]) \in Nat /\ Cardinality(Known) \in Nat /\ alertMatches \in Nat
      BY <1>1, MatchesAreFinite DEF Known, Uncounted
    <2>4. Uncounted \cap held[t] = held[t]
      BY <2>2
    <2>5. Cardinality(Uncounted') = Cardinality(Uncounted) - Cardinality(held[t])
      BY <2>2, <2>3, <2>4, FS_Difference
    <2>6. Cardinality(Known') = Cardinality(Known)
      BY <2>1
    <2> QED
      BY <2>1, <2>3, <2>5, <2>6 DEF CountInv
  <1>4. CASE ~InsertMatches(t) /\ ~CountMatches(t)
    <2>1. UNCHANGED <<match, alertMatches>>
      BY <1>4 DEF TaskStep, FindAlerts, InsertRejected, PickImmediate, AddEmails, Return
    <2>2. \A v \in Task : v = t \/ (step'[v] = step[v] /\ held'[v] = held[v])
      BY <1>1, <1>4 DEF TaskStep, FindAlerts, InsertRejected, PickImmediate, AddEmails,
         Return, Complete, Proceed, Clear
    <2>3. step'[t] # "count"
      BY <1>1, <1>4 DEF TaskStep, FindAlerts, InsertRejected, PickImmediate, AddEmails,
         Return, Complete, Proceed, Clear
    <2>4. Known' = Known /\ Uncounted' \subseteq Uncounted
      BY <2>1, <2>2, <2>3 DEF Known, Uncounted
    <2> QED
      BY <2>1, <2>4, CountsNothing
  <1> QED
    BY <1>2, <1>3, <1>4

\* No step counts a match again.
LEMMA CountStep == Typed /\ OfferInv /\ CountInv /\ [Next]_vars => CountInv'
  <1> SUFFICES ASSUME Typed, OfferInv, CountInv, [Next]_vars PROVE CountInv'
    OBVIOUS
  <1> USE Ids
  <1>1. ASSUME UNCHANGED alertMatches, \A m \in Match : match[m] # "none" => match'[m] # "none",
               \A v \in Task : step'[v] = "idle" \/ (step'[v] = step[v] /\ held'[v] = held[v])
        PROVE CountInv'
    <2>1. Known \subseteq Known' /\ Uncounted' \subseteq Uncounted
      BY <1>1 DEF Known, Uncounted
    <2> QED
      BY <1>1, <2>1, CountsNothing
  <1>2. ASSUME NEW a \in Alert, User(a) PROVE CountInv'
    BY <1>1, <1>2 DEF User, Create, Pause, Resume, Reactivate, SetFrequency, Remove, Edit, queue
  <1>3. CASE \/ \E j \in Job, L \in SUBSET Alert : Discover(j, L)
             \/ \E t \in Task : Enqueue(t)
             \/ Digests \/ NewDay
    BY <1>1, <1>3 DEF Discover, Enqueue, Digests, AddDigests, LoseDigests, CollectDigests,
       NewDay, queue
  <1>4. ASSUME NEW w \in Work, Fail(w) \/ Stall(w) \/ Evict(w) PROVE CountInv'
    BY <1>1, <1>4 DEF Fail, Stall, Evict, Forget, Clear, Typed, QueueInv, QueueType
  <1>5. ASSUME NEW e \in EmailId, EmailStep(e) PROVE CountInv'
    <2>1. e \notin Task /\ e \in Work
      OBVIOUS
    <2>2. UNCHANGED alertMatches
      BY <1>5 DEF EmailStep, LoadAlert, ReadMatches, Send, Mark, Return
    <2>3. \A v \in Task : step'[v] = step[v] /\ held'[v] = held[v]
      BY <1>5, <2>1 DEF EmailStep, LoadAlert, ReadMatches, Send, Mark, Return, Complete,
         Proceed, Clear, Typed, QueueInv, QueueType
    <2>4. \A m \in Match : match[m] # "none" => match'[m] # "none"
      BY <1>5 DEF EmailStep, LoadAlert, ReadMatches, Send, Mark, Return
    <2> QED
      BY <1>1, <2>2, <2>3, <2>4
  <1>6. CASE UNCHANGED vars
    BY <1>1, <1>6 DEF vars, queue
  <1> QED
    BY <1>2, <1>3, <1>4, <1>5, <1>6, TaskCounts DEF Next

\* A match adds one to the count of its run at most, whatever is retried.
THEOREM CountedOnce == Spec => []CountedAtMostOnce
  <1>1. Init => OfferInv
    BY Ids DEF Init, OfferInv, Accounts
  <1>2. Init => CountInv
    <2> SUFFICES ASSUME Init PROVE CountInv
      OBVIOUS
    <2>1. Uncounted = {} /\ Known = {}
      BY Ids DEF Init, Uncounted, Known
    <2> QED
      BY <2>1, FS_EmptySet DEF Init, CountInv
  <1>3. DeliveryInv => Typed
    BY TypedSplits DEF DeliveryInv
  <1>4. DeliveryInv /\ OfferInv /\ CountInv /\ [Next]_vars => OfferInv' /\ CountInv'
    BY <1>3, OfferStep, CountStep
  <1>5. DeliveryInv /\ CountInv => CountedAtMostOnce
    <2> SUFFICES ASSUME Typed, CountInv PROVE CountedAtMostOnce
      BY <1>3
    <2>1. /\ Cardinality(Known) \in Nat /\ Cardinality(Uncounted) \in Nat /\ alertMatches \in Nat
      BY MatchesAreFinite DEF Known, Uncounted, Typed, TableType
    <2> QED
      BY <2>1 DEF CountInv, CountedAtMostOnce, Known
  <1> QED
    BY <1>1, <1>2, <1>4, <1>5, DeliveryInvariant, PTL DEF Spec

---------------------------------------------------------------------------
(* A pending match is in somebody's hands.                                 *)

\* An email whose id is a match carries it, from its queueing to its mark.
Queued == \A m \in Match :
    /\ work[m].st # "absent" => match[m] # "none" /\ offered[m] > 0 /\ body[m] = {m}
    /\ step[m] \in {"send", "mark"} => held[m] = {m}
    /\ step[m] = "return" => match[m] # "pending"

\* Matches are of alerts that are active, as long as nobody edits them.
Alive == \A m \in Match :
    m[1] \notin edited /\ (match[m] # "none" \/ \E t \in Task : m \in held[t]) => Active(m[1])

Carrying == faults = 0 => \A m \in Match : match[m] = "pending" /\ Untouched(m) => Carried(m)

CarryInv == Queued /\ Alive /\ Carrying

\* Steps that queue no immediate email and move none on.
LEMMA QueuesNothing ==
  ASSUME Typed, Queued,
         \A m \in Match :
            /\ work'[m].st # "absent" =>
                  work[m].st # "absent" /\ body'[m] = body[m] /\ offered'[m] >= offered[m]
            /\ match[m] # "none" => match'[m] # "none"
            /\ match'[m] = "pending" => match[m] \in {"none", "pending"}
            /\ step'[m] \in {"idle", "read"} \/ (step'[m] = step[m] /\ held'[m] = held[m]),
         offered' \in [Match -> Nat]
  PROVE Queued'
  <1> USE Ids DEF Typed, TableType, QueueInv, QueueType
  <1>1. ASSUME NEW m \in Match, step[m] # "idle" PROVE match[m] # "none"
    BY <1>1 DEF Queued, Busy
  <1> QED
    BY <1>1 DEF Queued

\* The insert makes pending what was not there, and a new email is of a match that is.
LEMMA TaskQueued ==
  ASSUME Typed, OfferInv, Queued, NEW t \in Task, TaskStep(t)
  PROVE Queued'
  <1> USE Ids DEF Typed, TableType, QueueInv, QueueType
  <1>1. /\ t \in Work /\ held[t] \in SUBSET Match
        /\ \A m \in Match : m # t /\ m \in Work /\ m \in EmailId
    OBVIOUS
  <1>2. CASE AddEmails(t)
    <2>1. UNCHANGED match
      BY <1>2 DEF AddEmails
    <2>2. ASSUME NEW m \in Match, m \in held[t], work[m].st = "absent"
          PROVE match[m] # "none" /\ step[m] = "idle"
      BY <1>2, <2>2 DEF AddEmails, OfferInv, Accounts, Busy
    <2>3. ASSUME NEW m \in Match
          PROVE /\ m \in held[t] /\ work[m].st = "absent" =>
                      offered'[m] = offered[m] + 1 /\ body'[m] = {m}
                /\ ~(m \in held[t] /\ work[m].st = "absent") =>
                      offered'[m] = offered[m] /\ body'[m] = body[m] /\ work'[m] = work[m]
                /\ step'[m] = step[m] /\ held'[m] = held[m]
      BY <1>1, <1>2 DEF AddEmails
    <2> QED
      BY <2>1, <2>2, <2>3 DEF Queued
  <1>3. CASE ~AddEmails(t)
    <2>1. /\ UNCHANGED <<body, offered>>
          /\ \A w \in Work : w # t => work'[w] = work[w] /\ step'[w] = step[w] /\ held'[w] = held[w]
          /\ \A m \in Match : match'[m] = match[m] \/ match[m] = "none"
      BY <1>1, <1>3 DEF TaskStep, FindAlerts, InsertMatches, Inserted, InsertRejected,
         CountMatches, PickImmediate, Return, Complete, Proceed, Clear, history
    <2>2. \A m \in Match : match[m] # "none" => match'[m] = match[m]
      BY <2>1
    <2>3. \A m \in Match : match'[m] = "pending" => match[m] \in {"none", "pending"}
      BY <2>1
    <2> QED
      BY <1>1, <2>1, <2>2, <2>3, QueuesNothing
  <1> QED
    BY <1>2, <1>3

\* An immediate email reads its one match pending, or ends.
LEMMA EmailQueued ==
  ASSUME Typed, Queued, NEW e \in EmailId, EmailStep(e)
  PROVE Queued'
  <1> USE Ids DEF Typed, TableType, QueueInv, QueueType
  <1>1. /\ e \in Work
        /\ \A w \in Work : w # e => step'[w] = step[w] /\ held'[w] = held[w]
        /\ \A w \in Work : work[w].st # "absent" <=> work'[w].st # "absent"
        /\ UNCHANGED <<body, offered>>
        /\ \A m \in Match : match'[m] = match[m] \/ (match[m] = "pending" /\ match'[m] = "notified")
    BY DEF EmailStep, LoadAlert, ReadMatches, Send, Mark, Return, Take, Complete, Proceed,
       Clear, Finished, WorkRecord, history, Busy
  <1>2. ASSUME NEW m \in Match
        PROVE /\ step'[m] \in {"send", "mark"} => held'[m] = {m}
              /\ step'[m] = "return" => match'[m] # "pending"
    <2>1. CASE m # e
      BY <1>1, <2>1 DEF Queued
    <2>2. CASE m = e
      <3>1. CASE LoadAlert(e) \/ Return(e)
        BY <1>1, <2>2, <3>1 DEF LoadAlert, Return, Complete, Proceed, Clear
      <3>2. CASE ReadMatches(e)
        <4>1. body[e] = {e}
          BY <2>2, <3>2 DEF ReadMatches, Queued, Busy
        <4> QED
          BY <1>1, <2>2, <3>2, <4>1 DEF ReadMatches, PendingIn, Complete, Proceed, Clear
      <3>3. CASE Send(e)
        BY <1>1, <2>2, <3>3 DEF Send, Queued
      <3>4. CASE Mark(e)
        BY <1>1, <2>2, <3>4 DEF Mark, Queued
      <3> QED
        BY <3>1, <3>2, <3>3, <3>4 DEF EmailStep
    <2> QED
      BY <2>1, <2>2
  <1> QED
    BY <1>1, <1>2 DEF Queued

\* Queued is inductive.
LEMMA QueuedStep == Typed /\ OfferInv /\ Queued /\ [Next]_vars => Queued'
  <1> SUFFICES ASSUME Typed, OfferInv, Queued, [Next]_vars PROVE Queued'
    OBVIOUS
  <1> USE Ids
  <1>1. offered \in [Match -> Nat] /\ \A m \in Match : offered[m] >= offered[m]
    BY DEF Typed, TableType
  <1>2. ASSUME NEW a \in Alert, User(a) PROVE Queued'
    <2>1. /\ UNCHANGED <<work, body, step, held, offered>>
          /\ \A m \in Match : match'[m] = match[m] \/ (match[m] # "none" /\ match'[m] = "gone")
      BY <1>2 DEF User, Create, Pause, Resume, Reactivate, SetFrequency, Remove, Edit, queue,
         history, Typed, TableType
    <2> QED
      BY <1>1, <2>1, QueuesNothing DEF Typed, TableType
  <1>3. ASSUME NEW j \in Job, NEW L \in SUBSET Alert, Discover(j, L) PROVE Queued'
    BY <1>1, <1>3, QueuesNothing DEF Discover, queue, history, Typed, TableType
  <1>4. ASSUME NEW t \in Task, Enqueue(t) PROVE Queued'
    BY <1>1, <1>4, QueuesNothing DEF Enqueue, history, Typed, TableType, QueueInv, QueueType
  <1>5. ASSUME NEW w \in Work, Fail(w) \/ Stall(w) PROVE Queued'
    <2>1. /\ UNCHANGED <<match, body, offered>>
          /\ work[w].st = "active"
          /\ \A v \in Work : v # w => work'[v] = work[v] /\ step'[v] = step[v] /\ held'[v] = held[v]
          /\ step'[w] = "idle"
      BY <1>5 DEF Fail, Stall, Clear, Typed, QueueInv, QueueType
    <2> QED
      BY <1>1, <2>1, QueuesNothing DEF Typed, TableType
  <1>6. ASSUME NEW w \in Work, Evict(w) PROVE Queued'
    <2>1. /\ UNCHANGED <<match, offered, step, held>>
          /\ \A v \in Work : v # w => work'[v] = work[v]
          /\ \A m \in EmailId : m # w => body'[m] = body[m]
          /\ work'[w].st = "absent"
      BY <1>6 DEF Evict, Forget, Absent, history, Typed, TableType, QueueInv, QueueType
    <2> QED
      BY <1>1, <2>1, QueuesNothing DEF Typed, TableType
  <1>7. CASE Digests
    <2>1. \A m \in Match : \A d \in digest : d.id # m
      BY IdAssumption DEF Typed, TableType
    <2>2. /\ UNCHANGED <<match, step, held>>
          /\ \A m \in Match : /\ work'[m] = work[m] /\ body'[m] = body[m]
                              /\ offered'[m] \in Nat /\ offered'[m] >= offered[m]
      <3>1. CASE AddDigests
        BY <1>7, <2>1, <3>1 DEF AddDigests, Typed, TableType, QueueInv, QueueType
      <3>2. CASE ~AddDigests
        BY <1>1, <1>7, <3>2 DEF Digests, LoseDigests, CollectDigests, queue, history
      <3> QED
        BY <3>1, <3>2
    <2>3. offered' \in [Match -> Nat]
      BY <1>1, <1>7, <2>2 DEF Digests, AddDigests, LoseDigests, CollectDigests, history
    <2> QED
      BY <2>2, <2>3, QueuesNothing DEF Typed, TableType
  <1>8. CASE NewDay
    <2>1. /\ UNCHANGED <<match, offered, step, held>>
          /\ \A m \in Match : work'[m] = work[m] /\ body'[m] = body[m]
      BY <1>8, IdAssumption DEF NewDay, Typed, TableType
    <2> QED
      BY <1>1, <2>1, QueuesNothing DEF Typed, TableType
  <1>9. CASE UNCHANGED vars
    BY <1>1, <1>9, QueuesNothing DEF vars, queue, history, Typed, TableType
  <1> QED
    BY <1>2, <1>3, <1>4, <1>5, <1>6, <1>7, <1>8, <1>9, TaskQueued, EmailQueued DEF Next

\* An alert is active when it is matched, and stays so unless it is edited.
LEMMA AliveStep == Typed /\ Alive /\ [Next]_vars => Alive'
  <1> SUFFICES ASSUME Typed, Alive, [Next]_vars PROVE Alive'
    OBVIOUS
  <1> USE Ids DEF Typed, TableType, QueueInv, QueueType
  <1>1. ASSUME UNCHANGED <<life, edited>>,
               \A m \in Match : /\ match'[m] # "none" =>
                                      match[m] # "none" \/ \E t \in Task : m \in held[t]
                                /\ \A t \in Task : m \in held'[t] =>
                                      m \in held[t] \/ Active(m[1])
        PROVE Alive'
    BY <1>1 DEF Alive, Active
  <1>2. ASSUME NEW a \in Alert, User(a) PROVE Alive'
    <2>1. /\ UNCHANGED held
          /\ \A m \in Match : match'[m] # "none" => match[m] # "none"
          /\ edited \subseteq edited'
          /\ \A b \in Alert : b # a => life'[b] = life[b]
          /\ life'[a] = "active" \/ a \in edited'
      BY <1>2 DEF User, Create, Pause, Resume, Reactivate, SetFrequency, Remove, Edit, queue,
         bounds
    <2>2. \A m \in Match : m[1] \in Alert
      BY DEF Match
    <2> QED
      BY <2>1, <2>2 DEF Alive, Active
  <1>3. ASSUME NEW t \in Task, TaskStep(t) PROVE Alive'
    <2>1. t \in Work /\ held[t] \in SUBSET Match
      OBVIOUS
    <2>2. UNCHANGED <<life, edited>>
      BY <1>3 DEF TaskStep, FindAlerts, InsertMatches, Inserted, InsertRejected, CountMatches,
         PickImmediate, AddEmails, Return, alerts, bounds
    <2>3. \A m \in Match : match'[m] # "none" => match[m] # "none" \/ m \in held[t]
      BY <1>3 DEF TaskStep, FindAlerts, InsertMatches, InsertRejected, CountMatches,
         PickImmediate, AddEmails, Return
    <2>4. \A v \in Task : v # t => held'[v] = held[v]
      BY <1>3, <2>1 DEF TaskStep, FindAlerts, InsertMatches, Inserted, InsertRejected,
         CountMatches, PickImmediate, AddEmails, Return, Complete, Proceed, Clear
    <2>5. \A m \in Match : m \in held'[t] => m \in held[t] \/ Active(m[1])
      <3>1. CASE FindAlerts(t)
        BY <2>1, <3>1 DEF FindAlerts, Satisfied, Complete, Proceed, Clear
      <3>2. CASE ~FindAlerts(t)
        BY <1>3, <2>1, <3>2 DEF TaskStep, InsertMatches, Inserted, InsertRejected,
           CountMatches, PickImmediate, PendingIn, AddEmails, Return, Complete, Proceed, Clear
      <3> QED
        BY <3>1, <3>2
    <2> QED
      BY <1>1, <2>2, <2>3, <2>4, <2>5
  <1>4. ASSUME NEW e \in EmailId, EmailStep(e) PROVE Alive'
    <2>1. e \in Work /\ e \notin Task
      OBVIOUS
    <2>2. UNCHANGED <<life, edited>>
      BY <1>4 DEF EmailStep, LoadAlert, ReadMatches, Send, Mark, Return, alerts, bounds
    <2>3. \A m \in Match : match'[m] # "none" => match[m] # "none"
      BY <1>4 DEF EmailStep, LoadAlert, ReadMatches, Send, Mark, Return
    <2>4. \A v \in Task : held'[v] = held[v]
      BY <1>4, <2>1 DEF EmailStep, LoadAlert, ReadMatches, Send, Mark, Return, Complete,
         Proceed, Clear
    <2> QED
      BY <1>1, <2>2, <2>3, <2>4
  <1>5. ASSUME NEW w \in Work, Fail(w) \/ Stall(w) \/ Evict(w) PROVE Alive'
    BY <1>1, <1>5 DEF Fail, Stall, Evict, Forget, Clear, alerts, bounds
  <1>6. CASE \/ \E j \in Job, L \in SUBSET Alert : Discover(j, L)
             \/ \E t \in Task : Enqueue(t)
             \/ Digests \/ NewDay
    BY <1>1, <1>6 DEF Discover, Enqueue, Digests, AddDigests, LoseDigests, CollectDigests,
       NewDay, queue, alerts, bounds
  <1>7. CASE UNCHANGED vars
    BY <1>1, <1>7 DEF vars, queue, alerts, bounds
  <1> QED
    BY <1>2, <1>3, <1>4, <1>5, <1>6, <1>7 DEF Next

\* A step that fails nothing leaves a pending match in the hands it is in.
LEMMA CarriesOn ==
  ASSUME Carrying, faults' = 0 => faults = 0,
         \A m \in Match :
            /\ match'[m] = "pending" => match[m] = "pending"
            /\ Untouched(m)' => Untouched(m)
            /\ work[m].st \in {"waiting", "active"} => work'[m].st \in {"waiting", "active"}
            /\ \A t \in Task : Accounts(t, m) => Accounts(t, m)'
  PROVE Carrying'
  BY DEF Carrying, Carried, Accounts

\* The matching worker: from the insert to the queueing the match is the task's.
LEMMA TaskCarries ==
  ASSUME Typed, OfferInv, CarryInv, NEW t \in Task, TaskStep(t)
  PROVE Carrying'
  <1> USE Ids DEF Typed, TableType, QueueInv, QueueType
  <1>1. /\ t \in Work /\ held[t] \in SUBSET Match
        /\ \A m \in Match : m # t /\ m \in Work
    OBVIOUS
  <1>2. UNCHANGED <<freq, edited, faults>>
    BY DEF TaskStep, FindAlerts, InsertMatches, Inserted, InsertRejected, CountMatches,
       PickImmediate, AddEmails, Return, alerts, bounds
  <1>3. \A m \in Match : Untouched(m)' <=> Untouched(m)
    BY <1>2 DEF Untouched
  <1>4. \A v \in Task : v # t => step'[v] = step[v] /\ held'[v] = held[v]
    BY <1>1 DEF TaskStep, FindAlerts, InsertMatches, Inserted, InsertRejected, CountMatches,
       PickImmediate, AddEmails, Return, Complete, Proceed, Clear
  <1>5. \A m \in Match, v \in Task : v # t => (Accounts(v, m)' <=> Accounts(v, m))
    BY <1>4 DEF Accounts
  <1>6. CASE FindAlerts(t) \/ InsertRejected(t) \/ CountMatches(t) \/ Return(t)
    <2>1. /\ UNCHANGED match
          /\ \A m \in Match : work'[m] = work[m]
      BY <1>1, <1>6 DEF FindAlerts, InsertRejected, CountMatches, Return, Complete, Proceed
    <2>2. ASSUME NEW m \in Match, Accounts(t, m) PROVE Accounts(t, m)'
      <3>1. step[t] \in {"count", "pick", "add"} /\ m \in held[t]
        BY <2>2 DEF Accounts
      <3>2. CountMatches(t)
        BY <1>6, <3>1 DEF FindAlerts, Take, InsertRejected, Return, Busy
      <3> QED
        BY <1>1, <3>1, <3>2 DEF CountMatches, Proceed, Accounts
    <2> QED
      BY <1>2, <1>3, <1>5, <2>1, <2>2, CarriesOn DEF CarryInv
  <1>7. CASE InsertMatches(t)
    <2>1. /\ step[t] = "insert"
          /\ match' = [m \in Match |-> IF m \in held[t] /\ match[m] = "none" THEN "pending"
                                       ELSE match[m]]
          /\ \A m \in Match : work'[m] = work[m]
      BY <1>1, <1>7 DEF InsertMatches, Inserted, Complete, Proceed
    <2>2. ASSUME NEW m \in Match, m \in held[t], match[m] = "none" PROVE Accounts(t, m)'
      BY <1>1, <1>7, <2>2 DEF InsertMatches, Inserted, Proceed, Accounts
    <2>3. ASSUME NEW m \in Match PROVE ~Accounts(t, m)
      BY <2>1 DEF Accounts
    <2>4. ASSUME NEW m \in Match, match'[m] = "pending", Untouched(m), faults = 0
          PROVE Carried(m)'
      <3>1. CASE m \in held[t] /\ match[m] = "none"
        BY <2>2, <3>1 DEF Carried, Accounts
      <3>2. CASE match[m] = "pending"
        <4>1. Carried(m)
          BY <2>4, <3>2 DEF CarryInv, Carrying
        <4>2. \A v \in Task : Accounts(v, m) => Accounts(v, m)'
          BY <1>5, <2>3
        <4> QED
          BY <2>1, <4>1, <4>2 DEF Carried, Accounts
      <3> QED
        BY <2>1, <2>4, <3>1, <3>2
    <2> QED
      BY <1>2, <1>3, <2>4 DEF Carrying
  <1>8. CASE PickImmediate(t)
    <2> DEFINE now == {m \in PendingIn(held[t]) : Active(m[1]) /\ freq[m[1]] = "IMMEDIATE"}
    <2>1. /\ UNCHANGED match
          /\ step[t] = "pick"
          /\ \A m \in Match : work'[m] = work[m]
          /\ now # {} => step'[t] = "add" /\ held'[t] = now
      BY <1>1, <1>8 DEF PickImmediate, Complete, Proceed
    <2>2. ASSUME NEW m \in Match, match[m] = "pending", Untouched(m), faults = 0
          PROVE Carried(m)'
      <3>1. Carried(m)
        BY <2>2 DEF CarryInv, Carrying
      <3>2. CASE m \in held[t]
        <4>1. m \in now
          BY <2>2, <3>2 DEF CarryInv, Alive, PendingIn, Untouched
        <4> QED
          BY <2>1, <4>1 DEF Carried
      <3>3. CASE m \notin held[t]
        <4>1. \A v \in Task : Accounts(v, m) => Accounts(v, m)'
          BY <1>5, <3>3 DEF Accounts
        <4> QED
          BY <2>1, <3>1, <4>1 DEF Carried, Accounts
      <3> QED
        BY <3>2, <3>3
    <2> QED
      BY <1>2, <1>3, <2>1, <2>2 DEF Carrying
  <1>9. CASE AddEmails(t)
    <2>1. /\ UNCHANGED match
          /\ step[t] = "add"
          /\ \A m \in Match : IF m \in held[t] /\ work[m].st = "absent"
                              THEN work'[m].st = "waiting" ELSE work'[m] = work[m]
      BY <1>1, <1>9 DEF AddEmails, Waiting
    <2>2. ASSUME NEW m \in Match, match[m] = "pending", Untouched(m), faults = 0
          PROVE Carried(m)'
      <3>1. Carried(m)
        BY <2>2 DEF CarryInv, Carrying
      <3>2. CASE m \in held[t]
        <4>1. offered[m] = 0
          BY <2>1, <2>2, <3>2 DEF OfferInv, Accounts
        <4>2. work[m].st = "absent"
          BY <4>1 DEF CarryInv, Queued
        <4> QED
          BY <2>1, <3>2, <4>2 DEF Carried
      <3>3. CASE m \notin held[t]
        <4>1. \A v \in Task : Accounts(v, m) => Accounts(v, m)'
          BY <1>5, <3>3 DEF Accounts
        <4> QED
          BY <2>1, <3>1, <3>3, <4>1 DEF Carried, Accounts
      <3> QED
        BY <3>2, <3>3
    <2> QED
      BY <1>2, <1>3, <2>1, <2>2 DEF Carrying
  <1> QED
    BY <1>6, <1>7, <1>8, <1>9 DEF TaskStep

\* The email worker: a pending match of an untouched alert is read, and lets go of the
\* email only when it is marked.
LEMMA EmailCarries ==
  ASSUME Typed, CarryInv, NEW e \in EmailId, EmailStep(e)
  PROVE Carrying'
  <1> USE Ids DEF Typed, TableType, QueueInv, QueueType
  <1>1. /\ e \in Work /\ e \notin Task
        /\ UNCHANGED <<freq, edited, faults>>
        /\ \A m \in Match : match'[m] = "pending" => match[m] = "pending"
        /\ \A w \in Work : w # e => work'[w] = work[w]
    BY DEF EmailStep, LoadAlert, ReadMatches, Send, Mark, Return, Complete, Proceed, alerts,
       bounds
  <1>2. \A v \in Task : step'[v] = step[v] /\ held'[v] = held[v]
    BY <1>1 DEF EmailStep, LoadAlert, ReadMatches, Send, Mark, Return, Complete, Proceed, Clear
  <1>3. ASSUME NEW m \in Match, match'[m] = "pending", Untouched(m), faults = 0
        PROVE Carried(m)'
    <2>1. Carried(m) /\ match[m] = "pending"
      BY <1>1, <1>3 DEF CarryInv, Carrying
    <2>2. CASE m # e \/ \E t \in Task : Accounts(t, m)
      BY <1>1, <1>2, <2>1, <2>2 DEF Carried, Accounts
    <2>3. CASE m = e /\ work[m].st \in {"waiting", "active"}
      <3>1. body[e] = {e} /\ Active(e[1])
        BY <1>3, <2>1, <2>3 DEF CarryInv, Queued, Alive, Untouched
      <3>2. ~Return(e)
        BY <2>1, <2>3 DEF Return, CarryInv, Queued
      <3>3. work'[e].st \in {"waiting", "active"}
        BY <1>1, <2>1, <2>3, <3>1, <3>2 DEF EmailStep, LoadAlert, ReadMatches, Send, Mark,
           PendingIn, Proceed, WorkRecord
      <3> QED
        BY <2>3, <3>3 DEF Carried
    <2> QED
      BY <2>1, <2>2, <2>3 DEF Carried, Accounts
  <1> QED
    BY <1>1, <1>3 DEF Carrying, Untouched

\* Carrying is inductive.
LEMMA CarryingStep == Typed /\ OfferInv /\ CarryInv /\ [Next]_vars => Carrying'
  <1> SUFFICES ASSUME Typed, OfferInv, CarryInv, [Next]_vars PROVE Carrying'
    OBVIOUS
  <1> USE Ids DEF Accounts, Untouched
  <1>1. ASSUME NEW a \in Alert, User(a) PROVE Carrying'
    <2>1. /\ UNCHANGED <<work, step, held, faults>>
          /\ \A m \in Match : match'[m] = "pending" => match[m] = "pending"
          /\ \A m \in Match : Untouched(m)' => Untouched(m)
      BY <1>1 DEF User, Create, Pause, Resume, Reactivate, SetFrequency, Remove, Edit, queue,
         bounds, Typed, TableType, Match
    <2> QED
      BY <2>1, CarriesOn DEF CarryInv
  <1>2. ASSUME NEW j \in Job, NEW L \in SUBSET Alert, Discover(j, L) PROVE Carrying'
    BY <1>2, CarriesOn DEF Discover, queue, bounds, CarryInv
  <1>3. ASSUME NEW t \in Task, Enqueue(t) PROVE Carrying'
    BY <1>3, CarriesOn DEF Enqueue, alerts, bounds, CarryInv, Typed, QueueInv, QueueType
  <1>4. ASSUME NEW w \in Work, Fail(w) \/ Stall(w) PROVE Carrying'
    BY <1>4 DEF Fail, Stall, Carrying, Typed, TableType
  <1>5. ASSUME NEW w \in Work, Evict(w) PROVE Carrying'
    BY <1>5, CarriesOn
    DEF Evict, Forget, alerts, bounds, CarryInv, Typed, QueueInv, QueueType
  <1>6. CASE Digests
    <2>1. \A m \in Match : \A d \in digest : d.id # m
      BY IdAssumption DEF Typed, TableType
    <2>2. /\ UNCHANGED <<match, step, held, freq, edited>>
          /\ \A m \in Match : work'[m] = work[m]
          /\ faults' = 0 => faults = 0
      BY <1>6, <2>1 DEF Digests, AddDigests, LoseDigests, CollectDigests, alerts, queue, bounds,
         Typed, TableType, QueueInv, QueueType
    <2> QED
      BY <2>2, CarriesOn DEF CarryInv
  <1>7. CASE NewDay
    <2>1. \A m \in Match : work'[m] = work[m]
      BY <1>7, IdAssumption DEF NewDay
    <2> QED
      BY <1>7, <2>1, CarriesOn DEF NewDay, alerts, bounds, CarryInv
  <1>8. CASE UNCHANGED vars
    BY <1>8, CarriesOn DEF vars, queue, alerts, bounds, CarryInv
  <1> QED
    BY <1>1, <1>2, <1>3, <1>4, <1>5, <1>6, <1>7, <1>8, TaskCarries, EmailCarries DEF Next

\* While nothing fails, a pending match of an immediate alert that its owner leaves alone
\* is always some task's or some email's to tell.
THEOREM NobodyDropsIt == Spec => []CarriedUntilFault
  <1>1. Init => OfferInv /\ CarryInv
    BY Ids DEF Init, OfferInv, Accounts, CarryInv, Queued, Alive, Carrying, Absent
  <1>2. DeliveryInv => Typed
    BY TypedSplits DEF DeliveryInv
  <1>3. DeliveryInv /\ OfferInv /\ CarryInv /\ [Next]_vars => OfferInv' /\ CarryInv'
    BY <1>2, OfferStep, QueuedStep, AliveStep, CarryingStep DEF CarryInv
  <1>4. CarryInv => CarriedUntilFault
    BY DEF CarryInv, Carrying, CarriedUntilFault, Untouched
  <1> QED
    BY <1>1, <1>3, <1>4, DeliveryInvariant, PTL DEF Spec

---------------------------------------------------------------------------
(* A match is sent once for each email it was put in.                      *)

\* The email worker may yet send a match with this email.
MaySend(e, m) ==
    \/ m \in body[e] /\ match[m] = "pending" /\ (work[e].st = "waiting" \/ step[e] = "read")
    \/ m \in held[e] /\ step[e] = "send"

Unsent(m) == {e \in EmailId : MaySend(e, m)}

\* What was sent and what may yet be is covered by what was queued and what was lost.
Covered == \A m \in Match : sent[m] + Cardinality(Unsent(m)) <= offered[m] + lost

\* An email worker has read the pending matches of the email, and once it has marked
\* them none is left.
Bodies == \A e \in EmailId :
    /\ step[e] \in {"idle", "read", "send", "mark", "return"}
    /\ step[e] \in {"send", "mark"} => held[e] \subseteq body[e]
    /\ \A m \in body[e] :
          /\ match[m] # "none"
          /\ step[e] \in {"send", "mark"} /\ m \notin held[e] => match[m] # "pending"
          /\ step[e] = "return" => match[m] # "pending"

\* There is one digest of an alert, and it is of the matches of that alert.
Collected == \A d \in digest :
    /\ \A c \in digest : c.id[1] = d.id[1] => c = d
    /\ \A m \in d.body : m[1] = d.id[1] /\ match[m] # "none"

SendInv == Covered /\ Bodies /\ Collected

\* Emails are finitely many: an alert has one of each frequency and period.
LEMMA EmailsAreFinite ==
  ASSUME NEW S \in SUBSET EmailId
  PROVE IsFiniteSet(S) /\ Cardinality(S) \in Nat
  <1>1. IsFiniteSet(Match)
    BY MatchesAreFinite
  <1>2. IsFiniteSet(Frequency \ {"IMMEDIATE"})
    <2>1. IsFiniteSet({"DAILY"}) /\ IsFiniteSet({"WEEKLY"})
      BY FS_Singleton
    <2>2. IsFiniteSet({"DAILY"} \cup {"WEEKLY"})
      BY <2>1, FS_Union
    <2>3. Frequency \ {"IMMEDIATE"} \in SUBSET ({"DAILY"} \cup {"WEEKLY"})
      BY FrequencyAssumption
    <2> QED
      BY <2>2, <2>3, FS_Subset
  <1>3. IsFiniteSet(Period)
    <2>1. 0 \in Int /\ Days - 1 \in Int
      BY BoundAssumption
    <2> QED
      BY <2>1, FS_Interval DEF Period
  <1>4. IsFiniteSet(DigestId)
    <2> DEFINE F == Frequency \ {"IMMEDIATE"}
               P == (Alert \X F) \X Period
               f == [x \in P |-> <<x[1][1], x[1][2], x[2]>>]
    <2>1. IsFiniteSet(Alert \X F)
      BY <1>2, FiniteAssumption, FS_Product
    <2>2. IsFiniteSet(P)
      BY <2>1, <1>3, FS_Product
    <2>3. f \in [P -> DigestId]
      BY DEF DigestId
    <2>4. ASSUME NEW e \in DigestId PROVE \E x \in P : f[x] = e
      <3>1. <<<<e[1], e[2]>>, e[3]>> \in P
        BY DEF DigestId
      <3>2. f[<<<<e[1], e[2]>>, e[3]>>] = <<e[1], e[2], e[3]>>
        BY <3>1
      <3> QED
        BY <3>1, <3>2 DEF DigestId
    <2>5. f \in Surjection(P, DigestId)
      BY <2>3, <2>4 DEF Surjection
    <2> QED
      BY <2>2, <2>5, FS_Surjection
  <1>5. IsFiniteSet(EmailId)
    BY <1>1, <1>4, FS_Union DEF EmailId
  <1> QED
    BY <1>5, FS_Subset, FS_CardinalityType

\* Fewer of them.
LEMMA FewerEmails ==
  ASSUME NEW S \in SUBSET EmailId, NEW T \in SUBSET S
  PROVE Cardinality(T) <= Cardinality(S)
  BY EmailsAreFinite, FS_Subset

\* One more of them at most.
LEMMA OneMoreEmail ==
  ASSUME NEW S \in SUBSET EmailId, NEW e \in EmailId, NEW T \in SUBSET (S \cup {e})
  PROVE Cardinality(T) <= Cardinality(S) + 1
  <1>1. S \cup {e} \in SUBSET EmailId
    OBVIOUS
  <1>2. Cardinality(T) <= Cardinality(S \cup {e})
    BY <1>1, FewerEmails
  <1>3. Cardinality(S \cup {e}) <= Cardinality(S) + 1
    BY EmailsAreFinite, FS_AddElement
  <1>4. /\ Cardinality(T) \in Nat /\ Cardinality(S) \in Nat
        /\ Cardinality(S \cup {e}) \in Nat
    <2>1. T \in SUBSET EmailId
      BY <1>1
    <2> QED
      BY <1>1, <2>1, EmailsAreFinite
  <1> QED
    BY <1>2, <1>3, <1>4

\* One fewer of them at least.
LEMMA OneFewerEmail ==
  ASSUME NEW S \in SUBSET EmailId, NEW e \in S, NEW T \in SUBSET (S \ {e})
  PROVE Cardinality(T) + 1 <= Cardinality(S)
  <1>1. S \ {e} \in SUBSET EmailId
    OBVIOUS
  <1>2. Cardinality(T) <= Cardinality(S \ {e})
    BY <1>1, FewerEmails
  <1>3. Cardinality(S \ {e}) = Cardinality(S) - 1
    BY EmailsAreFinite, FS_RemoveElement
  <1>4. /\ Cardinality(T) \in Nat /\ Cardinality(S) \in Nat
        /\ Cardinality(S \ {e}) \in Nat
    <2>1. T \in SUBSET EmailId
      BY <1>1
    <2> QED
      BY <1>1, <2>1, EmailsAreFinite
  <1> QED
    BY <1>2, <1>3, <1>4

\* The moves of an email that give the worker nothing to send: none, its end or removal,
\* its start, a failed attempt that sent nothing, and the reading of its matches.
Quiet(e) ==
    \/ /\ body'[e] = body[e] /\ step'[e] = step[e] /\ held'[e] = held[e]
       /\ work'[e].st = "waiting" => work[e].st = "waiting"
    \/ step'[e] = "idle" /\ work'[e].st # "waiting" /\ body'[e] \in {body[e], {}}
    \/ step'[e] = "read" /\ work[e].st = "waiting" /\ body'[e] = body[e]
    \/ step'[e] = "idle" /\ step[e] \in {"read", "send", "return"} /\ body'[e] = body[e]
    \/ /\ step[e] = "read" /\ step'[e] = "send" /\ body'[e] = body[e]
       /\ held'[e] = PendingIn(body[e])

\* A match may become pending only when it is created.
Onward(m) ==
    /\ match[m] # "none" => match'[m] # "none"
    /\ match'[m] = "pending" => match[m] \in {"none", "pending"}

\* After quiet moves of all emails a worker knows what it knew of its email.
LEMMA QuietBodies ==
  ASSUME Typed, Bodies, \A e \in EmailId : Quiet(e), \A m \in Match : Onward(m)
  PROVE Bodies'
  <1> SUFFICES ASSUME NEW e \in EmailId
               PROVE /\ step'[e] \in {"idle", "read", "send", "mark", "return"}
                     /\ step'[e] \in {"send", "mark"} => held'[e] \subseteq body'[e]
                     /\ \A m \in body'[e] :
                           /\ match'[m] # "none"
                           /\ step'[e] \in {"send", "mark"} /\ m \notin held'[e] =>
                                 match'[m] # "pending"
                           /\ step'[e] = "return" => match'[m] # "pending"
    BY DEF Bodies
  <1>1. body[e] \in SUBSET Match /\ Quiet(e)
    BY DEF Typed, TableType
  <1> QED
    BY <1>1 DEF Bodies, Quiet, Onward, PendingIn

\* None of them lets a worker send a match with an email that could not carry it before.
LEMMA QuietUnsent ==
  ASSUME Typed, Bodies, \A e \in EmailId : Quiet(e), NEW m \in Match, Onward(m)
  PROVE Unsent(m)' \subseteq Unsent(m)
  <1> SUFFICES ASSUME NEW e \in EmailId, MaySend(e, m)' PROVE MaySend(e, m)
    BY DEF Unsent
  <1>1. body[e] \in SUBSET Match /\ Quiet(e)
    BY DEF Typed, TableType
  <1> QED
    BY <1>1 DEF Bodies, Quiet, Onward, PendingIn, MaySend

\* Nothing is sent, and what is queued or lost only grows.
LEMMA CoversOn ==
  ASSUME Typed, Covered, UNCHANGED sent, offered' \in [Match -> Nat], lost' \in Nat,
         lost' >= lost,
         NEW m \in Match, offered'[m] >= offered[m],
         \/ Unsent(m)' \subseteq Unsent(m)
         \/ /\ \E e \in EmailId : Unsent(m)' \subseteq Unsent(m) \cup {e}
            /\ offered'[m] + lost' > offered[m] + lost
  PROVE sent'[m] + Cardinality(Unsent(m)') <= offered'[m] + lost'
  <1>1. Unsent(m) \in SUBSET EmailId /\ Unsent(m)' \in SUBSET EmailId
    BY DEF Unsent
  <1>2. /\ sent[m] \in Nat /\ offered[m] \in Nat /\ offered'[m] \in Nat /\ lost \in Nat
        /\ sent'[m] = sent[m]
        /\ sent[m] + Cardinality(Unsent(m)) <= offered[m] + lost
    BY DEF Typed, TableType, Covered
  <1>3. Cardinality(Unsent(m)) \in Nat /\ Cardinality(Unsent(m)') \in Nat
    BY <1>1, EmailsAreFinite
  <1>4. CASE Unsent(m)' \subseteq Unsent(m)
    <2>1. Cardinality(Unsent(m)') <= Cardinality(Unsent(m))
      BY <1>1, <1>4, FewerEmails
    <2> QED
      BY <1>2, <1>3, <2>1
  <1>5. ASSUME NEW e \in EmailId, Unsent(m)' \subseteq Unsent(m) \cup {e},
               offered'[m] + lost' > offered[m] + lost
        PROVE sent'[m] + Cardinality(Unsent(m)') <= offered'[m] + lost'
    <2>1. Cardinality(Unsent(m)') <= Cardinality(Unsent(m)) + 1
      BY <1>1, <1>5, OneMoreEmail
    <2> QED
      BY <1>2, <1>3, <1>5, <2>1
  <1> QED
    BY <1>4, <1>5

\* So they preserve what SendInv says of emails.
LEMMA QuietSends ==
  ASSUME Typed, Covered, Bodies, UNCHANGED <<sent, offered, lost>>,
         \A e \in EmailId : Quiet(e), \A m \in Match : Onward(m)
  PROVE Covered' /\ Bodies'
  <1>1. /\ offered' \in [Match -> Nat] /\ lost' \in Nat /\ lost' >= lost
        /\ \A m \in Match : offered'[m] >= offered[m]
    BY DEF Typed, TableType
  <1>2. ASSUME NEW m \in Match
        PROVE sent'[m] + Cardinality(Unsent(m)') <= offered'[m] + lost'
    BY <1>1, QuietUnsent, CoversOn
  <1> QED
    BY <1>2, QuietBodies DEF Covered

\* Digests are not changed once collected.
LEMMA CollectedStays ==
  ASSUME Typed, Collected, digest' \subseteq digest, \A m \in Match : Onward(m)
  PROVE Collected'
  BY DEF Collected, Onward, Typed, TableType

\* Of the matching worker, only the queueing of emails is not quiet.
LEMMA TaskSends ==
  ASSUME Typed, OfferInv, SendInv, NEW t \in Task, TaskStep(t)
  PROVE SendInv'
  <1> USE Ids DEF Typed, TableType, QueueInv, QueueType
  <1>1. /\ t \in Work /\ held[t] \in SUBSET Match
        /\ \A e \in EmailId : e # t /\ e \in Work
    OBVIOUS
  <1>2. \A m \in Match : match'[m] = match[m] \/ match[m] = "none"
    BY DEF TaskStep, FindAlerts, InsertMatches, InsertRejected, CountMatches, PickImmediate,
       AddEmails, Return
  <1>3. ASSUME NEW m \in Match PROVE Onward(m)
    <2>1. match'[m] # "none" \/ match[m] = "none"
      BY <1>2
    <2> QED
      BY <1>2, <2>1 DEF Onward
  <1>4. UNCHANGED <<digest, sent, lost>>
    BY DEF TaskStep, FindAlerts, InsertMatches, Inserted, InsertRejected, CountMatches,
       PickImmediate, AddEmails, Return, history
  <1>5. Collected'
    BY <1>3, <1>4, CollectedStays DEF SendInv
  <1>6. CASE AddEmails(t)
    <2> DEFINE new == {m \in held[t] : work[m].st = "absent"}
    <2>1. ASSUME NEW e \in EmailId
          PROVE /\ step'[e] = step[e] /\ held'[e] = held[e]
                /\ e \in new => /\ work'[e].st = "waiting" /\ body'[e] = {e}
                                /\ match[e] # "none" /\ step[e] = "idle"
                /\ e \notin new => work'[e] = work[e] /\ body'[e] = body[e]
      BY <1>1, <1>6 DEF AddEmails, Waiting, OfferInv, Accounts, Busy
    <2>2. UNCHANGED match
      BY <1>6 DEF AddEmails
    <2>3. Bodies'
      <3> USE <2>1, <2>2 DEF SendInv, Bodies
      <3>1. ASSUME NEW e \in new PROVE e \in EmailId
        BY <1>1
      <3> QED
        BY <3>1
    <2>4. ASSUME NEW m \in Match
          PROVE sent'[m] + Cardinality(Unsent(m)') <= offered'[m] + lost'
      <3>1. /\ offered' \in [Match -> Nat]
            /\ m \in new => offered'[m] = offered[m] + 1
            /\ m \notin new => offered'[m] = offered[m]
        BY <1>6 DEF AddEmails
      <3>2. ASSUME NEW e \in EmailId, MaySend(e, m)'
            PROVE MaySend(e, m) \/ (e = m /\ m \in new)
        BY <2>1, <2>2, <3>2 DEF MaySend
      <3>3. CASE m \in new
        <4>1. Unsent(m)' \subseteq Unsent(m) \cup {m}
          BY <3>2 DEF Unsent
        <4>2. m \in EmailId /\ lost' \in Nat /\ lost' >= lost
          BY <1>4
        <4>3. offered'[m] >= offered[m] /\ offered'[m] + lost' > offered[m] + lost
          BY <1>4, <3>1, <3>3
        <4> QED
          BY <1>4, <3>1, <4>1, <4>2, <4>3, CoversOn DEF SendInv
      <3>4. CASE m \notin new
        <4>1. Unsent(m)' \subseteq Unsent(m)
          BY <3>2, <3>4 DEF Unsent
        <4>2. lost' \in Nat /\ lost' >= lost /\ offered'[m] >= offered[m]
          BY <1>4, <3>1, <3>4
        <4> QED
          BY <1>4, <3>1, <4>1, <4>2, CoversOn DEF SendInv
      <3> QED
        BY <3>3, <3>4
    <2> QED
      BY <1>5, <2>3, <2>4 DEF SendInv, Covered
  <1>7. CASE ~AddEmails(t)
    <2>1. /\ UNCHANGED <<body, offered>>
          /\ \A e \in EmailId : work'[e] = work[e] /\ step'[e] = step[e] /\ held'[e] = held[e]
      BY <1>1, <1>7 DEF TaskStep, FindAlerts, InsertMatches, Inserted, InsertRejected,
         CountMatches, PickImmediate, Return, Complete, Proceed, Clear, history
    <2>2. \A e \in EmailId : Quiet(e)
      BY <2>1 DEF Quiet
    <2> QED
      BY <1>3, <1>4, <1>5, <2>1, <2>2, QuietSends DEF SendInv
  <1> QED
    BY <1>6, <1>7

\* The email worker sends what it holds, once for each reading, and marks it.
LEMMA EmailSends ==
  ASSUME Typed, SendInv, NEW e \in EmailId, EmailStep(e)
  PROVE SendInv'
  <1> USE Ids DEF Typed, TableType, QueueInv, QueueType
  <1>1. /\ e \in Work /\ body[e] \in SUBSET Match
        /\ \A w \in Work : w # e =>
              work'[w] = work[w] /\ step'[w] = step[w] /\ held'[w] = held[w]
        /\ UNCHANGED <<body, digest, offered, lost>>
        /\ \A m \in Match : match'[m] = match[m] \/ (match[m] = "pending" /\ match'[m] = "notified")
    BY DEF EmailStep, LoadAlert, ReadMatches, Send, Mark, Return, Complete, Proceed, Clear,
       history
  <1>2. \A m \in Match : Onward(m)
    BY <1>1 DEF Onward
  <1>3. Collected'
    BY <1>1, <1>2, CollectedStays DEF SendInv
  <1>4. ASSUME NEW d \in EmailId, d # e PROVE Quiet(d)
    BY <1>1, <1>4 DEF Quiet
  <1>5. /\ offered' \in [Match -> Nat] /\ lost' \in Nat /\ lost' >= lost
        /\ \A m \in Match : offered'[m] >= offered[m]
    BY <1>1
  <1>6. CASE LoadAlert(e) \/ ReadMatches(e) \/ Return(e)
    <2>1. UNCHANGED sent
      BY <1>6 DEF LoadAlert, ReadMatches, Return, history
    <2>2. Quiet(e)
      <3>1. CASE Complete(e)
        BY <1>1, <3>1 DEF Complete, Clear, Finished, Quiet
      <3>2. CASE ~Complete(e)
        BY <1>1, <1>6, <3>2 DEF LoadAlert, ReadMatches, Return, Take, Proceed, Quiet
      <3> QED
        BY <3>1, <3>2
    <2> QED
      BY <1>1, <1>2, <1>3, <1>4, <2>1, <2>2, QuietSends DEF SendInv
  <1>7. CASE Send(e)
    <2>1. /\ UNCHANGED <<match, work, held>>
          /\ step[e] = "send" /\ step' = [step EXCEPT ![e] = "mark"]
          /\ \A m \in Match : sent'[m] = IF m \in held[e] THEN sent[m] + 1 ELSE sent[m]
          /\ work[e].st = "active"
      BY <1>1, <1>7 DEF Send, Busy
    <2>2. Bodies'
      BY <1>1, <2>1 DEF SendInv, Bodies
    <2>3. ASSUME NEW m \in Match
          PROVE Unsent(m)' \subseteq Unsent(m) \ {e} /\ (m \in held[e] => e \in Unsent(m))
      BY <1>1, <2>1 DEF Unsent, MaySend
    <2>4. ASSUME NEW m \in Match
          PROVE sent'[m] + Cardinality(Unsent(m)') <= offered'[m] + lost'
      <3>1. Unsent(m) \in SUBSET EmailId /\ Unsent(m)' \in SUBSET EmailId
        BY DEF Unsent
      <3>2. /\ Cardinality(Unsent(m)) \in Nat /\ Cardinality(Unsent(m)') \in Nat
            /\ sent[m] \in Nat /\ offered'[m] = offered[m] /\ lost' = lost
            /\ offered[m] \in Nat /\ lost \in Nat
            /\ sent[m] + Cardinality(Unsent(m)) <= offered[m] + lost
        BY <1>1, <3>1, EmailsAreFinite DEF SendInv, Covered
      <3>3. CASE m \in held[e]
        <4>1. Cardinality(Unsent(m)') + 1 <= Cardinality(Unsent(m))
          BY <2>3, <3>1, <3>3, OneFewerEmail
        <4>2. sent'[m] = sent[m] + 1
          BY <2>1, <3>3
        <4> QED
          BY <3>2, <4>1, <4>2
      <3>4. CASE m \notin held[e]
        <4>1. Cardinality(Unsent(m)') <= Cardinality(Unsent(m))
          BY <2>3, <3>1, FewerEmails
        <4>2. sent'[m] = sent[m]
          BY <2>1, <3>4
        <4> QED
          BY <3>2, <4>1, <4>2
      <3> QED
        BY <3>3, <3>4
    <2> QED
      BY <1>3, <2>2, <2>4 DEF SendInv, Covered
  <1>8. CASE Mark(e)
    <2>1. /\ UNCHANGED <<work, sent>>
          /\ step[e] = "mark" /\ step' = [step EXCEPT ![e] = "return"]
          /\ held' = [held EXCEPT ![e] = {}]
          /\ \A m \in Match : match'[m] = IF m \in held[e] /\ match[m] = "pending"
                                          THEN "notified" ELSE match[m]
          /\ work[e].st = "active"
      BY <1>8 DEF Mark, Busy, history
    <2>2. ASSUME NEW d \in EmailId
          PROVE /\ step'[d] \in {"idle", "read", "send", "mark", "return"}
                /\ step'[d] \in {"send", "mark"} => held'[d] \subseteq body'[d]
                /\ \A m \in body'[d] :
                      /\ match'[m] # "none"
                      /\ step'[d] \in {"send", "mark"} /\ m \notin held'[d] =>
                            match'[m] # "pending"
                      /\ step'[d] = "return" => match'[m] # "pending"
      BY <1>1, <2>1 DEF SendInv, Bodies
    <2>3. Bodies'
      BY <2>2 DEF Bodies
    <2>4. ASSUME NEW m \in Match PROVE Unsent(m)' \subseteq Unsent(m)
      BY <1>1, <2>1 DEF Unsent, MaySend
    <2>5. ASSUME NEW m \in Match
          PROVE sent'[m] + Cardinality(Unsent(m)') <= offered'[m] + lost'
      BY <1>5, <2>1, <2>4, CoversOn DEF SendInv
    <2> QED
      BY <1>3, <2>3, <2>5 DEF SendInv, Covered
  <1> QED
    BY <1>6, <1>7, <1>8 DEF EmailStep

\* A digest that is queued is one more email for each match in it, and for no other.
LEMMA AddingSends == ASSUME Typed, SendInv, AddDigests PROVE SendInv'
  <1> USE Ids DEF Typed, TableType, QueueInv, QueueType
  <1> DEFINE new == {d \in digest : work[d.id].st = "absent"}
  <1>1. /\ UNCHANGED <<match, step, held, sent, lost>> /\ digest' = {}
        /\ offered' \in [Match -> Nat]
    BY DEF AddDigests
  <1>2. /\ \A d \in new : d.id \in EmailId /\ d.id \in Work /\ d.body \in SUBSET Match
        /\ \A c, d \in new : c.id = d.id => c = d
    BY DEF SendInv, Collected
  <1>3. ASSUME NEW d \in new
        PROVE /\ work'[d.id].st = "waiting" /\ body'[d.id] = d.body /\ step[d.id] = "idle"
              /\ \A m \in d.body : match[m] # "none" /\ offered'[m] = offered[m] + 1
    <2>1. work'[d.id] = Waiting
      BY <1>2 DEF AddDigests
    <2>2. (CHOOSE c \in new : c.id = d.id) = d
      BY <1>2
    <2>3. body'[d.id] = (CHOOSE c \in new : c.id = d.id).body
      BY <1>2 DEF AddDigests
    <2>4. \A m \in d.body : match[m] # "none" /\ offered'[m] = offered[m] + 1
      BY <1>2 DEF AddDigests, SendInv, Collected
    <2>5. step[d.id] = "idle"
      BY <1>2 DEF Busy
    <2>6. work'[d.id].st = "waiting"
      BY <2>1 DEF Waiting
    <2>7. body'[d.id] = d.body
      BY <2>2, <2>3, Zenon
    <2> HIDE DEF Typed, TableType, QueueInv, QueueType
    <2> QED
      BY <2>4, <2>5, <2>6, <2>7
  <1>4. ASSUME NEW e \in EmailId, \A d \in new : d.id # e
        PROVE work'[e] = work[e] /\ body'[e] = body[e]
    BY <1>4 DEF AddDigests
  <1>5. \A m \in Match : offered'[m] \in Nat /\ offered'[m] >= offered[m]
    BY DEF AddDigests
  <1> HIDE DEF new
  <1>6. ASSUME NEW e \in EmailId
        PROVE /\ step'[e] \in {"idle", "read", "send", "mark", "return"}
              /\ step'[e] \in {"send", "mark"} => held'[e] \subseteq body'[e]
              /\ \A m \in body'[e] :
                    /\ match'[m] # "none"
                    /\ step'[e] \in {"send", "mark"} /\ m \notin held'[e] =>
                          match'[m] # "pending"
                    /\ step'[e] = "return" => match'[m] # "pending"
    <2>1. CASE \A d \in new : d.id # e
      BY <1>1, <1>4, <2>1 DEF SendInv, Bodies
    <2>2. ASSUME NEW d \in new, d.id = e
          PROVE /\ step'[e] = "idle" /\ body'[e] = d.body
                /\ \A m \in d.body : match'[m] # "none"
      BY <1>1, <1>3, <2>2
    <2> QED
      BY <2>1, <2>2
  <1>7. ASSUME NEW m \in Match
        PROVE sent'[m] + Cardinality(Unsent(m)') <= offered'[m] + lost'
    <2>1. ASSUME NEW e \in EmailId, MaySend(e, m)'
          PROVE MaySend(e, m) \/ \E d \in new : d.id = e /\ m \in d.body
      <3>1. CASE \A d \in new : d.id # e
        BY <1>1, <1>4, <2>1, <3>1 DEF MaySend
      <3>2. ASSUME NEW d \in new, d.id = e PROVE m \in d.body
        BY <1>1, <1>3, <2>1, <3>2 DEF MaySend
      <3> QED
        BY <3>1, <3>2
    <2>2. lost' \in Nat /\ lost' >= lost
      BY <1>1
    <2>3. CASE \A d \in new : m \notin d.body
      <3>1. Unsent(m)' \subseteq Unsent(m)
        BY <2>1, <2>3 DEF Unsent
      <3> QED
        BY <1>1, <1>5, <2>2, <3>1, CoversOn DEF SendInv
    <2>4. ASSUME NEW d \in new, m \in d.body
          PROVE sent'[m] + Cardinality(Unsent(m)') <= offered'[m] + lost'
      <3>1. \A c \in new : m \in c.body => c = d
        BY <2>4 DEF new, SendInv, Collected
      <3>2. Unsent(m)' \subseteq Unsent(m) \cup {d.id}
        BY <2>1, <3>1 DEF Unsent
      <3>3. offered'[m] + lost' > offered[m] + lost
        BY <1>1, <1>3, <2>4
      <3>4. d.id \in EmailId
        BY <1>2
      <3> QED
        BY <1>1, <1>5, <2>2, <3>2, <3>3, <3>4, CoversOn DEF SendInv
    <2> QED
      BY <2>3, <2>4
  <1>8. Collected'
    BY <1>1 DEF Collected
  <1> QED
    BY <1>6, <1>7, <1>8 DEF SendInv, Covered, Bodies

\* Each alert's digest is collected from its own pending matches.
LEMMA CollectingSends ==
  ASSUME Typed, SendInv, NEW f \in Frequency \ {"IMMEDIATE"}, CollectDigests(f)
  PROVE SendInv'
  <1>1. UNCHANGED <<match, work, step, held, body, sent, offered, lost>>
    BY DEF CollectDigests, queue, history
  <1>2. \A e \in EmailId : Quiet(e)
    BY <1>1 DEF Quiet
  <1>3. \A m \in Match : Onward(m)
    BY <1>1 DEF Onward
  <1>4. \A d \in digest' : \E a \in Alert :
          d = [id |-> <<a, f, PeriodOf(f, day)>>, body |-> PendingIn({a} \X Job)]
    BY Zenon DEF CollectDigests
  <1>5. ASSUME NEW d \in digest', NEW c \in digest', c.id[1] = d.id[1] PROVE c = d
    <2>1. PICK a \in Alert :
            d = [id |-> <<a, f, PeriodOf(f, day)>>, body |-> PendingIn({a} \X Job)]
      BY <1>4
    <2>2. PICK b \in Alert :
            c = [id |-> <<b, f, PeriodOf(f, day)>>, body |-> PendingIn({b} \X Job)]
      BY <1>4
    <2>3. a = b
      BY <1>5, <2>1, <2>2
    <2> QED
      BY <2>1, <2>2, <2>3
  <1>6. ASSUME NEW d \in digest', NEW m \in d.body PROVE m[1] = d.id[1] /\ match'[m] # "none"
    <2>1. PICK a \in Alert :
            d = [id |-> <<a, f, PeriodOf(f, day)>>, body |-> PendingIn({a} \X Job)]
      BY <1>4
    <2>2. m \in {a} \X Job /\ match[m] = "pending"
      BY <1>6, <2>1 DEF PendingIn
    <2> QED
      BY <1>1, <2>1, <2>2
  <1> QED
    BY <1>1, <1>2, <1>3, <1>5, <1>6, QuietSends DEF SendInv, Collected

\* A failure after the provider took the email gives the worker it once more, and is
\* counted as lost; any other gives it nothing it did not have.
LEMMA FaultSends ==
  ASSUME Typed, SendInv, NEW w \in Work, Fail(w) \/ Stall(w)
  PROVE SendInv'
  <1> USE Ids DEF Typed, TableType, QueueInv, QueueType
  <1>1. /\ UNCHANGED <<match, body, digest, sent, offered>>
        /\ \A v \in Work : v # w => work'[v] = work[v] /\ step'[v] = step[v] /\ held'[v] = held[v]
        /\ step'[w] = "idle" /\ work[w].st = "active"
        /\ lost' = IF step[w] = "mark" THEN lost + 1 ELSE lost
    BY DEF Fail, Stall, Clear, Lose
  <1>2. \A m \in Match : Onward(m)
    BY <1>1 DEF Onward
  <1>3. Collected'
    BY <1>1, <1>2, CollectedStays DEF SendInv
  <1>4. ASSUME NEW e \in EmailId, e # w PROVE Quiet(e)
    BY <1>1, <1>4 DEF Quiet
  <1>5. /\ offered' \in [Match -> Nat] /\ lost' \in Nat /\ lost' >= lost
        /\ \A m \in Match : offered'[m] >= offered[m]
    BY <1>1
  <1>6. Bodies'
    BY <1>1 DEF SendInv, Bodies
  <1>7. ASSUME NEW m \in Match
        PROVE sent'[m] + Cardinality(Unsent(m)') <= offered'[m] + lost'
    <2>1. ASSUME NEW e \in EmailId, MaySend(e, m)'
          PROVE MaySend(e, m) \/ (e = w /\ step[w] = "mark")
      <3>1. CASE e # w
        BY <1>1, <2>1, <3>1 DEF MaySend
      <3>2. CASE e = w
        <4>1. m \in body[e] /\ match[m] = "pending"
          BY <1>1, <2>1, <3>2 DEF MaySend
        <4>2. step[e] # "idle" /\ body[e] \in SUBSET Match
          BY <1>1, <3>2 DEF Busy
        <4> QED
          BY <3>2, <4>1, <4>2 DEF SendInv, Bodies, MaySend
      <3> QED
        BY <3>1, <3>2
    <2>2. CASE w \in EmailId /\ step[w] = "mark"
      <3>1. Unsent(m)' \subseteq Unsent(m) \cup {w}
        BY <2>1 DEF Unsent
      <3>2. offered'[m] + lost' > offered[m] + lost
        BY <1>1, <2>2
      <3> QED
        BY <1>1, <1>5, <2>2, <3>1, <3>2, CoversOn DEF SendInv
    <2>3. CASE ~(w \in EmailId /\ step[w] = "mark")
      <3>1. Unsent(m)' \subseteq Unsent(m)
        BY <2>1, <2>3 DEF Unsent
      <3> QED
        BY <1>1, <1>5, <3>1, CoversOn DEF SendInv
    <2> QED
      BY <2>2, <2>3
  <1> QED
    BY <1>3, <1>6, <1>7 DEF SendInv, Covered

\* SendInv is inductive.
LEMMA SendStep == Typed /\ OfferInv /\ SendInv /\ [Next]_vars => SendInv'
  <1> SUFFICES ASSUME Typed, OfferInv, SendInv, [Next]_vars PROVE SendInv'
    OBVIOUS
  <1> USE Ids
  <1>1. ASSUME UNCHANGED <<sent, offered, lost>>, digest' \subseteq digest,
               \A e \in EmailId : Quiet(e), \A m \in Match : Onward(m)
        PROVE SendInv'
    BY <1>1, QuietSends, CollectedStays DEF SendInv
  <1>2. ASSUME UNCHANGED <<sent, offered, lost, digest, match, body, step, held>>,
               \A e \in EmailId : work'[e] = work[e]
        PROVE SendInv'
    <2>1. \A e \in EmailId : Quiet(e)
      BY <1>2 DEF Quiet
    <2>2. \A m \in Match : Onward(m)
      BY <1>2 DEF Onward
    <2> QED
      BY <1>1, <1>2, <2>1, <2>2
  <1>3. ASSUME NEW a \in Alert, User(a) PROVE SendInv'
    <2>1. /\ UNCHANGED <<work, body, step, held, digest, sent, offered, lost>>
          /\ \A m \in Match : match'[m] = match[m] \/ (match[m] # "none" /\ match'[m] = "gone")
      BY <1>3 DEF User, Create, Pause, Resume, Reactivate, SetFrequency, Remove, Edit, queue,
         history, Typed, TableType
    <2>2. \A e \in EmailId : Quiet(e)
      BY <2>1 DEF Quiet
    <2>3. \A m \in Match : Onward(m)
      BY <2>1 DEF Onward
    <2> QED
      BY <1>1, <2>1, <2>2, <2>3
  <1>4. ASSUME NEW j \in Job, NEW L \in SUBSET Alert, Discover(j, L) PROVE SendInv'
    BY <1>2, <1>4 DEF Discover, queue, history
  <1>5. ASSUME NEW t \in Task, Enqueue(t) PROVE SendInv'
    BY <1>2, <1>5 DEF Enqueue, history, Typed, QueueInv, QueueType
  <1>6. ASSUME NEW w \in Work, Evict(w) PROVE SendInv'
    <2>1. /\ UNCHANGED <<match, step, held, digest, sent, offered, lost>>
          /\ \A v \in Work : v # w => work'[v] = work[v]
          /\ \A e \in EmailId : body'[e] = IF e = w THEN {} ELSE body[e]
          /\ work'[w].st = "absent" /\ step[w] = "idle"
      BY <1>6 DEF Evict, Forget, Absent, history, Typed, TableType, QueueInv, QueueType, Busy
    <2>2. \A e \in EmailId : Quiet(e)
      BY <2>1 DEF Quiet
    <2>3. \A m \in Match : Onward(m)
      BY <2>1 DEF Onward
    <2> QED
      BY <1>1, <2>1, <2>2, <2>3
  <1>7. CASE NewDay
    <2> DEFINE tomorrow == (day + 1) % Days
               fresh == {e \in DigestId : /\ e[3] = PeriodOf(e[2], tomorrow)
                                          /\ e[2] = "WEEKLY" => tomorrow % Week = 0}
    <2>1. /\ UNCHANGED <<match, step, held, digest, sent, offered, lost>>
          /\ \A e \in fresh : work[e].st \notin {"waiting", "active"}
          /\ work' = [w \in Work |-> IF w \in fresh THEN Absent ELSE work[w]]
          /\ body' = [e \in EmailId |-> IF e \in fresh THEN {} ELSE body[e]]
      BY <1>7 DEF NewDay
    <2> HIDE DEF fresh
    <2>2. ASSUME NEW e \in EmailId PROVE Quiet(e)
      <3>1. CASE e \in fresh
        <4>1. work'[e] = Absent /\ body'[e] = {} /\ step'[e] = "idle"
          BY <2>1, <3>1 DEF Typed, QueueInv, Busy
        <4> QED
          BY <4>1 DEF Quiet, Absent
      <3>2. CASE e \notin fresh
        BY <2>1, <3>2 DEF Quiet
      <3> QED
        BY <3>1, <3>2
    <2>3. \A m \in Match : Onward(m)
      BY <2>1 DEF Onward
    <2> QED
      BY <1>1, <2>1, <2>2, <2>3
  <1>8. CASE LoseDigests
    <2>1. /\ UNCHANGED <<match, work, body, step, held, sent, offered, lost>>
          /\ digest' \subseteq digest
      BY <1>8 DEF LoseDigests, queue, history
    <2>2. \A e \in EmailId : Quiet(e)
      BY <2>1 DEF Quiet
    <2>3. \A m \in Match : Onward(m)
      BY <2>1 DEF Onward
    <2> QED
      BY <1>1, <2>1, <2>2, <2>3
  <1>9. CASE UNCHANGED vars
    BY <1>2, <1>9 DEF vars, queue, history
  <1> QED
    BY <1>3, <1>4, <1>5, <1>6, <1>7, <1>8, <1>9, TaskSends, EmailSends, FaultSends,
       AddingSends, CollectingSends
    DEF Next, Digests

\* A match is sent at most once for each email that was queued with it, but for the emails
\* that were accepted and whose matches were then not marked.
THEOREM SentForAnOffer == Spec => []SentOncePerOffer
  <1>1. Init => OfferInv
    BY Ids DEF Init, OfferInv, Accounts
  <1>2. Init => SendInv
    <2> SUFFICES ASSUME Init PROVE SendInv
      OBVIOUS
    <2>1. \A m \in Match : Unsent(m) = {}
      BY Ids DEF Init, Unsent, MaySend
    <2>2. \A m \in Match : Cardinality(Unsent(m)) = 0
      BY <2>1, FS_EmptySet, Zenon
    <2>3. Covered
      BY <2>2 DEF Init, Covered
    <2>4. Bodies /\ Collected
      BY Ids DEF Init, Bodies, Collected
    <2> QED
      BY <2>3, <2>4 DEF SendInv
  <1>3. DeliveryInv => Typed
    BY TypedSplits DEF DeliveryInv
  <1>4. DeliveryInv /\ OfferInv /\ SendInv /\ [Next]_vars => OfferInv' /\ SendInv'
    BY <1>3, OfferStep, SendStep
  <1>5. DeliveryInv /\ SendInv => SentOncePerOffer
    <2> SUFFICES ASSUME Typed, SendInv, NEW m \in Match PROVE sent[m] <= offered[m] + lost
      BY <1>3 DEF SentOncePerOffer
    <2>1. Cardinality(Unsent(m)) \in Nat
      BY EmailsAreFinite DEF Unsent
    <2>2. sent[m] + Cardinality(Unsent(m)) <= offered[m] + lost
      BY DEF SendInv, Covered
    <2>3. sent[m] \in Nat /\ offered[m] \in Nat /\ lost \in Nat
      BY DEF Typed, TableType
    <2> QED
      BY <2>1, <2>2, <2>3
  <1> QED
    BY <1>1, <1>2, <1>4, <1>5, DeliveryInvariant, PTL DEF Spec

---------------------------------------------------------------------------
(* One digest a day.                                                       *)

\* The count of removeOnComplete is not reached: no completed email goes before its day
\* of retention is over.
Retained == Cardinality(Completed(EmailId)) <= Keep

\* Days of the period of a digest, and those of them that are over.
DaysOf(e) == IF e[2] = "WEEKLY" THEN Week ELSE 1
DaysBefore(e) == IF e[2] = "WEEKLY" THEN day % Week ELSE 0

\* No digest is queued more often than its period has days.
OnceADay == \A e \in DigestId : digested[e] <= DaysOf(e)

\* A digest of this period was queued at most once on each day so far, the queue has it
\* still if that includes today, and what is about to be added is of this period.
DayInv ==
    /\ OnceADay
    /\ \A e \in DigestId : e[3] = PeriodOf(e[2], day) =>
          /\ digested[e] <= DaysBefore(e) + 1
          /\ digested[e] = DaysBefore(e) + 1 => e \notin old /\ work[e].st # "absent"
    /\ \A d \in digest : d.id[3] = PeriodOf(d.id[2], day)
    /\ \A w \in old : work[w].st = "completed"

\* The day after one that does not end its week is in the same week.
LEMMA SameWeek ==
  ASSUME NEW d \in Nat, NEW n \in Nat \ {0}, (d + 1) % n # 0
  PROVE /\ (d + 1) \div n = d \div n
        /\ (d + 1) % n = (d % n) + 1
        /\ (d % n) + 1 < n
  <1>1. (d + 1) \div n = d \div n
    BY SMT
  <1>2. d = n * (d \div n) + (d % n) /\ d + 1 = n * ((d + 1) \div n) + ((d + 1) % n)
    BY SMT
  <1>3. d % n \in Nat /\ (d + 1) % n \in 0 .. n - 1
    BY SMT
  <1>4. d \div n \in Nat
    BY SMT
  <1>5. n * (d \div n) \in Nat
    BY <1>4
  <1>6. \A a, r, s \in Nat : d = a + r /\ d + 1 = a + s => s = r + 1
    BY SMT
  <1>7. (d + 1) % n = (d % n) + 1
    BY <1>1, <1>2, <1>3, <1>5, <1>6
  <1> QED
    BY <1>1, <1>3, <1>7

\* The days over are fewer than those of the period.
LEMMA DayTypes ==
  ASSUME Typed, NEW e \in DigestId
  PROVE /\ DaysBefore(e) \in Nat /\ DaysOf(e) \in Nat
        /\ DaysBefore(e) + 1 <= DaysOf(e)
        /\ digested[e] \in Nat
  <1>1. day \in Nat /\ Week \in Nat /\ Week > 0
    BY BoundAssumption DEF Typed, TableType, Period
  <1>2. day % Week \in 0 .. Week - 1
    BY <1>1, SMT
  <1>3. digested[e] \in Nat
    BY DEF Typed, TableType
  <1> QED
    BY <1>1, <1>2, <1>3 DEF DaysBefore, DaysOf

\* A worker changes no completed record, and only a task's record can vanish under it.
LEMMA WorkerRecords ==
  ASSUME Typed,
         \/ \E t \in Task : Enqueue(t) \/ TaskStep(t)
         \/ \E e \in EmailId : EmailStep(e)
         \/ \E w \in Work : Fail(w) \/ Stall(w),
         NEW w \in Work
  PROVE /\ work[w].st = "completed" => work'[w] = work[w]
        /\ w \in EmailId /\ work[w].st # "absent" => work'[w].st # "absent"
  <1> DEFINE Kept == /\ work[w].st = "completed" => work'[w] = work[w]
                     /\ w \in EmailId /\ work[w].st # "absent" => work'[w].st # "absent"
             Runs(v) == work[v].st \in {"waiting", "active"}
  <1> USE Ids DEF Typed, QueueInv, QueueType
  <1>1. \A v \in Work : step[v] # "idle" => Runs(v)
    BY DEF Busy
  <1>2. ASSUME NEW v \in Work, Runs(v), Complete(v) PROVE Kept
    BY <1>2 DEF Complete, Finished
  <1>3. ASSUME NEW v \in Work, Runs(v), NEW s, NEW S, Proceed(v, s, S) PROVE Kept
    BY <1>3 DEF Proceed, WorkRecord
  <1>4. \A r : Retry(r).st # "absent" /\ Recover(r).st # "absent"
    BY DEF Retry, Recover
  <1>5. ASSUME NEW v \in Work, Runs(v),
               \/ work' = [work EXCEPT ![v] = Retry(@)]
               \/ work' = [work EXCEPT ![v] = Recover(@)]
        PROVE Kept
    BY <1>4, <1>5
  <1>6. ASSUME UNCHANGED work PROVE Kept
    BY <1>6
  <1>7. ASSUME NEW t \in Task, Enqueue(t) \/ AddEmails(t) PROVE Kept
    BY <1>7 DEF Enqueue, AddEmails, Waiting
  <1> HIDE DEF Kept, Typed, QueueInv, QueueType
  <1>8. ASSUME NEW t \in Task, TaskStep(t) PROVE Kept
    <2> HIDE DEF Runs
    <2>1. CASE FindAlerts(t)
      <3>1. Runs(t)
        BY <2>1 DEF FindAlerts, Take, Runs
      <3> QED
        BY <1>2, <1>3, <2>1, <3>1 DEF FindAlerts
    <2>2. CASE InsertMatches(t) \/ CountMatches(t) \/ PickImmediate(t) \/ Return(t)
      BY <1>1, <1>2, <1>3, <2>2 DEF InsertMatches, Inserted, CountMatches, PickImmediate, Return
    <2>3. CASE InsertRejected(t)
      BY <1>1, <1>5, <2>3 DEF InsertRejected
    <2> QED
      BY <1>7, <1>8, <2>1, <2>2, <2>3 DEF TaskStep
  <1>9. ASSUME NEW e \in EmailId, EmailStep(e) PROVE Kept
    <2> HIDE DEF Runs
    <2>1. CASE LoadAlert(e)
      <3>1. Runs(e)
        BY <2>1 DEF LoadAlert, Take, Runs
      <3> QED
        BY <1>2, <1>3, <2>1, <3>1 DEF LoadAlert
    <2>2. CASE ReadMatches(e) \/ Return(e)
      BY <1>1, <1>2, <1>3, <2>2 DEF ReadMatches, Return
    <2>3. CASE Send(e) \/ Mark(e)
      BY <1>6, <2>3 DEF Send, Mark
    <2> QED
      BY <1>9, <2>1, <2>2, <2>3 DEF EmailStep
  <1>10. ASSUME NEW v \in Work, Fail(v) \/ Stall(v) PROVE Kept
    BY <1>5, <1>10 DEF Fail, Stall
  <1> QED
    BY <1>7, <1>8, <1>9, <1>10 DEF Kept

\* An action that queues no digest and leaves the day alone, and removes no record but an
\* old one.
LEMMA KeepsDay ==
  ASSUME Typed, DayInv, UNCHANGED <<day, digested>>, old' \subseteq old,
         digest' \subseteq digest,
         \A w \in old' : work[w].st = "completed" => work'[w].st = "completed",
         \A e \in DigestId : e \notin old /\ work[e].st # "absent" => work'[e].st # "absent"
  PROVE DayInv'
  BY DEF DayInv, OnceADay, DaysOf, DaysBefore, PeriodOf

\* So workers leave the digests of today alone.
LEMMA WorkerDay ==
  ASSUME Typed, DayInv,
         \/ \E t \in Task : Enqueue(t) \/ TaskStep(t)
         \/ \E e \in EmailId : EmailStep(e)
         \/ \E w \in Work : Fail(w) \/ Stall(w)
  PROVE DayInv'
  <1>1. UNCHANGED <<day, digested, old, digest>>
    BY DEF Enqueue, TaskStep, FindAlerts, InsertMatches, Inserted, InsertRejected,
       CountMatches, PickImmediate, AddEmails, Return, EmailStep, LoadAlert, ReadMatches,
       Send, Mark, Fail, Stall, history
  <1>2. old \subseteq Work
    BY DEF Typed, TableType
  <1>3. \A w \in old : work[w].st = "completed" => work'[w].st = "completed"
    BY <1>2, WorkerRecords
  <1>4. \A e \in DigestId : work[e].st # "absent" => work'[e].st # "absent"
    BY Ids, WorkerRecords
  <1> QED
    BY <1>1, <1>3, <1>4, KeepsDay

\* Below the limit only the old records go.
LEMMA EvictDay == ASSUME Typed, DayInv, Retained, NEW w \in Work, Evict(w) PROVE DayInv'
  <1>1. UNCHANGED <<day, digested, digest>> /\ old' = old \ {w}
    BY DEF Evict, Forget, history
  <1>2. \A v \in Work : v # w => work'[v] = work[v]
    BY DEF Evict, Forget, Typed, QueueInv, QueueType
  <1>3. old \subseteq Work
    BY DEF Typed, TableType
  <1>4. ASSUME w \in EmailId PROVE w \in old
    <2> DEFINE n == Cardinality(Completed(EmailId))
    <2>1. n \in Nat /\ n <= Keep /\ Keep \in Nat
      BY EmailsAreFinite, BoundAssumption DEF Completed, Retained
    <2>2. \A kind \in {Task, EmailId} : w \in kind => kind = EmailId
      BY <1>4, Ids
    <2>3. w \in old \/ n > Keep
      BY <2>2 DEF Evict
    <2> HIDE DEF n
    <2> QED
      BY <2>1, <2>3
  <1> QED
    BY <1>1, <1>2, <1>3, <1>4, Ids, KeepsDay

\* A digest is queued only if the queue has none of its id, so only once on a day.
LEMMA AddDay == ASSUME Typed, DayInv, AddDigests PROVE DayInv'
  <1> DEFINE new == {d \in digest : work[d.id].st = "absent"}
             queues(e) == \E d \in new : d.id = e
  <1>1. UNCHANGED <<day, old>> /\ digest' = {}
    BY DEF AddDigests
  <1>2. /\ \A e \in DigestId : digested'[e] = IF queues(e) THEN digested[e] + 1 ELSE digested[e]
        /\ \A w \in Work : work'[w] = IF queues(w) THEN Waiting ELSE work[w]
    BY Ids DEF AddDigests
  <1>3. \A w : queues(w) => work[w].st = "absent"
    OBVIOUS
  <1>4. \A e \in DigestId : queues(e) => e[3] = PeriodOf(e[2], day)
    BY DEF DayInv
  <1> HIDE DEF new, queues
  <1>5. \A w \in old' : work'[w].st = "completed"
    BY <1>1, <1>2, <1>3 DEF DayInv, Typed, TableType
  <1>6. ASSUME NEW e \in DigestId
        PROVE /\ digested'[e] <= DaysOf(e)
              /\ e[3] = PeriodOf(e[2], day) =>
                    /\ digested'[e] <= DaysBefore(e) + 1
                    /\ digested'[e] = DaysBefore(e) + 1 =>
                          e \notin old /\ work'[e].st # "absent"
    <2>1. /\ DaysBefore(e) \in Nat /\ DaysOf(e) \in Nat
          /\ DaysBefore(e) + 1 <= DaysOf(e) /\ digested[e] \in Nat
      BY DayTypes
    <2>2. CASE queues(e)
      <3>1. e[3] = PeriodOf(e[2], day) /\ work[e].st = "absent" /\ e \notin old
        BY <1>3, <1>4, <2>2 DEF DayInv
      <3>2. digested[e] # DaysBefore(e) + 1 /\ digested[e] <= DaysBefore(e) + 1
        BY <3>1 DEF DayInv
      <3>3. digested'[e] = digested[e] + 1 /\ work'[e] = Waiting
        BY <1>2, <2>2, Ids
      <3> QED
        BY <2>1, <3>1, <3>2, <3>3 DEF Waiting
    <2>3. CASE ~queues(e)
      <3>1. digested'[e] = digested[e] /\ work'[e] = work[e]
        BY <1>2, <2>3, Ids
      <3> QED
        BY <3>1 DEF DayInv, OnceADay
    <2> QED
      BY <2>2, <2>3
  <1>7. \A e : DaysBefore(e)' = DaysBefore(e) /\ PeriodOf(e[2], day)' = PeriodOf(e[2], day)
    BY <1>1 DEF DaysBefore, PeriodOf
  <1> QED
    BY <1>1, <1>5, <1>6, <1>7 DEF DayInv, OnceADay

\* At midnight the ids of a new period are fresh, a day of the others is over, and
\* nothing is about to be queued.
LEMMA NextDay == ASSUME Typed, DayInv, NewDay PROVE DayInv'
  <1> DEFINE tomorrow == (day + 1) % Days
             fresh == {e \in DigestId : /\ e[3] = PeriodOf(e[2], tomorrow)
                                        /\ e[2] = "WEEKLY" => tomorrow % Week = 0}
  <1>1. /\ day' = tomorrow /\ digest' = {}
        /\ digested' = [e \in DigestId |-> IF e \in fresh THEN 0 ELSE digested[e]]
        /\ work' = [w \in Work |-> IF w \in fresh THEN Absent ELSE work[w]]
        /\ old' = Completed(Work) \ fresh
    BY DEF NewDay
  <1>2. day \in Nat /\ day < Days /\ Days \in Nat \ {0} /\ Week \in Nat \ {0}
    BY BoundAssumption DEF Typed, TableType, Period
  <1>3. ASSUME tomorrow % Week # 0
        PROVE /\ tomorrow \div Week = day \div Week
              /\ tomorrow % Week = (day % Week) + 1
    <2>1. tomorrow # 0
      <3>1. 0 % Week = 0
        BY <1>2, SMT
      <3> QED
        BY <1>3, <3>1
    <2>2. tomorrow = (day % Days) + 1
      BY <1>2, <2>1, SameWeek
    <2>3. day % Days = day
      BY <1>2, SMT
    <2>4. tomorrow = day + 1
      BY <2>2, <2>3
    <2> HIDE DEF tomorrow
    <2> QED
      BY <1>2, <1>3, <2>4, SameWeek
  <1>4. ASSUME NEW e \in DigestId, e[3] = PeriodOf(e[2], tomorrow), e \notin fresh
        PROVE /\ e[2] = "WEEKLY" /\ tomorrow % Week # 0
              /\ e[3] = PeriodOf(e[2], day)
    BY <1>3, <1>4 DEF PeriodOf
  <1> HIDE DEF fresh, tomorrow
  <1>5. \A w \in old' : work'[w].st = "completed"
    BY <1>1 DEF Completed
  <1>6. ASSUME NEW e \in DigestId
        PROVE /\ digested'[e] <= DaysOf(e)
              /\ e[3] = PeriodOf(e[2], tomorrow) => digested'[e] < DaysBefore(e)' + 1
    <2>1. /\ DaysOf(e) \in Nat /\ DaysBefore(e) + 1 <= DaysOf(e) /\ DaysBefore(e) \in Nat
      BY DayTypes
    <2>2. DaysBefore(e)' \in Nat
      <3>1. tomorrow % Week \in Nat
        <4>1. tomorrow \in Nat
          BY <1>2, SMT DEF tomorrow
        <4> QED
          BY <1>2, <4>1, SMT
      <3> QED
        BY <1>1, <3>1 DEF DaysBefore
    <2>3. CASE e \in fresh
      <3>1. digested'[e] = 0
        BY <1>1, <2>3
      <3> QED
        BY <2>1, <2>2, <3>1
    <2>4. CASE e \notin fresh
      <3>1. digested'[e] = digested[e] /\ digested[e] \in Nat
        BY <1>1, <2>4, DayTypes
      <3>2. digested[e] <= DaysOf(e)
        BY DEF DayInv, OnceADay
      <3>3. ASSUME e[3] = PeriodOf(e[2], tomorrow) PROVE digested[e] < DaysBefore(e)' + 1
        <4>1. digested[e] <= DaysBefore(e) + 1
          BY <1>4, <2>4, <3>3 DEF DayInv
        <4>2. DaysBefore(e)' = DaysBefore(e) + 1
          BY <1>1, <1>3, <1>4, <2>4, <3>3 DEF DaysBefore
        <4> QED
          BY <2>1, <3>1, <4>1, <4>2
      <3> QED
        BY <3>1, <3>2, <3>3
    <2> QED
      BY <2>3, <2>4
  <1>7. ASSUME NEW e \in DigestId, e[3] = PeriodOf(e[2], tomorrow)
        PROVE /\ digested'[e] <= DaysBefore(e)' + 1
              /\ digested'[e] # DaysBefore(e)' + 1
    <2>1. digested'[e] < DaysBefore(e)' + 1
      BY <1>6, <1>7
    <2>2. digested'[e] \in Nat
      BY <1>1, DayTypes
    <2>3. DaysBefore(e)' \in Int
      <3>1. tomorrow \in Nat
        BY <1>2, SMT DEF tomorrow
      <3>2. tomorrow % Week \in Int
        BY <1>2, <3>1, SMT
      <3> QED
        BY <1>1, <3>2 DEF DaysBefore
    <2> QED
      BY <2>1, <2>2, <2>3
  <1>8. \A e : PeriodOf(e[2], day)' = PeriodOf(e[2], tomorrow) /\ DaysOf(e)' = DaysOf(e)
    BY <1>1 DEF PeriodOf, DaysOf
  <1> QED
    BY <1>1, <1>5, <1>6, <1>7, <1>8 DEF DayInv, OnceADay

\* DayInv is inductive while the count is not reached.
LEMMA DayStep == Typed /\ DayInv /\ Retained /\ [Next]_vars => DayInv'
  <1> SUFFICES ASSUME Typed, DayInv, Retained, [Next]_vars PROVE DayInv'
    OBVIOUS
  <1>1. ASSUME UNCHANGED <<day, digested, old, work>>, digest' \subseteq digest PROVE DayInv'
    BY <1>1, KeepsDay
  <1>2. ASSUME NEW a \in Alert, User(a) PROVE DayInv'
    BY <1>1, <1>2 DEF User, Create, Pause, Resume, Reactivate, SetFrequency, Remove, Edit,
       queue, history
  <1>3. ASSUME NEW j \in Job, NEW L \in SUBSET Alert, Discover(j, L) PROVE DayInv'
    BY <1>1, <1>3 DEF Discover, queue, history
  <1>4. ASSUME NEW f \in Frequency \ {"IMMEDIATE"}, CollectDigests(f) PROVE DayInv'
    <2>1. UNCHANGED <<day, digested, old, work>>
      BY <1>4 DEF CollectDigests, queue, history
    <2>2. \A d \in digest' : \E a \in Alert :
            d = [id |-> <<a, f, PeriodOf(f, day)>>, body |-> PendingIn({a} \X Job)]
      BY <1>4, Zenon DEF CollectDigests
    <2>3. ASSUME NEW d \in digest' PROVE d.id[3] = PeriodOf(d.id[2], day)
      <3>1. PICK a \in Alert :
              d = [id |-> <<a, f, PeriodOf(f, day)>>, body |-> PendingIn({a} \X Job)]
        BY <2>2
      <3>2. d.id = <<a, f, PeriodOf(f, day)>>
        BY <3>1
      <3> QED
        BY <3>2
    <2> QED
      BY <2>1, <2>3 DEF DayInv, OnceADay, DaysOf, DaysBefore, PeriodOf
  <1>5. CASE LoseDigests
    BY <1>1, <1>5 DEF LoseDigests, queue, history
  <1>6. CASE UNCHANGED vars
    BY <1>1, <1>6 DEF vars, queue, history
  <1> QED
    BY <1>2, <1>3, <1>4, <1>5, <1>6, WorkerDay, EvictDay, AddDay, NextDay
    DEF Next, Digests

\* However often the digests are called for, and however the calls end, an alert's digest
\* is queued at most once on each day of its period, as long as fewer emails are completed
\* than the queue retains: the id of a weekly digest is forgotten after a day, that of a
\* daily one outlives its day.  The period of a daily alert is one day (DaysOf), so each
\* of its periods has one digest.
THEOREM DigestOnceADay == Spec /\ []Retained => []OnceADay
  <1>1. Init => DayInv
    <2> SUFFICES ASSUME Init PROVE DayInv
      OBVIOUS
    <2>1. Typed
      BY InitDeliveryInv, TypedSplits DEF DeliveryInv
    <2>2. \A e \in DigestId : digested[e] = 0
      BY DEF Init
    <2>3. \A e \in DigestId : digested[e] <= DaysOf(e) /\ digested[e] < DaysBefore(e) + 1
      BY <2>1, <2>2, DayTypes
    <2> QED
      BY <2>2, <2>3, <2>1, DayTypes DEF Init, DayInv, OnceADay
  <1>2. DeliveryInv => Typed
    BY TypedSplits DEF DeliveryInv
  <1>3. DeliveryInv /\ DayInv /\ Retained /\ [Next]_vars => DayInv'
    BY <1>2, DayStep
  <1>4. DayInv => OnceADay
    BY DEF DayInv
  <1> QED
    BY <1>1, <1>3, <1>4, DeliveryInvariant, PTL DEF Spec

---------------------------------------------------------------------------
(* AlertDelivery implements MatchLedger.                                   *)

\* A step that moves neither a match nor a send is a stutter of the ledger.
LEMMA LedgerStutter ==
  ASSUME UNCHANGED <<match, sent>> PROVE UNCHANGED Ledger!ledger
  BY DEF Ledger!ledger

\* Of the matching worker's steps only the insert is one of the ledger's: it records.
LEMMA TaskLedger ==
  ASSUME DeliveryInv, NEW t \in Task, TaskStep(t)
  PROVE [Ledger!LedgerNext]_Ledger!ledger
  <1>1. CASE InsertMatches(t)
    <2>1. held[t] \in SUBSET Match /\ UNCHANGED sent
      BY <1>1, Ids DEF InsertMatches, Inserted, history, DeliveryInv, TypeOK
    <2>2. Ledger!Record(held[t])
      BY <1>1, <2>1 DEF InsertMatches, Ledger!Record, Ledger!Move, Ledger!Match, Match
    <2> QED
      BY <2>1, <2>2 DEF Ledger!LedgerNext, Ledger!Match, Match
  <1>2. CASE ~InsertMatches(t)
    BY <1>2, LedgerStutter
    DEF TaskStep, FindAlerts, InsertRejected, CountMatches, PickImmediate, AddEmails,
        Return, history
  <1> QED
    BY <1>1, <1>2

\* Of the email worker's, the send delivers and the mark notifies.
LEMMA EmailLedger ==
  ASSUME DeliveryInv, NEW e \in EmailId, EmailStep(e)
  PROVE [Ledger!LedgerNext]_Ledger!ledger
  <1> USE Ids DEF DeliveryInv, TypeOK
  <1>1. held[e] \in SUBSET Match /\ held[e] \in SUBSET Ledger!Match
    BY DEF Ledger!Match, Match
  <1>2. CASE Send(e)
    <2>1. PICK S \in SUBSET Ledger!Match : S = held[e]
      BY <1>1
    <2>2. \A m \in S : match[m] # "none"
      BY <1>2, <2>1 DEF Send, Holds
    <2>3. {m \in Match : sent'[m] > 0} = {m \in Match : sent[m] > 0} \cup S
      BY <1>1, <1>2, <2>1 DEF Send
    <2>4. Ledger!Deliver(S)
      BY <1>2, <2>2, <2>3 DEF Send, Ledger!Deliver
    <2> QED
      BY <2>4 DEF Ledger!LedgerNext
  <1>3. CASE Mark(e)
    <2>1. held[e] \subseteq {m \in Match : sent[m] > 0} /\ UNCHANGED sent
      BY <1>1, <1>3 DEF Mark, Holds, history
    <2>2. Ledger!Notify(held[e])
      BY <1>3, <2>1 DEF Mark, Ledger!Notify, Ledger!Move, Ledger!Match, Match
    <2> QED
      BY <1>1, <2>2 DEF Ledger!LedgerNext, Ledger!Match, Match
  <1>4. CASE ~Send(e) /\ ~Mark(e)
    BY <1>4, LedgerStutter DEF EmailStep, LoadAlert, ReadMatches, Return, history
  <1> QED
    BY <1>2, <1>3, <1>4

\* A user's only step in the ledger is a deletion, which drops.
LEMMA UserLedger ==
  ASSUME DeliveryInv, NEW a \in Alert, User(a)
  PROVE [Ledger!LedgerNext]_Ledger!ledger
  <1>1. CASE Remove(a)
    <2>1. UNCHANGED sent
      BY <1>1 DEF Remove, Edit, history
    <2>2. match' = [m \in Match |->
                      IF m \in {a} \X Job /\ match[m] \in {"pending", "notified"}
                      THEN "gone" ELSE match[m]]
      BY <1>1 DEF Remove, DeliveryInv, TypeOK, Match
    <2>3. Ledger!Drop(a)
      BY <2>1, <2>2 DEF Ledger!Drop, Ledger!Move, Ledger!Match, Match
    <2> QED
      BY <2>3 DEF Ledger!LedgerNext
  <1>2. CASE ~Remove(a)
    BY <1>2, LedgerStutter
    DEF User, Create, Pause, Resume, Reactivate, SetFrequency, Edit, history
  <1> QED
    BY <1>1, <1>2

\* Every step is a step of the ledger or a stutter.
LEMMA LedgerStep == DeliveryInv /\ [Next]_vars => [Ledger!LedgerNext]_Ledger!ledger
  <1> SUFFICES ASSUME DeliveryInv, [Next]_vars
               PROVE [Ledger!LedgerNext]_Ledger!ledger
    OBVIOUS
  <1>1. ASSUME NEW j \in Job, NEW L \in SUBSET Alert, Discover(j, L)
        PROVE UNCHANGED <<match, sent>>
    BY <1>1 DEF Discover, history
  <1>2. ASSUME NEW t \in Task, Enqueue(t) PROVE UNCHANGED <<match, sent>>
    BY <1>2 DEF Enqueue, history
  <1>3. ASSUME NEW w \in Work, Fail(w) \/ Stall(w) \/ Evict(w)
        PROVE UNCHANGED <<match, sent>>
    BY <1>3 DEF Fail, Stall, Evict, Forget, history
  <1>4. CASE Digests
    BY <1>4, LedgerStutter DEF Digests, AddDigests, LoseDigests, CollectDigests, history
  <1>5. CASE NewDay
    BY <1>5, LedgerStutter DEF NewDay
  <1>6. CASE UNCHANGED vars
    BY <1>6, LedgerStutter DEF vars, history
  <1> QED
    BY <1>1, <1>2, <1>3, <1>4, <1>5, <1>6, LedgerStutter, UserLedger, TaskLedger,
       EmailLedger DEF Next

\* The pipeline keeps the promises of MatchLedger: recorded once, delivered before
\* it is marked, never unmarked, dropped only with its alert.
THEOREM ImplementsLedger == Spec => KeepsLedger
  <1>1. Init => Ledger!LedgerInit
    BY DEF Init, Ledger!LedgerInit, Ledger!Match, Match
  <1> QED
    BY <1>1, LedgerStep, DeliveryInvariant, PTL
    DEF Spec, KeepsLedger, Ledger!LedgerSpec

---------------------------------------------------------------------------
(* The queues of AlertDelivery implement TaskQueue.                        *)

Queue(K, slots) == INSTANCE TaskQueue WITH
    Id <- K,
    Slots <- slots,
    record <- [w \in K |-> work[w]]

\* The queue of which K are the ids, and its workers.
IsQueue(K, slots) == \/ K = Task /\ slots = TaskSlots
                     \/ K = EmailId /\ slots = EmailSlots

QueueMoves(K, slots) == Queue(K, slots)!QueueNext \/ UNCHANGED [w \in K |-> work[w]]

\* A step on one record is one of its queue, and leaves the other queue alone.
LEMMA OneRecord ==
  ASSUME NEW K, NEW slots, IsQueue(K, slots), Typed, NEW w \in Work, NEW r,
         work' = [work EXCEPT ![w] = r]
  PROVE IF w \in K THEN Queue(K, slots)!Put({w}, r) ELSE UNCHANGED [v \in K |-> work[v]]
  <1>1. K \subseteq Work /\ work \in [Work -> WorkRecord]
    BY Ids DEF IsQueue, Typed, QueueInv, QueueType
  <1>2. [v \in K |-> work'[v]] = [v \in K |-> IF v \in {w} THEN r ELSE [u \in K |-> work[u]][v]]
    BY <1>1
  <1>3. ASSUME w \notin K PROVE [v \in K |-> work'[v]] = [v \in K |-> work[v]]
    BY <1>1, <1>3
  <1> QED
    BY <1>2, <1>3 DEF Queue!Put

\* So is a step that gives one record to several.
LEMMA SomeRecords ==
  ASSUME NEW K, NEW slots, IsQueue(K, slots), NEW S, NEW r,
         work' = [w \in Work |-> IF w \in S THEN r ELSE work[w]]
  PROVE Queue(K, slots)!Put(S \cap K, r)
  <1>1. K \subseteq Work
    BY Ids DEF IsQueue
  <1>2. [v \in K |-> work'[v]] =
          [v \in K |-> IF v \in S \cap K THEN r ELSE [u \in K |-> work[u]][v]]
    BY <1>1
  <1> QED
    BY <1>2 DEF Queue!Put

\* The records of several ids that have none, or that nobody needs any more.
LEMMA AddOrForget ==
  ASSUME NEW K, NEW slots, IsQueue(K, slots), NEW S \in SUBSET Work,
         \/ /\ \A w \in S : work[w].st = "absent"
            /\ work' = [w \in Work |-> IF w \in S THEN Waiting ELSE work[w]]
         \/ /\ \A w \in S : work[w].st \notin {"waiting", "active"}
            /\ work' = [w \in Work |-> IF w \in S THEN Absent ELSE work[w]]
  PROVE QueueMoves(K, slots)
  <1>1. S \cap K \in SUBSET K
    OBVIOUS
  <1>2. CASE /\ \A w \in S : work[w].st = "absent"
             /\ work' = [w \in Work |-> IF w \in S THEN Waiting ELSE work[w]]
    <2>1. Queue(K, slots)!Put(S \cap K, Waiting)
      BY <1>2, SomeRecords
    <2>2. Queue(K, slots)!Add(S \cap K)
      BY <1>2, <2>1 DEF Queue!Add, Queue!In, Queue!Waiting, Waiting
    <2> QED
      BY <1>1, <2>2 DEF QueueMoves, Queue!QueueNext
  <1>3. CASE /\ \A w \in S : work[w].st \notin {"waiting", "active"}
             /\ work' = [w \in Work |-> IF w \in S THEN Absent ELSE work[w]]
    <2>1. Queue(K, slots)!Put(S \cap K, Absent)
      BY <1>3, SomeRecords
    <2>2. Queue(K, slots)!Forget(S \cap K)
      BY <1>3, <2>1 DEF Queue!Forget, Queue!In, Queue!Absent, Absent
    <2> QED
      BY <1>1, <2>2 DEF QueueMoves, Queue!QueueNext
  <1> QED
    BY <1>2, <1>3

\* A worker lets its work go, completed or to be tried again.
LEMMA LetsGo ==
  ASSUME NEW K, NEW slots, IsQueue(K, slots), Typed, NEW w \in Work, work[w].st = "active",
         \/ Complete(w)
         \/ work' = [work EXCEPT ![w] = Retry(@)]
         \/ work' = [work EXCEPT ![w] = Recover(@)]
  PROVE QueueMoves(K, slots)
  <1>1. PICK r : /\ work' = [work EXCEPT ![w] = r]
                 /\ r \in {Absent, Finished, Retry(work[w]), Recover(work[w])}
    BY DEF Complete, Typed, QueueInv, QueueType
  <1>2. CASE w \notin K
    BY <1>1, <1>2, OneRecord DEF QueueMoves
  <1>3. CASE w \in K
    <2>1. Queue(K, slots)!Put({w}, r)
      BY <1>1, <1>3, OneRecord
    <2>2. Queue(K, slots)!In(w, {"active"})
      BY <1>3 DEF Queue!In
    <2>3. [v \in K |-> work[v]][w] = work[w]
      BY <1>3
    <2>4. CASE r \in {Absent, Finished}
      BY <1>3, <2>1, <2>2, <2>4 DEF QueueMoves, Queue!QueueNext, Queue!Finish, Queue!Absent,
         Queue!Completed, Absent, Finished
    <2>5. CASE r = Retry(work[w])
      <3>1. Queue(K, slots)!Throws(w)
        BY <2>1, <2>2, <2>3, <2>5 DEF Queue!Throws, Queue!Put, Retry
      <3> QED
        BY <1>3, <3>1 DEF QueueMoves, Queue!QueueNext
    <2>6. CASE r = Recover(work[w])
      <3>1. Queue(K, slots)!Stalls(w)
        BY <2>1, <2>2, <2>3, <2>6 DEF Queue!Stalls, Queue!Put, Recover
      <3> QED
        BY <1>3, <3>1 DEF QueueMoves, Queue!QueueNext
    <2> QED
      BY <1>1, <2>4, <2>5, <2>6
  <1> QED
    BY <1>2, <1>3

\* A worker takes work only from its own queue, and with a slot to spare.
LEMMA Takes ==
  ASSUME NEW K, NEW slots, IsQueue(K, slots), Typed, NEW w \in Work,
         \/ w \in Task /\ Take(w, Task, TaskSlots)
         \/ w \in EmailId /\ Take(w, EmailId, EmailSlots),
         Complete(w) \/ \E s \in StepName, S \in SUBSET Match : Proceed(w, s, S)
  PROVE QueueMoves(K, slots)
  <1> DEFINE taken == [work[w] EXCEPT !.st = "active"]
  <1>1. PICK r : work' = [work EXCEPT ![w] = r] /\ r \in {Absent, Finished, taken}
    BY DEF Complete, Proceed, Typed, QueueInv, QueueType
  <1>2. CASE w \notin K
    BY <1>1, <1>2, OneRecord DEF QueueMoves
  <1>3. CASE w \in K
    <2>1. Queue(K, slots)!Put({w}, r)
      BY <1>1, <1>3, OneRecord
    <2>2. Take(w, K, slots)
      BY <1>3, Ids DEF IsQueue
    <2>3. [u \in K |-> work[u]][w] = work[w]
      BY <1>3
    <2>4. Queue(K, slots)!In(w, {"waiting"}) /\ Queue(K, slots)!FreeSlot
      <3>1. \A v \in K : Queue(K, slots)!In(v, {"active"}) <=> work[v].st = "active"
        BY DEF Queue!In
      <3>2. {v \in K : Queue(K, slots)!In(v, {"active"})} = {v \in K : work[v].st = "active"}
        BY <3>1
      <3>3. \A S : Queue(K, slots)!Cardinality(S) = Cardinality(S)
        BY DEF Queue!Cardinality, Cardinality
      <3>4. Queue(K, slots)!FreeSlot
        BY <2>2, <3>2, <3>3 DEF Take, Queue!FreeSlot
      <3> QED
        BY <1>3, <2>2, <3>4 DEF Take, Queue!In
    <2>5. CASE r \in {Absent, Finished}
      BY <1>3, <2>1, <2>4, <2>5 DEF QueueMoves, Queue!QueueNext, Queue!Finish, Queue!Absent,
         Queue!Completed, Absent, Finished
    <2>6. CASE r = taken
      <3>1. Queue(K, slots)!Start(w)
        BY <2>1, <2>3, <2>4, <2>6 DEF Queue!Start, Queue!Put
      <3> QED
        BY <1>3, <3>1 DEF QueueMoves, Queue!QueueNext
    <2> QED
      BY <1>1, <2>5, <2>6
  <1> QED
    BY <1>2, <1>3

\* A worker that goes on keeps its record.
LEMMA GoesOn ==
  ASSUME NEW K, NEW slots, Typed, NEW w \in Work, work[w].st = "active", NEW s, NEW S,
         Proceed(w, s, S)
  PROVE QueueMoves(K, slots)
  <1>1. work' = work
    BY DEF Proceed, Typed, QueueInv, QueueType, WorkRecord
  <1> QED
    BY <1>1 DEF QueueMoves

\* The matching worker.
LEMMA TaskMoves ==
  ASSUME NEW K, NEW slots, IsQueue(K, slots), Typed, NEW t \in Task, Enqueue(t) \/ TaskStep(t)
  PROVE QueueMoves(K, slots)
  <1>1. t \in Work /\ work \in [Work -> WorkRecord] /\ held[t] \in SUBSET Match
    BY Ids DEF Typed, QueueInv, QueueType
  <1>2. step[t] # "idle" => work[t].st = "active"
    BY <1>1 DEF Typed, QueueInv, Busy
  <1>3. CASE Enqueue(t)
    <2>1. work' = [w \in Work |-> IF w \in {t} THEN Waiting ELSE work[w]] /\ work[t].st = "absent"
      BY <1>1, <1>3 DEF Enqueue
    <2> QED
      BY <1>1, <2>1, AddOrForget
  <1>4. CASE FindAlerts(t)
    <2>1. Satisfied(JobOf[t]) \in SUBSET Match
      BY CriteriaAssumption DEF Satisfied
    <2> QED
      BY <1>1, <1>4, <2>1, Takes DEF FindAlerts, StepName
  <1>5. CASE InsertMatches(t) \/ CountMatches(t) \/ PickImmediate(t) \/ Return(t)
    BY <1>1, <1>2, <1>5, LetsGo, GoesOn
    DEF InsertMatches, Inserted, CountMatches, PickImmediate, Return
  <1>6. CASE InsertRejected(t)
    BY <1>1, <1>2, <1>6, LetsGo DEF InsertRejected
  <1>7. CASE AddEmails(t)
    <2> DEFINE new == {m \in held[t] : work[m].st = "absent"}
    <2>1. new \in SUBSET Work /\ \A w \in new : work[w].st = "absent"
      BY <1>1, Ids
    <2>2. work' = [w \in Work |-> IF w \in new THEN Waiting ELSE work[w]]
      BY <1>7 DEF AddEmails
    <2> QED
      BY <2>1, <2>2, AddOrForget
  <1> QED
    BY <1>3, <1>4, <1>5, <1>6, <1>7 DEF TaskStep

\* The email worker.
LEMMA EmailMoves ==
  ASSUME NEW K, NEW slots, IsQueue(K, slots), Typed, NEW e \in EmailId, EmailStep(e)
  PROVE QueueMoves(K, slots)
  <1>1. e \in Work
    BY Ids
  <1>2. step[e] # "idle" => work[e].st = "active"
    BY <1>1 DEF Typed, QueueInv, Busy
  <1>3. CASE LoadAlert(e)
    BY <1>1, <1>3, Takes DEF LoadAlert, StepName
  <1>4. CASE ReadMatches(e) \/ Return(e)
    BY <1>1, <1>2, <1>4, LetsGo, GoesOn DEF ReadMatches, Return
  <1>5. CASE Send(e) \/ Mark(e)
    BY <1>5 DEF Send, Mark, QueueMoves
  <1> QED
    BY <1>3, <1>4, <1>5 DEF EmailStep

\* The digests, the calendar, and what goes wrong or is forgotten.
LEMMA OtherMoves ==
  ASSUME NEW K, NEW slots, IsQueue(K, slots), Typed,
         Digests \/ NewDay \/ \E w \in Work : Fail(w) \/ Stall(w) \/ Evict(w)
  PROVE QueueMoves(K, slots)
  <1>1. CASE AddDigests
    <2> DEFINE new == {d \in digest : work[d.id].st = "absent"}
               ids == {d.id : d \in new}
    <2>1. ids \in SUBSET Work /\ \A w \in ids : work[w].st = "absent"
      BY Ids DEF Typed, TableType
    <2>2. work' = [w \in Work |-> IF \E d \in new : d.id = w THEN Waiting ELSE work[w]]
      BY <1>1 DEF AddDigests
    <2>3. \A w : w \in ids <=> \E d \in new : d.id = w
      OBVIOUS
    <2> HIDE DEF new, ids
    <2>4. work' = [w \in Work |-> IF w \in ids THEN Waiting ELSE work[w]]
      BY <2>2, <2>3
    <2> QED
      BY <2>1, <2>4, AddOrForget
  <1>2. CASE LoseDigests \/ \E f \in Frequency \ {"IMMEDIATE"} : CollectDigests(f)
    BY <1>2 DEF LoseDigests, CollectDigests, queue, QueueMoves
  <1>3. CASE NewDay
    <2> DEFINE tomorrow == (day + 1) % Days
               fresh == {e \in DigestId : /\ e[3] = PeriodOf(e[2], tomorrow)
                                          /\ e[2] = "WEEKLY" => tomorrow % Week = 0}
    <2>1. fresh \in SUBSET Work
      BY Ids
    <2>2. /\ \A e \in fresh : work[e].st \notin {"waiting", "active"}
          /\ work' = [w \in Work |-> IF w \in fresh THEN Absent ELSE work[w]]
      BY <1>3 DEF NewDay
    <2> HIDE DEF fresh
    <2> QED
      BY <2>1, <2>2, AddOrForget
  <1>4. ASSUME NEW w \in Work, Fail(w) \/ Stall(w) PROVE QueueMoves(K, slots)
    BY <1>4, LetsGo DEF Fail, Stall
  <1>5. ASSUME NEW w \in Work, Evict(w) PROVE QueueMoves(K, slots)
    <2>1. /\ work[w].st = "completed"
          /\ work' = [v \in Work |-> IF v \in {w} THEN Absent ELSE work[v]]
      BY <1>5 DEF Evict, Forget, Typed, QueueInv, QueueType
    <2> QED
      BY <2>1, AddOrForget
  <1> QED
    BY <1>1, <1>2, <1>3, <1>4, <1>5 DEF Digests

\* Whatever users, workers, digests and days do to the two queues, each does with its records
\* what a queue does: no id is added twice, none in flight forgotten, none tried more often
\* than it may, and none taken without a slot.
THEOREM ImplementsQueues ==
  Spec => Queue(Task, TaskSlots)!QueueSpec /\ Queue(EmailId, EmailSlots)!QueueSpec
  <1>1. ASSUME NEW K, NEW slots, IsQueue(K, slots), Typed, [Next]_vars
        PROVE [Queue(K, slots)!QueueNext]_[w \in K |-> work[w]]
    <2>1. CASE \/ \E a \in Alert : User(a)
               \/ \E j \in Job, L \in SUBSET Alert : Discover(j, L)
               \/ UNCHANGED vars
      BY <2>1 DEF User, Create, Pause, Resume, Reactivate, SetFrequency, Remove, Edit, Discover,
         vars, queue, QueueMoves
    <2> QED
      BY <1>1, <2>1, TaskMoves, EmailMoves, OtherMoves DEF Next, QueueMoves
  <1>2. ASSUME NEW K, NEW slots, IsQueue(K, slots), Init PROVE Queue(K, slots)!QueueInit
    BY <1>2, Ids DEF Init, IsQueue, Queue!QueueInit, Queue!Absent, Absent
  <1>3. IsQueue(Task, TaskSlots) /\ IsQueue(EmailId, EmailSlots)
    BY DEF IsQueue
  <1>4. DeliveryInv => Typed
    BY TypedSplits DEF DeliveryInv
  <1>5. DeliveryInv /\ [Next]_vars =>
           /\ [Queue(Task, TaskSlots)!QueueNext]_[w \in Task |-> work[w]]
           /\ [Queue(EmailId, EmailSlots)!QueueNext]_[w \in EmailId |-> work[w]]
    BY <1>1, <1>3, <1>4
  <1>6. Init => Queue(Task, TaskSlots)!QueueInit /\ Queue(EmailId, EmailSlots)!QueueInit
    BY <1>2, <1>3
  <1> QED
    BY <1>5, <1>6, DeliveryInvariant, PTL DEF Spec, Queue!QueueSpec

---------------------------------------------------------------------------
(* Emails and periods, of every set of matches and every hour: what        *)
(* DigestChecks has TLC evaluate over bounded inputs.                      *)

\* A set of natural numbers has a least element.
LEMMA LeastNumber ==
  ASSUME NEW S \in SUBSET Nat, S # {}
  PROVE \E u \in S : \A v \in S : u <= v
  <1>1. PICK u \in S : \A v \in S : <<v, u>> \notin OpToRel(<, Nat)
    BY NatLessThanWellFounded, WFMin
  <1>2. \A v \in S : ~(v < u)
    BY <1>1, Zenon DEF OpToRel
  <1> QED
    BY <1>2

\* Every match is in one email, and two are in the same one only when they are of one alert
\* and of one announcement, by a file of theirs if they are two jobs (dispatchImmediate).
THEOREM EachInOneEmail ==
  ASSUME NEW matches, \A m \in matches : m.urls \subseteq Nat
  PROVE /\ UNION Groups(matches) = matches
        /\ \A g, h \in Groups(matches) : g # h => g \cap h = {}
        /\ \A g \in Groups(matches) : \A m, n \in g :
              m.alert = n.alert /\ (m.job = n.job \/ m.urls \cap n.urls # {})
  <1> DEFINE key(m) == <<m.alert, AnnouncementKey(m)>>
             group(m) == {n \in matches : key(n) = key(m)}
  <1>1. Groups(matches) = {group(m) : m \in matches}
    BY DEF Groups
  <1>2. ASSUME NEW m \in matches, NEW n \in matches, key(m) = key(n)
        PROVE m.alert = n.alert /\ (m.job = n.job \/ m.urls \cap n.urls # {})
    <2>1. m.alert = n.alert /\ AnnouncementKey(m) = AnnouncementKey(n)
      BY <1>2
    <2>2. CASE m.urls = {} \/ n.urls = {}
      BY <2>1, <2>2 DEF AnnouncementKey
    <2>3. CASE m.urls # {} /\ n.urls # {}
      <3> DEFINE first(r) == CHOOSE u \in r.urls : \A v \in r.urls : u <= v
      <3>1. first(m) \in m.urls /\ first(n) \in n.urls
        BY <2>3, LeastNumber
      <3>2. AnnouncementKey(m) = <<"url", first(m)>> /\ AnnouncementKey(n) = <<"url", first(n)>>
        BY <2>3 DEF AnnouncementKey
      <3> HIDE DEF first
      <3>3. <<"url", first(m)>>[2] = <<"url", first(n)>>[2]
        BY <2>1, <3>2
      <3> QED
        BY <2>1, <3>1, <3>3
    <2> QED
      BY <2>1, <2>2, <2>3
  <1> HIDE DEF key
  <1>3. \A g \in Groups(matches) : \E m \in matches : g = group(m)
    BY <1>1
  <1>4. \A m \in matches : m \in group(m) /\ group(m) \subseteq matches
    OBVIOUS
  <1>5. \A m, n \in matches : group(m) # group(n) => group(m) \cap group(n) = {}
    OBVIOUS
  <1>6. \A g \in Groups(matches) : \A m, n \in g :
           m \in matches /\ n \in matches /\ key(m) = key(n)
    BY <1>3
  <1> HIDE DEF group
  <1>7. UNION Groups(matches) = matches
    BY <1>1, <1>4
  <1> QED
    BY <1>2, <1>3, <1>5, <1>6, <1>7

\* When no alert has two of the matches, an email carries one match.  So it is with those of a
\* matching task, which are all of one announcement: dispatchImmediate can name an email by the
\* match it carries, as AlertDelivery does.
THEOREM OneMatchPerEmail ==
  ASSUME NEW matches, \A m, n \in matches : m.alert = n.alert => m = n
  PROVE Groups(matches) = {{m} : m \in matches}
  <1>1. \A m \in matches :
           {n \in matches : <<n.alert, AnnouncementKey(n)>> = <<m.alert, AnnouncementKey(m)>>}
             = {m}
    OBVIOUS
  <1> QED
    BY <1>1 DEF Groups

\* The Thursday and the Monday of the week an hour is in.
Thursday(hour) == UtcDay(hour) + 4 - Weekday(UtcDay(hour))

Monday(hour) == UtcDay(hour) + 1 - Weekday(UtcDay(hour))

\* A year has 365 or 366 days.
LEMMA YearsAreLong ==
  ASSUME NEW y \in Int, y >= 1969
  PROVE /\ YearStart(y) \in Int
        /\ YearStart(y + 1) - YearStart(y) \in {365, 366}
        /\ YearStart(y) <= 366 * (y - 1969)
        /\ YearStart(y) >= 365 * (y - 1970)
  BY DEF YearStart

\* Every day is in a year.
LEMMA YearOfDay ==
  ASSUME NEW d \in Nat
  PROVE /\ YearOf(d) \in Int /\ YearOf(d) >= 1969
        /\ YearStart(YearOf(d)) <= d /\ d < YearStart(YearOf(d) + 1)
  <1> DEFINE least == 1969 + d \div 366
             most == 1971 + d \div 365
             after == {y \in least .. most + 1 : d < YearStart(y)}
  <1>1. /\ least \in Int /\ least >= 1969 /\ 366 * (least - 1969) <= d
        /\ most \in Int /\ d < 365 * (most - 1970) /\ least <= most
    OBVIOUS
  <1> HIDE DEF least, most
  <1>2. YearStart(least) \in Int /\ YearStart(least) <= 366 * (least - 1969)
    BY <1>1, YearsAreLong
  <1>3. most + 1 \in after
    <2> DEFINE last == most + 1
    <2>1. last \in Int /\ last >= 1969 /\ last \in least .. most + 1
          /\ d < 365 * (last - 1970)
      BY <1>1
    <2> HIDE DEF last
    <2>2. YearStart(last) \in Int /\ YearStart(last) >= 365 * (last - 1970)
      BY <2>1, YearsAreLong
    <2>3. last \in after
      BY <2>1, <2>2
    <2> QED
      BY <2>3 DEF last
  <1>4. after \in SUBSET Nat
    BY <1>1
  <1>5. PICK y \in after : \A v \in after : y <= v
    BY <1>3, <1>4, LeastNumber
  <1>6. y \in least + 1 .. most + 1
    BY <1>1, <1>2, <1>5
  <1>7. y - 1 \in least .. most /\ y - 1 \in Int /\ y - 1 >= 1969
    BY <1>1, <1>6
  <1>8. YearStart(y - 1) \in Int /\ YearStart(y) \in Int
    BY <1>1, <1>6, <1>7, YearsAreLong
  <1>9. YearStart(y - 1) <= d /\ d < YearStart(y - 1 + 1)
    <2>1. y - 1 \notin after
      BY <1>4, <1>5
    <2>2. ~ d < YearStart(y - 1)
      BY <1>1, <1>7, <2>1
    <2>3. y - 1 + 1 = y
      BY <1>6, <1>1
    <2> QED
      BY <1>5, <1>8, <2>2, <2>3
  <1>10. YearOf(d) = CHOOSE x \in least .. most : YearStart(x) <= d /\ d < YearStart(x + 1)
    BY DEF YearOf, least, most
  <1> HIDE DEF after
  <1>11. /\ YearOf(d) \in least .. most
         /\ YearStart(YearOf(d)) <= d /\ d < YearStart(YearOf(d) + 1)
    BY <1>7, <1>9, <1>10
  <1> QED
    BY <1>1, <1>11

\* A week of UTC from its Monday to its Sunday has one key, and no other week has it: at the
\* turn of a year too no week gets two digests, none another's; a year has 53 at most
\* (isoWeekKey).
THEOREM OneKeyPerWeek ==
  ASSUME NEW hour \in Nat, NEW later \in Nat
  PROVE /\ IsoWeekKey(hour) = IsoWeekKey(later) <=> Monday(hour) = Monday(later)
        /\ IsoWeekKey(hour)[2] \in 1 .. 53
  <1> DEFINE year(h) == YearOf(Thursday(h))
             start(h) == YearStart(year(h))
  <1>1. ASSUME NEW h \in Nat
        PROVE /\ Thursday(h) \in Nat /\ Thursday(h) = Monday(h) + 3
              /\ Thursday(h) % 7 = 0
              /\ IsoWeekKey(h) = <<year(h), (Thursday(h) - start(h)) \div 7 + 1>>
    <2>1. Thursday(h) \in Nat /\ Thursday(h) = Monday(h) + 3
      BY DEF Thursday, Monday, UtcDay, Weekday
    <2>2. Thursday(h) % 7 = 0
      BY DEF Thursday, UtcDay, Weekday
    <2>3. IsoWeekKey(h) = <<year(h), (Thursday(h) - start(h)) \div 7 + 1>>
      BY DEF IsoWeekKey, Thursday
    <2> QED
      BY <2>1, <2>2, <2>3
  <1>2. ASSUME NEW h \in Nat
        PROVE /\ start(h) \in Int /\ Thursday(h) - start(h) \in 0 .. 365
    <2>1. /\ year(h) \in Int /\ year(h) >= 1969
          /\ start(h) <= Thursday(h) /\ Thursday(h) < YearStart(year(h) + 1)
      BY <1>1, YearOfDay
    <2>2. start(h) \in Int /\ YearStart(year(h) + 1) - start(h) \in {365, 366}
          /\ YearStart(year(h) + 1) \in Int
      <3>1. year(h) + 1 \in Int /\ year(h) + 1 >= 1969
        BY <2>1
      <3> QED
        BY <2>1, <3>1, YearsAreLong
    <2>3. Thursday(h) \in Nat
      BY <1>1
    <2> DEFINE s == start(h)
               t == Thursday(h)
               next == YearStart(year(h) + 1)
    <2>4. /\ s \in Int /\ t \in Nat /\ next \in Int /\ next - s \in {365, 366}
          /\ s <= t /\ t < next
      BY <2>1, <2>2, <2>3
    <2> HIDE DEF s, t, next
    <2>5. s \in Int /\ t - s \in 0 .. 365
      BY <2>4
    <2> QED
      BY <2>5 DEF s, t
  <1> HIDE DEF year
  <1>3. Monday(hour) = Monday(later) <=> Thursday(hour) = Thursday(later)
    <2>1. \A h \in Nat : Monday(h) \in Int
      BY DEF Monday, UtcDay, Weekday
    <2> QED
      BY <1>1, <2>1
  <1>4. Thursday(hour) = Thursday(later) => IsoWeekKey(hour) = IsoWeekKey(later)
    BY <1>1 DEF year
  <1>5. ASSUME IsoWeekKey(hour) = IsoWeekKey(later) PROVE Thursday(hour) = Thursday(later)
    <2>1. /\ start(hour) = start(later)
          /\ (Thursday(hour) - start(hour)) \div 7 + 1
                = (Thursday(later) - start(later)) \div 7 + 1
      BY <1>1, <1>5
    <2> DEFINE s == start(hour)
               t == Thursday(hour)
               u == Thursday(later)
    <2>2. /\ s \in Int /\ t \in Nat /\ u \in Nat /\ t % 7 = 0 /\ u % 7 = 0
          /\ t - s \in 0 .. 365 /\ u - s \in 0 .. 365
          /\ (t - s) \div 7 + 1 = (u - s) \div 7 + 1
      BY <1>1, <1>2, <2>1
    <2> HIDE DEF s, t, u
    <2>3. t = u
      BY <2>2
    <2> QED
      BY <2>3 DEF t, u
  <1>6. IsoWeekKey(hour)[2] \in 1 .. 53
    <2> DEFINE left == Thursday(hour) - start(hour)
    <2>1. left \in 0 .. 365
      BY <1>2
    <2>2. IsoWeekKey(hour)[2] = left \div 7 + 1
      BY <1>1
    <2> HIDE DEF left
    <2> QED
      BY <2>1, <2>2
  <1> QED
    BY <1>3, <1>4, <1>5, <1>6

\* A day is that of Bangkok but a week that of UTC (dispatchDigests): until seven on a Monday
\* morning a weekly digest is still of the week before, and at no other time.
THEOREM WeekTurnsAtSeven ==
  ASSUME NEW hour \in Nat
  PROVE IsoWeekKey(hour) # IsoWeekKey(24 * LocalDay(hour))
          <=> Weekday(LocalDay(hour)) = 1 /\ (hour + 7) % 24 < 7
  <1> DEFINE midnight == 24 * LocalDay(hour)
  <1>1. midnight \in Nat
    BY DEF LocalDay
  <1>2. IsoWeekKey(hour) = IsoWeekKey(midnight) <=> Monday(hour) = Monday(midnight)
    BY <1>1, OneKeyPerWeek
  <1>3. UtcDay(midnight) = LocalDay(hour) /\ LocalDay(hour) \in Nat
    BY DEF UtcDay, LocalDay
  <1>4. /\ (hour + 7) % 24 < 7 => UtcDay(hour) = LocalDay(hour) - 1
        /\ ~ (hour + 7) % 24 < 7 => UtcDay(hour) = LocalDay(hour)
    BY DEF UtcDay, LocalDay
  <1>5. \A d \in Int : (d - 1 + 1 - Weekday(d - 1) # d + 1 - Weekday(d)) <=> Weekday(d) = 1
    BY DEF Weekday
  <1>6. UtcDay(hour) \in Int /\ Weekday(LocalDay(hour)) \in Int
    BY <1>3 DEF UtcDay, Weekday
  <1> QED
    BY <1>2, <1>3, <1>4, <1>5, <1>6 DEF Monday

\* A salary is printed when one bound at least is neither missing nor zero; a zero is printed
\* only as the minimum beside a maximum, where it hides the maximum (salaryRange).
THEOREM ZeroHidesMaximum ==
  ASSUME NEW min \in {{}} \cup {{n} : n \in Nat}, NEW max \in {{}} \cup {{n} : n \in Nat}
  PROVE LET printed == SalaryRange([salaryMin |-> min, salaryMax |-> max])
        IN /\ printed = {} <=> ~Said(min) /\ ~Said(max)
           /\ 0 \in printed <=> min = {0} /\ Said(max)
           /\ printed = {0} \/ printed = (min \cup max) \ {0}
  BY DEF SalaryRange, Said

=============================================================================
