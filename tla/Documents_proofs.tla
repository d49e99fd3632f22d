--------------------------- MODULE Documents_proofs ---------------------------
(***************************************************************************)
(* Reading attachments, for every number of attachments, faults and resets *)
(* and every file, limit and verdict.                                      *)
(*                                                                         *)
(* Holding ties the worker to the one active task.  Fits says the same of  *)
(* the result in hand as of the rows read; Troubled, Stuck and Matched say *)
(* of the attachment in hand what the property says once it is let go.     *)
(* Open says that the row in hand is unread until its verdict, with which  *)
(* the rows are those of AttachmentRows and the queue is a TaskQueue.      *)
(***************************************************************************)
EXTENDS Documents, FiniteSetTheorems, TLAPS

\* The worker holds the attachment whose task is active.
Holding ==
    /\ pc = "idle" <=> cur = None
    /\ pc = "idle" => why = "none"
    /\ \A a \in Att : docTask[a].st = "active" <=> a = cur
    /\ \A a \in Att : docTask[a].st \in {"waiting", "active"} =>
          docTask[a].fails < Attempts /\ docTask[a].stalls <= MaxStalled

\* What is read or about to be recorded as read is the text behind the URL.
Fits ==
    /\ TextFitsFile
    /\ pc \in {"record", "rematch"} =>
          /\ Verdict[fileOf[cur]] \in Read
          /\ result = [status |-> Verdict[fileOf[cur]], text |-> fileOf[cur]]

DocInv == TypeOK /\ Holding /\ Fits

\* The parts of a task and of a result.
LEMMA TaskType ==
  /\ Absent \in Task /\ Waiting \in Task
  /\ Absent.st = "absent" /\ Waiting.st = "waiting"
  /\ Waiting.fails < Attempts /\ Waiting.stalls <= MaxStalled
  /\ \A t \in Task : /\ t.st \in TaskState /\ t.fails \in Nat /\ t.stalls \in Nat
                     /\ [t EXCEPT !.st = "active"] \in Task
                     /\ [t EXCEPT !.st = "active"].st = "active"
                     /\ [t EXCEPT !.st = "active"].fails = t.fails
                     /\ [t EXCEPT !.st = "active"].stalls = t.stalls
  BY QueueAssumption DEF Task, TaskState, Absent, Waiting

\* A task that has been tried once more.
LEMMA TriedType ==
  ASSUME NEW t \in Task, t.fails < Attempts, NEW st \in {"waiting", "failed"}
  PROVE LET again == [st |-> st, fails |-> t.fails + 1, stalls |-> t.stalls] IN
        /\ again \in Task /\ again.st = st
        /\ again.fails = t.fails + 1 /\ again.stalls = t.stalls
  <1>1. t.fails + 1 \in 0 .. Attempts
    BY QueueAssumption DEF Task
  <1> QED
    BY <1>1 DEF Task, TaskState

\* A task that has stalled once more.
LEMMA StalledType ==
  ASSUME NEW t \in Task, t.stalls <= MaxStalled, NEW st \in {"waiting", "failed"}
  PROVE LET again == [st |-> st, fails |-> t.fails, stalls |-> t.stalls + 1] IN
        /\ again \in Task /\ again.st = st
        /\ again.fails = t.fails /\ again.stalls = t.stalls + 1
  <1>1. t.stalls + 1 \in 0 .. MaxStalled + 1
    BY QueueAssumption DEF Task
  <1> QED
    BY <1>1 DEF Task, TaskState

\* The initial states.
LEMMA InitDocInv == Init => DocInv
  <1> SUFFICES ASSUME Init PROVE DocInv
    OBVIOUS
  <1>1. fileOf \in [Att -> File]
    BY FileAssumption DEF Init
  <1>2. docTask \in [Att -> Task] /\ matchTask \in [Att -> TaskState]
    BY TaskType DEF Init, TaskState
  <1>3. faults \in 0 .. MaxFaults /\ resets \in 0 .. MaxResets /\ total \in Nat /\ buffer \in Nat
    BY BoundAssumption DEF Init
  <1>4. TypeOK
    BY <1>1, <1>2, <1>3 DEF Init, TypeOK, Place, Reason
  <1>5. Holding
    BY NoneAssumption, TaskType DEF Init, Holding
  <1>6. Fits
    BY DEF Init, Fits, TextFitsFile, Read
  <1> QED
    BY <1>4, <1>5, <1>6 DEF DocInv

\* What everybody but the worker leaves alone.
LEMMA OutsideSteps ==
  ASSUME DocInv, UNCHANGED fileOf,
         \/ \E a \in Att : Insert(a) \/ Delete(a) \/ Reset(a)
         \/ Enqueue
         \/ \E a \in Att : Matching(a) \/ MatchFails(a) \/ Expire(a)
  PROVE DocInv' /\ UNCHANGED locals
  <1> USE DEF DocInv, locals
  <1>1. ASSUME NEW a \in Att, Insert(a) \/ Delete(a) \/ Reset(a)
        PROVE DocInv' /\ UNCHANGED locals
    <2>1. UNCHANGED <<queues, locals>>
      BY <1>1 DEF Insert, Delete, Reset
    <2>2. /\ status' \in [Att -> Stored \cup {"NEW", "GONE"}]
          /\ fileHash' \in [Att -> File \cup {None}] /\ text' \in [Att -> File \cup {None}]
          /\ heard' \in SUBSET Att /\ troubled' \in SUBSET Att
          /\ abandoned' \in SUBSET Att /\ unmatched' \in SUBSET Att
          /\ faults' \in 0 .. MaxFaults
      BY <1>1 DEF TypeOK, Insert, Delete, Reset, history, Stored
    <2>3. resets' \in 0 .. MaxResets
      BY <1>1, BoundAssumption DEF TypeOK, Insert, Delete, Reset
    <2>4. TypeOK'
      BY <2>1, <2>2, <2>3 DEF TypeOK, queues
    <2>5. \A b \in Att : status'[b] \in Read =>
              status'[b] = status[b] /\ fileHash'[b] = fileHash[b] /\ text'[b] = text[b]
      BY <1>1 DEF TypeOK, Insert, Delete, Reset, Read
    <2>6. Holding' /\ Fits'
      BY <2>1, <2>5 DEF Holding, Fits, TextFitsFile, queues
    <2> QED
      BY <2>1, <2>4, <2>6
  <1>2. CASE FindPending
    BY <1>2 DEF FindPending, TypeOK, Holding, Fits, TextFitsFile, Pending, rows, history
  <1>3. CASE AddOffered
    <2>1. docTask' \in [Att -> Task]
      BY <1>3, TaskType DEF AddOffered, TypeOK
    <2>2. UNCHANGED <<rows, matchTask, locals, history, faults, resets>> /\ offer' = {}
      BY <1>3 DEF AddOffered
    <2>3. \A a \in Att : \/ docTask'[a] = docTask[a]
                         \/ docTask[a].st = "absent" /\ docTask'[a] = Waiting
      <3>1. docTask' = [a \in Att |-> IF a \in offer /\ docTask[a].st = "absent"
                                      THEN Waiting ELSE docTask[a]]
        BY <1>3 DEF AddOffered
      <3> QED
        BY <3>1
    <2>4. Holding'
      BY <2>2, <2>3, TaskType DEF Holding
    <2> QED
      BY <2>1, <2>2, <2>4 DEF TypeOK, Fits, TextFitsFile, rows, history
  <1>4. ASSUME NEW a \in Att, Matching(a) \/ MatchFails(a)
        PROVE DocInv' /\ UNCHANGED locals
    <2>1. UNCHANGED <<rows, docTask, offer, locals, troubled, abandoned, resets>>
      BY <1>4 DEF Matching, MatchReads, MatchEnds, MatchFails, history
    <2>2. matchTask' \in [Att -> TaskState] /\ heard' \in SUBSET Att /\ unmatched' \in SUBSET Att
      BY <1>4 DEF Matching, MatchReads, MatchEnds, MatchFails, history, TypeOK, TaskState
    <2>3. faults' \in 0 .. MaxFaults
      BY <1>4, BoundAssumption DEF Matching, MatchReads, MatchEnds, MatchFails, TypeOK
    <2> QED
      BY <2>1, <2>2, <2>3 DEF TypeOK, Holding, Fits, TextFitsFile, rows
  <1>5. ASSUME NEW a \in Att, Expire(a) PROVE DocInv' /\ UNCHANGED locals
    <2>1. UNCHANGED <<rows, offer, locals, history, faults, resets>>
      BY <1>5 DEF Expire
    <2>2. docTask' \in [Att -> Task] /\ matchTask' \in [Att -> TaskState]
      BY <1>5, TaskType DEF Expire, TypeOK, TaskState
    <2>3. \A b \in Att : \/ docTask'[b] = docTask[b]
                         \/ docTask[b].st = "failed" /\ docTask'[b] = Absent
      <3>1. docTask \in [Att -> Task]
        BY DEF TypeOK
      <3>2. \/ docTask' = docTask
            \/ docTask[a].st = "failed" /\ docTask' = [docTask EXCEPT ![a] = Absent]
        BY <1>5 DEF Expire
      <3> QED
        BY <3>1, <3>2
    <2>4. Holding'
      BY <2>1, <2>3, TaskType DEF Holding
    <2> QED
      BY <2>1, <2>2, <2>4 DEF TypeOK, Fits, TextFitsFile, rows, history
  <1> QED
    BY <1>1, <1>2, <1>3, <1>4, <1>5 DEF Enqueue

\* A step of the worker that goes on with its attachment and leaves the tasks alone.
Onward ==
    /\ cur # None /\ cur' = cur /\ pc' \in Place \ {"idle"}
    /\ UNCHANGED <<fileOf, docTask, offer, resets>>

\* Such a step keeps the task in hand.
LEMMA OnwardHolds == Holding /\ pc # "idle" /\ Onward => Holding'
  BY DEF Holding, Onward

\* The worker's steps that read and record.
LEMMA OnwardSteps ==
  ASSUME DocInv, UNCHANGED fileOf,
         \/ Begin \/ FetchRefused \/ Fetch \/ (\E n \in 1 .. MaxBytes + 1 : Chunk(n))
         \/ StreamFails \/ StreamEnds \/ (\E b \in Att : FindTwin(b)) \/ FindNoTwin
         \/ Extract \/ Record \/ Rematch \/ RecordFailure \/ CallFails
  PROVE DocInv'
  <1> USE DEF DocInv, At, Go
  <1>1. cur \in Att /\ pc # "idle"
    BY DEF TypeOK, Holding, Begin, FetchRefused, Fetch, Chunk, StreamFails, StreamEnds, FindTwin,
           FindNoTwin, Extract, Record, Rematch, RecordFailure, CallFails
  <1>2. ASSUME Onward, UNCHANGED <<rows, matchTask, faults>>,
               total' \in Nat, buffer' \in Nat, why' \in Reason,
               result' \in Result \cup {None},
               heard' \in SUBSET Att, troubled' \in SUBSET Att, unmatched' \in SUBSET Att,
               UNCHANGED abandoned,
               pc' \in {"record", "rematch"} =>
                   /\ Verdict[fileOf[cur]] \in Read
                   /\ result' = [status |-> Verdict[fileOf[cur]], text |-> fileOf[cur]]
        PROVE DocInv'
    <2>1. Holding'
      BY <1>1, <1>2, OnwardHolds
    <2>2. TypeOK'
      BY <1>2 DEF TypeOK, Onward, rows
    <2>3. Fits'
      BY <1>2 DEF Fits, TextFitsFile, Onward, rows
    <2> QED
      BY <2>1, <2>2, <2>3
  <1>3. CASE Begin \/ RecordFailure
    <2>1. Onward
      BY <1>1, <1>3 DEF Begin, RecordFailure, Onward, queues, Place
    <2>2. status' \in [Att -> Stored \cup {"NEW", "GONE"}]
      BY <1>3 DEF Begin, RecordFailure, SetStatus, TypeOK, Stored
    <2>3. \A a \in Att : status'[a] \in Read => status'[a] = status[a]
      BY <1>3 DEF Begin, RecordFailure, SetStatus, TypeOK, Read
    <2>4. /\ UNCHANGED <<fileHash, text, matchTask, total, buffer, result, why, troubled,
                         abandoned, unmatched, faults>>
          /\ heard' \in SUBSET Att /\ pc' \notin {"record", "rematch"}
      BY <1>3 DEF Begin, RecordFailure, queues, history, TypeOK
    <2>5. TypeOK'
      BY <2>1, <2>2, <2>4 DEF TypeOK, Onward
    <2>6. Fits'
      BY <2>1, <2>3, <2>4 DEF Fits, TextFitsFile, Onward
    <2> QED
      BY <1>1, <2>1, <2>5, <2>6, OnwardHolds
  <1>4. CASE FetchRefused \/ StreamFails
    BY <1>1, <1>2, <1>4
       DEF FetchRefused, StreamFails, Give, Onward, Place, Reason, queues, rows, TypeOK
  <1>5. CASE Fetch
    BY <1>1, <1>2, <1>5, BufferAssumption
       DEF Fetch, Onward, Place, queues, rows, history, TypeOK
  <1>6. ASSUME NEW n \in 1 .. MaxBytes + 1, Chunk(n) PROVE DocInv'
    <2>1. CASE total + n > MaxBytes
      BY <1>1, <1>2, <1>6, <2>1
         DEF Chunk, Give, Onward, Place, Reason, queues, rows, TypeOK
    <2>2. CASE ~(total + n > MaxBytes)
      <3>1. total' \in Nat /\ buffer' \in Nat
        BY <1>6, <2>2, BufferAssumption DEF Chunk, Grown, Larger, Smaller, TypeOK
      <3> QED
        BY <1>1, <1>2, <1>6, <2>2, <3>1 DEF Chunk, Onward, Place, queues, rows, TypeOK
    <2> QED
      BY <2>1, <2>2
  <1>7. CASE StreamEnds
    BY <1>1, <1>2, <1>7 DEF StreamEnds, Onward, Place, queues, rows, history, TypeOK
  <1>8. ASSUME NEW b \in Att, FindTwin(b) PROVE DocInv'
    <2>1. /\ status[b] = Verdict[fileOf[cur]] /\ status[b] \in Read /\ text[b] = fileOf[cur]
          /\ fileOf[cur] \in File
      BY <1>1, <1>8 DEF FindTwin, Twins, Fits, TextFitsFile, TypeOK
    <2>2. result' = [status |-> status[b], text |-> text[b]] /\ result' \in Result
      BY <1>8, <2>1 DEF FindTwin, Result
    <2>3. /\ Onward /\ UNCHANGED <<rows, matchTask, faults, total, buffer, why, heard,
                                   troubled, unmatched, abandoned>>
      BY <1>1, <1>8 DEF FindTwin, Onward, Place, queues, history
    <2> QED
      BY <1>2, <2>1, <2>2, <2>3 DEF TypeOK
  <1>9. CASE FindNoTwin
    BY <1>1, <1>2, <1>9 DEF FindNoTwin, Onward, Place, queues, rows, history, TypeOK
  <1>10. CASE Extract
    <2>1. fileOf[cur] \in File /\ Verdict[fileOf[cur]] \in Read \cup {"UNREADABLE"}
      BY <1>1, FileAssumption DEF TypeOK
    <2>2. CASE Verdict[fileOf[cur]] = "UNREADABLE"
      BY <1>1, <1>2, <1>10, <2>2
         DEF Extract, Give, Onward, Place, Reason, queues, rows, TypeOK
    <2>3. CASE Verdict[fileOf[cur]] # "UNREADABLE"
      <3>1. /\ result' = [status |-> Verdict[fileOf[cur]], text |-> fileOf[cur]]
            /\ result' \in Result /\ Verdict[fileOf[cur]] \in Read
        BY <1>10, <2>1, <2>3 DEF Extract, Result
      <3>2. /\ Onward /\ UNCHANGED <<rows, matchTask, faults, total, buffer, why, heard,
                                     troubled, unmatched, abandoned>>
        BY <1>1, <1>10, <2>3 DEF Extract, Onward, Place, queues
      <3> QED
        BY <1>2, <3>1, <3>2 DEF TypeOK
    <2> QED
      BY <2>2, <2>3
  <1>11. CASE Record
    <2> DEFINE f == fileOf[cur]
    <2>1. /\ f \in File /\ Verdict[f] \in Read /\ result.status = Verdict[f] /\ result.text = f
      BY <1>1, <1>11 DEF Record, Fits, TypeOK
    <2>2. Onward
      BY <1>1, <1>11 DEF Record, Onward, queues, Place
    <2>3. /\ status' = [status EXCEPT ![cur] = IF Exists(cur) THEN Verdict[f] ELSE @]
          /\ fileHash' = [fileHash EXCEPT ![cur] = IF Exists(cur) THEN f ELSE @]
          /\ text' = [text EXCEPT ![cur] = IF Exists(cur) THEN f ELSE @]
      BY <1>11, <2>1 DEF Record, SetStatus
    <2>4. /\ UNCHANGED <<matchTask, total, buffer, result, why, abandoned, unmatched, faults>>
          /\ heard' \in SUBSET Att /\ troubled' \in SUBSET Att
      BY <1>11 DEF Record, queues, TypeOK
    <2> HIDE DEF f
    <2>5. /\ status' \in [Att -> Stored \cup {"NEW", "GONE"}]
          /\ fileHash' \in [Att -> File \cup {None}] /\ text' \in [Att -> File \cup {None}]
      BY <1>1, <2>1, <2>3 DEF TypeOK, Stored
    <2>6. TypeOK'
      BY <2>2, <2>4, <2>5 DEF TypeOK, Onward
    <2>7. TextFitsFile'
      <3>1. ~Exists(cur) => status[cur] \notin Read
        BY DEF Exists, Stored
      <3>2. UNCHANGED fileOf /\ f = fileOf[cur]
        BY <2>2 DEF Onward, f
      <3> QED
        BY <1>1, <2>1, <2>3, <3>1, <3>2 DEF Fits, TextFitsFile, TypeOK
    <2>8. Fits'
      BY <1>11, <2>2, <2>4, <2>7 DEF Fits, Record, Onward
    <2> QED
      BY <1>1, <2>2, <2>6, <2>8, OnwardHolds
  <1>12. CASE Rematch
    <2>1. Onward
      BY <1>1, <1>12 DEF Rematch, Onward, Place
    <2>2. matchTask' \in [Att -> TaskState] /\ unmatched' \in SUBSET Att
      BY <1>1, <1>12 DEF Rematch, TypeOK, TaskState
    <2>3. /\ UNCHANGED <<rows, total, buffer, result, why, heard, troubled, abandoned, faults>>
          /\ pc' = "return"
      BY <1>12 DEF Rematch
    <2>4. TypeOK' /\ Fits'
      BY <2>1, <2>2, <2>3 DEF TypeOK, Fits, TextFitsFile, Onward, rows
    <2> QED
      BY <1>1, <2>1, <2>4, OnwardHolds
  <1>13. CASE CallFails
    <2>1. faults' \in 0 .. MaxFaults
      BY <1>13, BoundAssumption DEF CallFails, TypeOK
    <2>2. Onward /\ UNCHANGED <<rows, matchTask, result, heard, abandoned, unmatched>>
      BY <1>1, <1>13 DEF CallFails, Give, Onward, Place, queues
    <2>3. /\ pc' = "fail" /\ total' = 0 /\ buffer' = 0 /\ why' \in Reason
          /\ troubled' \in SUBSET Att
      BY <1>1, <1>13 DEF CallFails, Give, Reason, TypeOK
    <2>4. TypeOK' /\ Fits'
      BY <2>1, <2>2, <2>3 DEF TypeOK, Fits, TextFitsFile, Onward, rows
    <2> QED
      BY <1>1, <2>2, <2>4, OnwardHolds
  <1> QED
    BY <1>3, <1>4, <1>5, <1>6, <1>7, <1>8, <1>9, <1>10, <1>11, <1>12, <1>13

\* The worker's steps that take an attachment or let it go.
LEMMA HandSteps ==
  ASSUME DocInv, UNCHANGED fileOf, (\E a \in Att : Load(a)) \/ Return \/ Throw \/ Die
  PROVE DocInv'
  <1> USE DEF DocInv
  <1>1. ASSUME NEW a \in Att, Load(a) PROVE DocInv'
    <2>1. /\ UNCHANGED <<rows, matchTask, offer, total, buffer, result, why, heard, troubled,
                         faults, resets>>
          /\ abandoned' \in SUBSET Att /\ unmatched' \in SUBSET Att
          /\ pc = "idle" /\ cur = None /\ docTask[a].st = "waiting" /\ a # None
      BY <1>1, NoneAssumption DEF Load, TypeOK, Holding
    <2>2. CASE Exists(a)
      <3>1. /\ docTask' = [docTask EXCEPT ![a] = [docTask[a] EXCEPT !.st = "active"]]
            /\ pc' = "begin" /\ cur' = a
        BY <1>1, <2>2 DEF Load
      <3>2. /\ docTask[a] \in Task /\ docTask'[a] \in Task /\ docTask'[a].st = "active"
            /\ docTask'[a].fails < Attempts /\ docTask'[a].stalls <= MaxStalled
        BY <2>1, <3>1, TaskType DEF TypeOK, Holding
      <3>3. \A b \in Att \ {a} : docTask'[b] = docTask[b]
        BY <3>1 DEF TypeOK
      <3>4. Holding'
        BY <2>1, <3>1, <3>2, <3>3, NoneAssumption DEF Holding
      <3>5. TypeOK'
        BY <2>1, <3>1, TaskType DEF TypeOK, Place, rows
      <3> QED
        BY <2>1, <3>1, <3>4, <3>5 DEF Fits, TextFitsFile, rows
    <2>3. CASE ~Exists(a)
      <3>1. docTask' = [docTask EXCEPT ![a] = Absent] /\ UNCHANGED <<pc, cur>>
        BY <1>1, <2>3 DEF Load
      <3>2. Holding'
        BY <2>1, <3>1, TaskType DEF TypeOK, Holding
      <3>3. TypeOK'
        BY <2>1, <3>1, TaskType DEF TypeOK, rows
      <3> QED
        BY <2>1, <3>1, <3>2, <3>3 DEF Fits, TextFitsFile, rows
    <2> QED
      BY <2>2, <2>3
  <1>2. ASSUME NEW t \in Task, t.st # "active", cur \in Att,
               t.st = "waiting" => t.fails < Attempts /\ t.stalls <= MaxStalled,
               docTask' = [docTask EXCEPT ![cur] = t], Leave,
               UNCHANGED <<rows, matchTask, offer, heard, troubled, resets>>,
               abandoned' \in SUBSET Att, unmatched' \in SUBSET Att, faults' \in 0 .. MaxFaults
        PROVE DocInv'
    <2>1. Holding'
      BY <1>2, NoneAssumption DEF Leave, TypeOK, Holding
    <2>2. TypeOK'
      BY <1>2 DEF Leave, TypeOK, Place, Reason, rows
    <2> QED
      BY <1>2, <2>1, <2>2 DEF Leave, Fits, TextFitsFile, rows
  <1>3. CASE Return
    <2>1. cur \in Att /\ docTask' = [docTask EXCEPT ![cur] = Absent] /\ Leave
          /\ UNCHANGED <<rows, matchTask, offer, history, faults, resets>>
      BY <1>3 DEF Return, At, TypeOK
    <2> QED
      BY <1>2, <2>1, TaskType DEF history, TypeOK
  <1>4. ASSUME NEW t \in Task, cur \in Att, Unfinished(cur, t), t.st \in {"waiting", "failed"},
               t.st = "waiting" => t.fails < Attempts /\ t.stalls <= MaxStalled
        PROVE DocInv'
    <2>1. faults' \in 0 .. MaxFaults
      BY <1>4, BoundAssumption DEF Unfinished, TypeOK
    <2>2. abandoned' \in SUBSET Att /\ unmatched' \in SUBSET Att
      BY <1>4 DEF Unfinished, TypeOK
    <2> QED
      BY <1>2, <1>4, <2>1, <2>2 DEF Unfinished
  <1>5. ASSUME cur \in Att
        PROVE /\ docTask[cur] \in Task
              /\ docTask[cur].fails < Attempts /\ docTask[cur].stalls <= MaxStalled
              /\ docTask[cur].stalls < MaxStalled => docTask[cur].stalls + 1 <= MaxStalled
    <2>1. docTask[cur] \in Task /\ docTask[cur].st = "active"
      BY <1>5 DEF TypeOK, Holding
    <2>2. docTask[cur].fails < Attempts /\ docTask[cur].stalls <= MaxStalled
      BY <1>5, <2>1 DEF Holding
    <2>3. docTask[cur].stalls \in Nat /\ MaxStalled \in Nat
      BY <2>1, TaskType, QueueAssumption
    <2> HIDE DEF DocInv
    <2> QED
      BY <2>1, <2>2, <2>3
  <1>6. CASE Throw
    <2> DEFINE t == docTask[cur]
               st == IF t.fails + 1 < Attempts THEN "waiting" ELSE "failed"
               again == [st |-> st, fails |-> t.fails + 1, stalls |-> t.stalls]
    <2>1. cur \in Att /\ Unfinished(cur, again)
      BY <1>6 DEF Throw, TypeOK
    <2>2. /\ again \in Task /\ again.st \in {"waiting", "failed"}
          /\ again.st = "waiting" => again.fails < Attempts /\ again.stalls <= MaxStalled
      <3>1. st \in {"waiting", "failed"} /\ (st = "waiting" => t.fails + 1 < Attempts)
        OBVIOUS
      <3> HIDE DEF st
      <3> QED
        BY <1>5, <2>1, <3>1, TriedType
    <2> HIDE DEF again
    <2> QED
      BY <1>4, <2>1, <2>2
  <1>7. CASE Die
    <2> DEFINE t == docTask[cur]
               st == IF t.stalls < MaxStalled THEN "waiting" ELSE "failed"
               again == [st |-> st, fails |-> t.fails, stalls |-> t.stalls + 1]
    <2>1. cur \in Att /\ Unfinished(cur, again)
      BY <1>7 DEF Die, TypeOK
    <2>2. /\ again \in Task /\ again.st \in {"waiting", "failed"}
          /\ again.st = "waiting" => again.fails < Attempts /\ again.stalls <= MaxStalled
      <3>1. st \in {"waiting", "failed"} /\ (st = "waiting" => t.stalls < MaxStalled)
        OBVIOUS
      <3> HIDE DEF st
      <3> QED
        BY <1>5, <2>1, <3>1, StalledType
    <2> HIDE DEF again
    <2> QED
      BY <1>4, <2>1, <2>2
  <1> QED
    BY <1>1, <1>3, <1>6, <1>7

\* Every step keeps it.
LEMMA NextDocInv == DocInv /\ [Next]_vars => DocInv'
  <1>1. DocInv /\ UNCHANGED vars => DocInv'
    BY DEF DocInv, TypeOK, Holding, Fits, TextFitsFile, vars, moving, rows, queues, locals,
           history
  <1> QED
    BY <1>1, OutsideSteps, OnwardSteps, HandSteps DEF Next, Process

\* The variables keep their types.
THEOREM TypeCorrect == Spec => []TypeOK
  <1>1. DocInv => TypeOK
    BY DEF DocInv
  <1> QED
    BY InitDocInv, NextDocInv, <1>1, PTL DEF Spec

\* What a row says was read is the text of the file behind its URL, with its verdict.
THEOREM TextIsOfTheFile == Spec => []TextFitsFile
  <1>1. DocInv => TextFitsFile
    BY DEF DocInv, Fits
  <1> QED
    BY InitDocInv, NextDocInv, <1>1, PTL DEF Spec

---------------------------------------------------------------------------
(* The download.                                                           *)

\* A chunk stays inside the buffer, and is refused only over the cap.
LEMMA ChunkFits ==
  ASSUME DocInv, BufferHolds, NEW n \in 1 .. MaxBytes + 1, Chunk(n), UNCHANGED fileOf
  PROVE BufferHolds'
  <1>1. /\ cur \in Att /\ fileOf[cur] \in File /\ Size[fileOf[cur]] \in Nat
        /\ total \in Nat /\ buffer \in Nat /\ n \in Nat
        /\ n <= Size[fileOf[cur]] - total
    BY FileAssumption DEF Chunk, At, DocInv, TypeOK
  <1>2. CASE total + n > MaxBytes
    <2>1. pc' = "fail" /\ cur' = cur
      BY <1>2 DEF Chunk, Give
    <2>2. Size[fileOf[cur]] > MaxBytes
      BY <1>1, <1>2, BufferAssumption
    <2> QED
      BY <2>1, <2>2 DEF BufferHolds
  <1>3. CASE ~(total + n > MaxBytes)
    <2>1. /\ total' = total + n /\ buffer' = Grown(buffer, total + n)
          /\ UNCHANGED <<cur, why>> /\ pc = "stream"
      BY <1>3 DEF Chunk, At
    <2>2. total + n <= MaxBytes /\ buffer <= Larger(InitialBuffer, MaxBytes)
      BY <1>1, <1>3, <2>1, BufferAssumption DEF BufferHolds
    <2>3. /\ total + n <= Grown(buffer, total + n)
          /\ Grown(buffer, total + n) <= Larger(InitialBuffer, MaxBytes)
      BY <1>1, <2>2, BufferAssumption DEF Grown, Larger, Smaller
    <2> QED
      BY <2>1, <2>2, <2>3 DEF BufferHolds
  <1> QED
    BY <1>2, <1>3

\* Every step keeps the buffer.
LEMMA NextBuffer == DocInv /\ BufferHolds /\ [Next]_vars => BufferHolds'
  <1> SUFFICES ASSUME DocInv, BufferHolds, [Next]_vars PROVE BufferHolds'
    OBVIOUS
  <1>1. UNCHANGED fileOf
    BY DEF Next, vars
  <1>2. ASSUME pc' # "stream", why' # "size" \/ (why' = why /\ cur' = cur) PROVE BufferHolds'
    BY <1>1, <1>2 DEF BufferHolds
  <1>3. ASSUME UNCHANGED locals PROVE BufferHolds'
    BY <1>1, <1>3 DEF BufferHolds, locals
  <1>4. CASE \/ \E a \in Att : Insert(a) \/ Delete(a) \/ Reset(a)
             \/ Enqueue
             \/ \E a \in Att : Matching(a) \/ MatchFails(a) \/ Expire(a)
    BY <1>1, <1>3, <1>4, OutsideSteps
  <1>5. ASSUME NEW a \in Att, Load(a) PROVE BufferHolds'
    <2>1. pc' # "stream" /\ why' = "none"
      BY <1>5 DEF Load, DocInv, Holding
    <2> QED
      BY <1>2, <2>1
  <1>6. CASE \/ Begin \/ FetchRefused \/ StreamFails \/ StreamEnds \/ FindNoTwin
             \/ Record \/ Rematch \/ RecordFailure \/ CallFails
    BY <1>2, <1>6 DEF Begin, FetchRefused, StreamFails, StreamEnds, FindNoTwin, Record, Rematch,
                      RecordFailure, CallFails, Give, Go
  <1>7. CASE Extract \/ \E b \in Att : FindTwin(b)
    BY <1>2, <1>7 DEF Extract, FindTwin, Give
  <1>8. CASE Return \/ Throw \/ Die
    BY <1>2, <1>8 DEF Return, Throw, Die, Unfinished, Leave
  <1>9. CASE Fetch
    BY <1>1, <1>9, BufferAssumption DEF Fetch, BufferHolds, Larger
  <1>10. ASSUME NEW n \in 1 .. MaxBytes + 1, Chunk(n) PROVE BufferHolds'
    BY <1>1, <1>10, ChunkFits
  <1>11. CASE UNCHANGED vars
    BY <1>3, <1>11 DEF vars, moving
  <1> QED
    BY <1>4, <1>5, <1>6, <1>7, <1>8, <1>9, <1>10, <1>11 DEF Next, Process

\* What was received is inside the buffer, neither is over the cap, and a document is
\* refused for its size only if it is over the limit.
THEOREM BufferIsLargeEnough == Spec => []BufferHolds
  <1>1. Init => BufferHolds
    BY DEF Init, BufferHolds
  <1> QED
    BY InitDocInv, NextDocInv, NextBuffer, <1>1, PTL DEF Spec

---------------------------------------------------------------------------
(* Failures.                                                               *)

\* A failure about to be recorded is that of the attachment in hand.
Troubled ==
    /\ FailureIsOwn
    /\ pc = "fail" => cur \in troubled \/ status[cur] = "GONE"

\* Every step keeps failures to the attachments that failed.
LEMMA NextTroubled == DocInv /\ Troubled /\ [Next]_vars => Troubled'
  <1> SUFFICES ASSUME DocInv, Troubled, [Next]_vars PROVE Troubled'
    OBVIOUS
  <1> USE DEF DocInv, TypeOK, Troubled, FailureIsOwn, Exists
  <1>1. ASSUME NEW a \in Att, Insert(a) \/ Delete(a) \/ Reset(a) PROVE Troubled'
    <2>1. pc' = pc /\ cur' = cur /\ (pc = "fail" => cur \in Att)
      BY <1>1 DEF Insert, Delete, Reset, locals, Holding
    <2>2. CASE Delete(a)
      <3>1. status' = [status EXCEPT ![a] = "GONE"] /\ troubled' = troubled \ {a}
        BY <2>2 DEF Delete
      <3> QED
        BY <2>1, <3>1 DEF Stored, Read
    <2>3. CASE Insert(a) \/ Reset(a)
      <3>1. status' = [status EXCEPT ![a] = "PENDING"] /\ troubled' = troubled
        BY <2>3 DEF Insert, Reset, history
      <3>2. status[a] # "GONE"
        BY <2>3 DEF Insert, Reset, Stored, Read
      <3> QED
        BY <2>1, <3>1, <3>2
    <2> QED
      BY <1>1, <2>2, <2>3
  <1>2. CASE Enqueue \/ \E a \in Att : Matching(a) \/ MatchFails(a) \/ Expire(a)
    BY <1>2 DEF Enqueue, FindPending, AddOffered, Matching, MatchReads, MatchEnds, MatchFails,
                Expire, rows, locals, history
  <1>3. ASSUME NEW a \in Att, Load(a) PROVE Troubled'
    BY <1>3 DEF Load, rows
  <1>4. CASE FetchRefused \/ StreamFails \/ CallFails \/ \E n \in 1 .. MaxBytes + 1 : Chunk(n)
    BY <1>4 DEF FetchRefused, StreamFails, CallFails, Chunk, Give, At, rows
  <1>5. CASE Extract
    BY <1>5 DEF Extract, Give, rows
  <1>6. CASE Fetch \/ StreamEnds \/ FindNoTwin \/ Rematch \/ Return \/ \E b \in Att : FindTwin(b)
    BY <1>6 DEF Fetch, StreamEnds, FindNoTwin, Rematch, Return, FindTwin, Go, Leave, rows,
                history
  <1>7. CASE Begin
    BY <1>7 DEF Begin, At, Go, SetStatus
  <1>8. CASE Record
    <2>1. cur \in Att /\ result.status \in Read
      BY <1>8 DEF Record, At, Fits
    <2>2. /\ status' = [status EXCEPT ![cur] = IF status[cur] \in Stored THEN result.status ELSE @]
          /\ troubled' = troubled \ {cur} /\ pc' # "fail"
      BY <1>8 DEF Record, SetStatus
    <2> QED
      BY <2>1, <2>2 DEF Stored, Read
  <1>9. CASE RecordFailure
    <2>1. cur \in Att /\ (status[cur] \in Stored => cur \in troubled)
      BY <1>9 DEF RecordFailure, At, Stored, Read
    <2> QED
      BY <1>9, <2>1 DEF RecordFailure, SetStatus, Go, history, Stored, Read
  <1>10. CASE Throw \/ Die
    BY <1>10 DEF Throw, Die, Unfinished, Leave, rows
  <1>11. CASE UNCHANGED vars
    BY <1>11 DEF vars, moving, rows, locals, history
  <1> QED
    BY <1>1, <1>2, <1>3, <1>4, <1>5, <1>6, <1>7, <1>8, <1>9, <1>10, <1>11 DEF Next, Process

\* A failure is never taken over from another announcement's row of the same file.
THEOREM FailuresAreOwn == Spec => []FailureIsOwn
  <1>1. Init => Troubled
    BY DEF Init, Troubled, FailureIsOwn
  <1>2. Troubled => FailureIsOwn
    BY DEF Troubled
  <1> QED
    BY InitDocInv, NextDocInv, NextTroubled, <1>1, <1>2, PTL DEF Spec

---------------------------------------------------------------------------
(* Rows left in the middle.                                                *)

\* A row is not left PROCESSING once a verdict has been recorded.
Stuck ==
    /\ StuckOnlyIfAbandoned
    /\ pc \in {"rematch", "return"} => status[cur] # "PROCESSING"

\* Every step keeps it.
LEMMA NextStuck == DocInv /\ Stuck /\ [Next]_vars => Stuck'
  <1> SUFFICES ASSUME DocInv, Stuck, [Next]_vars PROVE Stuck'
    OBVIOUS
  <1> USE DEF DocInv, TypeOK, Stuck, StuckOnlyIfAbandoned
  <1>1. ASSUME NEW a \in Att, Insert(a) \/ Delete(a) \/ Reset(a) PROVE Stuck'
    <2>1. /\ UNCHANGED <<pc, cur, docTask>> /\ (pc \in {"rematch", "return"} => cur \in Att)
          /\ abandoned' \in {abandoned, abandoned \ {a}}
      BY <1>1 DEF Insert, Delete, Reset, queues, history, locals, Holding
    <2>2. PICK v \in {"PENDING", "GONE"} : status' = [status EXCEPT ![a] = v]
      BY <1>1 DEF Insert, Delete, Reset
    <2> QED
      BY <2>1, <2>2
  <1>2. CASE FindPending \/ \E a \in Att : Matching(a) \/ MatchFails(a)
    BY <1>2 DEF FindPending, Matching, MatchReads, MatchEnds, MatchFails, rows, locals, history
  <1>3. ASSUME UNCHANGED <<rows, locals, abandoned>>,
               \A a \in Att : docTask[a].st \in {"waiting", "active"} =>
                   docTask'[a].st \in {"waiting", "active"}
        PROVE Stuck'
    BY <1>3 DEF rows, locals
  <1>4. CASE AddOffered
    BY <1>3, <1>4 DEF AddOffered, history
  <1>5. ASSUME NEW a \in Att, Expire(a) PROVE Stuck'
    <2>1. \/ docTask' = docTask
          \/ docTask[a].st = "failed" /\ docTask' = [docTask EXCEPT ![a] = Absent]
      BY <1>5 DEF Expire
    <2> QED
      BY <1>3, <1>5, <2>1 DEF Expire, history
  <1>6. ASSUME NEW a \in Att, Load(a) PROVE Stuck'
    <2>1. UNCHANGED rows /\ abandoned' = abandoned \ {a} /\ pc' \notin {"rematch", "return"}
      BY <1>6 DEF Load
    <2>2. CASE Exists(a)
      <3>1. docTask[a] \in Task /\ [docTask[a] EXCEPT !.st = "active"].st = "active"
        BY TaskType
      <3>2. docTask' = [docTask EXCEPT ![a] = [docTask[a] EXCEPT !.st = "active"]]
        BY <1>6, <2>2 DEF Load
      <3> QED
        BY <2>1, <3>1, <3>2 DEF rows
    <2>3. CASE ~Exists(a)
      <3>1. docTask' = [docTask EXCEPT ![a] = Absent] /\ status[a] # "PROCESSING"
        BY <1>6, <2>3 DEF Load, Exists, Stored
      <3> QED
        BY <2>1, <3>1 DEF rows
    <2> QED
      BY <2>2, <2>3
  <1>7. ASSUME UNCHANGED <<rows, docTask, abandoned>>, pc' \notin {"rematch", "return"}
        PROVE Stuck'
    BY <1>7 DEF rows
  <1>8. CASE \/ FetchRefused \/ StreamFails \/ CallFails \/ Fetch \/ StreamEnds \/ FindNoTwin
             \/ \E n \in 1 .. MaxBytes + 1 : Chunk(n)
    BY <1>7, <1>8 DEF FetchRefused, StreamFails, CallFails, Fetch, StreamEnds, FindNoTwin, Chunk,
                      At, Give, Go, queues, history
  <1>9. CASE Extract \/ \E b \in Att : FindTwin(b)
    BY <1>7, <1>9 DEF Extract, FindTwin, Give, queues, history
  <1>10. CASE Rematch
    BY <1>10 DEF Rematch, At, Go, rows
  <1>11. CASE Begin
    <2>1. cur \in Att /\ docTask[cur].st = "active"
      BY <1>11 DEF Begin, At, Holding
    <2> QED
      BY <1>11, <2>1 DEF Begin, At, Go, SetStatus, queues
  <1>12. CASE Record \/ RecordFailure
    <2>1. /\ cur \in Att /\ cur' = cur /\ UNCHANGED <<docTask, abandoned>>
          /\ \E v \in Read \cup {"FAILED"} :
                status' = [status EXCEPT ![cur] = IF Exists(cur) THEN v ELSE @]
      BY <1>12 DEF Record, RecordFailure, SetStatus, At, Go, Fits, queues, history
    <2>2. /\ status'[cur] # "PROCESSING"
          /\ \A a \in Att : status'[a] = "PROCESSING" => status[a] = "PROCESSING"
      BY <2>1 DEF Exists, Stored, Read
    <2> QED
      BY <2>1, <2>2
  <1>13. CASE Return
    <2>1. /\ cur \in Att /\ status[cur] # "PROCESSING" /\ pc' = "idle"
          /\ docTask' = [docTask EXCEPT ![cur] = Absent] /\ UNCHANGED <<rows, abandoned>>
      BY <1>13 DEF Return, At, Leave, history
    <2> QED
      BY <2>1 DEF rows
  <1>14. CASE Throw \/ Die
    <2>1. cur \in Att /\ \E t : Unfinished(cur, t) /\ t.st \in {"waiting", "failed"}
      <3>1. cur \in Att /\ docTask[cur] \in Task /\ docTask[cur].st = "active"
        BY <1>14 DEF Throw, Die, Holding
      <3>2. docTask[cur].fails < Attempts /\ docTask[cur].stalls <= MaxStalled
        BY <3>1 DEF Holding
      <3> DEFINE t == docTask[cur]
      <3>3. CASE Throw
        <4> DEFINE st == IF t.fails + 1 < Attempts THEN "waiting" ELSE "failed"
        <4>1. Unfinished(cur, [st |-> st, fails |-> t.fails + 1, stalls |-> t.stalls])
          BY <3>3 DEF Throw
        <4>2. st \in {"waiting", "failed"}
          OBVIOUS
        <4> HIDE DEF st
        <4> QED
          BY <3>1, <3>2, <4>1, <4>2, TriedType
      <3>4. CASE Die
        <4> DEFINE st == IF t.stalls < MaxStalled THEN "waiting" ELSE "failed"
        <4>1. Unfinished(cur, [st |-> st, fails |-> t.fails, stalls |-> t.stalls + 1])
          BY <3>4 DEF Die
        <4>2. st \in {"waiting", "failed"}
          OBVIOUS
        <4> HIDE DEF st
        <4> QED
          BY <3>1, <3>2, <4>1, <4>2, StalledType
      <3> QED
        BY <1>14, <3>1, <3>3, <3>4
    <2>2. PICK t : Unfinished(cur, t) /\ t.st \in {"waiting", "failed"}
      BY <2>1
    <2>3. /\ docTask' = [docTask EXCEPT ![cur] = t] /\ UNCHANGED rows /\ pc' = "idle"
          /\ abandoned' = IF t.st = "failed" THEN abandoned \cup {cur} ELSE abandoned
      BY <2>2 DEF Unfinished, Leave
    <2> QED
      BY <2>1, <2>2, <2>3 DEF rows
  <1>15. CASE UNCHANGED vars
    BY <1>15 DEF vars, moving, rows, queues, locals, history
  <1> QED
    BY <1>1, <1>2, <1>4, <1>5, <1>6, <1>8, <1>9, <1>10, <1>11, <1>12, <1>13, <1>14, <1>15
       DEF Next, Process, Enqueue

\* A row is left PROCESSING with no task to finish it only if its task was given up.
THEOREM OnlyAbandonedAreStuck == Spec => []StuckOnlyIfAbandoned
  <1>1. Init => Stuck
    BY DEF Init, Stuck, StuckOnlyIfAbandoned
  <1>2. Stuck => StuckOnlyIfAbandoned
    BY DEF Stuck
  <1> QED
    BY InitDocInv, NextDocInv, NextStuck, <1>1, <1>2, PTL DEF Spec

---------------------------------------------------------------------------
(* The announcement of a document that was read.                           *)

\* Its announcement is matched with it, or will be, or could not be asked to.
Announced(a) ==
    status[a] = "COMPLETED" /\ matchTask[a] # "waiting" /\ a \notin unmatched => a \in heard

\* So it is of the attachment in hand once its matching has been asked for.
Matched ==
    /\ \A a \in Att : cur # a => Announced(a)
    /\ pc = "return" => Announced(cur)
    /\ \A a \in Att : matchTask[a] # "completed"

\* Every step keeps documents announced.
LEMMA NextMatched == DocInv /\ Matched /\ [Next]_vars => Matched'
  <1> SUFFICES ASSUME DocInv, Matched, [Next]_vars PROVE Matched'
    OBVIOUS
  <1> USE DEF DocInv, TypeOK, Matched, Announced
  <1>1. pc = "return" => cur \in Att
    BY DEF Holding
  <1>2. ASSUME NEW a \in Att, Insert(a) \/ Delete(a) \/ Reset(a) PROVE Matched'
    <2>1. /\ UNCHANGED <<pc, cur, matchTask>>
          /\ heard' \in {heard, heard \ {a}} /\ unmatched' \in {unmatched, unmatched \ {a}}
      BY <1>2 DEF Insert, Delete, Reset, queues, locals, history
    <2>2. PICK v \in {"PENDING", "GONE"} : status' = [status EXCEPT ![a] = v]
      BY <1>2 DEF Insert, Delete, Reset
    <2> QED
      BY <1>1, <2>1, <2>2
  <1>3. CASE Enqueue
    BY <1>3 DEF Enqueue, FindPending, AddOffered, rows, locals, history
  <1>4. ASSUME NEW a \in Att, Matching(a) \/ MatchFails(a) \/ Expire(a) PROVE Matched'
    <2>1. UNCHANGED <<pc, cur, status>>
      BY <1>4 DEF Matching, MatchReads, MatchEnds, MatchFails, Expire, rows, locals
    <2>2. CASE MatchReads(a)
      <3>1. /\ matchTask' = [matchTask EXCEPT ![a] = "active"] /\ UNCHANGED unmatched
            /\ heard' = IF status[a] = "COMPLETED" THEN heard \cup {a} ELSE heard
        BY <2>2 DEF MatchReads
      <3> QED
        BY <1>1, <2>1, <3>1
    <2>3. CASE MatchFails(a)
      <3>1. /\ matchTask' = [matchTask EXCEPT ![a] = "failed"] /\ UNCHANGED heard
            /\ unmatched' = unmatched \cup {a}
        BY <2>3 DEF MatchFails
      <3> QED
        BY <1>1, <2>1, <3>1
    <2>4. CASE MatchEnds(a) \/ Expire(a)
      <3>1. /\ \/ matchTask' = matchTask
               \/ matchTask[a] # "waiting" /\ matchTask' = [matchTask EXCEPT ![a] = "absent"]
            /\ UNCHANGED <<heard, unmatched>>
        BY <2>4 DEF MatchEnds, Expire, history
      <3> QED
        BY <1>1, <2>1, <3>1
    <2> QED
      BY <1>4, <2>2, <2>3, <2>4 DEF Matching
  <1>5. ASSUME NEW a \in Att, Load(a) PROVE Matched'
    <2>1. /\ UNCHANGED <<status, matchTask, heard>> /\ unmatched' = unmatched \ {a}
          /\ pc = "idle" /\ cur = None /\ pc' # "return"
          /\ \/ Exists(a) /\ cur' = a
             \/ ~Exists(a) /\ cur' = cur
      BY <1>5 DEF Load, rows, Holding
    <2> QED
      BY <2>1, NoneAssumption DEF Exists, Stored, Read
  <1>6. ASSUME UNCHANGED <<cur, status, matchTask, heard, unmatched>>, pc' # "return"
        PROVE Matched'
    BY <1>6
  <1>7. CASE \/ FetchRefused \/ StreamFails \/ CallFails \/ Fetch \/ StreamEnds \/ FindNoTwin
             \/ \E n \in 1 .. MaxBytes + 1 : Chunk(n)
    BY <1>6, <1>7 DEF FetchRefused, StreamFails, CallFails, Fetch, StreamEnds, FindNoTwin, Chunk,
                      At, Give, Go, rows, queues, history
  <1>8. CASE Extract \/ \E b \in Att : FindTwin(b)
    BY <1>6, <1>8 DEF Extract, FindTwin, At, Give, rows, queues, history
  <1>9. CASE Begin \/ Record \/ RecordFailure
    <2>1. /\ cur \in Att /\ cur' = cur /\ UNCHANGED <<matchTask, unmatched>>
          /\ heard' \in {heard, heard \ {cur}}
      BY <1>9 DEF Begin, Record, RecordFailure, At, Go, queues, history
    <2>2. PICK v \in Read \cup {"FAILED", "PROCESSING"} :
             /\ status' = [status EXCEPT ![cur] = IF Exists(cur) THEN v ELSE @]
             /\ pc' = "return" => v # "COMPLETED"
      <3>1. CASE Record
        <4>1. result.status \in Read
          BY <3>1 DEF Record, At, Fits
        <4>2. /\ status' = [status EXCEPT ![cur] = IF Exists(cur) THEN result.status ELSE @]
              /\ pc' = "return" => result.status # "COMPLETED"
          BY <3>1 DEF Record, SetStatus
        <4> QED
          BY <4>1, <4>2
      <3>2. CASE Begin
        BY <3>2, "PROCESSING" # "COMPLETED" DEF Begin, SetStatus, At, Go
      <3>3. CASE RecordFailure
        BY <3>3, "FAILED" # "COMPLETED" DEF RecordFailure, SetStatus, At, Go
      <3> QED
        BY <1>9, <3>1, <3>2, <3>3
    <2>3. ~Exists(cur) => status[cur] # "COMPLETED"
      BY DEF Exists, Stored, Read
    <2> QED
      BY <2>1, <2>2, <2>3
  <1>10. CASE Rematch
    <2>1. /\ cur \in Att /\ cur' = cur /\ UNCHANGED <<status, heard>>
          /\ matchTask' = [matchTask EXCEPT ![cur] = IF @ = "absent" THEN "waiting" ELSE @]
          /\ unmatched' = IF matchTask[cur] \in {"active", "failed"}
                          THEN unmatched \cup {cur} ELSE unmatched
      BY <1>10 DEF Rematch, At, Go, rows
    <2>2. matchTask[cur] \in {"absent", "waiting", "active", "failed"}
      BY <2>1 DEF TaskState
    <2> QED
      BY <2>1, <2>2
  <1>11. CASE Return
    BY <1>11 DEF Return, At, Leave, rows, history
  <1>12. CASE Throw \/ Die
    BY <1>12 DEF Throw, Die, Unfinished, Leave, rows
  <1>13. CASE UNCHANGED vars
    BY <1>13 DEF vars, moving, rows, queues, locals, history
  <1> QED
    BY <1>2, <1>3, <1>4, <1>5, <1>7, <1>8, <1>9, <1>10, <1>11, <1>12, <1>13
       DEF Next, Process

\* Whatever was read has its announcement matched with it, unless the worker died before
\* it asked for that or an earlier task was running or had failed.
THEOREM ReadDocumentsAreMatched == Spec => []ReadIsMatched
  <1>1. Init => Matched
    BY DEF Init, Matched, Announced
  <1>2. Matched => ReadIsMatched
    BY DEF Matched, Announced, ReadIsMatched
  <1> QED
    BY InitDocInv, NextDocInv, NextMatched, <1>1, <1>2, PTL DEF Spec

---------------------------------------------------------------------------
(* Documents implements AttachmentRows.                                    *)

\* A row that was not inserted yet and one that was deleted are absent alike.
RowOf(s) ==
    CASE s \in {"NEW", "GONE"} -> "ABSENT"
      [] s \in {"PENDING", "PROCESSING"} -> "UNREAD"
      [] OTHER -> s

Rows == INSTANCE AttachmentRows WITH
    Row <- Att,
    reading <- [a \in Att |-> RowOf(status[a])],
    verdict <- [a \in Att |-> Verdict[fileOf[a]]]

\* The row in hand is one that was inserted, and from the first write to the verdict it is
\* unread, unless it was deleted.
Open ==
    /\ cur # None => status[cur] # "NEW"
    /\ pc \in {"fetch", "stream", "twin", "extract", "record"} =>
          status[cur] \in {"PENDING", "PROCESSING", "GONE"}

\* Only the worker's own writes and an operator's, which reopens it, touch the row in hand.
LEMMA NextOpen == DocInv /\ Open /\ [Next]_vars => Open'
  <1> SUFFICES ASSUME DocInv, Open, [Next]_vars PROVE Open'
    OBVIOUS
  <1> USE DEF DocInv, TypeOK, Open
  <1>1. ASSUME NEW a \in Att, Insert(a) \/ Delete(a) \/ Reset(a) PROVE Open'
    <2>1. UNCHANGED <<pc, cur>> /\ (pc # "idle" => cur \in Att)
      BY <1>1 DEF Insert, Delete, Reset, locals, Holding
    <2>2. \/ status[a] = "NEW" /\ status' = [status EXCEPT ![a] = "PENDING"]
          \/ status' = [status EXCEPT ![a] = "GONE"]
          \/ status' = [status EXCEPT ![a] = "PENDING"]
      BY <1>1 DEF Insert, Delete, Reset
    <2> QED
      BY <2>1, <2>2
  <1>2. ASSUME NEW a \in Att, Load(a) PROVE Open'
    BY <1>2 DEF Load, rows, Exists, Stored, Read
  <1>3. CASE Begin
    <2>1. /\ cur \in Att /\ UNCHANGED cur
          /\ status' = [status EXCEPT ![cur] = IF Exists(cur) THEN "PROCESSING" ELSE @]
      BY <1>3 DEF Begin, At, Go, SetStatus
    <2>2. cur # None
      BY <1>3 DEF Begin, At
    <2>3. Exists(cur) \/ status[cur] = "GONE"
      BY <2>1, <2>2 DEF Exists
    <2> QED
      BY <2>1, <2>3
  <1>4. ASSUME UNCHANGED <<status, cur>>,
               \/ UNCHANGED pc
               \/ pc \in {"fetch", "stream", "twin", "extract"}
               \/ pc' \notin {"fetch", "stream", "twin", "extract", "record"}
        PROVE Open'
    BY <1>4
  <1>5. CASE \/ Enqueue \/ (\E a \in Att : Matching(a) \/ MatchFails(a) \/ Expire(a))
             \/ UNCHANGED vars
    BY <1>4, <1>5 DEF Enqueue, FindPending, AddOffered, Matching, MatchReads, MatchEnds,
       MatchFails, Expire, vars, moving, rows, locals
  <1>6. CASE \/ FetchRefused \/ StreamFails \/ CallFails \/ Fetch \/ StreamEnds \/ FindNoTwin
             \/ Extract \/ Rematch \/ (\E b \in Att : FindTwin(b))
             \/ (\E n \in 1 .. MaxBytes + 1 : Chunk(n))
    BY <1>4, <1>6 DEF FetchRefused, StreamFails, CallFails, Fetch, StreamEnds, FindNoTwin,
       Extract, Rematch, FindTwin, Chunk, Give, Go, At, rows
  <1>7. CASE Record \/ RecordFailure
    <2>1. /\ cur \in Att /\ UNCHANGED cur /\ pc' \in {"rematch", "return"}
          /\ status' = [status EXCEPT ![cur] =
                           IF Exists(cur)
                           THEN IF Record THEN result.status ELSE "FAILED" ELSE @]
      BY <1>7 DEF Record, RecordFailure, At, Go, SetStatus
    <2>2. Record => result.status \in Read
      BY DEF Record, At, Fits
    <2> QED
      BY <2>1, <2>2 DEF Read
  <1>8. CASE Return \/ Throw \/ Die
    BY <1>8, NoneAssumption DEF Return, Throw, Die, Unfinished, Leave
  <1> QED
    BY <1>1, <1>2, <1>3, <1>5, <1>6, <1>7, <1>8 DEF Next, Process

\* The row in hand goes on from being unread when it is there.
LEMMA WorkerRows ==
  ASSUME DocInv, Open, UNCHANGED fileOf, Begin \/ Record \/ RecordFailure
  PROVE [Rows!RowsNext]_Rows!rows
  <1> USE DEF DocInv, TypeOK, Open, Rows!There
  <1>1. cur \in Att
    BY DEF Begin, Record, RecordFailure, At
  <1>2. PICK s \in Stored :
            /\ status' = [status EXCEPT ![cur] = IF Exists(cur) THEN s ELSE @]
            /\ Begin => s = "PROCESSING"
            /\ Record => s = result.status
            /\ RecordFailure => s = "FAILED"
    <2>1. /\ Begin => pc = "begin"
          /\ Record => pc = "record" /\ result.status \in Read
          /\ RecordFailure => pc = "fail"
      BY DEF Begin, Record, RecordFailure, At, Fits
    <2> QED
      BY <2>1 DEF Begin, Record, RecordFailure, SetStatus, Stored
  <1>3. CASE ~Exists(cur)
    <2>1. UNCHANGED <<status, fileOf>>
      BY <1>1, <1>2, <1>3
    <2> QED
      BY <2>1 DEF Rows!rows
  <1>4. CASE Exists(cur)
    <2>1. [a \in Att |-> RowOf(status'[a])] =
            [a \in Att |-> IF a \in {cur} THEN RowOf(s) ELSE [b \in Att |-> RowOf(status[b])][a]]
      BY <1>1, <1>2, <1>4
    <2>2. RowOf(status[cur]) # "ABSENT"
      BY <1>4 DEF Exists, Stored, Read, RowOf
    <2>3. CASE Begin
      <3>1. Rows!Reopen(cur)
        BY <1>1, <1>2, <2>1, <2>2, <2>3 DEF Rows!Reopen, Rows!Become, RowOf
      <3> QED
        BY <1>1, <3>1 DEF Rows!RowsNext
    <2>4. CASE Record
      <3>1. s = Verdict[fileOf[cur]] /\ s \in Read /\ RowOf(status[cur]) = "UNREAD"
        BY <1>2, <1>4, <2>4 DEF Record, At, Fits, Exists, Stored, Read, RowOf
      <3>2. Rows!Conclude(cur)
        BY <1>1, <2>1, <3>1 DEF Rows!Conclude, Rows!Become, Rows!Verdicts, RowOf, Read
      <3> QED
        BY <1>1, <3>2 DEF Rows!RowsNext
    <2>5. CASE RecordFailure
      <3>1. Rows!GiveUp(cur)
        BY <1>1, <1>2, <2>1, <2>2, <2>5 DEF Rows!GiveUp, Rows!Become, RowOf
      <3> QED
        BY <1>1, <3>1 DEF Rows!RowsNext
    <2> QED
      BY <2>3, <2>4, <2>5
  <1> QED
    BY <1>3, <1>4

\* Every other step leaves the rows alone, or is one of a crawl or an operator.
LEMMA OtherRows ==
  ASSUME DocInv, [Next]_vars, ~Begin, ~Record, ~RecordFailure
  PROVE [Rows!RowsNext]_Rows!rows
  <1> USE DEF DocInv, TypeOK, Rows!There
  <1>1. UNCHANGED fileOf
    BY DEF Next, vars
  <1>2. ASSUME NEW a \in Att, NEW s \in {"PENDING", "GONE"},
               status' = [status EXCEPT ![a] = s]
        PROVE Rows!Become({a}, RowOf(s))
    <2>1. [b \in Att |-> RowOf(status'[b])] =
            [b \in Att |-> IF b \in {a} THEN RowOf(s) ELSE [c \in Att |-> RowOf(status[c])][b]]
      BY <1>2
    <2> QED
      BY <2>1 DEF Rows!Become
  <1>3. ASSUME NEW a \in Att, Insert(a) PROVE Rows!RowsNext
    <2>1. Rows!InsertRows({a})
      BY <1>2, <1>3 DEF Insert, Rows!InsertRows, RowOf
    <2> QED
      BY <1>1, <2>1 DEF Rows!RowsNext
  <1>4. ASSUME NEW a \in Att, Delete(a) PROVE Rows!RowsNext
    <2>1. Rows!DeleteRows({a})
      BY <1>2, <1>4 DEF Delete, Rows!DeleteRows, RowOf
    <2> QED
      BY <1>1, <2>1 DEF Rows!RowsNext
  <1>5. ASSUME NEW a \in Att, Reset(a) PROVE Rows!RowsNext
    <2>1. RowOf(status[a]) # "ABSENT"
      BY <1>5 DEF Reset, Exists, Stored, Read, RowOf
    <2>2. Rows!Reopen(a)
      BY <1>2, <1>5, <2>1 DEF Reset, Rows!Reopen, RowOf
    <2> QED
      BY <1>1, <2>2 DEF Rows!RowsNext
  <1>6. CASE UNCHANGED status
    BY <1>1, <1>6 DEF Rows!rows
  <1>7. CASE ~ (\E a \in Att : Insert(a) \/ Delete(a) \/ Reset(a))
    <2>1. UNCHANGED status
      BY <1>7 DEF Next, Enqueue, FindPending, AddOffered, Process, Load, FetchRefused, Fetch,
         Chunk, StreamFails, StreamEnds, FindTwin, FindNoTwin, Extract, Rematch, Return,
         CallFails, Throw, Die, Unfinished, Matching, MatchReads, MatchEnds, MatchFails,
         Expire, vars, moving, rows
    <2> QED
      BY <1>6, <2>1
  <1> QED
    BY <1>3, <1>4, <1>5, <1>7

\* Whatever the faults, resets and deletions, the worker gives a verdict only to a row that
\* is there and unread, and no other than that of its file.
THEOREM ImplementsRows == Spec => Rows!RowsSpec
  <1>1. Init => Rows!RowsInit
    BY DEF Init, Rows!RowsInit, RowOf
  <1>2. Init => Open
    BY DEF Init, Open
  <1>3. DocInv /\ Open /\ [Next]_vars => [Rows!RowsNext]_Rows!rows
    BY WorkerRows, OtherRows DEF Next, vars
  <1> QED
    BY InitDocInv, NextDocInv, NextOpen, <1>1, <1>2, <1>3, PTL DEF Spec, Rows!RowsSpec

---------------------------------------------------------------------------
(* The document queue implements TaskQueue.                                *)

Queue == INSTANCE TaskQueue WITH Id <- Att, Slots <- 1, record <- docTask

\* A step on one record.
LEMMA OneRecord ==
  ASSUME TypeOK, NEW a \in Att, NEW r, docTask' = [docTask EXCEPT ![a] = r]
  PROVE Queue!Put({a}, r)
  <1>1. docTask' = [b \in Att |-> IF b \in {a} THEN r ELSE docTask[b]]
    BY DEF TypeOK
  <1> QED
    BY <1>1 DEF Queue!Put

\* The one worker is free when it takes a task.
LEMMA LoadMoves == ASSUME DocInv, NEW a \in Att, Load(a) PROVE Queue!QueueNext
  <1>1. {b \in Att : docTask[b].st = "active"} = {}
    BY NoneAssumption DEF Load, DocInv, Holding
  <1>2. Cardinality({b \in Att : docTask[b].st = "active"}) = 0
    BY <1>1, FS_EmptySet
  <1>3. {b \in Att : Queue!In(b, {"active"})} = {b \in Att : docTask[b].st = "active"}
    BY DEF Queue!In
  <1>4. \A S : Queue!Cardinality(S) = Cardinality(S)
    BY DEF Queue!Cardinality, Cardinality
  <1>5. Queue!FreeSlot /\ Queue!In(a, {"waiting"})
    BY <1>2, <1>3, <1>4 DEF Queue!FreeSlot, Load, Queue!In
  <1>6. CASE Exists(a)
    <2>1. docTask' = [docTask EXCEPT ![a] = [docTask[a] EXCEPT !.st = "active"]]
      BY <1>6 DEF Load
    <2>2. Queue!Start(a)
      BY <1>5, <2>1, OneRecord DEF Queue!Start, Queue!Put, DocInv
    <2> QED
      BY <2>2 DEF Queue!QueueNext
  <1>7. CASE ~Exists(a)
    <2>1. Queue!Put({a}, Absent)
      BY <1>7, OneRecord DEF Load, DocInv
    <2>2. Queue!Finish(a)
      BY <1>5, <2>1 DEF Queue!Finish, Queue!Absent, Absent
    <2> QED
      BY <2>2 DEF Queue!QueueNext
  <1> QED
    BY <1>6, <1>7

\* A task returns, is tried again or has failed.
LEMMA EndMoves == ASSUME DocInv, Return \/ Throw \/ Die PROVE Queue!QueueNext
  <1>1. cur \in Att
    BY DEF DocInv, TypeOK, Return, At, Throw, Die
  <1>2. Queue!In(cur, {"active"})
    BY <1>1 DEF DocInv, Holding, Queue!In
  <1> DEFINE t == docTask[cur]
             again == IF t.fails + 1 < Attempts THEN "waiting" ELSE "failed"
             recovered == IF t.stalls < MaxStalled THEN "waiting" ELSE "failed"
  <1>3. CASE Return
    <2>1. Queue!Put({cur}, Absent)
      BY <1>1, <1>3, OneRecord DEF Return, DocInv
    <2>2. Queue!Finish(cur)
      BY <1>2, <2>1 DEF Queue!Finish, Queue!Absent, Absent
    <2> QED
      BY <1>1, <2>2 DEF Queue!QueueNext
  <1>4. CASE Throw
    <2>1. docTask' = [docTask EXCEPT ![cur] = [st |-> again, fails |-> t.fails + 1,
                                               stalls |-> t.stalls]]
      BY <1>4 DEF Throw, Unfinished
    <2>2. Queue!Throws(cur)
      BY <1>1, <1>2, <2>1, OneRecord DEF Queue!Throws, Queue!Put, DocInv
    <2> QED
      BY <1>1, <2>2 DEF Queue!QueueNext
  <1>5. CASE Die
    <2>1. docTask' = [docTask EXCEPT ![cur] = [st |-> recovered, fails |-> t.fails,
                                               stalls |-> t.stalls + 1]]
      BY <1>5 DEF Die, Unfinished
    <2>2. Queue!Stalls(cur)
      BY <1>1, <1>2, <2>1, OneRecord DEF Queue!Stalls, Queue!Put, DocInv
    <2> QED
      BY <1>1, <2>2 DEF Queue!QueueNext
  <1> QED
    BY <1>3, <1>4, <1>5

\* Whatever crawls offer and operators reset, the document queue does with its records what
\* a queue does: a retained failure swallows each new offer of its row, one document is read
\* at a time, and none is tried more often than it may.
THEOREM ImplementsQueue == Spec => Queue!QueueSpec
  <1>1. Init => Queue!QueueInit
    BY DEF Init, Queue!QueueInit, Queue!Absent, Absent
  <1>2. DocInv /\ [Next]_vars => [Queue!QueueNext]_docTask
    <2> SUFFICES ASSUME DocInv, [Next]_vars PROVE Queue!QueueNext \/ UNCHANGED docTask
      OBVIOUS
    <2>1. CASE AddOffered
      <3> DEFINE new == {a \in offer : docTask[a].st = "absent"}
      <3>1. new \in SUBSET Att /\ \A a \in new : Queue!In(a, {"absent"})
        BY DEF DocInv, TypeOK, Queue!In
      <3>2. docTask' = [a \in Att |-> IF a \in new THEN Waiting ELSE docTask[a]]
        BY <2>1 DEF AddOffered
      <3>3. Queue!Add(new)
        BY <3>1, <3>2 DEF Queue!Add, Queue!Put, Queue!Waiting, Waiting
      <3> QED
        BY <3>1, <3>3 DEF Queue!QueueNext
    <2>2. ASSUME NEW a \in Att, Expire(a) PROVE Queue!QueueNext \/ UNCHANGED docTask
      <3>1. CASE docTask[a].st = "failed" /\ docTask' = [docTask EXCEPT ![a] = Absent]
        <4>1. Queue!Put({a}, Absent)
          BY <3>1, OneRecord DEF DocInv
        <4>2. Queue!Forget({a})
          BY <3>1, <4>1 DEF Queue!Forget, Queue!In, Queue!Absent, Absent
        <4> QED
          BY <4>2 DEF Queue!QueueNext
      <3> QED
        BY <2>2, <3>1 DEF Expire
    <2>3. CASE \/ FindPending \/ Begin \/ FetchRefused \/ Fetch \/ StreamFails \/ StreamEnds
               \/ FindNoTwin \/ Extract \/ Record \/ Rematch \/ RecordFailure \/ CallFails
               \/ (\E n \in 1 .. MaxBytes + 1 : Chunk(n)) \/ (\E b \in Att : FindTwin(b))
      BY <2>3 DEF FindPending, Begin, FetchRefused, Fetch, StreamFails, StreamEnds, FindNoTwin,
         Extract, Record, Rematch, RecordFailure, CallFails, Chunk, FindTwin, queues
    <2>4. CASE \/ (\E a \in Att : Insert(a) \/ Delete(a) \/ Reset(a) \/ Matching(a)
                                  \/ MatchFails(a))
               \/ UNCHANGED vars
      BY <2>4 DEF Insert, Delete, Reset, Matching, MatchReads, MatchEnds, MatchFails, queues,
         vars, moving
    <2> QED
      BY <2>1, <2>2, <2>3, <2>4, LoadMoves, EndMoves DEF Next, Enqueue, Process
  <1> QED
    BY <1>1, <1>2, InitDocInv, NextDocInv, PTL DEF Spec, Queue!QueueSpec

=============================================================================
