------------------------------- MODULE TaskQueue -------------------------------
(***************************************************************************)
(* What this code asks of BullMQ for one of its queues: an id is added     *)
(* once while the queue still has a record of it, work is taken while a    *)
(* worker has a slot, a record in flight is let go by its worker or by a   *)
(* failure, and what was tried counts until the record is forgotten.  Who  *)
(* adds, what a worker does and when records are forgotten is left open:   *)
(* the queues of AlertDelivery and the one of Documents implement this.    *)
(***************************************************************************)
EXTENDS Naturals, FiniteSets

CONSTANTS Id, Attempts, MaxStalled, Slots

VARIABLE record

Absent == [st |-> "absent", fails |-> 0, stalls |-> 0]
Waiting == [st |-> "waiting", fails |-> 0, stalls |-> 0]
Completed == [st |-> "completed", fails |-> 0, stalls |-> 0]

QueueInit == record = [i \in Id |-> Absent]

In(i, S) == record[i].st \in S

\* Records of the ids in S become r; nothing else changes.
Put(S, r) == record' = [i \in Id |-> IF i \in S THEN r ELSE record[i]]

FreeSlot == Cardinality({i \in Id : In(i, {"active"})}) < Slots

\* add and addBulk drop the ids the queue has a record of, a retained one too.
Add(S) ==
    /\ \A i \in S : In(i, {"absent"})
    /\ Put(S, Waiting)

\* removeOnComplete and removeOnFail: never a record in flight.
Forget(S) ==
    /\ \A i \in S : ~In(i, {"waiting", "active"})
    /\ Put(S, Absent)

Start(i) ==
    /\ In(i, {"waiting"})
    /\ FreeSlot
    /\ Put({i}, [record[i] EXCEPT !.st = "active"])

\* The worker returned, maybe without a call to make.
Finish(i) ==
    /\ \/ In(i, {"active"})
       \/ In(i, {"waiting"}) /\ FreeSlot
    /\ Put({i}, Absent) \/ Put({i}, Completed)

\* An attempt is used up.
Throws(i) ==
    /\ In(i, {"active"})
    /\ Put({i}, [st |-> IF record[i].fails + 1 < Attempts THEN "waiting" ELSE "failed",
                 fails |-> record[i].fails + 1,
                 stalls |-> record[i].stalls])

\* The worker died.
Stalls(i) ==
    /\ In(i, {"active"})
    /\ Put({i}, [st |-> IF record[i].stalls < MaxStalled THEN "waiting" ELSE "failed",
                 fails |-> record[i].fails,
                 stalls |-> record[i].stalls + 1])

QueueNext ==
    \/ \E S \in SUBSET Id : Add(S) \/ Forget(S)
    \/ \E i \in Id : Start(i) \/ Finish(i) \/ Throws(i) \/ Stalls(i)

QueueSpec == QueueInit /\ [][QueueNext]_record

===============================================================================
