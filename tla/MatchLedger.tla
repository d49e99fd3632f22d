---------------------------- MODULE MatchLedger ----------------------------
(***************************************************************************)
(* What the alert pipeline promises about a match, an announcement that    *)
(* satisfies an alert: it is recorded once, its owner may be told of it    *)
(* more than once, it is marked notified only after that, it never goes    *)
(* back, and it is dropped only with its alert.  AlertDelivery implements  *)
(* this with queues, workers, retries and crashes.                         *)
(***************************************************************************)
CONSTANTS Alert, Job

Match == Alert \X Job

VARIABLES
    match,      \* where each match stands
    delivered   \* the matches some accepted email has carried

ledger == <<match, delivered>>

LedgerState == {"none", "pending", "notified", "gone"}

LedgerTypeOK ==
    /\ match \in [Match -> LedgerState]
    /\ delivered \in SUBSET Match

LedgerInit ==
    /\ match = [m \in Match |-> "none"]
    /\ delivered = {}

Move(S, from, to) ==
    match' = [m \in Match |-> IF m \in S /\ match[m] \in from THEN to ELSE match[m]]

\* Matches are recorded.
Record(S) ==
    /\ Move(S, {"none"}, "pending")
    /\ UNCHANGED delivered

\* An email carries recorded matches, perhaps again, perhaps too late.
Deliver(S) ==
    /\ \A m \in S : match[m] # "none"
    /\ delivered' = delivered \cup S
    /\ UNCHANGED match

\* Delivered matches are marked.
Notify(S) ==
    /\ S \subseteq delivered
    /\ Move(S, {"pending"}, "notified")
    /\ UNCHANGED delivered

\* An alert is deleted with its matches.
Drop(a) ==
    /\ Move({a} \X Job, {"pending", "notified"}, "gone")
    /\ UNCHANGED delivered

LedgerNext ==
    \/ \E S \in SUBSET Match : Record(S) \/ Deliver(S) \/ Notify(S)
    \/ \E a \in Alert : Drop(a)

LedgerSpec == LedgerInit /\ [][LedgerNext]_ledger

\* A match marked notified has been delivered.
NotifiedWasDelivered == \A m \in Match : match[m] = "notified" => m \in delivered

\* A recorded match never becomes unrecorded, a notified one never pending, and a
\* dropped one stays dropped.
NeverBack ==
    \A m \in Match :
        /\ match[m] # "none" => match'[m] # "none"
        /\ match[m] = "notified" => match'[m] \in {"notified", "gone"}
        /\ match[m] = "gone" => match'[m] = "gone"

=============================================================================
