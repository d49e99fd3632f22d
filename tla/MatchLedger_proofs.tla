------------------------ MODULE MatchLedger_proofs ------------------------
(***************************************************************************)
(* What follows from the ledger's promises for every set of alerts and     *)
(* announcements, and so, with ImplementsLedger, for the pipeline.         *)
(***************************************************************************)
EXTENDS MatchLedger, TLAPS

LedgerInv == LedgerTypeOK /\ NotifiedWasDelivered

\* The ledger's steps keep its types and mark only what was delivered.
LEMMA LedgerInvStep == LedgerInv /\ [LedgerNext]_ledger => LedgerInv'
  <1> SUFFICES ASSUME LedgerInv, [LedgerNext]_ledger PROVE LedgerInv'
    OBVIOUS
  <1> USE DEF LedgerInv, LedgerTypeOK, LedgerState, NotifiedWasDelivered, Move
  <1>1. ASSUME NEW S \in SUBSET Match, Record(S) PROVE LedgerInv'
    BY <1>1 DEF Record
  <1>2. ASSUME NEW S \in SUBSET Match, Deliver(S) PROVE LedgerInv'
    BY <1>2 DEF Deliver
  <1>3. ASSUME NEW S \in SUBSET Match, Notify(S) PROVE LedgerInv'
    BY <1>3 DEF Notify
  <1>4. ASSUME NEW a \in Alert, Drop(a) PROVE LedgerInv'
    BY <1>4 DEF Drop
  <1>5. CASE UNCHANGED ledger
    BY <1>5 DEF ledger
  <1> QED
    BY <1>1, <1>2, <1>3, <1>4, <1>5 DEF LedgerNext

\* The ledger's promise in one invariant: what is marked notified was delivered.
THEOREM LedgerDelivers == LedgerSpec => []NotifiedWasDelivered
  <1>1. LedgerInit => LedgerInv
    BY DEF LedgerInit, LedgerInv, LedgerTypeOK, LedgerState, NotifiedWasDelivered
  <1>2. LedgerInv => NotifiedWasDelivered
    BY DEF LedgerInv
  <1> QED
    BY <1>1, <1>2, LedgerInvStep, PTL DEF LedgerSpec

\* A match never leaves "notified" but with its alert, and what has left "none"
\* never returns to it: nothing is recorded, or told as new, a second time.
THEOREM LedgerNeverGoesBack == LedgerSpec => [][NeverBack]_ledger
  <1>1. LedgerInit => LedgerInv
    BY DEF LedgerInit, LedgerInv, LedgerTypeOK, LedgerState, NotifiedWasDelivered
  <1>2. LedgerInv /\ [LedgerNext]_ledger => [NeverBack]_ledger
    <2> SUFFICES ASSUME LedgerInv, LedgerNext PROVE NeverBack
      BY DEF NeverBack, ledger
    <2> USE DEF LedgerInv, LedgerTypeOK, LedgerState, NeverBack, Move
    <2>1. ASSUME NEW S \in SUBSET Match, Record(S) \/ Deliver(S) \/ Notify(S)
          PROVE NeverBack
      BY <2>1 DEF Record, Deliver, Notify
    <2>2. ASSUME NEW a \in Alert, Drop(a) PROVE NeverBack
      BY <2>2 DEF Drop
    <2> QED
      BY <2>1, <2>2 DEF LedgerNext
  <1> QED
    BY <1>1, <1>2, LedgerInvStep, PTL DEF LedgerSpec

=============================================================================
