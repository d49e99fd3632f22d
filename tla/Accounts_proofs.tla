--------------------------- MODULE Accounts_proofs ---------------------------
(***************************************************************************)
(* What an account keeps of its owner's wishes, and its deletion, for      *)
(* every number of users, requests and announcements.                      *)
(*                                                                         *)
(* Besides types there are six invariants.  Forgetting adds what the email *)
(* worker and a deletion in progress may still write.  Guarded says that   *)
(* whoever deletes an administrator has seen another.  Birth says that an  *)
(* alert is made once, and what cannot be before it is.  The others relate *)
(* the copy a request will save to the row, unless another request wrote   *)
(* to the row meanwhile: Wishes, that it brings back nothing; Floors, that *)
(* its floor is not behind; Heard, that what was missed lies before it.    *)
(*                                                                         *)
(* At the end, what the pure operators of Listings promise for every job,  *)
(* query, day and finite set of rows.                                      *)
(***************************************************************************)
EXTENDS Accounts, Listings, FiniteSetTheorems, TLAPS

InHand == \A c \in Call :
    /\ pc[c] # "idle" => who[c] \in User
    /\ pc[c] \in Editing \cup {"insert"} => copy[c] \in Row

TypeInv == TypeOK /\ InHand

---------------------------------------------------------------------------
(* Types.                                                                  *)

\* The initial states are well typed.
LEMMA InitTypeInv == Init => TypeInv
  <1> SUFFICES ASSUME Init
               PROVE TypeInv
    OBVIOUS
  <1>1. discovered \in 0 .. MaxJobs
    BY BoundAssumption DEF Init
  <1>2. /\ role \in [User -> {"USER", "ADMIN", "GONE"}]
        /\ alert \in [User -> Row \cup {None}]
        /\ matched \in [User -> SUBSET Job] /\ missed \in [User -> SUBSET Job]
    BY DEF Init
  <1>3. /\ pc \in [Call -> Place]
        /\ who \in [Call -> User \cup {None}]
        /\ copy \in [Call -> Row \cup {None}]
        /\ dirty \in [Call -> SUBSET Column]
    BY DEF Init, Place
  <1>4. TypeOK
    BY <1>1, <1>2, <1>3 DEF Init, TypeOK
  <1>5. InHand
    BY DEF Init, InHand, Editing
  <1> QED
    BY <1>4, <1>5 DEF TypeInv

\* The parts of a row.
LEMMA RowType ==
  /\ \A r \in Row : r.isActive \in BOOLEAN /\ r.matchFrom \in Floor
  /\ \A b \in BOOLEAN, f \in Floor : [isActive |-> b, matchFrom |-> f] \in Row
  /\ TypeOK => Now \in Floor
  BY BoundAssumption DEF Row, Floor, Now, TypeOK

\* A request begins with a user in hand, and an edit with a row.
LEMMA BeginType ==
  ASSUME TypeInv, NEW c \in Call, NEW u \in User, Begin(c, u)
  PROVE TypeInv'
  <1> USE DEF TypeInv, TypeOK, InHand, Idle, Go, Place, Editing, Deleting,
              tables, marks
  <1>1. ASSUME NEW r \in Row, NEW on, Edit(c, u, r, on), patched' \in SUBSET User
        PROVE TypeInv'
    BY <1>1 DEF Edit
  <1>2. alert[u] # None =>
          /\ alert[u].isActive \in BOOLEAN /\ alert[u].matchFrom \in Floor
          /\ \A b \in BOOLEAN : [alert[u] EXCEPT !.isActive = b] \in Row
    BY DEF Row
  <1>3. CASE ReadUser(c, u)
    <2>1. [isActive |-> TRUE, matchFrom |-> Now] \in Row
      BY RowType
    <2> QED
      BY <1>3, <2>1 DEF ReadUser
  <1>4. CASE Pause(c, u)
    <2>1. [alert[u] EXCEPT !.isActive = FALSE] \in Row
      BY <1>2, <1>4 DEF Pause, Edit
    <2> QED
      BY <1>1, <1>4, <2>1 DEF Pause
  <1>5. CASE Resume(c, u)
    <2>1. [isActive |-> TRUE, matchFrom |-> Now] \in Row
      BY RowType
    <2> QED
      BY <1>1, <1>5, <2>1 DEF Resume
  <1>6. ASSUME NEW isActive \in {"omitted", "true", "false"}, Update(c, u, isActive)
        PROVE TypeInv'
    <2> DEFINE r == [alert[u] EXCEPT !.isActive = IF isActive = "omitted" THEN @
                                                  ELSE isActive = "true"]
    <2>1. r \in Row
      BY <1>2, <1>6 DEF Update, Edit
    <2>2. Edit(c, u, r, isActive = "true") /\ patched' \in SUBSET User
      BY <1>6 DEF Update
    <2> HIDE DEF r
    <2> QED
      BY <1>1, <2>1, <2>2
  <1>7. CASE ReadForDelete(c, u)
    BY <1>7 DEF ReadForDelete
  <1>8. CASE FindByToken(c, u)
    BY <1>8 DEF FindByToken
  <1>9. CASE BeginDelete(c, u)
    BY <1>9 DEF BeginDelete
  <1> QED
    BY <1>3, <1>4, <1>5, <1>6, <1>7, <1>8, <1>9 DEF Begin

\* A request goes on with what it has.
LEMMA ContinueType ==
  ASSUME TypeInv, NEW c \in Call, Continue(c)
  PROVE TypeInv'
  <1> USE DEF TypeInv, TypeOK, InHand, Place, Editing, Deleting, tables, marks
  <1>1. ASSUME Leave(c) PROVE
          /\ pc' \in [Call -> Place] /\ who' \in [Call -> User \cup {None}]
          /\ copy' \in [Call -> Row \cup {None}] /\ dirty' \in [Call -> SUBSET Column]
          /\ InHand'
    BY <1>1 DEF Leave, Go
  <1>2. ASSUME NEW u \in User, NEW r \in Row \cup {None}, Put(c, u, r)
        PROVE alert' \in [User -> Row \cup {None}] /\ overtaken' \in SUBSET User
    BY <1>2 DEF Put
  <1>3. pc[c] # "idle" => who[c] \in User
    OBVIOUS
  <1>4. CASE InsertAlert(c)
    <2>1. copy[c] \in Row /\ who[c] \in User
      BY <1>4 DEF InsertAlert
    <2>2. alert' \in [User -> Row \cup {None}] /\ overtaken' \in SUBSET User
      BY <1>2, <1>4, <2>1 DEF InsertAlert
    <2> QED
      BY <1>1, <1>4, <2>2 DEF InsertAlert
  <1>5. CASE Compare(c)
    <2>1. CASE Leave(c)
      BY <1>1, <1>5, <2>1 DEF Compare
    <2>2. CASE \E p \in {"reinsert", "write"} : Go(c, p, who[c]) /\ UNCHANGED copy
      <3>1. dirty' \in [Call -> SUBSET Column]
        BY <1>5 DEF Compare, Leave
      <3>2. copy[c] \in Row /\ who[c] \in User
        BY <1>5 DEF Compare
      <3> QED
        BY <1>5, <2>2, <3>1, <3>2 DEF Compare, Go
    <2> QED
      BY <1>5, <2>1, <2>2 DEF Compare
  <1>6. CASE Write(c)
    <2>1. copy[c] \in Row /\ who[c] \in User
      BY <1>6 DEF Write
    <2>2. alert' \in [User -> Row \cup {None}] /\ overtaken' \in SUBSET User
      <3>1. CASE alert[who[c]] = None
        BY <1>6, <3>1 DEF Write
      <3>2. CASE alert[who[c]] # None
        <4> DEFINE kept(k) == IF k \in dirty[c] THEN copy[c] ELSE alert[who[c]]
                   r == [isActive |-> kept("isActive").isActive,
                         matchFrom |-> kept("matchFrom").matchFrom]
        <4>1. kept("isActive") \in Row /\ kept("matchFrom") \in Row
          BY <2>1, <3>2
        <4>2. Put(c, who[c], r)
          BY <1>6, <3>2 DEF Write
        <4> HIDE DEF kept
        <4>3. r \in Row
          BY <4>1, RowType
        <4> HIDE DEF r
        <4> QED
          BY <1>2, <2>1, <4>2, <4>3
      <3> QED
        BY <3>1, <3>2
    <2> QED
      BY <1>1, <1>6, <2>2 DEF Write
  <1>7. CASE Reinsert(c)
    <2>1. copy[c] \in Row /\ who[c] \in User
      BY <1>7 DEF Reinsert
    <2>2. alert' \in [User -> Row \cup {None}] /\ overtaken' \in SUBSET User
      BY <1>2, <1>7, <2>1 DEF Reinsert
    <2> QED
      BY <1>1, <1>7, <2>2 DEF Reinsert
  <1>8. CASE DeleteAlert(c)
    <2>1. who[c] \in User
      BY <1>8 DEF DeleteAlert
    <2>2. alert' \in [User -> Row \cup {None}] /\ overtaken' \in SUBSET User
      BY <1>2, <1>8, <2>1 DEF DeleteAlert
    <2> QED
      BY <1>1, <1>8, <2>1, <2>2 DEF DeleteAlert
  <1>9. CASE Silence(c)
    <2>1. who[c] \in User
      BY <1>9 DEF Silence
    <2>2. alert' \in [User -> Row \cup {None}] /\ overtaken' \in SUBSET User
      <3>1. alert[who[c]] # None => [alert[who[c]] EXCEPT !.isActive = FALSE] \in Row
        BY <2>1 DEF Row
      <3> QED
        BY <1>2, <1>9, <2>1, <3>1 DEF Silence
    <2> QED
      BY <1>1, <1>9, <2>1, <2>2 DEF Silence
  <1>10. CASE CountAdmins(c)
    <2>1. CASE Leave(c)
      BY <1>1, <1>10, <2>1 DEF CountAdmins
    <2>2. CASE Go(c, "erase", who[c]) /\ UNCHANGED <<copy, dirty>>
      BY <1>3, <1>10, <2>2 DEF CountAdmins, Go
    <2> QED
      BY <1>10, <2>1, <2>2 DEF CountAdmins
  <1>11. CASE EraseLog(c)
    BY <1>3, <1>11 DEF EraseLog, Go
  <1>12. CASE RemoveUser(c)
    BY <1>1, <1>3, <1>12 DEF RemoveUser
  <1>13. CASE Fail(c)
    BY <1>1, <1>13 DEF Fail
  <1> QED
    BY <1>4, <1>5, <1>6, <1>7, <1>8, <1>9, <1>10, <1>11, <1>12, <1>13 DEF Continue

\* Every step keeps the types.
LEMMA NextTypeInv == TypeInv /\ [Next]_vars => TypeInv'
  <1> SUFFICES ASSUME TypeInv, [Next]_vars PROVE TypeInv'
    OBVIOUS
  <1> USE DEF TypeInv, TypeOK, InHand, tables, locals, marks
  <1>1. CASE Discover
    BY <1>1, BoundAssumption DEF Discover, Now, Job
  <1>2. ASSUME NEW j \in Job, Match(j) PROVE TypeInv'
    BY <1>2 DEF Match
  <1>3. ASSUME NEW u \in User, NEW r \in {"USER", "ADMIN"}, SetRole(u, r) PROVE TypeInv'
    BY <1>3 DEF SetRole
  <1>4. ASSUME NEW u \in User, SaveJob(u) \/ UnsaveJob(u) PROVE TypeInv'
    BY <1>4 DEF SaveJob, UnsaveJob
  <1>5. ASSUME NEW u \in User, LoadAlert(u) \/ LogMail(u) PROVE TypeInv'
    BY <1>5 DEF LoadAlert, LogMail
  <1>6. CASE UNCHANGED vars
    BY <1>6 DEF vars
  <1>7. ASSUME NEW c \in Call, NEW u \in User, Begin(c, u) PROVE TypeInv'
    BY <1>7, BeginType
  <1>8. ASSUME NEW c \in Call, Continue(c) PROVE TypeInv'
    BY <1>8, ContinueType
  <1> QED
    BY <1>1, <1>2, <1>3, <1>4, <1>5, <1>6, <1>7, <1>8 DEF Next

\* Every reachable state is well typed.
THEOREM TypeCorrect == Spec => []TypeOK
  <1>1. TypeInv => TypeOK
    BY DEF TypeInv
  <1> QED
    BY InitTypeInv, NextTypeInv, <1>1, PTL DEF Spec

---------------------------------------------------------------------------
(* Forgetting.                                                             *)

\* What may still be written to the log of a user who is gone, or is about to be.
Forgetting ==
    /\ GoneIsForgotten
    /\ \A u \in User : role[u] = "GONE" /\ u \in mailing => u \in straddled
    /\ \A c \in Call : pc[c] = "remove" /\ who[c] \in mailing \cup log => who[c] \in straddled

\* Steps that touch neither users nor what is mailed to them, and make no alert.
LEMMA ForgettingKeep ==
  ASSUME Forgetting, UNCHANGED <<role, saved, log, mailing, straddled>>,
         \A u \in User : role[u] = "GONE" => alert'[u] = None,
         \A c \in Call : pc'[c] = "remove" => pc[c] = "remove" /\ who'[c] = who[c]
  PROVE Forgetting'
  BY DEF Forgetting, GoneIsForgotten

\* Every step keeps it.
LEMMA NextForgetting == TypeInv /\ Forgetting /\ [Next]_vars => Forgetting'
  <1> SUFFICES ASSUME TypeInv, Forgetting, [Next]_vars PROVE Forgetting'
    OBVIOUS
  <1> USE DEF TypeInv, TypeOK, InHand
  <1>1. ASSUME NEW c \in Call, NEW u \in User, Begin(c, u) PROVE Forgetting'
    <2>1. /\ UNCHANGED <<role, alert, saved, log, mailing, straddled>>
          /\ \A d \in Call : pc'[d] = "remove" => pc[d] = "remove" /\ who'[d] = who[d]
      BY <1>1 DEF Begin, ReadUser, Pause, Resume, Update, Edit, ReadForDelete, FindByToken,
                  BeginDelete, Go, tables
    <2> QED
      BY <2>1, ForgettingKeep DEF Forgetting, GoneIsForgotten
  <1>2. ASSUME NEW c \in Call,
               \/ InsertAlert(c) \/ Compare(c) \/ Write(c) \/ Reinsert(c) \/ DeleteAlert(c)
               \/ Silence(c) \/ CountAdmins(c) \/ Fail(c)
        PROVE Forgetting'
    <2>1. UNCHANGED <<role, saved, log, mailing, straddled>>
      BY <1>2 DEF InsertAlert, Compare, Write, Reinsert, DeleteAlert, Silence, CountAdmins,
                  Fail, tables
    <2>2. \A d \in Call : pc'[d] = "remove" => pc[d] = "remove" /\ who'[d] = who[d]
      BY <1>2 DEF InsertAlert, Compare, Write, Reinsert, DeleteAlert, Silence, CountAdmins,
                  Fail, Leave, Go
    <2>3. \A u \in User : role[u] = "GONE" => alert[u] = None
      BY DEF Forgetting, GoneIsForgotten
    <2>4. \A u \in User : role[u] = "GONE" => alert'[u] = None
      <3>1. CASE InsertAlert(c) \/ Reinsert(c)
        BY <2>3, <3>1 DEF InsertAlert, Reinsert, Put, Exists
      <3>2. CASE Write(c)
        BY <2>3, <3>2 DEF Write, Put
      <3>3. CASE DeleteAlert(c) \/ Silence(c)
        BY <2>3, <3>3 DEF DeleteAlert, Silence, Put
      <3>4. CASE Compare(c) \/ CountAdmins(c) \/ Fail(c)
        BY <2>3, <3>4 DEF Compare, CountAdmins, Fail, tables
      <3> QED
        BY <1>2, <3>1, <3>2, <3>3, <3>4
    <2> QED
      BY <2>1, <2>2, <2>4, ForgettingKeep
  <1>3. ASSUME NEW c \in Call, EraseLog(c) PROVE Forgetting'
    <2>1. /\ UNCHANGED <<role, alert, saved, mailing>> /\ log' = log \ {who[c]}
          /\ pc' = [pc EXCEPT ![c] = "remove"] /\ who' = who
          /\ straddled \subseteq straddled'
          /\ who[c] \in mailing => who[c] \in straddled'
      BY <1>3 DEF EraseLog, Go
    <2> QED
      BY <2>1 DEF Forgetting, GoneIsForgotten
  <1>4. ASSUME NEW c \in Call, RemoveUser(c) PROVE Forgetting'
    <2> DEFINE u == who[c]
    <2>1. /\ u \in User /\ pc[c] = "remove"
          /\ role' = [role EXCEPT ![u] = "GONE"] /\ alert' = [alert EXCEPT ![u] = None]
          /\ saved' = saved \ {u} /\ UNCHANGED <<log, mailing, straddled>>
          /\ \A d \in Call : pc'[d] = "remove" => pc[d] = "remove" /\ who'[d] = who[d]
      BY <1>4 DEF RemoveUser, Leave, Go
    <2>2. u \in mailing \cup log => u \in straddled
      BY <2>1 DEF Forgetting
    <2> HIDE DEF u
    <2> QED
      BY <2>1, <2>2 DEF Forgetting, GoneIsForgotten
  <1>5. ASSUME NEW u \in User, NEW r \in {"USER", "ADMIN"}, SetRole(u, r) PROVE Forgetting'
    BY <1>5 DEF SetRole, locals, Exists, Forgetting, GoneIsForgotten
  <1>6. ASSUME NEW u \in User, SaveJob(u) \/ UnsaveJob(u) PROVE Forgetting'
    BY <1>6 DEF SaveJob, UnsaveJob, locals, Exists, Forgetting, GoneIsForgotten
  <1>7. ASSUME NEW u \in User, LoadAlert(u) PROVE Forgetting'
    <2>1. /\ UNCHANGED <<role, alert, saved, log, pc, who>> /\ mailing' = mailing \cup {u}
          /\ alert[u] # None /\ straddled \subseteq straddled'
          /\ \A c \in Call : pc[c] = "remove" /\ who[c] = u => u \in straddled'
      BY <1>7 DEF LoadAlert, tables, locals
    <2> QED
      BY <2>1 DEF Forgetting, GoneIsForgotten
  <1>8. ASSUME NEW u \in User, LogMail(u) PROVE Forgetting'
    BY <1>8 DEF LogMail, locals, Forgetting, GoneIsForgotten
  <1>9. CASE Discover \/ (\E j \in Job : Match(j)) \/ UNCHANGED vars
    BY <1>9 DEF Discover, Match, vars, tables, locals, Forgetting, GoneIsForgotten
  <1> QED
    BY <1>1, <1>2, <1>3, <1>4, <1>5, <1>6, <1>7, <1>8, <1>9 DEF Next, Continue

\* A deleted account leaves nothing behind, in the email log either unless an email to it
\* was being sent meanwhile.
THEOREM DeletionForgets == Spec => []GoneIsForgotten
  <1>1. Init => Forgetting
    BY DEF Init, Forgetting, GoneIsForgotten
  <1>2. Forgetting => GoneIsForgotten
    BY DEF Forgetting
  <1> QED
    BY InitTypeInv, NextTypeInv, NextForgetting, <1>1, <1>2, PTL DEF Spec

---------------------------------------------------------------------------
(* Administrators.                                                         *)

\* Whoever deletes an administrator has seen another, and is alone.
Guarded == ~meddled =>
    /\ \A c, d \in Call : pc[c] \in Deleting /\ pc[d] \in Deleting => c = d
    /\ \A c \in Call : pc[c] \in {"erase", "remove"} /\ who[c] \in Admins =>
          Admins \ {who[c]} # {}

\* Of two administrators one is not the given one.
LEMMA AnotherAdmin ==
  ASSUME NEW u \in User, ~(Cardinality(Admins) <= 1)
  PROVE Admins \ {u} # {}
  <1> SUFFICES ASSUME Admins \subseteq {u} PROVE FALSE
    OBVIOUS
  <1>1. IsFiniteSet({u}) /\ Cardinality({u}) = 1
    BY FS_Singleton
  <1>2. Cardinality(Admins) <= Cardinality({u})
    BY <1>1, FS_Subset
  <1> QED
    BY <1>1, <1>2

\* Every step keeps it, and leaves an administrator.
LEMMA NextGuarded ==
  ASSUME TypeInv, Guarded, [Next]_vars
  PROVE Guarded' /\ (~meddled' /\ Admins # {} => Admins' # {})
  <1> USE DEF TypeInv, TypeOK, InHand
  <1>1. ASSUME UNCHANGED <<role, meddled>>,
               \A c \in Call : pc'[c] \in Deleting => pc[c] \in Deleting,
               \A c \in Call : pc'[c] \in {"erase", "remove"} =>
                   pc[c] \in {"erase", "remove"} /\ who'[c] = who[c]
        PROVE Guarded' /\ Admins' = Admins
    BY <1>1 DEF Guarded, Admins
  <1>2. ASSUME NEW c \in Call, NEW u \in User, Begin(c, u), ~BeginDelete(c, u)
        PROVE Guarded' /\ Admins' = Admins
    <2>1. /\ UNCHANGED <<role, meddled>>
          /\ pc'[c] \notin Deleting /\ \A d \in Call \ {c} : pc'[d] = pc[d] /\ who'[d] = who[d]
      BY <1>2 DEF Begin, ReadUser, Pause, Resume, Update, Edit, ReadForDelete, FindByToken,
                  Go, tables, Deleting
    <2>2. \A d \in Call : pc'[d] \in {"erase", "remove"} => pc'[d] \in Deleting
      BY DEF Deleting
    <2> QED
      BY <1>1, <2>1, <2>2
  <1>3. ASSUME NEW c \in Call, NEW u \in User, BeginDelete(c, u)
        PROVE Guarded' /\ Admins' = Admins
    BY <1>3 DEF BeginDelete, Go, tables, Guarded, Admins, Deleting
  <1>4. ASSUME NEW c \in Call,
               \/ InsertAlert(c) \/ Compare(c) \/ Write(c) \/ Reinsert(c) \/ DeleteAlert(c)
               \/ Silence(c) \/ EraseLog(c) \/ Fail(c)
        PROVE Guarded' /\ Admins' = Admins
    <2>1. UNCHANGED <<role, meddled>>
      BY <1>4 DEF InsertAlert, Compare, Write, Reinsert, DeleteAlert, Silence, EraseLog, Fail,
                  tables
    <2>2. /\ \A d \in Call : pc'[d] \in Deleting => pc[d] \in Deleting
          /\ \A d \in Call : pc'[d] \in {"erase", "remove"} =>
                 pc[d] \in {"erase", "remove"} /\ who'[d] = who[d]
      BY <1>4 DEF InsertAlert, Compare, Write, Reinsert, DeleteAlert, Silence, EraseLog, Fail,
                  Leave, Go, Deleting
    <2> QED
      BY <1>1, <2>1, <2>2
  <1>5. ASSUME NEW c \in Call, CountAdmins(c) PROVE Guarded' /\ Admins' = Admins
    <2>1. CASE Leave(c)
      BY <1>1, <1>5, <2>1 DEF CountAdmins, Leave, Go, tables, Deleting
    <2>2. CASE ~(Cardinality(Admins) <= 1)
      <3>1. Admins \ {who[c]} # {}
        BY <1>5, <2>2, AnotherAdmin DEF CountAdmins
      <3>2. /\ UNCHANGED <<role, meddled, who>> /\ pc[c] = "count"
            /\ pc' = [pc EXCEPT ![c] = "erase"]
        BY <1>5, <2>2 DEF CountAdmins, Go, tables
      <3> QED
        BY <3>1, <3>2 DEF Guarded, Admins, Deleting
    <2> QED
      BY <1>5, <2>1, <2>2 DEF CountAdmins
  <1>6. ASSUME NEW c \in Call, RemoveUser(c)
        PROVE Guarded' /\ (~meddled' /\ Admins # {} => Admins' # {})
    <2>1. /\ role' = [role EXCEPT ![who[c]] = "GONE"] /\ UNCHANGED meddled
          /\ pc[c] = "remove" /\ pc' = [pc EXCEPT ![c] = "idle"]
          /\ who' = [who EXCEPT ![c] = None] /\ who[c] \in User
      BY <1>6 DEF RemoveUser, Leave, Go
    <2>2. Admins' = Admins \ {who[c]}
      BY <2>1 DEF Admins
    <2>3. ~meddled => \A d \in Call : pc'[d] \notin Deleting
      BY <2>1 DEF Guarded, Deleting
    <2>4. Guarded'
      BY <2>1, <2>3 DEF Guarded, Deleting
    <2> QED
      BY <2>1, <2>2, <2>4 DEF Guarded
  <1>7. ASSUME NEW u \in User, NEW r \in {"USER", "ADMIN"}, SetRole(u, r)
        PROVE Guarded' /\ (~meddled' /\ Admins # {} => Admins' # {})
    <2>1. /\ role' = [role EXCEPT ![u] = r] /\ UNCHANGED <<pc, who>>
          /\ ~meddled' => r = "ADMIN" /\ ~meddled /\ \A d \in Call : pc[d] \notin Deleting
      BY <1>7 DEF SetRole, locals
    <2>2. ~meddled' => u \in Admins'
      BY <2>1 DEF Admins
    <2>3. Guarded'
      BY <2>1 DEF Guarded, Deleting
    <2> QED
      BY <2>2, <2>3
  <1>8. ASSUME NEW u \in User, SaveJob(u) \/ UnsaveJob(u) \/ LoadAlert(u) \/ LogMail(u)
        PROVE Guarded' /\ Admins' = Admins
    BY <1>1, <1>8 DEF SaveJob, UnsaveJob, LoadAlert, LogMail, tables, locals
  <1>9. CASE Discover \/ (\E j \in Job : Match(j)) \/ UNCHANGED vars
    BY <1>1, <1>9 DEF Discover, Match, vars, tables, locals
  <1> QED
    BY <1>2, <1>3, <1>4, <1>5, <1>6, <1>7, <1>8, <1>9 DEF Next, Continue

\* Deletions alone leave an administrator, unless two overlapped, or one and the command.
THEOREM LastAdminStays == Spec => AdminRemains
  <1>1. Init => Guarded
    BY DEF Init, Guarded, Deleting
  <1>2. TypeInv /\ Guarded /\ [Next]_vars => Guarded'
    BY NextGuarded
  <1>3. TypeInv /\ Guarded /\ [Next]_vars => [~meddled' /\ Admins # {} => Admins' # {}]_vars
    BY NextGuarded
  <1> QED
    BY InitTypeInv, NextTypeInv, <1>1, <1>2, <1>3, PTL DEF Spec, AdminRemains

---------------------------------------------------------------------------
(* Birth.                                                                  *)

OnAlert == {"insert", "delete", "silence"} \cup Editing

\* Nothing happens to an alert before it is made, and it is made once.
Birth ==
    /\ \A u \in User : alert[u] # None \/ missed[u] # {} => u \in born
    /\ removed \cup silenced \subseteq born
    /\ \A c \in Call : pc[c] \in OnAlert => who[c] \in born
    /\ \A c \in Call : pc[c] = "insert" =>
          /\ alert[who[c]] = None /\ missed[who[c]] = {}
          /\ who[c] \notin removed \cup silenced
          /\ \A d \in Call \ {c} : pc[d] \in OnAlert => who[d] # who[c]

\* The steps that leave an alert, what it missed and the copies of it alone.
Aside ==
    /\ UNCHANGED <<discovered, matched, born, missed, patched, removed, silenced, overtaken>>
    /\ \A u \in User : alert'[u] = alert[u] \/ alert'[u] = None
    /\ \A c \in Call : pc'[c] \in Editing \cup {"insert"} =>
          /\ who'[c] = who[c] /\ copy'[c] = copy[c]
          /\ IF pc'[c] = "insert" THEN pc[c] = "insert" ELSE pc[c] \in Editing
    /\ \A c \in Call : pc'[c] = "write" =>
          \/ pc[c] = "write" /\ dirty'[c] = dirty[c]
          \/ Compare(c)
    /\ \A c \in Call : pc'[c] \in {"delete", "silence"} =>
          \/ pc[c] = pc'[c] /\ who'[c] = who[c]
          \/ who'[c] \in User /\ alert[who'[c]] # None

\* The others stay where they are.
Others(c) == \A d \in Call \ {c} :
    pc'[d] = pc[d] /\ who'[d] = who[d] /\ copy'[d] = copy[d] /\ dirty'[d] = dirty[d]

\* The steps of a request that are aside.
LEMMA AsideSteps ==
  ASSUME TypeInv, NEW c \in Call, NEW u \in User,
         \/ ReadForDelete(c, u) \/ FindByToken(c, u) \/ BeginDelete(c, u)
         \/ Compare(c) \/ CountAdmins(c) \/ EraseLog(c) \/ RemoveUser(c) \/ Fail(c)
  PROVE Aside
  <1> USE DEF TypeInv, TypeOK, InHand, Go, Leave, Editing, Aside
  <1>1. CASE ReadForDelete(c, u) \/ FindByToken(c, u) \/ BeginDelete(c, u)
    BY <1>1 DEF ReadForDelete, FindByToken, BeginDelete, tables, marks
  <1>2. CASE Compare(c)
    <2>1. /\ UNCHANGED <<alert, discovered, matched, born, missed, patched, removed,
                         silenced, overtaken>>
          /\ pc[c] \in Editing
          /\ \A d \in Call \ {c} : UNCHANGED <<pc[d], who[d], copy[d], dirty[d]>>
          /\ pc'[c] # "idle" => who'[c] = who[c] /\ copy'[c] = copy[c]
          /\ pc'[c] \in Editing \cup {"idle"}
      BY <1>2 DEF Compare, tables, marks
    <2> QED
      BY <1>2, <2>1
  <1>3. CASE CountAdmins(c) \/ EraseLog(c) \/ RemoveUser(c) \/ Fail(c)
    BY <1>3 DEF CountAdmins, EraseLog, RemoveUser, Fail, tables, marks
  <1> QED
    BY <1>1, <1>2, <1>3

\* So are the steps of anybody else, but for a crawl's and a match.
LEMMA AsideOthers ==
  ASSUME TypeInv,
         \/ \E u \in User, r \in {"USER", "ADMIN"} : SetRole(u, r)
         \/ \E u \in User : SaveJob(u) \/ UnsaveJob(u) \/ LoadAlert(u) \/ LogMail(u)
         \/ UNCHANGED vars
  PROVE Aside
  BY DEF SetRole, SaveJob, UnsaveJob, LoadAlert, LogMail, vars, tables, locals, marks, Aside,
         TypeInv, TypeOK

Edits(c, u) ==
    \/ Pause(c, u)
    \/ Resume(c, u)
    \/ \E isActive \in {"omitted", "true", "false"} : Update(c, u, isActive)

\* What an edit takes from the row, and what it changes.
LEMMA EditSteps ==
  ASSUME TypeInv, NEW c \in Call, NEW u \in User, Edits(c, u)
  PROVE \E r \in Row, on \in BOOLEAN :
            /\ Edit(c, u, r, on)
            /\ r.matchFrom \in {alert[u].matchFrom, Now}
            /\ r.isActive => on \/ alert[u].isActive
            /\ patched' \in {patched, patched \cup {u}}
            /\ u \in patched' \/ r.matchFrom = Now \/ (r.isActive => alert[u].isActive)
  <1> USE DEF TypeInv, TypeOK
  <1>1. alert[u] # None /\ alert[u] \in Row
    BY DEF Edits, Pause, Resume, Update, Edit
  <1>2. \A b \in BOOLEAN : /\ [alert[u] EXCEPT !.isActive = b] \in Row
                           /\ [alert[u] EXCEPT !.isActive = b].isActive = b
                           /\ [alert[u] EXCEPT !.isActive = b].matchFrom = alert[u].matchFrom
    BY <1>1 DEF Row
  <1>3. CASE Pause(c, u)
    BY <1>2, <1>3 DEF Pause
  <1>4. CASE Resume(c, u)
    <2> DEFINE r == [isActive |-> TRUE, matchFrom |-> Now]
    <2>1. r \in Row /\ r.matchFrom = Now
      BY RowType
    <2>2. Edit(c, u, r, TRUE) /\ patched' = patched
      BY <1>4 DEF Resume
    <2> HIDE DEF r
    <2> QED
      BY <2>1, <2>2
  <1>5. ASSUME NEW isActive \in {"omitted", "true", "false"}, Update(c, u, isActive)
        PROVE \E r \in Row, on \in BOOLEAN :
                  /\ Edit(c, u, r, on)
                  /\ r.matchFrom \in {alert[u].matchFrom, Now}
                  /\ r.isActive => on \/ alert[u].isActive
                  /\ patched' \in {patched, patched \cup {u}}
                  /\ u \in patched' \/ r.matchFrom = Now \/ (r.isActive => alert[u].isActive)
    <2> DEFINE b == IF isActive = "omitted" THEN alert[u].isActive ELSE isActive = "true"
               r == [alert[u] EXCEPT !.isActive = b]
    <2>1. b \in BOOLEAN /\ (b => isActive = "true" \/ alert[u].isActive)
      BY <1>1 DEF Row
    <2>2. r \in Row /\ r.isActive = b /\ r.matchFrom = alert[u].matchFrom
      BY <1>2, <2>1
    <2>3. Edit(c, u, r, isActive = "true")
      BY <1>5 DEF Update
    <2>4. patched' = IF isActive = "true" THEN patched \cup {u} ELSE patched
      BY <1>5 DEF Update
    <2> HIDE DEF r, b
    <2>5. CASE isActive = "true"
      BY <2>1, <2>2, <2>3, <2>4, <2>5
    <2>6. CASE isActive # "true"
      BY <2>1, <2>2, <2>3, <2>4, <2>6
    <2> QED
      BY <2>5, <2>6
  <1> QED
    BY <1>3, <1>4, <1>5 DEF Edits

Puts(c) == InsertAlert(c) \/ Write(c) \/ Reinsert(c) \/ DeleteAlert(c) \/ Silence(c)

\* What a request does that may write the row it has in hand.
LEMMA PutSteps ==
  ASSUME TypeInv, NEW c \in Call, Puts(c)
  PROVE /\ pc[c] \in OnAlert /\ who[c] \in User /\ pc'[c] = "idle" /\ Others(c)
        /\ UNCHANGED <<discovered, matched, born, missed, patched>>
        /\ \/ UNCHANGED <<alert, overtaken>>
           \/ \E r \in Row \cup {None} : Put(c, who[c], r)
        /\ removed' \in {removed, removed \cup {who[c]}}
        /\ silenced' \in {silenced, silenced \cup {who[c]}}
  <1> USE DEF TypeInv, TypeOK, InHand, OnAlert, Editing
  <1>1. pc[c] \in OnAlert /\ who[c] \in User /\ pc'[c] = "idle" /\ Others(c)
    BY DEF Puts, InsertAlert, Write, Reinsert, DeleteAlert, Silence, Leave, Go, Others
  <1>2. UNCHANGED <<discovered, matched, born, missed, patched>>
    BY DEF Puts, InsertAlert, Write, Reinsert, DeleteAlert, Silence
  <1>3. /\ removed' \in {removed, removed \cup {who[c]}}
        /\ silenced' \in {silenced, silenced \cup {who[c]}}
    BY DEF Puts, InsertAlert, Write, Reinsert, DeleteAlert, Silence
  <1>4. CASE InsertAlert(c) \/ Reinsert(c)
    BY <1>1, <1>2, <1>3, <1>4 DEF InsertAlert, Reinsert
  <1>5. CASE Write(c) /\ alert[who[c]] # None
    <2> DEFINE kept(k) == IF k \in dirty[c] THEN copy[c] ELSE alert[who[c]]
               r == [isActive |-> kept("isActive").isActive,
                     matchFrom |-> kept("matchFrom").matchFrom]
    <2>1. kept("isActive") \in Row /\ kept("matchFrom") \in Row
      BY <1>1, <1>5 DEF Write
    <2>2. r \in Row
      BY <2>1, RowType
    <2>3. Put(c, who[c], r)
      BY <1>5 DEF Write
    <2> QED
      BY <1>1, <1>2, <1>3, <2>2, <2>3
  <1>6. CASE Write(c) /\ alert[who[c]] = None
    BY <1>1, <1>2, <1>3, <1>6 DEF Write
  <1>7. CASE DeleteAlert(c)
    BY <1>1, <1>2, <1>3, <1>7 DEF DeleteAlert
  <1>8. CASE Silence(c) /\ alert[who[c]] # None
    <2>1. [alert[who[c]] EXCEPT !.isActive = FALSE] \in Row
      BY <1>1, <1>8 DEF Row
    <2> QED
      BY <1>1, <1>2, <1>3, <1>8, <2>1 DEF Silence
  <1>9. CASE Silence(c) /\ alert[who[c]] = None
    BY <1>1, <1>2, <1>3, <1>9 DEF Silence
  <1> QED
    BY <1>4, <1>5, <1>6, <1>7, <1>8, <1>9 DEF Puts

\* Every step is one of six kinds.
LEMMA Kinds ==
  ASSUME TypeInv, [Next]_vars
  PROVE \/ \E c \in Call, u \in User : ReadUser(c, u) \/ Edits(c, u)
        \/ \E c \in Call : Puts(c)
        \/ Aside
        \/ Discover
        \/ \E j \in Job : Match(j)
  <1>1. CASE \E c \in Call, u \in User : Begin(c, u)
    BY <1>1, AsideSteps DEF Begin, Edits
  <1>2. CASE \E c \in Call : Continue(c)
    <2>1. PICK c \in Call : Continue(c)
      BY <1>2
    <2>2. CASE Puts(c)
      BY <2>2
    <2>3. CASE Compare(c) \/ CountAdmins(c) \/ EraseLog(c) \/ RemoveUser(c) \/ Fail(c)
      <3>1. who[c] \in User
        BY <2>3 DEF TypeInv, InHand, Compare, CountAdmins, EraseLog, RemoveUser, Fail, Idle
      <3> QED
        BY <2>3, <3>1, AsideSteps
    <2> QED
      BY <2>1, <2>2, <2>3 DEF Continue, Puts
  <1> QED
    BY <1>1, <1>2, AsideOthers DEF Next

\* Every step keeps the order of an alert's life.
LEMMA NextBirth == TypeInv /\ Birth /\ [Next]_vars => Birth'
  <1> SUFFICES ASSUME TypeInv, Birth, [Next]_vars PROVE Birth'
    OBVIOUS
  <1> USE DEF TypeInv, TypeOK, InHand
  <1>1. ASSUME NEW c \in Call, NEW u \in User, ReadUser(c, u) PROVE Birth'
    BY <1>1 DEF ReadUser, Birth, Go, OnAlert, Editing, Idle, tables
  <1>2. ASSUME NEW c \in Call, NEW u \in User, Edits(c, u) PROVE Birth'
    <2>1. PICK r \in Row, on \in BOOLEAN : Edit(c, u, r, on)
      BY <1>2, EditSteps
    <2>2. u \in born
      BY <2>1 DEF Edit, Birth
    <2> QED
      BY <2>1, <2>2 DEF Edit, Birth, Go, OnAlert, Editing, tables
  <1>3. ASSUME NEW c \in Call, Puts(c) PROVE Birth'
    <2>1. /\ pc[c] \in OnAlert /\ who[c] \in User /\ pc'[c] = "idle" /\ Others(c)
          /\ UNCHANGED <<born, missed>>
          /\ alert' = alert \/ \E r \in Row \cup {None} : alert' = [alert EXCEPT ![who[c]] = r]
          /\ removed' \in {removed, removed \cup {who[c]}}
          /\ silenced' \in {silenced, silenced \cup {who[c]}}
      BY <1>3, PutSteps DEF Put
    <2>2. /\ who[c] \in born
          /\ \A d \in Call \ {c} : pc[d] = "insert" => who[d] # who[c]
      BY <2>1 DEF Birth
    <2>3. \A u \in User : alert'[u] # None => u = who[c] \/ alert[u] # None
      BY <2>1
    <2>4. removed' \cup silenced' \subseteq removed \cup silenced \cup {who[c]}
      BY <2>1
    <2>5. \A d \in Call : pc'[d] \in OnAlert => d # c /\ pc'[d] = pc[d] /\ who'[d] = who[d]
      BY <2>1 DEF Others, OnAlert, Editing
    <2>6. \A d \in Call : pc'[d] = "insert" => who'[d] \in User /\ who'[d] # who[c]
      BY <2>2, <2>5 DEF OnAlert
    <2>7. ASSUME NEW d \in Call, pc'[d] = "insert"
          PROVE /\ alert'[who'[d]] = None /\ missed'[who'[d]] = {}
                /\ who'[d] \notin removed' \cup silenced'
                /\ \A e \in Call \ {d} : pc'[e] \in OnAlert => who'[e] # who'[d]
      <3>1. /\ pc[d] = "insert" /\ who'[d] = who[d] /\ who[d] \in User /\ who[d] # who[c]
        BY <2>5, <2>6, <2>7 DEF OnAlert
      <3>2. /\ alert[who[d]] = None /\ missed[who[d]] = {}
            /\ who[d] \notin removed \cup silenced
            /\ \A e \in Call \ {d} : pc[e] \in OnAlert => who[e] # who[d]
        BY <3>1 DEF Birth
      <3> QED
        BY <2>1, <2>3, <2>4, <2>5, <3>1, <3>2
    <2> QED
      BY <2>1, <2>2, <2>3, <2>4, <2>5, <2>7 DEF Birth
  <1>4. CASE Aside
    <2>1. \A c \in Call : pc'[c] \in OnAlert =>
              \/ pc[c] \in OnAlert /\ who'[c] = who[c] /\ (pc'[c] = "insert" => pc[c] = "insert")
              \/ pc'[c] # "insert" /\ alert[who'[c]] # None /\ who'[c] \in User
      BY <1>4 DEF Aside, OnAlert, Editing
    <2> QED
      BY <1>4, <2>1 DEF Birth, Aside
  <1>5. CASE Discover \/ \E j \in Job : Match(j)
    BY <1>5 DEF Discover, Match, Off, Birth, tables, locals, marks
  <1> QED
    BY <1>1, <1>2, <1>3, <1>4, <1>5, Kinds

---------------------------------------------------------------------------
(* Editing.                                                                *)

\* No copy brings back an alert that was deleted, or switches on one that was silenced.
Wishes ==
    /\ RemovedStaysRemoved
    /\ SilencedStaysOff
    /\ \A c \in Call : pc[c] \in Editing /\ who[c] \notin overtaken =>
          /\ who[c] \notin removed
          /\ who[c] \in silenced => ~copy[c].isActive

\* Every step keeps it.
LEMMA NextWishes == TypeInv /\ Birth /\ Wishes /\ [Next]_vars => Wishes'
  <1> SUFFICES ASSUME TypeInv, Birth, Wishes, [Next]_vars PROVE Wishes'
    OBVIOUS
  <1> USE DEF TypeInv, TypeOK, InHand
  <1>1. ASSUME NEW c \in Call, NEW u \in User, ReadUser(c, u) PROVE Wishes'
    BY <1>1 DEF ReadUser, Go, Wishes, RemovedStaysRemoved, SilencedStaysOff, tables, Editing
  <1>2. ASSUME NEW c \in Call, NEW u \in User, Edits(c, u) PROVE Wishes'
    <2>1. PICK r \in Row, on \in BOOLEAN :
              Edit(c, u, r, on) /\ (r.isActive => on \/ alert[u].isActive)
      BY <1>2, EditSteps
    <2>2. /\ UNCHANGED <<alert, removed, overtaken>> /\ alert[u] # None
          /\ silenced' \subseteq silenced /\ (on => u \notin silenced')
          /\ pc' = [pc EXCEPT ![c] = "compare"] /\ who' = [who EXCEPT ![c] = u]
          /\ copy' = [copy EXCEPT ![c] = r]
      BY <2>1 DEF Edit, Go, tables
    <2>3. u \notin overtaken => u \notin removed /\ (u \in silenced' => ~r.isActive)
      BY <2>1, <2>2 DEF Wishes, RemovedStaysRemoved, SilencedStaysOff
    <2> QED
      BY <2>2, <2>3 DEF Wishes, RemovedStaysRemoved, SilencedStaysOff
  <1>3. ASSUME NEW c \in Call, Puts(c) PROVE Wishes'
    <2> DEFINE u == who[c]
    <2>1. /\ pc[c] \in OnAlert /\ u \in User /\ pc'[c] = "idle" /\ Others(c)
          /\ UNCHANGED <<alert, overtaken>> \/ \E r \in Row \cup {None} : Put(c, u, r)
      BY <1>3, PutSteps
    <2>2. overtaken \subseteq overtaken' /\ \A v \in User \ {u} : alert'[v] = alert[v]
      BY <2>1 DEF Put
    <2>3. ASSUME u \notin overtaken'
          PROVE /\ u \in removed' => alert'[u] = None
                /\ u \in silenced' => (alert'[u] # None => ~alert'[u].isActive)
                /\ UNCHANGED <<removed, silenced>>
                   \/ \A d \in Call \ {c} : pc[d] \in Editing => who[d] # u
      <3>1. /\ u \in removed => alert[u] = None
            /\ u \in silenced => (alert[u] # None => ~alert[u].isActive)
            /\ pc[c] \in Editing => u \notin removed /\ (u \in silenced => ~copy[c].isActive)
        BY <2>1, <2>2, <2>3 DEF Wishes, RemovedStaysRemoved, SilencedStaysOff
      <3>2. CASE InsertAlert(c)
        <4>1. u \notin removed \cup silenced
          BY <2>1, <3>2 DEF InsertAlert, Birth
        <4> QED
          BY <3>2, <4>1 DEF InsertAlert
      <3>3. CASE Write(c)
        <4>1. pc[c] \in Editing /\ UNCHANGED <<removed, silenced>>
          BY <3>3 DEF Write, Editing
        <4>2. CASE alert[u] = None
          BY <3>3, <4>1, <4>2 DEF Write
        <4>3. CASE alert[u] # None
          <5>1. alert'[u].isActive \in {copy[c].isActive, alert[u].isActive}
            BY <2>1, <3>3, <4>3 DEF Write, Put
          <5> QED
            BY <3>1, <4>1, <4>3, <5>1
        <4> QED
          BY <4>2, <4>3
      <3>4. CASE Reinsert(c)
        <4>1. pc[c] \in Editing /\ UNCHANGED <<removed, silenced>>
          BY <3>4 DEF Reinsert, Editing
        <4>2. alert'[u] \in {alert[u], copy[c]}
          BY <2>1, <3>4 DEF Reinsert, Put
        <4> QED
          BY <3>1, <4>1, <4>2
      <3>5. CASE DeleteAlert(c)
        BY <2>1, <2>3, <3>5 DEF DeleteAlert, Put
      <3>6. CASE Silence(c) /\ alert[u] # None
        <4>1. /\ alert' = [alert EXCEPT ![u] = [alert[u] EXCEPT !.isActive = FALSE]]
              /\ UNCHANGED removed
              /\ \A d \in Call \ {c} : pc[d] \in Editing => who[d] # u
          BY <2>1, <2>3, <3>6 DEF Silence, Put
        <4>2. alert'[u].isActive = FALSE
          BY <2>1, <3>6, <4>1 DEF Row
        <4> QED
          BY <3>1, <3>6, <4>1, <4>2
      <3>7. CASE Silence(c) /\ alert[u] = None
        BY <3>1, <3>7 DEF Silence
      <3> QED
        BY <1>3, <3>2, <3>3, <3>4, <3>5, <3>6, <3>7 DEF Puts
    <2>4. /\ removed' \in {removed, removed \cup {u}}
          /\ silenced' \in {silenced, silenced \cup {u}}
      BY <1>3, PutSteps
    <2>5. \A d \in Call : pc'[d] \in Editing =>
              d # c /\ pc[d] \in Editing /\ who'[d] = who[d] /\ copy'[d] = copy[d]
      BY <2>1 DEF Others, Editing
    <2> HIDE DEF u
    <2>6. RemovedStaysRemoved' /\ SilencedStaysOff'
      BY <2>1, <2>2, <2>3, <2>4 DEF Wishes, RemovedStaysRemoved, SilencedStaysOff
    <2>7. ASSUME NEW d \in Call, pc'[d] \in Editing, who'[d] \notin overtaken'
          PROVE who'[d] \notin removed' /\ (who'[d] \in silenced' => ~copy'[d].isActive)
      BY <2>2, <2>3, <2>4, <2>5, <2>7 DEF Wishes
    <2> QED
      BY <2>6, <2>7 DEF Wishes
  <1>4. CASE Aside
    BY <1>4 DEF Aside, Wishes, RemovedStaysRemoved, SilencedStaysOff, Editing
  <1>5. CASE Discover \/ \E j \in Job : Match(j)
    BY <1>5 DEF Discover, Match, Wishes, RemovedStaysRemoved, SilencedStaysOff, tables, locals,
                marks
  <1> QED
    BY <1>1, <1>2, <1>3, <1>4, <1>5, Kinds

\* The initial states keep to it.
LEMMA InitBirthWishes == Init => Birth /\ Wishes
  BY DEF Init, Birth, Wishes, RemovedStaysRemoved, SilencedStaysOff, OnAlert, Editing

\* A deleted alert is gone for good, unless a request held a copy of it.
THEOREM DeletedStaysDeleted == Spec => []RemovedStaysRemoved
  <1>1. Wishes => RemovedStaysRemoved
    BY DEF Wishes
  <1> QED
    BY InitTypeInv, NextTypeInv, InitBirthWishes, NextBirth, NextWishes, <1>1, PTL DEF Spec

\* An alert that was unsubscribed stays off until its owner switches it on, unless a
\* request held an older copy of it.
THEOREM UnsubscribedStaysOff == Spec => []SilencedStaysOff
  <1>1. Wishes => SilencedStaysOff
    BY DEF Wishes
  <1> QED
    BY InitTypeInv, NextTypeInv, InitBirthWishes, NextBirth, NextWishes, <1>1, PTL DEF Spec

---------------------------------------------------------------------------
(* Floors.                                                                 *)

\* The floor of a copy is not behind that of the row it will be saved to.
Floors ==
    /\ \A u \in User : alert[u] # None => alert[u].matchFrom <= Now
    /\ \A c \in Call : pc[c] \in Editing \cup {"insert"} => copy[c].matchFrom <= Now
    /\ \A c \in Call :
          pc[c] \in Editing /\ who[c] \notin overtaken /\ alert[who[c]] # None
              => alert[who[c]].matchFrom <= copy[c].matchFrom

FloorStep ==
    \A u \in User \ overtaken' :
        alert[u] # None /\ alert'[u] # None => alert[u].matchFrom <= alert'[u].matchFrom

\* The floor of a row is a number.
LEMMA FloorType ==
  ASSUME TypeInv
  PROVE /\ discovered \in Nat /\ Now = discovered + 1 /\ Now \in Nat
        /\ \A r \in Row : r.matchFrom \in Nat
  BY BoundAssumption, RowType DEF TypeInv, TypeOK, Floor, Now

\* The floor of a row that was written is the one it had, or that of the writer's copy.
LEMMA PutRow ==
  ASSUME TypeInv, Birth, NEW c \in Call, Puts(c), alert'[who[c]] # None
  PROVE LET u == who[c] IN
        \/ alert[u] # None /\ alert'[u].matchFrom = alert[u].matchFrom
        \/ alert[u] = None /\ pc[c] \in Editing \cup {"insert"} /\ alert'[u] = copy[c]
        \/ alert[u] # None /\ pc[c] \in Editing /\ alert'[u].matchFrom = copy[c].matchFrom
  <1> DEFINE u == who[c]
  <1> USE DEF TypeInv, TypeOK, InHand
  <1>1. u \in User
    BY PutSteps
  <1>2. CASE InsertAlert(c) \/ Reinsert(c)
    <2>1. pc[c] = "insert" => alert[u] = None
      BY <1>1 DEF Birth
    <2> QED
      BY <1>1, <1>2, <2>1 DEF InsertAlert, Reinsert, Put, Editing
  <1>3. CASE Write(c)
    <2>1. alert[u] # None
      BY <1>3 DEF Write
    <2>2. alert'[u].matchFrom \in {copy[c].matchFrom, alert[u].matchFrom}
      BY <1>1, <1>3, <2>1 DEF Write, Put
    <2> QED
      BY <1>3, <2>1, <2>2 DEF Write, Editing
  <1>4. CASE DeleteAlert(c)
    BY <1>1, <1>4 DEF DeleteAlert, Put
  <1>5. CASE Silence(c)
    <2>1. alert[u] # None
      BY <1>5 DEF Silence
    <2>2. alert'[u] = [alert[u] EXCEPT !.isActive = FALSE] /\ alert[u] \in Row
      BY <1>1, <1>5, <2>1 DEF Silence, Put
    <2>3. alert'[u].matchFrom = alert[u].matchFrom
      BY <2>2 DEF Row
    <2> QED
      BY <2>1, <2>3
  <1> QED
    BY <1>2, <1>3, <1>4, <1>5 DEF Puts

\* Every step keeps them in order.
LEMMA NextFloors ==
  ASSUME TypeInv, Birth, Floors, [Next]_vars
  PROVE Floors' /\ FloorStep
  <1> USE FloorType DEF TypeInv, TypeOK, InHand
  <1>1. ASSUME \A u \in User : alert'[u] = alert[u] \/ alert'[u] = None PROVE FloorStep
    <2> SUFFICES ASSUME NEW u \in User, alert[u] # None, alert'[u] # None
                 PROVE alert[u].matchFrom <= alert'[u].matchFrom
      BY DEF FloorStep
    <2>1. alert'[u] = alert[u] /\ alert[u] \in Row
      BY <1>1
    <2>2. alert[u].matchFrom \in Nat
      BY <2>1
    <2> QED
      BY <2>1, <2>2
  <1>2. ASSUME NEW c \in Call, NEW u \in User, ReadUser(c, u) PROVE Floors' /\ FloorStep
    <2>1. [isActive |-> TRUE, matchFrom |-> Now].matchFrom = Now
      OBVIOUS
    <2>2. /\ UNCHANGED <<alert, overtaken, discovered>>
          /\ pc' = [pc EXCEPT ![c] = "insert"] /\ who' = [who EXCEPT ![c] = u]
          /\ copy' = [copy EXCEPT ![c] = [isActive |-> TRUE, matchFrom |-> Now]]
      BY <1>2 DEF ReadUser, Go, tables
    <2> QED
      BY <1>1, <2>1, <2>2 DEF Floors, Now, Editing
  <1>3. ASSUME NEW c \in Call, NEW u \in User, Edits(c, u) PROVE Floors' /\ FloorStep
    <2>1. PICK r \in Row, on \in BOOLEAN :
              Edit(c, u, r, on) /\ r.matchFrom \in {alert[u].matchFrom, Now}
      BY <1>3, EditSteps
    <2>2. /\ UNCHANGED <<alert, overtaken, discovered>> /\ alert[u] # None
          /\ pc' = [pc EXCEPT ![c] = "compare"] /\ who' = [who EXCEPT ![c] = u]
          /\ copy' = [copy EXCEPT ![c] = r]
      BY <2>1 DEF Edit, Go, tables
    <2>3. alert[u].matchFrom <= r.matchFrom /\ r.matchFrom <= Now
      BY <2>1, <2>2 DEF Floors
    <2> QED
      BY <1>1, <2>2, <2>3 DEF Floors, Now
  <1>4. ASSUME NEW c \in Call, Puts(c) PROVE Floors' /\ FloorStep
    <2> DEFINE u == who[c]
    <2>1. /\ pc[c] \in OnAlert /\ u \in User /\ pc'[c] = "idle" /\ Others(c)
          /\ UNCHANGED discovered
          /\ UNCHANGED <<alert, overtaken>> \/ \E r \in Row \cup {None} : Put(c, u, r)
      BY <1>4, PutSteps
    <2>2. overtaken \subseteq overtaken' /\ \A v \in User \ {u} : alert'[v] = alert[v]
      BY <2>1 DEF Put
    <2>3. UNCHANGED alert \/ u \in overtaken' \/
              \A d \in Call \ {c} : pc[d] \in Editing => who[d] # u
      BY <2>1 DEF Put
    <2>4. alert'[u] # None =>
              /\ alert'[u].matchFrom <= Now
              /\ alert[u] # None /\ u \notin overtaken => alert[u].matchFrom <= alert'[u].matchFrom
      <3> SUFFICES ASSUME alert'[u] # None
                   PROVE /\ alert'[u].matchFrom <= Now
                         /\ alert[u] # None /\ u \notin overtaken =>
                                alert[u].matchFrom <= alert'[u].matchFrom
        OBVIOUS
      <3>1. CASE alert[u] # None /\ alert'[u].matchFrom = alert[u].matchFrom
        <4>1. alert[u].matchFrom \in Nat
          BY <2>1, <3>1
        <4> QED
          BY <2>1, <3>1, <4>1 DEF Floors
      <3>2. CASE alert[u] = None /\ pc[c] \in Editing \cup {"insert"} /\ alert'[u] = copy[c]
        BY <3>2 DEF Floors
      <3>3. CASE alert[u] # None /\ pc[c] \in Editing /\ alert'[u].matchFrom = copy[c].matchFrom
        BY <3>3 DEF Floors
      <3> QED
        BY <1>4, <3>1, <3>2, <3>3, PutRow
    <2>5. \A d \in Call : pc'[d] \in Editing \cup {"insert"} =>
              d # c /\ pc[d] = pc'[d] /\ who'[d] = who[d] /\ copy'[d] = copy[d]
      BY <2>1 DEF Others, Editing
    <2> HIDE DEF u
    <2>6. FloorStep
      <3> SUFFICES ASSUME NEW v \in User \ overtaken', alert[v] # None, alert'[v] # None
                   PROVE alert[v].matchFrom <= alert'[v].matchFrom
        BY DEF FloorStep
      <3>1. CASE v = u
        BY <2>2, <2>4, <3>1
      <3>2. CASE v # u
        <4>1. alert[v] \in Row /\ alert'[v] = alert[v]
          BY <2>2, <3>2
        <4>2. alert[v].matchFrom \in Nat
          BY <4>1
        <4> QED
          BY <4>1, <4>2
      <3> QED
        BY <3>1, <3>2
    <2>7. Now' = Now
      BY <2>1 DEF Now
    <2>8. \A v \in User : alert'[v] # None => alert'[v].matchFrom <= Now'
      BY <2>2, <2>4, <2>7 DEF Floors
    <2>9. ASSUME NEW d \in Call, pc'[d] \in Editing, who'[d] \notin overtaken',
                 alert'[who'[d]] # None
          PROVE alert'[who'[d]].matchFrom <= copy'[d].matchFrom
      <3>1. /\ d # c /\ pc[d] \in Editing /\ who'[d] = who[d] /\ copy'[d] = copy[d]
            /\ who[d] \in User /\ who[d] \notin overtaken
        BY <2>2, <2>5, <2>9 DEF Editing
      <3>2. alert'[who[d]] = alert[who[d]]
        BY <2>2, <2>3, <2>9, <3>1
      <3> QED
        BY <2>9, <3>1, <3>2 DEF Floors
    <2> QED
      BY <2>5, <2>6, <2>7, <2>8, <2>9 DEF Floors
  <1>5. CASE Aside
    <2>1. Floors'
      BY <1>5 DEF Aside, Floors, Now, Editing
    <2>2. FloorStep
      BY <1>1, <1>5 DEF Aside
    <2> QED
      BY <2>1, <2>2
  <1>6. CASE Discover
    <2>1. UNCHANGED <<alert, overtaken, pc, who, copy>> /\ discovered' = Now
      BY <1>6 DEF Discover, tables, locals
    <2>2. \A r \in Row : r.matchFrom <= Now => r.matchFrom <= Now'
      BY <2>1 DEF Now
    <2> QED
      BY <1>1, <2>1, <2>2 DEF Floors
  <1>7. CASE \E j \in Job : Match(j)
    BY <1>1, <1>7 DEF Match, tables, locals, marks, Floors, Now
  <1> QED
    BY <1>2, <1>3, <1>4, <1>5, <1>6, <1>7, Kinds

\* The floor of an alert never moves back, unless a request saves an older copy.
THEOREM FloorStays == Spec => FloorNeverMovesBack
  <1>1. Init => Floors
    BY DEF Init, Floors, Editing
  <1>2. TypeInv /\ Birth /\ Floors /\ [Next]_vars => Floors'
    BY NextFloors
  <1>3. TypeInv /\ Birth /\ Floors /\ [Next]_vars =>
            [\A u \in User \ overtaken' :
                alert[u] # None /\ alert'[u] # None
                    => alert[u].matchFrom <= alert'[u].matchFrom]_vars
    BY NextFloors DEF FloorStep
  <1> QED
    BY InitTypeInv, NextTypeInv, InitBirthWishes, NextBirth, <1>1, <1>2, <1>3, PTL
       DEF Spec, FloorNeverMovesBack

---------------------------------------------------------------------------
(* What was missed.                                                        *)

\* All that was missed lies before the floor of an alert that is on.
Past(u, r) == r.isActive => \A m \in missed[u] : m < r.matchFrom

\* A write makes the row the copy, but for a write of another request in between.
Heard ==
    /\ MissedIsNotHeard
    /\ \A u \in User : matched[u] \cup missed[u] \subseteq 1 .. discovered
    /\ \A u \in User \ (patched \cup overtaken) : alert[u] # None => Past(u, alert[u])
    /\ \A c \in Call : pc[c] \in Editing /\ who[c] \notin patched \cup overtaken =>
          Past(who[c], copy[c])
    /\ \A c \in Call : pc[c] = "write" /\ who[c] \notin overtaken /\ alert[who[c]] # None =>
          /\ "isActive" \notin dirty[c] => alert[who[c]].isActive = copy[c].isActive
          /\ "matchFrom" \notin dirty[c] => alert[who[c]].matchFrom = copy[c].matchFrom

\* Every step keeps it.
LEMMA NextHeard == TypeInv /\ Birth /\ Heard /\ [Next]_vars => Heard'
  <1> SUFFICES ASSUME TypeInv, Birth, Heard, [Next]_vars PROVE Heard'
    OBVIOUS
  <1> USE FloorType DEF TypeInv, TypeOK, InHand
  <1>1. ASSUME NEW c \in Call, NEW u \in User, ReadUser(c, u) PROVE Heard'
    <2>1. /\ UNCHANGED <<alert, overtaken, patched, discovered, matched, missed, dirty>>
          /\ pc' = [pc EXCEPT ![c] = "insert"] /\ who' = [who EXCEPT ![c] = u]
          /\ \A d \in Call \ {c} : copy'[d] = copy[d]
      BY <1>1 DEF ReadUser, Go, tables
    <2> QED
      BY <2>1 DEF Heard, MissedIsNotHeard, Past, Editing
  <1>2. ASSUME NEW c \in Call, NEW u \in User, Edits(c, u) PROVE Heard'
    <2>1. PICK r \in Row, on \in BOOLEAN :
              /\ Edit(c, u, r, on)
              /\ r.matchFrom \in {alert[u].matchFrom, Now}
              /\ patched' \in {patched, patched \cup {u}}
              /\ u \in patched' \/ r.matchFrom = Now \/ (r.isActive => alert[u].isActive)
      BY <1>2, EditSteps
    <2>2. /\ UNCHANGED <<alert, overtaken, discovered, matched, missed, dirty>>
          /\ alert[u] # None
          /\ pc' = [pc EXCEPT ![c] = "compare"] /\ who' = [who EXCEPT ![c] = u]
          /\ copy' = [copy EXCEPT ![c] = r]
      BY <2>1 DEF Edit, Go, tables
    <2>3. ASSUME u \notin patched' \cup overtaken PROVE Past(u, r)
      <3>1. CASE r.matchFrom = Now
        <4>1. \A m \in missed[u] : m \in Nat /\ m <= discovered
          BY DEF Heard
        <4> QED
          BY <3>1, <4>1 DEF Past
      <3>2. CASE r.matchFrom = alert[u].matchFrom /\ (r.isActive => alert[u].isActive)
        BY <2>1, <2>2, <2>3, <3>2 DEF Heard, Past
      <3> QED
        BY <2>1, <2>3, <3>1, <3>2
    <2>4. patched \subseteq patched' /\ \A v \in User : Past(v, r)' = Past(v, r)
      BY <2>1, <2>2 DEF Past
    <2> QED
      BY <2>2, <2>3, <2>4 DEF Heard, MissedIsNotHeard, Past, Editing
  <1>3. ASSUME NEW c \in Call, Puts(c) PROVE Heard'
    <2> DEFINE u == who[c]
    <2>1. /\ pc[c] \in OnAlert /\ u \in User /\ pc'[c] = "idle" /\ Others(c)
          /\ UNCHANGED <<discovered, matched, missed, patched>>
          /\ UNCHANGED <<alert, overtaken>> \/ \E r \in Row \cup {None} : Put(c, u, r)
      BY <1>3, PutSteps
    <2>2. overtaken \subseteq overtaken' /\ \A v \in User \ {u} : alert'[v] = alert[v]
      BY <2>1 DEF Put
    <2>3. UNCHANGED alert \/ u \in overtaken' \/
              \A d \in Call \ {c} : pc[d] \in Editing => who[d] # u
      BY <2>1 DEF Put
    <2>4. ASSUME u \notin patched \cup overtaken, alert'[u] # None
          PROVE Past(u, alert'[u])
      <3>1. alert[u] # None => Past(u, alert[u])
        BY <2>1, <2>4 DEF Heard
      <3>2. pc[c] \in Editing => Past(u, copy[c])
        BY <2>1, <2>4 DEF Heard
      <3>3. CASE InsertAlert(c)
        <4>1. missed[u] = {}
          BY <2>1, <3>3 DEF InsertAlert, Birth
        <4> QED
          BY <4>1 DEF Past
      <3>4. CASE Write(c)
        <4>1. pc[c] = "write" /\ alert[u] # None
          BY <2>4, <3>4 DEF Write
        <4>2. /\ "isActive" \notin dirty[c] => alert[u].isActive = copy[c].isActive
              /\ "matchFrom" \notin dirty[c] => alert[u].matchFrom = copy[c].matchFrom
          BY <2>4, <4>1 DEF Heard
        <4>3. alert'[u].isActive = copy[c].isActive /\ alert'[u].matchFrom = copy[c].matchFrom
          BY <2>1, <3>4, <4>1, <4>2 DEF Write, Put
        <4> QED
          BY <3>2, <4>1, <4>3 DEF Past, Editing
      <3>5. CASE Reinsert(c)
        BY <2>1, <2>4, <3>1, <3>2, <3>5 DEF Reinsert, Put, Editing
      <3>6. CASE DeleteAlert(c)
        BY <2>1, <2>4, <3>6 DEF DeleteAlert, Put
      <3>7. CASE Silence(c)
        <4>1. alert[u] # None /\ alert'[u] = [alert[u] EXCEPT !.isActive = FALSE]
          BY <2>1, <2>4, <3>7 DEF Silence, Put
        <4>2. ~alert'[u].isActive
          BY <2>1, <4>1 DEF Row
        <4> QED
          BY <4>2 DEF Past
      <3> QED
        BY <1>3, <3>3, <3>4, <3>5, <3>6, <3>7 DEF Puts
    <2>5. \A d \in Call : pc'[d] \in Editing =>
              /\ d # c /\ pc[d] = pc'[d] /\ who'[d] = who[d] /\ copy'[d] = copy[d]
              /\ dirty'[d] = dirty[d]
      BY <2>1 DEF Others, Editing
    <2> HIDE DEF u
    <2>6. /\ MissedIsNotHeard'
          /\ \A v \in User : (matched[v] \cup missed[v] \subseteq 1 .. discovered)'
      BY <2>1, <2>2 DEF Heard, MissedIsNotHeard
    <2>7. ASSUME NEW v \in User, v \notin patched' \cup overtaken', alert'[v] # None
          PROVE Past(v, alert[v])'
      <3>1. Past(v, alert'[v])
        BY <2>1, <2>2, <2>4, <2>7 DEF Heard
      <3> QED
        BY <2>1, <3>1 DEF Past
    <2>8. ASSUME NEW d \in Call, pc'[d] \in Editing, who'[d] \notin patched' \cup overtaken'
          PROVE Past(who[d], copy[d])'
      <3>1. Past(who[d], copy[d])
        BY <2>1, <2>2, <2>5, <2>8 DEF Heard
      <3> QED
        BY <2>1, <2>5, <2>8, <3>1 DEF Past
    <2>9. ASSUME NEW d \in Call, pc'[d] = "write", who'[d] \notin overtaken',
                  alert'[who'[d]] # None
           PROVE /\ "isActive" \notin dirty'[d] => alert'[who'[d]].isActive = copy'[d].isActive
                 /\ "matchFrom" \notin dirty'[d] => alert'[who'[d]].matchFrom = copy'[d].matchFrom
      <3>1. /\ pc[d] = "write" /\ who'[d] = who[d] /\ copy'[d] = copy[d] /\ dirty'[d] = dirty[d]
            /\ d # c /\ who[d] \in User
        BY <2>5, <2>9 DEF Editing
      <3>2. alert'[who[d]] = alert[who[d]]
        BY <2>2, <2>3, <2>9, <3>1 DEF Editing
      <3> QED
        BY <2>2, <2>9, <3>1, <3>2 DEF Heard
    <2> QED
      BY <2>6, <2>7, <2>8, <2>9 DEF Heard
  <1>4. CASE Aside
    <2>1. UNCHANGED <<discovered, matched, missed, patched, overtaken>>
      BY <1>4 DEF Aside
    <2>2. \A c \in Call : pc'[c] \in Editing =>
              pc[c] \in Editing /\ who'[c] = who[c] /\ copy'[c] = copy[c] /\ who[c] \in User
      BY <1>4 DEF Aside, Editing
    <2>3. \A u \in User : alert'[u] = alert[u] \/ alert'[u] = None
      BY <1>4 DEF Aside
    <2>4. ASSUME NEW c \in Call, pc'[c] = "write", who'[c] \notin overtaken',
                 alert'[who'[c]] # None
          PROVE /\ "isActive" \notin dirty'[c] => alert'[who'[c]].isActive = copy'[c].isActive
                /\ "matchFrom" \notin dirty'[c] => alert'[who'[c]].matchFrom = copy'[c].matchFrom
      <3>1. /\ who'[c] = who[c] /\ copy'[c] = copy[c] /\ who[c] \in User
            /\ alert'[who[c]] = alert[who[c]] /\ alert[who[c]] # None
        BY <2>2, <2>3, <2>4 DEF Editing
      <3>2. CASE pc[c] = "write" /\ dirty'[c] = dirty[c]
        BY <2>1, <2>4, <3>1, <3>2 DEF Heard
      <3>3. CASE Compare(c)
        <4>1. dirty'[c] = {k \in Column :
                  IF k = "isActive" THEN alert[who[c]].isActive # copy[c].isActive
                  ELSE alert[who[c]].matchFrom # copy[c].matchFrom}
          BY <2>4, <3>1, <3>3 DEF Compare, Leave, Go
        <4> QED
          BY <3>1, <4>1 DEF Column
      <3> QED
        BY <1>4, <2>4, <3>2, <3>3 DEF Aside
    <2>5. /\ MissedIsNotHeard'
          /\ \A u \in User : (matched[u] \cup missed[u] \subseteq 1 .. discovered)'
      BY <2>1 DEF Heard, MissedIsNotHeard
    <2>6. \A u \in User \ (patched \cup overtaken)' : alert'[u] # None => Past(u, alert[u])'
      BY <2>1, <2>3 DEF Heard, Past
    <2>7. ASSUME NEW c \in Call, pc'[c] \in Editing, who'[c] \notin patched' \cup overtaken'
          PROVE Past(who[c], copy[c])'
      BY <2>1, <2>2, <2>7 DEF Heard, Past
    <2> QED
      BY <2>4, <2>5, <2>6, <2>7 DEF Heard
  <1>5. CASE Discover
    <2>1. /\ UNCHANGED <<alert, matched, pc, who, copy, dirty, patched, overtaken>>
          /\ discovered' = Now
          /\ missed' = [u \in User |-> IF Off(u) THEN missed[u] \cup {Now} ELSE missed[u]]
      BY <1>5 DEF Discover, tables, locals
    <2>2. \A u \in User : Now \notin matched[u]
      BY DEF Heard
    <2>3. MissedIsNotHeard'
      BY <2>1, <2>2 DEF Heard, MissedIsNotHeard
    <2>4. \A u \in User : (matched[u] \cup missed[u] \subseteq 1 .. discovered)'
      BY <2>1 DEF Heard
    <2>5. ASSUME NEW u \in User, NEW r \in Row, Past(u, r), ~(r.isActive /\ Off(u))
          PROVE r.isActive => \A m \in missed'[u] : m < r.matchFrom
      BY <2>1, <2>5 DEF Past
    <2>6. ASSUME NEW u \in User, u \notin patched' \cup overtaken', alert'[u] # None
          PROVE Past(u, alert[u])'
      <3>1. Past(u, alert[u]) /\ alert[u] \in Row
        BY <2>1, <2>6 DEF Heard
      <3>2. ~(alert[u].isActive /\ Off(u))
        BY DEF Off
      <3> QED
        BY <2>1, <2>5, <3>1, <3>2 DEF Past
    <2>7. ASSUME NEW c \in Call, pc'[c] \in Editing, who'[c] \notin patched' \cup overtaken'
          PROVE Past(who[c], copy[c])'
      <3>1. Past(who[c], copy[c]) /\ copy[c] \in Row /\ who[c] \in User /\ pc[c] \in Editing
        BY <2>1, <2>7 DEF Heard, Editing
      <3>2. ~(copy[c].isActive /\ Off(who[c]))
        BY <3>1 DEF Off, SwitchingOn
      <3> QED
        BY <2>1, <2>5, <3>1, <3>2 DEF Past
    <2> QED
      BY <2>1, <2>3, <2>4, <2>6, <2>7 DEF Heard
  <1>6. ASSUME NEW j \in Job, Match(j) PROVE Heard'
    <2>1. /\ UNCHANGED <<alert, discovered, missed, pc, who, copy, dirty, patched, overtaken>>
          /\ j \in 1 .. discovered
          /\ matched' = [u \in User |-> IF /\ alert[u] # None
                                           /\ alert[u].isActive
                                           /\ alert[u].matchFrom <= j
                                        THEN matched[u] \cup {j} ELSE matched[u]]
      BY <1>6 DEF Match, tables, locals, marks
    <2>2. ASSUME NEW u \in User \ (patched \cup overtaken), alert[u] # None,
                 alert[u].isActive, alert[u].matchFrom <= j
          PROVE j \notin missed[u]
      <3>1. \A m \in missed[u] : m < alert[u].matchFrom
        BY <2>2 DEF Heard, Past
      <3>2. alert[u].matchFrom \in Nat /\ j \in Nat
        BY <2>2 DEF Job
      <3> QED
        BY <2>2, <3>1, <3>2
    <2>3. MissedIsNotHeard'
      BY <2>1, <2>2 DEF Heard, MissedIsNotHeard
    <2>4. \A u \in User : (matched[u] \cup missed[u] \subseteq 1 .. discovered)'
      BY <2>1 DEF Heard
    <2> QED
      BY <2>1, <2>3, <2>4 DEF Heard, Past
  <1> QED
    BY <1>1, <1>2, <1>3, <1>4, <1>5, <1>6, Kinds

\* "A paused alert never notifies about what it missed", but for an alert switched on by
\* PATCH or by an older copy.
THEOREM MissedStaysUnheard == Spec => []MissedIsNotHeard
  <1>1. Init => Heard
    BY DEF Init, Heard, MissedIsNotHeard, Editing
  <1>2. Heard => MissedIsNotHeard
    BY DEF Heard
  <1> QED
    BY InitTypeInv, NextTypeInv, InitBirthWishes, NextBirth, NextHeard, <1>1, <1>2, PTL
       DEF Spec

---------------------------------------------------------------------------
(* What a reader is shown, and an alert matched with, of every query, job, *)
(* row and day: what ListingChecks has TLC evaluate over bounded inputs.   *)

\* A column that may be NULL has at most one value.
Nullable(S) == {{}} \cup {{s} : s \in S}

\* The truth values of SQL; NULL is the empty set.
Truth == {{}, {TRUE}, {FALSE}}

\* OR holds when an operand does.
LEMMA HoldsOr ==
  ASSUME NEW p \in Truth, NEW q \in Truth
  PROVE /\ Or(p, q) \in Truth
        /\ Holds(Or(p, q)) <=> Holds(p) \/ Holds(q)
  BY DEF Truth, Or, Holds

\* AND holds when both operands do.
LEMMA HoldsAnd ==
  ASSUME NEW p \in Truth, NEW q \in Truth
  PROVE /\ And(p, q) \in Truth
        /\ Holds(And(p, q)) <=> Holds(p) /\ Holds(q)
  BY DEF Truth, And, Holds

\* The condition of one truth value.
LEMMA HoldsSingle ==
  ASSUME NEW p \in BOOLEAN
  PROVE {p} \in Truth /\ (Holds({p}) <=> p)
  BY DEF Truth, Holds

\* The conditions that a column is or is not missing.
LEMMA HoldsNull ==
  ASSUME NEW column
  PROVE /\ IsNull(column) \in Truth
        /\ IsNotNull(column) \in Truth
        /\ Holds(IsNull(column)) <=> column = {}
        /\ Holds(IsNotNull(column)) <=> column # {}
  <1>1. (column = {}) \in BOOLEAN /\ (column # {}) \in BOOLEAN
    OBVIOUS
  <1> QED
    BY <1>1, HoldsSingle DEF IsNull, IsNotNull

\* The condition that two arrays have an element in common.
LEMMA HoldsOverlap ==
  ASSUME NEW S, NEW T
  PROVE /\ Overlap(S, T) \in Truth
        /\ Holds(Overlap(S, T)) <=> S \cap T # {}
  <1>1. (S \cap T # {}) \in BOOLEAN
    OBVIOUS
  <1> QED
    BY <1>1, HoldsSingle DEF Overlap

\* The condition that the value of a column is one of some.
LEMMA HoldsAnyOf ==
  ASSUME NEW V, NEW column \in Nullable(V), NEW S
  PROVE /\ AnyOf(column, S) \in Truth
        /\ Holds(AnyOf(column, S)) <=> column \cap S # {}
  <1>1. CASE column = {}
    <2>1. AnyOf(column, S) = {}
      BY <1>1 DEF AnyOf
    <2> QED
      BY <1>1, <2>1 DEF Holds, Truth
  <1>2. ASSUME NEW v \in V, column = {v}
        PROVE /\ AnyOf(column, S) \in Truth
              /\ Holds(AnyOf(column, S)) <=> column \cap S # {}
    <2>1. AnyOf(column, S) = {(v \in S)}
      BY <1>2, Zenon DEF AnyOf
    <2>2. (v \in S) \in BOOLEAN
      OBVIOUS
    <2>3. {(v \in S)} \in Truth /\ (Holds({(v \in S)}) <=> v \in S)
      BY <2>2, HoldsSingle
    <2> QED
      BY <1>2, <2>1, <2>3
  <1> QED
    BY <1>1, <1>2 DEF Nullable

\* A test of a column that is a number or missing.
LEMMA HoldsFor ==
  ASSUME NEW p \in [Int -> BOOLEAN], NEW column \in Nullable(Int)
  PROVE /\ {p[v] : v \in column} \in Truth
        /\ Holds({p[v] : v \in column}) <=> (\E v \in column : p[v])
  <1>1. CASE column = {}
    <2>1. {p[v] : v \in column} = {}
      BY <1>1
    <2> QED
      BY <1>1, <2>1 DEF Truth, Holds
  <1>2. ASSUME NEW d \in Int, column = {d}
        PROVE /\ {p[v] : v \in column} \in Truth
              /\ Holds({p[v] : v \in column}) <=> (\E v \in column : p[v])
    <2>1. {p[v] : v \in column} = {p[d]}
      BY <1>2, Zenon
    <2>2. p[d] \in BOOLEAN
      OBVIOUS
    <2>3. {p[d]} \in Truth /\ (Holds({p[d]}) <=> p[d])
      BY <2>2, HoldsSingle
    <2> QED
      BY <1>2, <2>1, <2>3, Zenon
  <1> QED
    BY <1>1, <1>2 DEF Nullable

\* A column compared with a number, in each of the ways a filter does.
LEMMA HoldsCompared ==
  ASSUME NEW n \in Int, NEW column \in Nullable(Int)
  PROVE /\ {n < v : v \in column} \in Truth
        /\ Holds({n < v : v \in column}) <=> (\E v \in column : n < v)
        /\ {n > v : v \in column} \in Truth
        /\ Holds({n > v : v \in column}) <=> (\E v \in column : n > v)
        /\ {v >= n : v \in column} \in Truth
        /\ Holds({v >= n : v \in column}) <=> (\E v \in column : v >= n)
        /\ {v <= n : v \in column} \in Truth
        /\ Holds({v <= n : v \in column}) <=> (\E v \in column : v <= n)
  <1> DEFINE above == [v \in Int |-> n < v]
             below == [v \in Int |-> n > v]
             atLeast == [v \in Int |-> v >= n]
             atMost == [v \in Int |-> v <= n]
  <1>1. /\ above \in [Int -> BOOLEAN] /\ below \in [Int -> BOOLEAN]
        /\ atLeast \in [Int -> BOOLEAN] /\ atMost \in [Int -> BOOLEAN]
    OBVIOUS
  <1>2. column \subseteq Int
    BY DEF Nullable
  <1>3. \A v \in column : /\ above[v] = (n < v) /\ below[v] = (n > v)
                          /\ atLeast[v] = (v >= n) /\ atMost[v] = (v <= n)
    BY <1>2
  <1> HIDE DEF above, below, atLeast, atMost
  <1>4. /\ {n < v : v \in column} = {above[v] : v \in column}
        /\ {n > v : v \in column} = {below[v] : v \in column}
        /\ {v >= n : v \in column} = {atLeast[v] : v \in column}
        /\ {v <= n : v \in column} = {atMost[v] : v \in column}
    BY <1>3, Zenon
  <1>5. ASSUME NEW p \in {above, below, atLeast, atMost}
        PROVE /\ {p[v] : v \in column} \in Truth
              /\ Holds({p[v] : v \in column}) <=> (\E v \in column : p[v])
    BY <1>1, HoldsFor
  <1> QED
    BY <1>3, <1>4, <1>5, Zenon

\* The status shown is the status filtered by, whichever date is missing (resolveJobStatus,
\* jobStatusSqlExpression).
THEOREM OneStatus ==
  ASSUME NEW job, NEW today \in Int,
         job.applicationStart \in Nullable(Int), job.applicationEnd \in Nullable(Int)
  PROVE ResolveJobStatus(job, today) = JobStatusSqlExpression(job, today)
  <1> DEFINE starts == job.applicationStart
             ends == job.applicationEnd
             upcoming == {today < start : start \in starts}
             closed == {today > end : end \in ends}
  <1>1. /\ upcoming \in Truth /\ closed \in Truth
        /\ Holds(upcoming) <=> (\E start \in starts : today < start)
        /\ Holds(closed) <=> (\E end \in ends : today > end)
    BY HoldsCompared
  <1>2. /\ ResolveJobStatus(job, today) =
              IF \E start \in starts : today < start THEN "UPCOMING"
              ELSE IF \E end \in ends : today > end THEN "CLOSED" ELSE "OPEN"
        /\ JobStatusSqlExpression(job, today) =
              IF Holds(And(IsNotNull(starts), upcoming)) THEN "UPCOMING"
              ELSE IF Holds(And(IsNotNull(ends), closed)) THEN "CLOSED"
              ELSE "OPEN"
    BY DEF ResolveJobStatus, JobStatusSqlExpression
  <1>3. /\ (\E start \in starts : today < start) => starts # {}
        /\ (\E end \in ends : today > end) => ends # {}
    OBVIOUS
  <1> HIDE DEF upcoming, closed, starts, ends
  <1>4. /\ Holds(And(IsNotNull(starts), upcoming)) <=>
              (starts # {} /\ Holds(upcoming))
        /\ Holds(And(IsNotNull(ends), closed)) <=>
              (ends # {} /\ Holds(closed))
    BY <1>1, HoldsAnd, HoldsNull
  <1>5. /\ Holds(And(IsNotNull(starts), upcoming)) <=>
              (\E start \in starts : today < start)
        /\ Holds(And(IsNotNull(ends), closed)) <=>
              (\E end \in ends : today > end)
    BY <1>1, <1>3, <1>4, Zenon
  <1> QED
    BY <1>2, <1>5

\* From a day to the next no job goes back, and one that is CLOSED has no day left
\* (resolveJobStatus, daysUntilDeadline).
THEOREM StatusOnlyMovesOn ==
  ASSUME NEW job, NEW today \in Int, NEW later \in Int, today <= later,
         job.applicationStart \in Nullable(Int), job.applicationEnd \in Nullable(Int)
  PROVE /\ ResolveJobStatus(job, today) = "OPEN"
              => ResolveJobStatus(job, later) \in {"OPEN", "CLOSED"}
        /\ ResolveJobStatus(job, today) = "CLOSED" => ResolveJobStatus(job, later) = "CLOSED"
        /\ ResolveJobStatus(job, today) = "CLOSED" =>
              \E left \in DaysUntilDeadline(job, today) : left < 0
  <1>1. /\ job.applicationStart \subseteq Int
        /\ job.applicationEnd = {} \/ \E e \in Int : job.applicationEnd = {e}
    BY DEF Nullable
  <1>2. CASE job.applicationEnd = {}
    BY <1>1, <1>2 DEF ResolveJobStatus
  <1>3. ASSUME NEW e \in Int, job.applicationEnd = {e}
        PROVE /\ DaysUntilDeadline(job, today) = {e - today}
              /\ \A d \in {today, later} : ResolveJobStatus(job, d) =
                    IF \E start \in job.applicationStart : d < start THEN "UPCOMING"
                    ELSE IF d > e THEN "CLOSED" ELSE "OPEN"
    BY <1>3 DEF ResolveJobStatus, DaysUntilDeadline
  <1>4. ASSUME NEW e \in Int, job.applicationEnd = {e}
        PROVE /\ ResolveJobStatus(job, today) = "CLOSED" => today > e
              /\ ~ (\E start \in job.applicationStart : today < start)
                    => ~ (\E start \in job.applicationStart : later < start)
              /\ today > e => later > e
    BY <1>1, <1>3, <1>4
  <1> QED
    BY <1>1, <1>2, <1>3, <1>4

\* Whoever finds a job in the listing, by its title or agency if by a text, is told of it by
\* an alert of the same filters; the alert tells of more only where the query asks for what
\* an alert has no filter for, the job leaves its type open, or its province and the query
\* insists on one (applyFilters, findMatchingAlerts).
THEOREM AlertsHearWhatIsFound ==
  ASSUME NEW query, NEW job, NEW wish, NEW today, NEW includeDocuments, NEW JobType,
         job.jobTypeId \in Nullable(JobType), query.provinceStrict \in BOOLEAN,
         wish.isActive = TRUE, wish.matchFrom <= job.firstSeenAt,
         wish.keywords = query.q, wish.jobTypes = query.jobType,
         wish.educations = query.education, wish.provinces = query.province
  PROVE /\ /\ Found(query, job, today)
           /\ query.q # {} => query.q \cap (job.title \cup job.agency) # {}
           => Matches(wish, job, includeDocuments)
        /\ /\ Matches(wish, job, includeDocuments)
           /\ {query.q, query.jobCategory, query.status, query.salaryMin, query.salaryMax} = {{}}
           /\ query.jobType # {} => job.jobTypeId # {}
           /\ query.province # {} /\ query.provinceStrict => job.provinceIds # {}
           => Found(query, job, today)
  <1> DEFINE type == query.jobType = {} \/ job.jobTypeId = {}
                       \/ job.jobTypeId \cap query.jobType # {}
             education == query.education = {} \/ query.education \cap job.educationLevelIds # {}
             province == query.province = {} \/ job.provinceIds = {}
                           \/ query.province \cap job.provinceIds # {}
  <1>1. Matches(wish, job, includeDocuments) <=>
          /\ query.q = {} \/ query.q \cap BuildHaystack(job, includeDocuments) # {}
          /\ type /\ education /\ province
    <2> DEFINE anyType == {query.jobType = {}}
               noType == IsNull(job.jobTypeId)
               ofType == AnyOf(job.jobTypeId, query.jobType)
               anyEducation == {query.education = {}}
               ofEducation == Overlap(query.education, job.educationLevelIds)
               anyProvince == {query.province = {}}
               noProvince == {job.provinceIds = {}}
               ofProvince == Overlap(query.province, job.provinceIds)
    <2>1. /\ anyType \in Truth /\ (Holds(anyType) <=> query.jobType = {})
          /\ anyEducation \in Truth /\ (Holds(anyEducation) <=> query.education = {})
          /\ anyProvince \in Truth /\ (Holds(anyProvince) <=> query.province = {})
          /\ noProvince \in Truth /\ (Holds(noProvince) <=> job.provinceIds = {})
      BY HoldsNull DEF IsNull
    <2>2. /\ noType \in Truth /\ (Holds(noType) <=> job.jobTypeId = {})
          /\ ofType \in Truth
          /\ Holds(ofType) <=> job.jobTypeId \cap query.jobType # {}
          /\ ofEducation \in Truth
          /\ Holds(ofEducation) <=> query.education \cap job.educationLevelIds # {}
          /\ ofProvince \in Truth
          /\ Holds(ofProvince) <=> query.province \cap job.provinceIds # {}
      BY HoldsNull, HoldsAnyOf, HoldsOverlap
    <2>3. Matches(wish, job, includeDocuments) <=>
            /\ query.q = {} \/ query.q \cap BuildHaystack(job, includeDocuments) # {}
            /\ Holds(Or(Or(anyType, noType), ofType))
            /\ Holds(Or(anyEducation, ofEducation))
            /\ Holds(Or(Or(anyProvince, noProvince), ofProvince))
      BY DEF Matches
    <2> HIDE DEF anyType, noType, ofType, anyEducation, ofEducation, anyProvince, noProvince,
                 ofProvince
    <2>4. /\ Or(anyType, noType) \in Truth
          /\ Or(anyProvince, noProvince) \in Truth
      BY <2>1, <2>2, HoldsOr
    <2>5. /\ Holds(Or(Or(anyType, noType), ofType)) <=> type
          /\ Holds(Or(anyEducation, ofEducation)) <=> education
          /\ Holds(Or(Or(anyProvince, noProvince), ofProvince))
                <=> province
      BY <2>1, <2>2, <2>4, HoldsOr
    <2> HIDE DEF type, education, province
    <2> QED
      BY <2>3, <2>5
  <1>2. Found(query, job, today) =>
          /\ FindsText(query, job)
          /\ type /\ education /\ province
    BY HoldsAnyOf, HoldsOverlap DEF Found, FindsProvince
  <1>3. /\ {query.q, query.jobCategory, query.status, query.salaryMin, query.salaryMax} = {{}}
        /\ query.jobType # {} => job.jobTypeId # {}
        /\ query.province # {} /\ query.provinceStrict => job.provinceIds # {}
        /\ type /\ education /\ province
        => Found(query, job, today)
    BY HoldsAnyOf, HoldsOverlap DEF Found, FindsProvince, FindsText,
       FindsSalary
  <1>4. job.title \cup job.agency \subseteq BuildHaystack(job, includeDocuments)
    BY DEF BuildHaystack
  <1> HIDE DEF type, education, province
  <1> QED
    BY <1>1, <1>2, <1>3, <1>4

\* An amount between two bounds, either of which may be missing.
Amounts(bounds) ==
    {w \in Int : /\ \A least \in bounds.salaryMin : least <= w
                 /\ \A most \in bounds.salaryMax : w <= most}

\* The salary filter keeps the jobs that may pay an amount that is asked for, those that do
\* not say included (applyFilters).
THEOREM SalariesOverlap ==
  ASSUME NEW query, NEW job,
         query.salaryMin \in Nullable(Int), query.salaryMax \in Nullable(Int),
         job.salaryMin \in Nullable(Int), job.salaryMax \in Nullable(Int),
         Amounts(query) # {}, Amounts(job) # {}
  PROVE FindsSalary(query, job) <=> Amounts(query) \cap Amounts(job) # {}
  <1> DEFINE finds == /\ \A least \in query.salaryMin :
                            job.salaryMax = {} \/ \E max \in job.salaryMax : max >= least
                      /\ \A most \in query.salaryMax :
                            job.salaryMin = {} \/ \E min \in job.salaryMin : min <= most
  <1>1. FindsSalary(query, job) <=> finds
    <2>1. ASSUME NEW least \in query.salaryMin
          PROVE Holds(Or(IsNull(job.salaryMax),
                                         {max >= least : max \in job.salaryMax}))
                <=> (job.salaryMax = {} \/ \E max \in job.salaryMax : max >= least)
      <3>1. least \in Int
        BY DEF Nullable
      <3>2. /\ {max >= least : max \in job.salaryMax} \in Truth
            /\ Holds({max >= least : max \in job.salaryMax})
                  <=> (\E max \in job.salaryMax : max >= least)
        BY <3>1, HoldsCompared
      <3> QED
        BY <3>2, HoldsNull, HoldsOr, Zenon
    <2>2. ASSUME NEW most \in query.salaryMax
          PROVE Holds(Or(IsNull(job.salaryMin),
                                         {min <= most : min \in job.salaryMin}))
                <=> (job.salaryMin = {} \/ \E min \in job.salaryMin : min <= most)
      <3>1. most \in Int
        BY DEF Nullable
      <3>2. /\ {min <= most : min \in job.salaryMin} \in Truth
            /\ Holds({min <= most : min \in job.salaryMin})
                  <=> (\E min \in job.salaryMin : min <= most)
        BY <3>1, HoldsCompared
      <3> QED
        BY <3>2, HoldsNull, HoldsOr, Zenon
    <2> QED
      BY <2>1, <2>2, Zenon DEF FindsSalary
  <1>2. ASSUME NEW w \in Amounts(query) \cap Amounts(job) PROVE finds
    BY DEF Amounts, Nullable
  <1>3. ASSUME finds PROVE \E w \in Int : w \in Amounts(query) /\ w \in Amounts(job)
    <2>1. ASSUME NEW m \in Int, job.salaryMin = {m},
                 \A least \in query.salaryMin : least <= m
          PROVE m \in Amounts(query) /\ m \in Amounts(job)
      BY <1>3, <2>1 DEF Amounts, Nullable
    <2>2. ASSUME NEW n \in Int, query.salaryMin = {n},
                 \A least \in job.salaryMin : least <= n
          PROVE n \in Amounts(query) /\ n \in Amounts(job)
      BY <1>3, <2>2 DEF Amounts, Nullable
    <2>3. CASE query.salaryMin = {} /\ job.salaryMin = {}
      <3>1. ASSUME NEW a \in Int, query.salaryMax = {a}, \A most \in job.salaryMax : a <= most
            PROVE a \in Amounts(query) /\ a \in Amounts(job)
        BY <2>3, <3>1 DEF Amounts
      <3>2. ASSUME NEW b \in Int, job.salaryMax = {b}, \A most \in query.salaryMax : b <= most
            PROVE b \in Amounts(query) /\ b \in Amounts(job)
        BY <2>3, <3>2 DEF Amounts
      <3>3. CASE query.salaryMax = {} /\ job.salaryMax = {}
        BY <2>3, <3>3 DEF Amounts
      <3> HIDE DEF finds
      <3> QED
        BY <3>1, <3>2, <3>3 DEF Nullable
    <2> HIDE DEF finds
    <2> QED
      BY <2>1, <2>2, <2>3 DEF Nullable
  <1> HIDE DEF finds
  <1> QED
    BY <1>1, <1>2, <1>3
---------------------------------------------------------------------------
(* Pages.                                                                  *)

\* Whatever is asked for, a page is of 1 to MaxPageSize rows, and the rows before it are those
\* of the pages before it; a size within the bounds is the size asked for
\* (getPaginationOptions).
THEOREM PagesAreBounded ==
  ASSUME NEW query, query.page \in Nullable(Int), query.limit \in Nullable(Int)
  PROVE LET options == GetPaginationOptions(query) IN
        /\ options.limit \in 1 .. MaxPageSize
        /\ options.page \in Nat \ {0}
        /\ options.skip = (options.page - 1) * options.limit
        /\ \A k \in query.limit \cap 1 .. MaxPageSize : options.limit = k
        /\ \A k \in query.page \ {0} : k >= 1 => options.page = k
  <1> DEFINE given(n, otherwise) ==
               IF n \in {{}, {0}} THEN otherwise ELSE CHOOSE k \in n : TRUE
             page == given(query.page, 1)
             limit == given(query.limit, 20)
  <1>1. page \in Int /\ limit \in Int
    BY DEF Nullable
  <1>2. /\ \A k \in query.limit \ {0} : limit = k
        /\ \A k \in query.page \ {0} : page = k
    BY DEF Nullable
  <1>3. LET options == GetPaginationOptions(query) IN
        /\ options.limit = Within(1, limit, 100)
        /\ options.page = IF page < 1 THEN 1 ELSE page
        /\ options.skip = (options.page - 1) * options.limit
    BY DEF GetPaginationOptions, MaxPageSize, DefaultPageSize
  <1> HIDE DEF page, limit
  <1> QED
    BY <1>1, <1>2, <1>3 DEF Within, MaxPageSize

\* Rows that a query sorts: finitely many, each with its own id, and a number or nothing to
\* sort by.
Sorted(rows, column) ==
    /\ IsFiniteSet(rows)
    /\ \A r \in rows : r.id \in Int /\ r.columns[column] \in Nullable(Int)
    /\ \A r, s \in rows : r.id = s.id => r = s

\* Precedes is a strict order of the rows, in which any two are comparable.
LEMMA PrecedesOrders ==
  ASSUME NEW rows, NEW column, NEW order, Sorted(rows, column),
         NEW a \in rows, NEW b \in rows, NEW c \in rows
  PROVE /\ ~ Precedes(a, a, column, order)
        /\ Precedes(a, b, column, order) /\ Precedes(b, c, column, order)
              => Precedes(a, c, column, order)
        /\ a # b => Precedes(a, b, column, order) \/ Precedes(b, a, column, order)
  <1> DEFINE x == a.columns[column]
             y == b.columns[column]
             z == c.columns[column]
  <1>1. /\ x \in Nullable(Int) /\ y \in Nullable(Int) /\ z \in Nullable(Int)
        /\ a.id \in Int /\ b.id \in Int /\ c.id \in Int
        /\ a # b => a.id # b.id
    BY DEF Sorted
  <1>2. /\ x = {} \/ \E i \in Int : x = {i}
        /\ y = {} \/ \E i \in Int : y = {i}
        /\ z = {} \/ \E i \in Int : z = {i}
    BY <1>1 DEF Nullable
  <1>3. CASE order = "ASC"
    <2>1. /\ Precedes(a, b, column, order) <=>
               IF x = y THEN a.id > b.id ELSE y = {} \/ \E m \in x, n \in y : m < n
          /\ Precedes(b, c, column, order) <=>
               IF y = z THEN b.id > c.id ELSE z = {} \/ \E m \in y, n \in z : m < n
          /\ Precedes(a, c, column, order) <=>
               IF x = z THEN a.id > c.id ELSE z = {} \/ \E m \in x, n \in z : m < n
          /\ Precedes(b, a, column, order) <=>
               IF y = x THEN b.id > a.id ELSE x = {} \/ \E m \in y, n \in x : m < n
          /\ Precedes(a, a, column, order) <=> a.id > a.id
      BY <1>3 DEF Precedes
    <2> HIDE DEF x, y, z
    <2> QED
      BY <1>1, <1>2, <2>1
  <1>4. CASE order # "ASC"
    <2>1. /\ Precedes(a, b, column, order) <=>
               IF x = y THEN a.id > b.id ELSE y = {} \/ \E m \in x, n \in y : m > n
          /\ Precedes(b, c, column, order) <=>
               IF y = z THEN b.id > c.id ELSE z = {} \/ \E m \in y, n \in z : m > n
          /\ Precedes(a, c, column, order) <=>
               IF x = z THEN a.id > c.id ELSE z = {} \/ \E m \in x, n \in z : m > n
          /\ Precedes(b, a, column, order) <=>
               IF y = x THEN b.id > a.id ELSE x = {} \/ \E m \in y, n \in x : m > n
          /\ Precedes(a, a, column, order) <=> a.id > a.id
      BY <1>4 DEF Precedes
    <2> HIDE DEF x, y, z
    <2> QED
      BY <1>1, <1>2, <2>1
  <1> QED
    BY <1>3, <1>4

\* The rows before a row.
Below(rows, r, column, order) == {a \in rows : Precedes(a, r, column, order)}

\* How many rows are before it.
RankOf(rows, r, column, order) == Cardinality(Below(rows, r, column, order))

\* The ranks of the rows are 0 to one less than their number, one row at each, in order.
Ranked(rows, column, order) ==
    /\ \A r \in rows : RankOf(rows, r, column, order) \in 0 .. Cardinality(rows) - 1
    /\ \A r, s \in rows : RankOf(rows, r, column, order) < RankOf(rows, s, column, order)
                              <=> Precedes(r, s, column, order)
    /\ \A r, s \in rows : RankOf(rows, r, column, order) = RankOf(rows, s, column, order)
                              => r = s
    /\ \A k \in 0 .. Cardinality(rows) - 1 :
          \E r \in rows : RankOf(rows, r, column, order) = k

\* Rows that can be sorted are ranked.
LEMMA RowsAreRanked ==
  ASSUME NEW rows, NEW column, NEW order, Sorted(rows, column)
  PROVE Ranked(rows, column, order)
  <1> DEFINE below(r) == Below(rows, r, column, order)
             rank == [r \in rows |-> Cardinality(below(r))]
             precedes(r, s) == Precedes(r, s, column, order)
             n == Cardinality(rows)
  <1>1. IsFiniteSet(rows) /\ n \in Nat
    BY FS_CardinalityType DEF Sorted
  <1>2. ASSUME NEW r \in rows
        PROVE /\ IsFiniteSet(below(r)) /\ below(r) \subseteq rows \ {r}
              /\ rank[r] \in 0 .. n - 1
    <2>1. below(r) \subseteq rows \ {r}
      BY PrecedesOrders DEF Below
    <2>2. IsFiniteSet(rows \ {r}) /\ Cardinality(rows \ {r}) = n - 1
      BY <1>1, FS_RemoveElement
    <2>3. IsFiniteSet(below(r)) /\ Cardinality(below(r)) <= n - 1
      BY <2>1, <2>2, FS_Subset
    <2>4. Cardinality(below(r)) \in Nat
      BY <2>3, FS_CardinalityType
    <2> QED
      BY <1>1, <2>1, <2>3, <2>4
  <1>3. ASSUME NEW r \in rows, NEW s \in rows, precedes(r, s)
        PROVE rank[r] < rank[s]
    <2>1. below(r) \subseteq below(s) /\ r \in below(s) /\ r \notin below(r)
      BY <1>3, PrecedesOrders DEF Below
    <2>2. below(r) \subseteq below(s) \ {r}
      BY <2>1
    <2>3. /\ IsFiniteSet(below(s) \ {r})
          /\ Cardinality(below(s) \ {r}) = Cardinality(below(s)) - 1
      BY <1>2, <2>1, FS_RemoveElement
    <2>4. Cardinality(below(r)) <= Cardinality(below(s)) - 1
      BY <2>2, <2>3, FS_Subset
    <2> QED
      BY <1>2, <2>4
  <1>4. \A r, s \in rows : r # s => precedes(r, s) \/ precedes(s, r)
    BY PrecedesOrders
  <1>5. \A r \in rows : rank[r] = RankOf(rows, r, column, order)
    BY DEF RankOf
  <1>6. rank \in [rows -> 0 .. n - 1]
    BY <1>2
  <1> HIDE DEF rank, precedes
  <1>7. \A r, s \in rows : /\ rank[r] < rank[s] <=> precedes(r, s)
                           /\ rank[r] = rank[s] => r = s
    BY <1>3, <1>4, <1>6
  <1>8. rank \in Injection(rows, 0 .. n - 1)
    BY <1>6, <1>7 DEF Injection, IsInjective
  <1>9. IsFiniteSet(0 .. n - 1) /\ Cardinality(0 .. n - 1) = n
    BY <1>1, FS_Interval
  <1>10. rank \in Surjection(rows, 0 .. n - 1)
    BY <1>8, <1>9, FS_Injection
  <1>11. \A k \in 0 .. n - 1 : \E r \in rows : rank[r] = k
    BY <1>10 DEF Surjection
  <1> QED
    BY <1>5, <1>6, <1>7, <1>11 DEF precedes, Ranked

\* A page of what a query asks for.
Page(rows, asked, p, default) ==
    Paginate(rows, [page |-> {p}, limit |-> asked.limit, sortBy |-> asked.sortBy,
                            order |-> asked.order], default)

\* What a query sorts by, and which way.
SortColumn(asked, default) ==
    IF asked.sortBy = {} THEN default ELSE CHOOSE c \in asked.sortBy : TRUE

SortOrder(asked) == IF asked.sortBy = {} THEN "DESC" ELSE asked.order

\* The rows of a page.
PageSize(asked) == GetPaginationOptions([page |-> {1}, limit |-> asked.limit]).limit

\* A page has the rows whose rank is among its places.
LEMMA PageOfRank ==
  ASSUME NEW rows, NEW asked, NEW p \in Nat \ {0}, NEW default,
         asked.limit \in Nullable(Int)
  PROVE /\ PageSize(asked) \in 1 .. 100
        /\ Page(rows, asked, p, default) =
             {r \in rows : RankOf(rows, r, SortColumn(asked, default), SortOrder(asked))
                              \in (p - 1) * PageSize(asked) .. p * PageSize(asked) - 1}
  <1> DEFINE query == [page |-> {p}, limit |-> asked.limit, sortBy |-> asked.sortBy,
                       order |-> asked.order]
             first == [page |-> {1}, limit |-> asked.limit]
             options == GetPaginationOptions(query)
             size == PageSize(asked)
             rank(r) == RankOf(rows, r, SortColumn(asked, default), SortOrder(asked))
  <1>1. /\ query.page \in Nullable(Int) /\ query.limit \in Nullable(Int)
        /\ first.page \in Nullable(Int) /\ first.limit \in Nullable(Int)
        /\ p \in query.page \ {0}
    BY DEF Nullable
  <1>2. options.limit = GetPaginationOptions(first).limit
    BY DEF GetPaginationOptions
  <1>3. size \in 1 .. 100
    <2> HIDE DEF first
    <2> QED
      BY <1>1, PagesAreBounded DEF MaxPageSize, PageSize, first
  <1>4. options.page = p /\ options.skip = (options.page - 1) * options.limit
    <2> HIDE DEF query
    <2> QED
      BY <1>1, PagesAreBounded
  <1>5. options.limit = size
    BY <1>2 DEF PageSize
  <1>6. Page(rows, asked, p, default) =
          {r \in rows : rank(r) \in options.skip .. options.skip + options.limit - 1}
    BY DEF Page, Paginate, RankOf, Below, SortColumn, SortOrder
  <1>7. options.skip + options.limit - 1 = p * size - 1 /\ options.skip = (p - 1) * size
    BY <1>3, <1>4, <1>5
  <1> QED
    BY <1>3, <1>6, <1>7

\* Pages cut the rows without loss: each row is on one page, up to last_page, the rows of a
\* page come before those of the next, every page but the last is full and none after it has
\* a row (paginate).
THEOREM PagesPartitionTheRows ==
  ASSUME NEW rows, NEW asked, NEW default,
         asked.limit \in Nullable(Int), Sorted(rows, SortColumn(asked, default))
  PROVE LET page(p) == Page(rows, asked, p, default)
            last == LastPage(Cardinality(rows), PageSize(asked))
        IN
        /\ last \in Nat
        /\ \A r \in rows : \E p \in 1 .. last : r \in page(p)
        /\ \A p \in 1 .. last - 1 : Cardinality(page(p)) = PageSize(asked)
        /\ \A p \in Nat \ {0} : page(p) = {} <=> p > last
        /\ \A p, q \in Nat \ {0} : p < q =>
              \A a \in page(p), b \in page(q) :
                 Precedes(a, b, SortColumn(asked, default), SortOrder(asked))
  <1> DEFINE page(p) == Page(rows, asked, p, default)
             size == PageSize(asked)
             n == Cardinality(rows)
             last == LastPage(n, size)
             column == SortColumn(asked, default)
             order == SortOrder(asked)
             rank(r) == RankOf(rows, r, column, order)
  <1>1. /\ size \in 1 .. 100
        /\ \A p \in Nat \ {0} :
              page(p) = {r \in rows : rank(r) \in (p - 1) * size .. p * size - 1}
    <2>1. 1 \in Nat \ {0}
      OBVIOUS
    <2> QED
      BY <2>1, PageOfRank
  <1>2. IsFiniteSet(rows) /\ n \in Nat
    BY FS_CardinalityType DEF Sorted
  <1>3. /\ \A r \in rows : rank(r) \in 0 .. n - 1
        /\ \A r, s \in rows : rank(r) < rank(s) <=> Precedes(r, s, column, order)
        /\ \A r, s \in rows : rank(r) = rank(s) => r = s
        /\ \A k \in 0 .. n - 1 : \E r \in rows : rank(r) = k
    <2>1. Ranked(rows, column, order)
      BY RowsAreRanked
    <2> HIDE DEF column, order
    <2> QED
      BY <2>1 DEF Ranked
  <1>4. last \in Nat /\ n <= last * size
        /\ (last # 0 => (last - 1) * size < n) /\ (last = 0 <=> n = 0)
    <2>1. CASE n = 0
      BY <1>1, <2>1 DEF LastPage
    <2>2. CASE n # 0
      <3>1. last = (n + size - 1) \div size
        BY <2>2 DEF LastPage
      <3> HIDE DEF last, n, size
      <3>2. last \in Nat /\ last * size <= n + size - 1 /\ n + size - 1 < last * size + size
        BY <1>1, <1>2, <3>1
      <3>3. (last - 1) * size = last * size - size
        BY <1>1, <3>2
      <3> QED
        BY <1>1, <1>2, <2>2, <3>2, <3>3
    <2> QED
      BY <2>1, <2>2
  <1> HIDE DEF page, size, n, last, rank, column, order
  <1>5. ASSUME NEW r \in rows PROVE \E p \in 1 .. last : r \in page(p)
    <2> DEFINE p == rank(r) \div size + 1
    <2>1. rank(r) \in Nat /\ rank(r) < n
      BY <1>2, <1>3
    <2>2. rank(r) \div size \in Nat
          /\ size * (rank(r) \div size) <= rank(r)
          /\ rank(r) < size * (rank(r) \div size) + size
      BY <1>1, <2>1
    <2>3. p \in Nat \ {0} /\ rank(r) \in (p - 1) * size .. p * size - 1
      BY <1>1, <2>1, <2>2
    <2> HIDE DEF p
    <2>4. p <= last
      <3> SUFFICES ASSUME last < p PROVE FALSE
        BY <1>4, <2>3
      <3>1. last * size <= (p - 1) * size
        BY <1>1, <1>4, <2>3
      <3> QED
        BY <1>1, <1>2, <1>4, <2>1, <2>3, <3>1
    <2>5. r \in page(p)
      BY <1>1, <2>3, Zenon
    <2>6. p \in 1 .. last
      BY <1>4, <2>3, <2>4
    <2> QED
      BY <2>5, <2>6
  <1>6. ASSUME NEW p \in 1 .. last - 1 PROVE Cardinality(page(p)) = size
    <2> DEFINE places == (p - 1) * size .. p * size - 1
               at == [r \in page(p) |-> rank(r)]
    <2>1. p \in Nat \ {0} /\ p + 1 <= last
      BY <1>4
    <2>2. page(p) = {r \in rows : rank(r) \in places}
      BY <1>1, <2>1
    <2>3. p * size <= (last - 1) * size /\ (p - 1) * size = p * size - size
          /\ (p - 1) * size >= 0 /\ p * size \in Int /\ (last - 1) * size < n
          /\ (p - 1) * size \in Int
      BY <1>1, <1>4, <2>1
    <2>4. IsFiniteSet(places) /\ Cardinality(places) = size
      <3>1. p * size - 1 \in Int /\ (p - 1) * size \in Int
        BY <2>3
      <3>2. /\ ~ (p - 1) * size > p * size - 1
            /\ p * size - 1 - (p - 1) * size + 1 = size
        BY <1>1, <2>3
      <3> QED
        BY <3>1, <3>2, FS_Interval
    <2>5. places \subseteq 0 .. n - 1
      BY <1>1, <1>2, <1>4, <2>3
    <2> HIDE DEF places
    <2>6. at \in Injection(page(p), places)
      BY <1>3, <2>2 DEF Injection, IsInjective
    <2>7. \A k \in places : \E r \in page(p) : at[r] = k
      BY <1>3, <2>2, <2>5
    <2>8. at \in Surjection(page(p), places)
      BY <2>6, <2>7 DEF Surjection, Injection
    <2> QED
      BY <2>4, <2>6, <2>8, FS_Injection
  <1>7. ASSUME NEW p \in Nat \ {0} PROVE page(p) = {} <=> p > last
    <2>1. CASE p > last
      <3>1. last * size <= (p - 1) * size
        BY <1>1, <1>4, <2>1
      <3> QED
        BY <1>1, <1>2, <1>3, <1>4, <2>1, <3>1
    <2>2. CASE p <= last
      <3>1. (p - 1) * size <= (last - 1) * size /\ (p - 1) * size \in Nat
            /\ (p - 1) * size <= p * size - 1 /\ (last - 1) * size < n
            /\ (last - 1) * size \in Int /\ p * size \in Int
        BY <1>1, <1>4, <2>2
      <3>2. PICK r \in rows : rank(r) = (p - 1) * size
        BY <1>2, <1>3, <3>1
      <3> QED
        BY <1>1, <1>4, <2>2, <3>1, <3>2
    <2> QED
      BY <1>4, <2>1, <2>2
  <1>8. ASSUME NEW p \in Nat \ {0}, NEW q \in Nat \ {0}, p < q,
               NEW a \in page(p), NEW b \in page(q)
        PROVE Precedes(a, b, column, order)
    <2>1. /\ a \in rows /\ rank(a) <= p * size - 1 /\ rank(a) \in Int
          /\ b \in rows /\ (q - 1) * size <= rank(b) /\ rank(b) \in Int
          /\ p * size \in Int /\ (q - 1) * size \in Int
      BY <1>1, <1>2, <1>3
    <2>2. p * size <= (q - 1) * size
      BY <1>1, <1>8
    <2>3. rank(a) < rank(b)
      BY <1>1, <2>1, <2>2
    <2> QED
      BY <1>3, <2>1, <2>3
  <1> QED
    BY <1>4, <1>5, <1>6, <1>7, <1>8 DEF page, size, n, last, column, order

\* A page of the listing filtered by a status shows no job with another: the status a reader
\* sees is the one the rows were chosen by (findAll).
THEOREM ListingAgreesWithItself ==
  ASSUME NEW jobs, NEW query, NEW today \in Int,
         \A job \in jobs : job.applicationStart \in Nullable(Int)
                          /\ job.applicationEnd \in Nullable(Int),
         Sortable(query, JobSortableColumns)
  PROVE \A row \in FindAll(jobs, query, today).data : query.status \subseteq {row.status}
  <1> DEFINE found == {job \in jobs : Found(query, job, today)}
  <1>1. FindAll(jobs, query, today).data =
          {ToJobSummary(job, today) : job \in Paginate(found, query, "publishedAt")}
    BY DEF FindAll
  <1>2. Paginate(found, query, "publishedAt") \subseteq found
    BY DEF Paginate
  <1>3. ASSUME NEW job \in found PROVE query.status \subseteq {ToJobSummary(job, today).status}
    <2>1. \A status \in query.status : JobStatusSqlExpression(job, today) = status
      BY DEF Found
    <2>2. ResolveJobStatus(job, today) = JobStatusSqlExpression(job, today)
      BY OneStatus
    <2> QED
      BY <2>1, <2>2 DEF ToJobSummary
  <1> HIDE DEF found
  <1> QED
    BY <1>1, <1>2, <1>3

\* Every row of a page has its own numbers, one with nothing to count a zero (users).
THEOREM EveryRowIsCounted ==
  ASSUME NEW users, NEW query, NEW alerts, NEW kept
  PROVE Users(users, query, alerts, kept) =
          {[id |-> u.id, alertCount |-> Cardinality({r \in alerts : r.owner = u.id}),
            savedJobCount |-> Cardinality({r \in kept : r.owner = u.id})]
              : u \in Paginate(users, query, "createdAt")}
  <1>1. ASSUME NEW owners, NEW rows, NEW o \in owners
        PROVE CountOf(Counts(owners, rows), o) = Cardinality({r \in rows : r.owner = o})
    <2>1. CASE \E r \in rows : r.owner = o
      BY <2>1 DEF CountOf, Counts
    <2>2. CASE ~ \E r \in rows : r.owner = o
      <3>1. {r \in rows : r.owner = o} = {} /\ o \notin DOMAIN Counts(owners, rows)
        BY <2>2 DEF Counts
      <3>2. Cardinality({}) = 0
        BY FS_EmptySet
      <3> QED
        BY <3>1, <3>2 DEF CountOf
    <2> QED
      BY <2>1, <2>2
  <1> DEFINE page == Paginate(users, query, "createdAt")
             ids == {u.id : u \in page}
  <1>2. \A u \in page :
          /\ CountOf(Counts(ids, alerts), u.id) = Cardinality({r \in alerts : r.owner = u.id})
          /\ CountOf(Counts(ids, kept), u.id) = Cardinality({r \in kept : r.owner = u.id})
    BY <1>1
  <1>3. Users(users, query, alerts, kept) =
          {[id |-> u.id, alertCount |-> CountOf(Counts(ids, alerts), u.id),
            savedJobCount |-> CountOf(Counts(ids, kept), u.id)] : u \in page}
    BY DEF Users
  <1> HIDE DEF page, ids
  <1>4. {[id |-> u.id, alertCount |-> CountOf(Counts(ids, alerts), u.id),
          savedJobCount |-> CountOf(Counts(ids, kept), u.id)] : u \in page} =
        {[id |-> u.id, alertCount |-> Cardinality({r \in alerts : r.owner = u.id}),
            savedJobCount |-> Cardinality({r \in kept : r.owner = u.id})] : u \in page}
    BY <1>2, Zenon
  <1> QED
    BY <1>3, <1>4 DEF page

\* An edit of an alert replaces what it names with what it says, but an empty list of types,
\* educations or provinces is as if none had been sent (toNumberArray, update).
THEOREM FiltersAreNotCleared ==
  ASSUME NEW filters, NEW sent,
         {"keywords", "jobTypes", "educations", "provinces"} \subseteq DOMAIN filters,
         filters = [f \in DOMAIN filters |-> filters[f]]
  PROVE LET dto == [keywords |-> {sent}, jobTypes |-> {sent}, educations |-> {sent},
                    provinces |-> {sent}]
            updated == UpdatedAlert(filters, dto)
        IN /\ updated.keywords = sent
           /\ \A f \in {"jobTypes", "educations", "provinces"} :
                 updated[f] = IF sent = {} THEN filters[f] ELSE sent
  <1>1. ToNumberArray({sent}) = IF sent = {} THEN {} ELSE {sent}
    BY DEF ToNumberArray
  <1>2. UNION {sent} = sent
    OBVIOUS
  <1>3. \A kept : /\ Updated(kept, {sent}) = sent
                  /\ Updated(kept, ToNumberArray({sent})) = IF sent = {} THEN kept ELSE sent
    BY <1>1, <1>2 DEF Updated
  <1> QED
    BY <1>3 DEF UpdatedAlert

=============================================================================
