--------------------------- MODULE Sessions_proofs ---------------------------
(***************************************************************************)
(* What refreshes, logouts and password changes may never do to a session, *)
(* for every number of users, requests and tokens.                         *)
(*                                                                         *)
(* No property is inductive.  Reading says what a request has in hand;     *)
(* RotatesLive, that it rotates a token which is live or which another     *)
(* request wrote to meanwhile; StaysRevoked and FirstStands, what the row  *)
(* of a revoked token says unless two requests raced for it; Latecomers,   *)
(* why a request may be about to issue a session of an earlier password.   *)
(***************************************************************************)
EXTENDS Sessions, TLAPS

Reading == \A c \in Call : pc[c] # "idle" => who[c] \in User

RotatesLive == \A c \in Call : pc[c] = "rotate" =>
    held[c] \in Token /\ (reason[held[c]] = "live" \/ held[c] \in raced)

StaysRevoked == \A t \in signedOut : reason[t] \in {"logout", "password"} \/ t \in raced

FirstStands == \A t \in Token : reason[t] # "live" => first[t] = revokedAt[t] \/ t \in raced

NewHasFirst == \A u \in User : account[u] = "none" => password[u] = 0

Latecomers == \A c \in Call :
    pc[c] \in {"rotate", "issue", "revoke"} /\ base[c] < password[who[c]] =>
        \/ c \in excused
        \/ who[c] \in half
        \/ \E d \in Call \ {c} : pc[d] = "revoke" /\ who[d] = who[c]

---------------------------------------------------------------------------
(* Types.                                                                  *)

TypeInv == TypeOK /\ Reading

\* A revocation leaves the columns it writes in their types.
LEMMA RevokeType ==
  ASSUME TypeOK, NEW c, NEW S \in SUBSET Token, NEW why \in {"rotated", "logout", "password"},
         Revoke(c, S, why)
  PROVE /\ reason' \in [Token -> {"live", "rotated", "logout", "password"}]
        /\ revokedAt' \in [Token -> Time] /\ first' \in [Token -> Time]
        /\ raced' \in SUBSET Token /\ signedOut' \in SUBSET Token
  BY DEF TypeOK, Revoke

\* The initial states are well typed.
LEMMA InitTypeInv == Init => TypeInv
  <1> SUFFICES ASSUME Init PROVE TypeInv
    OBVIOUS
  <1>1. 0 \in Epoch /\ 0 \in Time /\ 0 \in 0 .. MaxTokens
    BY BoundAssumption DEF Epoch, Time
  <1> QED
    BY <1>1 DEF Init, TypeInv, TypeOK, Reading, Place

\* A request that begins has a user in hand.
LEMMA BeginType ==
  ASSUME TypeInv, NEW c \in Call,
         \/ \E u \in User : Begin(c, u)
         \/ \E t \in Token : Present(c, t)
  PROVE TypeInv'
  <1> USE BoundAssumption DEF TypeInv, TypeOK, Reading, Place, Go, users, tokens, locals, marks
  <1>1. ASSUME NEW u \in User, Register(c, u) PROVE TypeInv'
    BY <1>1 DEF Register
  <1>2. ASSUME NEW u \in User, Login(c, u) PROVE TypeInv'
    BY <1>2 DEF Login
  <1>3. ASSUME NEW u \in User, BeginChange(c, u) PROVE TypeInv'
    BY <1>3 DEF BeginChange
  <1>4. ASSUME NEW t \in Token, Present(c, t) PROVE TypeInv'
    <2>1. owner[t] \in User /\ since[t] \in Epoch
      BY <1>4 DEF Present
    <2>2. /\ excused' \in SUBSET Call /\ revived' \in SUBSET Token
          /\ overdue' \in SUBSET Token
      BY <1>4 DEF Present
    <2>3. /\ pc' \in [Call -> Place] /\ who' \in [Call -> User \cup {None}]
          /\ held' \in [Call -> Token \cup {None}] /\ base' \in [Call -> Epoch]
      BY <1>4, <2>1 DEF Present
    <2>4. Reading'
      BY <1>4, <2>1 DEF Present
    <2> QED
      BY <1>4, <2>2, <2>3, <2>4 DEF Present
  <1> QED
    BY <1>1, <1>2, <1>3, <1>4 DEF Begin

\* A request goes on with the user it has.
LEMMA ContinueType ==
  ASSUME TypeInv, NEW c \in Call, Continue(c)
  PROVE TypeInv'
  <1> USE BoundAssumption DEF TypeInv, TypeOK, Reading, Place
  <1>1. 0 \in Epoch
    BY DEF Epoch
  <1>2. CASE Rotate(c)
    <2> DEFINE S == {held[c]} \cap {t \in Token : owner[t] # None}
    <2>1. Revoke(c, S, "rotated") /\ S \in SUBSET Token
      BY <1>2 DEF Rotate
    <2>2. /\ reason' \in [Token -> {"live", "rotated", "logout", "password"}]
          /\ revokedAt' \in [Token -> Time] /\ first' \in [Token -> Time]
          /\ raced' \in SUBSET Token /\ signedOut' \in SUBSET Token
      BY <2>1, RevokeType
    <2> QED
      BY <1>2, <2>2 DEF Rotate, Go, users
  <1>3. CASE IssueSession(c)
    <2>1. who[c] \in User
      BY <1>3 DEF IssueSession
    <2>2. /\ issued' \in 0 .. MaxTokens /\ owner' \in [Token -> User \cup {None}]
          /\ since' \in [Token -> Epoch] /\ exempt' \in SUBSET Token
      <3>1. CASE Exists(who[c])
        <4>1. issued + 1 \in Token /\ issued' = issued + 1
          BY <1>3, <3>1 DEF IssueSession
        <4>2. owner' = [owner EXCEPT ![issued + 1] = who[c]]
          BY <1>3, <3>1 DEF IssueSession
        <4>3. since' = [since EXCEPT ![issued + 1] = base[c]]
          BY <1>3, <3>1 DEF IssueSession
        <4>4. exempt' \in SUBSET Token
          BY <1>3, <3>1, <4>1 DEF IssueSession
        <4>5. issued' \in 0 .. MaxTokens
          BY <4>1 DEF Token
        <4> QED
          BY <2>1, <4>1, <4>2, <4>3, <4>4, <4>5
      <3>2. CASE ~Exists(who[c])
        BY <1>3, <3>2 DEF IssueSession
      <3> QED
        BY <3>1, <3>2
    <2> QED
      BY <1>1, <1>3, <2>2 DEF IssueSession, Leave, Go, users, marks
  <1>4. CASE SetPassword(c)
    <2>1. who[c] \in User
      BY <1>4 DEF SetPassword
    <2>2. password' \in [User -> Epoch]
      BY <1>4, <2>1 DEF SetPassword, Epoch
    <2> QED
      BY <1>4, <2>1, <2>2 DEF SetPassword, Go, tokens, marks
  <1>5. CASE RevokeAll(c)
    <2>1. who[c] \in User /\ LiveOf(who[c]) \in SUBSET Token
      BY <1>5 DEF RevokeAll, LiveOf
    <2>2. /\ reason' \in [Token -> {"live", "rotated", "logout", "password"}]
          /\ revokedAt' \in [Token -> Time] /\ first' \in [Token -> Time]
          /\ raced' \in SUBSET Token /\ signedOut' \in SUBSET Token
      BY <1>5, <2>1, RevokeType DEF RevokeAll
    <2> QED
      BY <1>5, <2>1, <2>2 DEF RevokeAll, Go, users
  <1>6. CASE Fail(c)
    <2>1. half' \in SUBSET User
      BY <1>6 DEF Fail, Idle
    <2> QED
      BY <1>1, <1>6, <2>1 DEF Fail, Leave, Go, users, tokens, marks
  <1> QED
    BY <1>2, <1>3, <1>4, <1>5, <1>6 DEF Continue

\* Every step keeps the types.
LEMMA NextTypeInv == TypeInv /\ [Next]_vars => TypeInv'
  <1> SUFFICES ASSUME TypeInv, [Next]_vars PROVE TypeInv'
    OBVIOUS
  <1>1. ASSUME NEW c \in Call, NEW u \in User, Begin(c, u) PROVE TypeInv'
    BY <1>1, BeginType
  <1>2. ASSUME NEW c \in Call, NEW t \in Token, Present(c, t) PROVE TypeInv'
    BY <1>2, BeginType
  <1>3. ASSUME NEW c \in Call, Continue(c) PROVE TypeInv'
    BY <1>3, ContinueType
  <1>4. ASSUME NEW t \in Token, Logout(t) PROVE TypeInv'
    <2>1. Revoke(None, {t}, "logout") /\ {t} \in SUBSET Token
      BY <1>4 DEF Logout
    <2>2. /\ reason' \in [Token -> {"live", "rotated", "logout", "password"}]
          /\ revokedAt' \in [Token -> Time] /\ first' \in [Token -> Time]
          /\ raced' \in SUBSET Token /\ signedOut' \in SUBSET Token
      BY <2>1, RevokeType DEF TypeInv
    <2> QED
      BY <1>4, <2>2 DEF Logout, users, locals, TypeInv, TypeOK, Reading
  <1>5. ASSUME NEW u \in User, RemoveUser(u) PROVE TypeInv'
    BY <1>5 DEF RemoveUser, locals, marks, TypeInv, TypeOK, Reading
  <1>6. CASE Tick
    BY <1>6, BoundAssumption
    DEF Tick, Time, users, tokens, locals, marks, TypeInv, TypeOK, Reading
  <1>7. CASE UNCHANGED vars
    BY <1>7 DEF vars, users, tokens, locals, marks, TypeInv, TypeOK, Reading
  <1> QED
    BY <1>1, <1>2, <1>3, <1>4, <1>5, <1>6, <1>7 DEF Next

\* Every reachable state is well typed.
THEOREM TypeCorrect == Spec => []TypeOK
  <1>1. TypeInv => TypeOK
    BY DEF TypeInv
  <1> QED
    BY InitTypeInv, NextTypeInv, <1>1, PTL DEF Spec

---------------------------------------------------------------------------
(* Revoked tokens.                                                         *)

RevocationInv ==
    RotatesLive /\ StaysRevoked /\ SignedOutStaysOut /\ FirstStands /\ GraceIsNotExtended

\* A revocation of tokens that are live, or were raced for, by anyone but the requests that
\* are about to rotate one.
LEMMA RevokeKeeps ==
  ASSUME TypeInv, RevocationInv, NEW c, NEW S \in SUBSET Token,
         NEW why \in {"rotated", "logout", "password"}, Revoke(c, S, why),
         \A t \in S : reason[t] = "live" \/ t \in raced,
         \A d \in Call : pc'[d] = "rotate" => d # c /\ pc[d] = "rotate",
         UNCHANGED <<held, revived, overdue>>
  PROVE RevocationInv'
  <1>1. raced \subseteq raced'
    BY DEF Revoke
  <1>2. \A t \in Token \ S : /\ reason'[t] = reason[t] /\ revokedAt'[t] = revokedAt[t]
                             /\ first'[t] = first[t]
    BY DEF Revoke
  <1>3. \A t \in S : reason'[t] = why /\ revokedAt'[t] = now
    BY DEF Revoke
  <1>4. RotatesLive'
    <2> SUFFICES ASSUME NEW d \in Call, pc'[d] = "rotate"
                 PROVE held[d] \in Token /\ (reason'[held[d]] = "live" \/ held[d] \in raced')
      BY DEF RotatesLive
    <2>1. pc[d] = "rotate" /\ d \in Call \ {c}
      OBVIOUS
    <2>2. held[d] \in Token /\ (reason[held[d]] = "live" \/ held[d] \in raced)
      BY <2>1 DEF RevocationInv, RotatesLive
    <2>3. CASE held[d] \in S
      BY <2>1, <2>2, <2>3 DEF Revoke
    <2>4. CASE held[d] \notin S
      BY <1>1, <1>2, <2>2, <2>4
    <2> QED
      BY <2>3, <2>4
  <1>5. StaysRevoked'
    <2> SUFFICES ASSUME NEW t \in signedOut'
                 PROVE reason'[t] \in {"logout", "password"} \/ t \in raced'
      BY DEF StaysRevoked
    <2>1. t \in signedOut => t \in Token /\ (reason[t] \in {"logout", "password"} \/ t \in raced)
      BY DEF RevocationInv, StaysRevoked, TypeInv, TypeOK
    <2>2. CASE t \in S
      <3>1. CASE why = "rotated"
        BY <1>1, <2>1, <2>2, <3>1 DEF Revoke
      <3>2. CASE why # "rotated"
        BY <1>3, <2>2, <3>2
      <3> QED
        BY <3>1, <3>2
    <2>3. CASE t \notin S
      BY <1>1, <1>2, <2>1, <2>3 DEF Revoke
    <2> QED
      BY <2>2, <2>3
  <1>6. FirstStands'
    <2> SUFFICES ASSUME NEW t \in Token, reason'[t] # "live"
                 PROVE first'[t] = revokedAt'[t] \/ t \in raced'
      BY DEF FirstStands
    <2>1. CASE t \in S /\ reason[t] = "live"
      BY <1>3, <2>1 DEF Revoke
    <2>2. CASE t \in S /\ reason[t] # "live"
      BY <1>1, <2>2
    <2>3. CASE t \notin S
      BY <1>1, <1>2, <2>3 DEF RevocationInv, FirstStands
    <2> QED
      BY <2>1, <2>2, <2>3
  <1> QED
    BY <1>1, <1>4, <1>5, <1>6 DEF RevocationInv, SignedOutStaysOut, GraceIsNotExtended

\* A request that leaves every token as it is and does not come to rotate one.
LEMMA TokensKeep ==
  ASSUME RevocationInv, UNCHANGED <<reason, revokedAt, first, marks>>,
         \A d \in Call : pc'[d] = "rotate" => pc[d] = "rotate" /\ held'[d] = held[d]
  PROVE RevocationInv'
  BY DEF RevocationInv, RotatesLive, StaysRevoked, SignedOutStaysOut, FirstStands,
         GraceIsNotExtended, marks

\* A token is accepted live, or within the grace of what its row says.
LEMMA PresentKeeps ==
  ASSUME TypeInv, RevocationInv, NEW c \in Call, NEW t \in Token, Present(c, t)
  PROVE RevocationInv'
  <1> USE DEF RevocationInv
  <1>1. UNCHANGED <<reason, revokedAt, first, signedOut, raced>>
    BY DEF Present, tokens
  <1>2. RotatesLive'
    <2> SUFFICES ASSUME NEW d \in Call, pc'[d] = "rotate"
                 PROVE held'[d] \in Token /\ (reason[held'[d]] = "live" \/ held'[d] \in raced)
      BY <1>1 DEF RotatesLive
    <2>1. CASE d = c
      <3>1. reason[t] = "live" /\ held'[d] = t
        BY <2>1 DEF Present, Go, TypeInv, TypeOK
      <3> QED
        BY <3>1
    <2>2. CASE d # c
      <3>1. pc[d] = "rotate" /\ held'[d] = held[d]
        BY <2>2 DEF Present, Go, TypeInv, TypeOK
      <3> QED
        BY <3>1 DEF RotatesLive
    <2> QED
      BY <2>1, <2>2
  <1>3. SignedOutStaysOut'
    <2> SUFFICES ASSUME t \in signedOut PROVE t \in raced
      BY <1>1 DEF Present, SignedOutStaysOut
    <2>1. reason[t] \in {"live", "rotated"}
      BY DEF Present, WithinGrace
    <2> QED
      BY <2>1 DEF StaysRevoked
  <1>4. GraceIsNotExtended'
    <2> SUFFICES ASSUME reason[t] # "live", now - first[t] > Grace PROVE t \in raced
      BY <1>1 DEF Present, GraceIsNotExtended
    <2>1. now - revokedAt[t] <= Grace
      BY DEF Present, WithinGrace
    <2>2. now \in Nat /\ revokedAt[t] \in Nat /\ first[t] \in Nat /\ Grace \in Nat
      BY BoundAssumption DEF TypeInv, TypeOK, Time
    <2>3. first[t] # revokedAt[t]
      BY <2>1, <2>2
    <2> QED
      BY <2>3 DEF FirstStands
  <1> QED
    BY <1>1, <1>2, <1>3, <1>4 DEF StaysRevoked, FirstStands

\* Every step keeps what the rows of revoked tokens say.
LEMMA NextRevocationInv == TypeInv /\ RevocationInv /\ [Next]_vars => RevocationInv'
  <1> SUFFICES ASSUME TypeInv, RevocationInv, [Next]_vars PROVE RevocationInv'
    OBVIOUS
  <1> USE DEF TypeInv, TypeOK
  <1>1. ASSUME NEW c \in Call, NEW u \in User, Begin(c, u) PROVE RevocationInv'
    <2>1. UNCHANGED <<reason, revokedAt, first, marks, held>>
      BY <1>1 DEF Begin, Register, Login, BeginChange, tokens
    <2>2. \A d \in Call : pc'[d] = "rotate" => pc[d] = "rotate"
      BY <1>1 DEF Begin, Register, Login, BeginChange, Go
    <2> QED
      BY <2>1, <2>2, TokensKeep
  <1>2. ASSUME NEW c \in Call, NEW t \in Token, Present(c, t) PROVE RevocationInv'
    BY <1>2, PresentKeeps
  <1>3. ASSUME NEW c \in Call, Rotate(c) PROVE RevocationInv'
    <2> DEFINE S == {held[c]} \cap {t \in Token : owner[t] # None}
    <2>1. Revoke(c, S, "rotated") /\ S \in SUBSET Token
      BY <1>3 DEF Rotate
    <2>2. \A t \in S : reason[t] = "live" \/ t \in raced
      BY <1>3 DEF Rotate, RevocationInv, RotatesLive
    <2>3. \A d \in Call : pc'[d] = "rotate" => d # c /\ pc[d] = "rotate"
      BY <1>3 DEF Rotate, Go
    <2>4. UNCHANGED <<held, revived, overdue>>
      BY <1>3 DEF Rotate
    <2> HIDE DEF S
    <2> QED
      BY <2>1, <2>2, <2>3, <2>4, RevokeKeeps
  <1>4. ASSUME NEW c \in Call, RevokeAll(c) PROVE RevocationInv'
    <2> DEFINE S == LiveOf(who[c])
    <2>1. Revoke(c, S, "password") /\ S \in SUBSET Token
      BY <1>4 DEF RevokeAll, LiveOf
    <2>2. \A t \in S : reason[t] = "live" \/ t \in raced
      BY DEF LiveOf
    <2>3. \A d \in Call : pc'[d] = "rotate" => d # c /\ pc[d] = "rotate"
      BY <1>4 DEF RevokeAll, Go
    <2>4. UNCHANGED <<held, revived, overdue>>
      BY <1>4 DEF RevokeAll
    <2> HIDE DEF S
    <2> QED
      BY <2>1, <2>2, <2>3, <2>4, RevokeKeeps
  <1>5. ASSUME NEW t \in Token, Logout(t) PROVE RevocationInv'
    <2>1. Revoke(None, {t}, "logout") /\ {t} \in SUBSET Token
      BY <1>5 DEF Logout
    <2>2. \A s \in {t} : reason[s] = "live" \/ s \in raced
      BY <1>5 DEF Logout
    <2>3. \A d \in Call : pc'[d] = "rotate" => d # None /\ pc[d] = "rotate"
      BY <1>5, UserAssumption DEF Logout, locals
    <2>4. UNCHANGED <<held, revived, overdue>>
      BY <1>5 DEF Logout, locals
    <2> QED
      BY <2>1, <2>2, <2>3, <2>4, RevokeKeeps
  <1>6. ASSUME NEW c \in Call, IssueSession(c) \/ SetPassword(c) \/ Fail(c)
        PROVE RevocationInv'
    <2>1. UNCHANGED <<reason, revokedAt, first, marks>>
      BY <1>6 DEF IssueSession, SetPassword, Fail, tokens
    <2>2. \A d \in Call : pc'[d] = "rotate" => pc[d] = "rotate" /\ held'[d] = held[d]
      BY <1>6 DEF IssueSession, SetPassword, Fail, Leave, Go
    <2> QED
      BY <2>1, <2>2, TokensKeep
  <1>7. CASE (\E u \in User : RemoveUser(u)) \/ Tick \/ UNCHANGED vars
    <2>1. UNCHANGED <<reason, revokedAt, first, marks, pc, held>>
      BY <1>7 DEF RemoveUser, Tick, vars, tokens, locals
    <2> QED
      BY <2>1, TokensKeep
  <1> QED
    BY <1>1, <1>2, <1>3, <1>4, <1>5, <1>6, <1>7 DEF Next, Continue

\* The initial states keep revocations.
LEMMA InitRevocationInv == Init => RevocationInv
  BY DEF Init, RevocationInv, RotatesLive, StaysRevoked, SignedOutStaysOut, FirstStands,
         GraceIsNotExtended

\* A token that was signed out is not accepted again, unless a request that had read it
\* live wrote over the row meanwhile.
THEOREM RevokedStaysRevoked == Spec => []SignedOutStaysOut
  <1>1. RevocationInv => SignedOutStaysOut
    BY DEF RevocationInv
  <1> QED
    BY InitTypeInv, NextTypeInv, InitRevocationInv, NextRevocationInv, <1>1, PTL DEF Spec

\* Nor is one past the grace of its first rotation.
THEOREM GraceIsOfTheFirst == Spec => []GraceIsNotExtended
  <1>1. RevocationInv => GraceIsNotExtended
    BY DEF RevocationInv
  <1> QED
    BY InitTypeInv, NextTypeInv, InitRevocationInv, NextRevocationInv, <1>1, PTL DEF Spec

---------------------------------------------------------------------------
(* Password changes.                                                       *)

PasswordInv == NewHasFirst /\ Latecomers /\ OldSessionsEnd

\* Steps that move no password and end no session of a password change.
LEMMA PasswordKeep ==
  ASSUME PasswordInv, UNCHANGED <<password, owner, since, exempt, half>>,
         \A u \in User : account'[u] = "none" => account[u] = "none",
         \A t \in Token : reason'[t] = "live" => reason[t] = "live",
         \A c \in Call : pc[c] = "revoke" => pc'[c] = "revoke" /\ who'[c] = who[c],
         \A c \in Call : pc'[c] \in {"rotate", "issue", "revoke"} =>
             /\ pc[c] \in {"rotate", "issue", "revoke"}
             /\ who'[c] = who[c] /\ base'[c] = base[c]
             /\ c \in excused => c \in excused'
  PROVE PasswordInv'
  <1>1. NewHasFirst'
    BY DEF PasswordInv, NewHasFirst
  <1>2. Latecomers'
    BY DEF PasswordInv, Latecomers
  <1>3. OldSessionsEnd'
    BY DEF PasswordInv, OldSessionsEnd, LiveOf
  <1> QED
    BY <1>1, <1>2, <1>3 DEF PasswordInv

\* A request that begins goes back to the password of now, or to that of its token.
LEMMA BeginPassword ==
  ASSUME TypeInv, PasswordInv, NEW c \in Call,
         \/ \E u \in User : Begin(c, u)
         \/ \E t \in Token : Present(c, t)
  PROVE PasswordInv'
  <1> USE DEF TypeInv, TypeOK, PasswordInv, Go, Idle
  <1>1. ASSUME NEW u \in User, NEW b,
               UNCHANGED <<password, owner, since, exempt, half, reason>>,
               \A v \in User : account'[v] = "none" => account[v] = "none",
               Idle(c), who' = [who EXCEPT ![c] = u], base'[c] = b, excused \subseteq excused',
               \A d \in Call \ {c} : pc'[d] = pc[d] /\ base'[d] = base[d],
               pc'[c] \in {"rotate", "issue", "password"},
               pc'[c] # "password" /\ b < password[u] =>
                   \/ c \in excused'
                   \/ u \in half
                   \/ \E d \in Call : pc[d] = "revoke" /\ who[d] = u
        PROVE PasswordInv'
    <2>1. \A d \in Call : pc[d] = "revoke" => d # c /\ pc'[d] = "revoke" /\ who'[d] = who[d]
      BY <1>1
    <2>2. NewHasFirst'
      BY <1>1 DEF NewHasFirst
    <2>3. OldSessionsEnd'
      BY <1>1, <2>1 DEF OldSessionsEnd, LiveOf
    <2>4. Latecomers'
      <3> SUFFICES ASSUME NEW e \in Call, pc'[e] \in {"rotate", "issue", "revoke"},
                          base'[e] < password[who'[e]]
                   PROVE \/ e \in excused'
                         \/ who'[e] \in half
                         \/ \E d \in Call \ {e} : pc'[d] = "revoke" /\ who'[d] = who'[e]
        BY <1>1 DEF Latecomers
      <3>1. CASE e = c
        BY <1>1, <2>1, <3>1
      <3>2. CASE e # c
        <4>1. pc[e] \in {"rotate", "issue", "revoke"} /\ who'[e] = who[e] /\ base'[e] = base[e]
          BY <1>1, <3>2
        <4>2. \/ e \in excused
              \/ who[e] \in half
              \/ \E d \in Call \ {e} : pc[d] = "revoke" /\ who[d] = who[e]
          BY <4>1 DEF Latecomers
        <4> QED
          BY <1>1, <2>1, <4>1, <4>2
      <3> QED
        BY <3>1, <3>2
    <2> QED
      BY <2>2, <2>3, <2>4
  <1>2. ASSUME NEW u \in User, Register(c, u) PROVE PasswordInv'
    <2>1. password[u] = 0 /\ base[c] \in Nat
      BY <1>2, BoundAssumption DEF Register, NewHasFirst, Epoch
    <2>2. /\ UNCHANGED <<password, owner, since, exempt, half, reason, base, excused>>
          /\ Idle(c) /\ pc' = [pc EXCEPT ![c] = "issue"] /\ who' = [who EXCEPT ![c] = u]
          /\ account' = [account EXCEPT ![u] = "there"]
      BY <1>2 DEF Register, tokens
    <2>3. ~(base[c] < password[u])
      BY <2>1
    <2>4. \A v \in User : account'[v] = "none" => account[v] = "none"
      BY <2>2
    <2> QED
      BY <1>1, <2>2, <2>3, <2>4
  <1>3. ASSUME NEW u \in User, Login(c, u) PROVE PasswordInv'
    <2>1. /\ UNCHANGED <<password, owner, since, exempt, half, reason, excused, account>>
          /\ Idle(c) /\ pc' = [pc EXCEPT ![c] = "issue"] /\ who' = [who EXCEPT ![c] = u]
          /\ base' = [base EXCEPT ![c] = password[u]]
      BY <1>3 DEF Login, tokens, users
    <2>2. ~(password[u] < password[u])
      BY BoundAssumption DEF Epoch
    <2> QED
      BY <1>1, <2>1, <2>2
  <1>4. ASSUME NEW u \in User, BeginChange(c, u) PROVE PasswordInv'
    <2>1. /\ UNCHANGED <<password, owner, since, exempt, half, reason, excused, account, base>>
          /\ Idle(c) /\ pc' = [pc EXCEPT ![c] = "password"] /\ who' = [who EXCEPT ![c] = u]
      BY <1>4 DEF BeginChange, tokens, users
    <2> QED
      BY <1>1, <2>1
  <1>5. ASSUME NEW t \in Token, Present(c, t) PROVE PasswordInv'
    <2>1. /\ UNCHANGED <<password, owner, since, exempt, half, reason, account>>
          /\ Idle(c) /\ who' = [who EXCEPT ![c] = owner[t]]
          /\ base' = [base EXCEPT ![c] = since[t]]
          /\ owner[t] \in User
      BY <1>5 DEF Present, tokens, users
    <2>2. /\ \A d \in Call \ {c} : pc'[d] = pc[d]
          /\ pc'[c] \in {"rotate", "issue", "password"}
      BY <1>5 DEF Present
    <2>3. /\ excused \subseteq excused'
          /\ reason[t] # "live" \/ t \in exempt => c \in excused'
      BY <1>5 DEF Present
    <2>4. since[t] < password[owner[t]] =>
              \/ c \in excused'
              \/ owner[t] \in half
              \/ \E d \in Call : pc[d] = "revoke" /\ who[d] = owner[t]
      BY <2>1, <2>3 DEF OldSessionsEnd, LiveOf
    <2> QED
      BY <1>1, <2>1, <2>2, <2>3, <2>4
  <1> QED
    BY <1>2, <1>3, <1>4, <1>5 DEF Begin

\* A session goes back to what its request went back to.
LEMMA IssuePassword ==
  ASSUME TypeInv, PasswordInv, NEW c \in Call, IssueSession(c)
  PROVE PasswordInv'
  <1> USE DEF TypeInv, TypeOK, PasswordInv
  <1>1. /\ UNCHANGED <<password, account, half, reason>>
        /\ pc[c] = "issue" /\ pc' = [pc EXCEPT ![c] = "idle"]
        /\ who' = [who EXCEPT ![c] = None] /\ base' = [base EXCEPT ![c] = 0]
        /\ excused' = excused \ {c}
    BY DEF IssueSession, Leave, Go, users
  <1>2. \A d \in Call : pc[d] = "revoke" => d # c /\ pc'[d] = "revoke" /\ who'[d] = who[d]
    BY <1>1
  <1>3. NewHasFirst'
    BY <1>1 DEF NewHasFirst
  <1>4. Latecomers'
    BY <1>1, <1>2 DEF Latecomers
  <1>5. OldSessionsEnd'
    <2>1. CASE Exists(who[c])
      <3> DEFINE n == issued + 1
      <3>1. /\ n \in Token /\ owner' = [owner EXCEPT ![n] = who[c]]
            /\ since' = [since EXCEPT ![n] = base[c]]
            /\ exempt' = IF c \in excused THEN exempt \cup {n} ELSE exempt
        BY <2>1 DEF IssueSession
      <3> HIDE DEF n
      <3> SUFFICES ASSUME NEW u \in User, NEW t \in Token, owner'[t] = u, reason[t] = "live",
                          since'[t] < password[u]
                   PROVE \/ t \in exempt'
                         \/ u \in half
                         \/ \E d \in Call : pc[d] = "revoke" /\ who[d] = u
        BY <1>1, <1>2 DEF OldSessionsEnd, LiveOf
      <3>2. CASE t = n
        <4>1. u = who[c] /\ base[c] < password[who[c]]
          BY <3>1, <3>2
        <4> QED
          BY <1>1, <3>1, <3>2, <4>1 DEF Latecomers
      <3>3. CASE t # n
        BY <3>1, <3>3 DEF OldSessionsEnd, LiveOf
      <3> QED
        BY <3>2, <3>3
    <2>2. CASE ~Exists(who[c])
      BY <1>1, <1>2, <2>2 DEF IssueSession, OldSessionsEnd, LiveOf
    <2> QED
      BY <2>1, <2>2
  <1> QED
    BY <1>3, <1>4, <1>5

\* A new password makes every session an earlier one's, which its change has yet to end.
LEMMA SetPasswordKeeps ==
  ASSUME TypeInv, PasswordInv, NEW c \in Call, SetPassword(c)
  PROVE PasswordInv'
  <1> USE DEF TypeInv, TypeOK, PasswordInv
  <1> DEFINE u == who[c]
  <1>1. /\ UNCHANGED <<account, owner, reason, since, exempt, half, excused>>
        /\ pc[c] = "password" /\ pc' = [pc EXCEPT ![c] = "revoke"] /\ who' = who
        /\ \A d \in Call \ {c} : base'[d] = base[d]
        /\ base'[c] = password'[u]
        /\ u \in User
    BY DEF SetPassword, Go, tokens, Reading
  <1>2. /\ \A v \in User \ {u} : password'[v] = password[v]
        /\ Exists(u) \/ password'[u] = password[u]
        /\ password'[u] \in Nat
    BY BoundAssumption, <1>1 DEF SetPassword, Epoch
  <1>3. pc'[c] = "revoke" /\ who'[c] = u
    BY <1>1
  <1>4. \A d \in Call : pc[d] = "revoke" => d # c /\ pc'[d] = "revoke" /\ who'[d] = who[d]
    BY <1>1
  <1>5. NewHasFirst'
    BY <1>1, <1>2 DEF NewHasFirst, Exists
  <1>6. Latecomers'
    <2> SUFFICES ASSUME NEW e \in Call, pc'[e] \in {"rotate", "issue", "revoke"},
                        base'[e] < password'[who[e]]
                 PROVE \/ e \in excused
                       \/ who[e] \in half
                       \/ \E d \in Call \ {e} : pc'[d] = "revoke" /\ who'[d] = who[e]
      BY <1>1 DEF Latecomers
    <2>1. CASE e = c
      BY <1>1, <1>2, <2>1
    <2>2. CASE e # c /\ who[e] = u
      BY <1>3, <2>2
    <2>3. CASE e # c /\ who[e] # u
      <3>1. pc[e] \in {"rotate", "issue", "revoke"} /\ base'[e] = base[e]
        BY <1>1, <2>3
      <3>2. password'[who[e]] = password[who[e]]
        BY <1>2, <2>3, <3>1 DEF Reading
      <3> QED
        BY <1>4, <3>1, <3>2 DEF Latecomers
    <2> QED
      BY <2>1, <2>2, <2>3
  <1>7. OldSessionsEnd'
    <2> HIDE DEF u
    <2> SUFFICES ASSUME NEW v \in User, NEW t \in LiveOf(v), since[t] < password'[v]
                 PROVE \/ t \in exempt
                       \/ v \in half
                       \/ \E d \in Call : pc'[d] = "revoke" /\ who'[d] = v
      BY <1>1 DEF OldSessionsEnd, LiveOf
    <2>1. CASE v = u
      BY <1>3, <2>1
    <2>2. CASE v # u
      BY <1>2, <1>4, <2>2 DEF OldSessionsEnd
    <2> QED
      BY <2>1, <2>2
  <1> QED
    BY <1>5, <1>6, <1>7

\* Where a change has ended the sessions, only latecomers can issue another.
LEMMA RevokePassword ==
  ASSUME TypeInv, PasswordInv, NEW c \in Call, RevokeAll(c)
  PROVE PasswordInv'
  <1> USE DEF TypeInv, TypeOK, PasswordInv
  <1> DEFINE u == who[c]
  <1>1. /\ UNCHANGED <<account, password, owner, since, exempt, half, base>>
        /\ pc[c] = "revoke" /\ pc' = [pc EXCEPT ![c] = "issue"] /\ who' = who
        /\ excused' = excused \cup
               {d \in Call \ {c} : who[d] = u /\ pc[d] \in {"rotate", "issue", "revoke"}}
        /\ \A t \in Token : reason'[t] = "live" => reason[t] = "live" /\ t \notin LiveOf(u)
    BY DEF RevokeAll, Go, users, Revoke
  <1>2. \A d \in Call : pc[d] = "revoke" /\ who[d] # u => pc'[d] = "revoke" /\ who'[d] = who[d]
    BY <1>1
  <1>3. NewHasFirst'
    BY <1>1 DEF NewHasFirst
  <1>4. Latecomers'
    <2> SUFFICES ASSUME NEW e \in Call, pc'[e] \in {"rotate", "issue", "revoke"},
                        base[e] < password[who[e]]
                 PROVE \/ e \in excused'
                       \/ who[e] \in half
                       \/ \E d \in Call \ {e} : pc'[d] = "revoke" /\ who'[d] = who[e]
      BY <1>1 DEF Latecomers
    <2>1. pc[e] \in {"rotate", "issue", "revoke"}
      BY <1>1
    <2>2. \/ e \in excused
          \/ who[e] \in half
          \/ \E d \in Call \ {e} : pc[d] = "revoke" /\ who[d] = who[e]
      BY <2>1 DEF Latecomers
    <2>3. CASE e # c /\ who[e] = u
      BY <1>1, <2>1, <2>3
    <2>4. CASE e = c
      <3>1. \A d \in Call \ {c} : pc[d] = "revoke" => pc'[d] = "revoke"
        BY <1>1
      <3> QED
        BY <1>1, <2>2, <2>4, <3>1
    <2>5. CASE e # c /\ who[e] # u
      BY <1>1, <1>2, <2>2, <2>5
    <2> QED
      BY <2>3, <2>4, <2>5
  <1>5. OldSessionsEnd'
    <2> SUFFICES ASSUME NEW v \in User, NEW t \in Token, owner[t] = v, reason'[t] = "live",
                        since[t] < password[v]
                 PROVE \/ t \in exempt
                       \/ v \in half
                       \/ \E d \in Call : pc'[d] = "revoke" /\ who'[d] = v
      BY <1>1 DEF OldSessionsEnd, LiveOf
    <2>1. reason[t] = "live" /\ v # u
      BY <1>1 DEF LiveOf
    <2>2. \/ t \in exempt
          \/ v \in half
          \/ \E d \in Call : pc[d] = "revoke" /\ who[d] = v
      BY <2>1 DEF OldSessionsEnd, LiveOf
    <2> HIDE DEF u
    <2> QED
      BY <1>2, <2>1, <2>2
  <1> QED
    BY <1>3, <1>4, <1>5

\* A change that fails between its writes leaves a user half done.
LEMMA FailPassword ==
  ASSUME TypeInv, PasswordInv, NEW c \in Call, Fail(c)
  PROVE PasswordInv'
  <1> USE DEF TypeInv, TypeOK, PasswordInv
  <1>1. /\ UNCHANGED <<account, password, owner, reason, since, exempt>>
        /\ pc' = [pc EXCEPT ![c] = "idle"] /\ who' = [who EXCEPT ![c] = None]
        /\ base' = [base EXCEPT ![c] = 0] /\ excused' = excused \ {c}
        /\ half \subseteq half' /\ (pc[c] = "revoke" => who[c] \in half')
    BY DEF Fail, Leave, Go, users, tokens
  <1>2. \A d \in Call : pc[d] = "revoke" =>
            who[d] \in half' \/ (pc'[d] = "revoke" /\ who'[d] = who[d])
    BY <1>1
  <1>3. NewHasFirst'
    BY <1>1 DEF NewHasFirst
  <1>4. OldSessionsEnd'
    BY <1>1, <1>2 DEF OldSessionsEnd, LiveOf
  <1>5. Latecomers'
    <2> SUFFICES ASSUME NEW e \in Call, pc'[e] \in {"rotate", "issue", "revoke"},
                        base'[e] < password[who'[e]]
                 PROVE \/ e \in excused'
                       \/ who'[e] \in half'
                       \/ \E d \in Call \ {e} : pc'[d] = "revoke" /\ who'[d] = who'[e]
      BY <1>1 DEF Latecomers
    <2>1. e # c /\ pc[e] = pc'[e] /\ who'[e] = who[e] /\ base'[e] = base[e]
      BY <1>1
    <2>2. \/ e \in excused
          \/ who[e] \in half
          \/ \E d \in Call \ {e} : pc[d] = "revoke" /\ who[d] = who[e]
      BY <2>1 DEF Latecomers
    <2> QED
      BY <1>1, <1>2, <2>1, <2>2
  <1> QED
    BY <1>3, <1>4, <1>5

\* Every step keeps the account of sessions of an earlier password.
LEMMA NextPasswordInv == TypeInv /\ PasswordInv /\ [Next]_vars => PasswordInv'
  <1> SUFFICES ASSUME TypeInv, PasswordInv, [Next]_vars PROVE PasswordInv'
    OBVIOUS
  <1> USE DEF TypeInv, TypeOK
  <1>1. ASSUME NEW c \in Call, NEW u \in User, Begin(c, u) PROVE PasswordInv'
    BY <1>1, BeginPassword
  <1>2. ASSUME NEW c \in Call, NEW t \in Token, Present(c, t) PROVE PasswordInv'
    BY <1>2, BeginPassword
  <1>3. ASSUME NEW c \in Call, Rotate(c) PROVE PasswordInv'
    <2>1. /\ UNCHANGED <<account, password, owner, since, exempt, half, base, excused>>
          /\ pc[c] = "rotate" /\ pc' = [pc EXCEPT ![c] = "issue"]
          /\ who' = who
      BY <1>3 DEF Rotate, Go, users
    <2>2. \A t \in Token : reason'[t] = "live" => reason[t] = "live"
      BY <1>3 DEF Rotate, Revoke
    <2> QED
      BY <2>1, <2>2, PasswordKeep
  <1>4. ASSUME NEW t \in Token, Logout(t) PROVE PasswordInv'
    <2>1. UNCHANGED <<account, password, owner, since, exempt, half, base, excused, pc, who>>
      BY <1>4 DEF Logout, locals, users
    <2>2. \A s \in Token : reason'[s] = "live" => reason[s] = "live"
      BY <1>4 DEF Logout, Revoke
    <2> QED
      BY <2>1, <2>2, PasswordKeep
  <1>5. ASSUME NEW u \in User, RemoveUser(u) PROVE PasswordInv'
    <2>1. /\ UNCHANGED <<password, reason, since, exempt, half, base, excused, pc, who>>
          /\ account' = [account EXCEPT ![u] = "gone"]
          /\ owner' = [t \in Token |-> IF owner[t] = u THEN None ELSE owner[t]]
      BY <1>5 DEF RemoveUser, locals
    <2>2. NewHasFirst' /\ Latecomers'
      BY <2>1 DEF PasswordInv, NewHasFirst, Latecomers
    <2>3. \A v \in User, t \in Token : owner'[t] = v => owner[t] = v
      BY <2>1, UserAssumption
    <2>4. OldSessionsEnd'
      BY <2>1, <2>3 DEF PasswordInv, OldSessionsEnd, LiveOf
    <2> QED
      BY <2>2, <2>4 DEF PasswordInv
  <1>6. CASE Tick \/ UNCHANGED vars
    <2>1. UNCHANGED <<account, password, owner, reason, since, exempt, half, base, excused,
                      pc, who>>
      BY <1>6 DEF Tick, vars, users, tokens, locals
    <2> QED
      BY <2>1, PasswordKeep
  <1> QED
    BY <1>1, <1>2, <1>3, <1>4, <1>5, <1>6, IssuePassword, SetPasswordKeeps, RevokePassword,
       FailPassword DEF Next, Continue

\* A password change ends every other session: one of an earlier password that is still
\* live has one of the four reasons OldSessionsEnd lists.
THEOREM PasswordChangeEndsSessions == Spec => []OldSessionsEnd
  <1>1. Init => PasswordInv
    <2> SUFFICES ASSUME Init PROVE PasswordInv
      OBVIOUS
    <2>1. NewHasFirst /\ Latecomers
      BY DEF Init, NewHasFirst, Latecomers
    <2>2. OldSessionsEnd
      BY DEF Init, OldSessionsEnd, LiveOf
    <2> QED
      BY <2>1, <2>2 DEF PasswordInv
  <1>2. PasswordInv => OldSessionsEnd
    BY DEF PasswordInv
  <1> QED
    BY InitTypeInv, NextTypeInv, NextPasswordInv, <1>1, <1>2, PTL DEF Spec

=============================================================================
