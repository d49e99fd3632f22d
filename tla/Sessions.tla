------------------------------- MODULE Sessions -------------------------------
(***************************************************************************)
(* Sessions: register, login, refresh, logout and changePassword of        *)
(* AuthService, one database call per step, with requests that overlap and *)
(* die, and accounts that are deleted meanwhile (Accounts).                *)
(*                                                                         *)
(* A refresh token is numbered in the order of issue; a password is the    *)
(* number of times it was changed.  Each token remembers the password its  *)
(* session goes back to, through every rotation since the login.  Wrong    *)
(* passwords and unknown tokens change nothing and are left out; so are    *)
(* access tokens, the 30 days a refresh token lives, profile fields, and   *)
(* pruneExpiredTokens, which nothing calls.                                *)
(***************************************************************************)
EXTENDS Naturals, FiniteSets

CONSTANTS
    User,       \* accounts, each with an email of its own
    Call,       \* requests in progress together
    MaxTokens,  \* bound on the refresh tokens issued
    MaxChanges, \* bound on the password changes of an account
    Grace,      \* REFRESH_ROTATION_GRACE_MS, in ticks
    MaxTime,    \* bound on the clock, in ticks
    None        \* no user, no token

Token == 1 .. MaxTokens
Epoch == 0 .. MaxChanges
Time == 0 .. MaxTime

ASSUME BoundAssumption ==
    MaxTokens \in Nat /\ MaxChanges \in Nat /\ Grace \in Nat /\ MaxTime \in Nat
ASSUME UserAssumption == IsFiniteSet(User) /\ None \notin User \cup Token \cup Call

VARIABLES
    account,    \* whether there is a row of the user: none, there, gone
    password,   \* user.passwordHash
    owner,      \* refresh_token.user_id, None where there is no row
    reason,     \* refresh_token.revoked_reason, "live" where revoked_at is null
    revokedAt,  \* refresh_token.revoked_at
    issued,     \* tokens issued so far
    now,
    pc,         \* the call a request is at
    who,        \* the user it has read
    held,       \* the refresh token it was given
    base,       \* the password its session goes back to
    excused,    \* history: a request a password change came too late for
    since,      \* history: the password a token's session goes back to
    first,      \* history: when a token was first revoked
    signedOut,  \* history: tokens a logout or a password change revoked
    raced,      \* history: tokens written to while a request was about to rotate them
    revived,    \* history: tokens accepted after they were signed out
    overdue,    \* history: tokens accepted past the grace of their first revocation
    exempt,     \* history: tokens issued to an excused request
    half        \* history: users whose password change ended between its writes

users == <<account, password>>
tokens == <<owner, reason, revokedAt, issued>>
locals == <<pc, who, held, base, excused>>
marks == <<raced, revived, overdue, signedOut>>
vars == <<users, tokens, now, locals, since, first, marks, exempt, half>>

Place == {"idle", "rotate", "issue", "password", "revoke"}

TypeOK ==
    /\ account \in [User -> {"none", "there", "gone"}]
    /\ password \in [User -> Epoch]
    /\ owner \in [Token -> User \cup {None}]
    /\ reason \in [Token -> {"live", "rotated", "logout", "password"}]
    /\ revokedAt \in [Token -> Time] /\ first \in [Token -> Time]
    /\ since \in [Token -> Epoch]
    /\ issued \in 0 .. MaxTokens
    /\ now \in Time
    /\ pc \in [Call -> Place]
    /\ who \in [Call -> User \cup {None}]
    /\ held \in [Call -> Token \cup {None}]
    /\ base \in [Call -> Epoch]
    /\ excused \in SUBSET Call
    /\ signedOut \in SUBSET Token /\ raced \in SUBSET Token
    /\ revived \in SUBSET Token /\ overdue \in SUBSET Token /\ exempt \in SUBSET Token
    /\ half \in SUBSET User

Init ==
    /\ account = [u \in User |-> "none"]
    /\ password = [u \in User |-> 0]
    /\ owner = [t \in Token |-> None]
    /\ reason = [t \in Token |-> "live"]
    /\ revokedAt = [t \in Token |-> 0] /\ first = [t \in Token |-> 0]
    /\ since = [t \in Token |-> 0]
    /\ issued = 0
    /\ now = 0
    /\ pc = [c \in Call |-> "idle"]
    /\ who = [c \in Call |-> None]
    /\ held = [c \in Call |-> None]
    /\ base = [c \in Call |-> 0]
    /\ excused = {}
    /\ signedOut = {} /\ raced = {} /\ revived = {} /\ overdue = {} /\ exempt = {}
    /\ half = {}

Exists(u) == account[u] = "there"
LiveOf(u) == {t \in Token : owner[t] = u /\ reason[t] = "live"}
Idle(c) == pc[c] = "idle"

\* A request about user u goes to its next call.
Go(c, p, u) ==
    /\ pc' = [pc EXCEPT ![c] = p]
    /\ who' = [who EXCEPT ![c] = u]

Leave(c) ==
    /\ Go(c, "idle", None)
    /\ held' = [held EXCEPT ![c] = None]
    /\ base' = [base EXCEPT ![c] = 0]
    /\ excused' = excused \ {c}

---------------------------------------------------------------------------
(* Signing up and in.                                                      *)

\* register: the unique index decides; the session follows.
Register(c, u) ==
    /\ Idle(c)
    /\ account[u] = "none"
    /\ account' = [account EXCEPT ![u] = "there"]
    /\ Go(c, "issue", u)
    /\ UNCHANGED <<password, tokens, now, held, base, excused, since,
                   first, marks, exempt, half>>

\* login, with the password as it is when the user is read.
Login(c, u) ==
    /\ Idle(c)
    /\ Exists(u)
    /\ Go(c, "issue", u)
    /\ base' = [base EXCEPT ![c] = password[u]]
    /\ UNCHANGED <<users, tokens, now, held, excused, since, first, marks, exempt, half>>

\* issueSession: the insert fails on the foreign key if the user is gone.
IssueSession(c) ==
    LET u == who[c] t == issued + 1 IN
    /\ pc[c] = "issue"
    /\ IF Exists(u)
       THEN /\ t \in Token
            /\ issued' = t
            /\ owner' = [owner EXCEPT ![t] = u]
            /\ since' = [since EXCEPT ![t] = base[c]]
            /\ exempt' = IF c \in excused THEN exempt \cup {t} ELSE exempt
       ELSE UNCHANGED <<issued, owner, since, exempt>>
    /\ Leave(c)
    /\ UNCHANGED <<users, reason, revokedAt, now, first, marks, half>>

---------------------------------------------------------------------------
(* Refresh tokens.                                                         *)

\* Mutant: a logout is forgiven like a rotation.
WithinGraceOfAny(t) == now - revokedAt[t] <= Grace

\* isWithinRotationGrace.
WithinGrace(t) == reason[t] = "rotated" /\ now - revokedAt[t] <= Grace

\* Mutant: the token is rotated whether or not it has been.
PresentAlwaysRotate(c, t) ==
    /\ Idle(c)
    /\ owner[t] # None
    /\ reason[t] = "live" \/ WithinGrace(t)
    /\ Go(c, "rotate", owner[t])
    /\ held' = [held EXCEPT ![c] = t]
    /\ base' = [base EXCEPT ![c] = since[t]]
    /\ excused' = IF reason[t] # "live" \/ t \in exempt THEN excused \cup {c} ELSE excused
    /\ revived' = IF t \in signedOut THEN revived \cup {t} ELSE revived
    /\ overdue' = IF reason[t] # "live" /\ now - first[t] > Grace THEN overdue \cup {t}
                  ELSE overdue
    /\ UNCHANGED <<users, tokens, now, since, first, signedOut, raced, exempt, half>>

\* refresh: the token is read with its user.  A live one is rotated next; one that a
\* rotation revoked moments ago goes straight on to a session.
Present(c, t) ==
    /\ Idle(c)
    /\ owner[t] # None
    /\ reason[t] = "live" \/ WithinGrace(t)
    /\ Go(c, IF reason[t] = "live" THEN "rotate" ELSE "issue", owner[t])
    /\ held' = [held EXCEPT ![c] = t]
    /\ base' = [base EXCEPT ![c] = since[t]]
    /\ excused' = IF reason[t] # "live" \/ t \in exempt THEN excused \cup {c} ELSE excused
    /\ revived' = IF t \in signedOut THEN revived \cup {t} ELSE revived
    /\ overdue' = IF reason[t] # "live" /\ now - first[t] > Grace THEN overdue \cup {t}
                  ELSE overdue
    /\ UNCHANGED <<users, tokens, now, since, first, signedOut, raced, exempt, half>>

\* The revocation of the tokens S, which requests other than c may have read as live.
Revoke(c, S, why) ==
    /\ reason' = [t \in Token |-> IF t \in S THEN why ELSE reason[t]]
    /\ revokedAt' = [t \in Token |-> IF t \in S THEN now ELSE revokedAt[t]]
    /\ first' = [t \in Token |-> IF t \in S /\ reason[t] = "live" THEN now ELSE first[t]]
    /\ raced' = raced \cup
                {t \in S : \E d \in Call \ {c} : pc[d] = "rotate" /\ held[d] = t}
    /\ signedOut' = IF why = "rotated" THEN signedOut ELSE signedOut \cup S

\* Mutant: the reason is left out of the update.
RotateUnnamed(c) ==
    /\ pc[c] = "rotate"
    /\ Revoke(c, {held[c]} \cap {t \in Token : owner[t] # None}, None)
    /\ Go(c, "issue", who[c])
    /\ UNCHANGED <<users, owner, issued, now, held, base, excused, since, revived, overdue,
                   exempt, half>>

\* By id, whatever the row says by now.
Rotate(c) ==
    /\ pc[c] = "rotate"
    /\ Revoke(c, {held[c]} \cap {t \in Token : owner[t] # None}, "rotated")
    /\ Go(c, "issue", who[c])
    /\ UNCHANGED <<users, owner, issued, now, held, base, excused, since, revived,
                   overdue, exempt, half>>

\* logout: one statement, and nothing if the token has been revoked.
Logout(t) ==
    /\ owner[t] # None
    /\ reason[t] = "live"
    /\ Revoke(None, {t}, "logout")
    /\ UNCHANGED <<users, owner, issued, now, locals, since, revived, overdue,
                   exempt, half>>

---------------------------------------------------------------------------
(* The password.                                                           *)

\* changePassword: the user is read, the current password compared.
BeginChange(c, u) ==
    /\ Idle(c)
    /\ Exists(u)
    /\ Go(c, "password", u)
    /\ UNCHANGED <<users, tokens, now, held, base, excused, since, first, marks,
                   exempt, half>>

\* The new hash is written, whatever the row has by now.
SetPassword(c) ==
    LET u == who[c] IN
    /\ pc[c] = "password"
    /\ password[u] < MaxChanges
    /\ password' = [password EXCEPT ![u] = IF Exists(u) THEN @ + 1 ELSE @]
    /\ base' = [base EXCEPT ![c] = password'[u]]
    /\ Go(c, "revoke", u)
    /\ UNCHANGED <<account, tokens, now, held, excused, since, first,
                   marks, exempt, half>>

\* Mutant: only the sessions of the password that was just replaced end.
RevokeLatest(c) ==
    LET u == who[c] IN
    /\ pc[c] = "revoke"
    /\ Revoke(c, {t \in LiveOf(u) : \A s \in LiveOf(u) : s <= t}, "password")
    /\ excused' = excused \cup
                  {d \in Call \ {c} : who[d] = u /\ pc[d] \in {"rotate", "issue", "revoke"}}
    /\ Go(c, "issue", u)
    /\ UNCHANGED <<users, owner, issued, now, held, base, since, revived, overdue,
                   exempt, half>>

\* Every live session ends.  A request that has read its user or token before this may
\* still issue one, and so may another password change that has written its own.
RevokeAll(c) ==
    LET u == who[c] IN
    /\ pc[c] = "revoke"
    /\ Revoke(c, LiveOf(u), "password")
    /\ excused' = excused \cup
                  {d \in Call \ {c} : who[d] = u /\ pc[d] \in {"rotate", "issue", "revoke"}}
    /\ Go(c, "issue", u)
    /\ UNCHANGED <<users, owner, issued, now, held, base, since, revived, overdue,
                   exempt, half>>

---------------------------------------------------------------------------

\* The last call of deleteAccount takes the sessions with the user, by ON DELETE
\* CASCADE.
RemoveUser(u) ==
    /\ Exists(u)
    /\ account' = [account EXCEPT ![u] = "gone"]
    /\ owner' = [t \in Token |-> IF owner[t] = u THEN None ELSE owner[t]]
    /\ UNCHANGED <<password, reason, revokedAt, issued, now, locals, since, first, marks,
                   exempt, half>>

\* A call of the request throws, or the process dies.
Fail(c) ==
    /\ ~Idle(c)
    /\ half' = IF pc[c] = "revoke" THEN half \cup {who[c]} ELSE half
    /\ Leave(c)
    /\ UNCHANGED <<users, tokens, now, since, first, marks, exempt>>

Tick ==
    /\ now < MaxTime
    /\ now' = now + 1
    /\ UNCHANGED <<users, tokens, locals, since, first, marks, exempt, half>>

Begin(c, u) == Register(c, u) \/ Login(c, u) \/ BeginChange(c, u)

Continue(c) ==
    \/ Rotate(c)
    \/ IssueSession(c)
    \/ SetPassword(c)
    \/ RevokeAll(c)
    \/ Fail(c)

Next ==
    \/ \E c \in Call, u \in User : Begin(c, u)
    \/ \E c \in Call, t \in Token : Present(c, t)
    \/ \E c \in Call : Continue(c)
    \/ \E t \in Token : Logout(t)
    \/ \E u \in User : RemoveUser(u)
    \/ Tick

Spec == Init /\ [][Next]_vars

---------------------------------------------------------------------------

\* "A rotation is forgiven for a few seconds.  A logout never is": a token that was
\* signed out is not accepted again, unless a refresh had read it before and wrote over
\* the reason afterwards.
SignedOutStaysOut == revived \subseteq raced

\* A token is forgiven for the grace of its first rotation only, however often it is
\* presented meanwhile, unless a second refresh had read it live as well.
GraceIsNotExtended == overdue \subseteq raced

\* "Ends every other session": a live session that goes back to an earlier password was
\* issued to a request the change came too late for, or to a token in its grace, or the
\* change has not ended all of them yet, or never will because it failed.
OldSessionsEnd ==
    \A u \in User : \A t \in LiveOf(u) : since[t] < password[u] =>
        \/ t \in exempt
        \/ u \in half
        \/ \E c \in Call : pc[c] = "revoke" /\ who[c] = u

=============================================================================
