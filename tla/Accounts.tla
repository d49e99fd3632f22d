------------------------------- MODULE Accounts -------------------------------
(***************************************************************************)
(* What an account keeps, and its deletion: JobAlertsService and           *)
(* UnsubscribeService on its alert, SavedJobsService, the email_log row an *)
(* email being sent writes, deleteAccount, and the admin:promote command,  *)
(* one database call per step, with requests that overlap and die.         *)
(*                                                                         *)
(* An edit reads the alert, changes the copy and saves it.  TypeORM's save *)
(* selects the row again and writes the columns in which the copy differs, *)
(* whoever changed them; where there is no row any more it inserts one.    *)
(* Of an alert, is_active and match_from are kept; the other columns decide*)
(* nothing here (AlertDelivery has the frequency).  Announcements are      *)
(* numbered in the order of firstSeenAt, and match_from is the first       *)
(* number an alert hears of.  An owner makes one alert.                    *)
(***************************************************************************)
EXTENDS Naturals, FiniteSets

CONSTANTS
    User,
    Owner,      \* the users who make an alert and save jobs
    Call,       \* requests in progress together
    MaxJobs,    \* bound on the announcements discovered
    None        \* no row, no user

ASSUME UserAssumption == IsFiniteSet(User) /\ Owner \subseteq User /\ None \notin User
ASSUME BoundAssumption == MaxJobs \in Nat

Job == 1 .. MaxJobs
Floor == 1 .. MaxJobs + 1
Row == [isActive : BOOLEAN, matchFrom : Floor]
Column == {"isActive", "matchFrom"}

ASSUME NoneAssumption == None \notin Row

VARIABLES
    role,       \* user.role, GONE once the row is deleted
    alert,      \* the row of job_alert of a user
    saved,      \* users with a row in saved_job
    log,        \* users named in email_log
    mailing,    \* users whose alert the email worker has loaded and not yet logged
    discovered, \* announcements stored
    matched,    \* announcements an alert was matched with
    pc,         \* the call a request is at
    who,        \* the user it is about
    copy,       \* the alert as it will save it
    dirty,      \* the columns its save has found different
    born,       \* history: users who have made their alert
    missed,     \* history: announcements discovered while an alert was off, and no
                \* request was switching it on
    silenced,   \* history: alerts unsubscribed, and not switched on again since
    removed,    \* history: alerts deleted
    patched,    \* history: alerts switched on by PATCH isActive
    overtaken,  \* history: alerts written to while a request held a copy
    straddled,  \* history: users deleted while an email to them was being sent
    meddled     \* history: two deletions, or one and the command, overlapped

tables == <<role, alert, saved, log>>
locals == <<pc, who, copy, dirty>>
marks == <<born, missed, silenced, removed, patched, overtaken>>
vars == <<tables, mailing, discovered, matched, locals, marks, straddled, meddled>>

Editing == {"compare", "write", "reinsert"}
Deleting == {"count", "erase", "remove"}
Place == {"idle", "insert", "delete", "silence"} \cup Editing \cup Deleting

TypeOK ==
    /\ role \in [User -> {"USER", "ADMIN", "GONE"}]
    /\ alert \in [User -> Row \cup {None}]
    /\ saved \in SUBSET User /\ log \in SUBSET User /\ mailing \in SUBSET User
    /\ discovered \in 0 .. MaxJobs
    /\ matched \in [User -> SUBSET Job] /\ missed \in [User -> SUBSET Job]
    /\ pc \in [Call -> Place]
    /\ who \in [Call -> User \cup {None}]
    /\ copy \in [Call -> Row \cup {None}]
    /\ dirty \in [Call -> SUBSET Column]
    /\ born \in SUBSET User /\ silenced \in SUBSET User /\ removed \in SUBSET User
    /\ patched \in SUBSET User /\ overtaken \in SUBSET User /\ straddled \in SUBSET User
    /\ meddled \in BOOLEAN

Init ==
    /\ role = [u \in User |-> "USER"]
    /\ alert = [u \in User |-> None]
    /\ saved = {} /\ log = {} /\ mailing = {}
    /\ discovered = 0
    /\ matched = [u \in User |-> {}] /\ missed = [u \in User |-> {}]
    /\ pc = [c \in Call |-> "idle"]
    /\ who = [c \in Call |-> None]
    /\ copy = [c \in Call |-> None]
    /\ dirty = [c \in Call |-> {}]
    /\ born = {} /\ silenced = {} /\ removed = {} /\ patched = {} /\ overtaken = {}
    /\ straddled = {}
    /\ meddled = FALSE

Exists(u) == role[u] # "GONE"
Admins == {u \in User : role[u] = "ADMIN"}
Idle(c) == pc[c] = "idle"
Now == discovered + 1

Go(c, p, u) ==
    /\ pc' = [pc EXCEPT ![c] = p]
    /\ who' = [who EXCEPT ![c] = u]

Leave(c) ==
    /\ Go(c, "idle", None)
    /\ copy' = [copy EXCEPT ![c] = None]
    /\ dirty' = [dirty EXCEPT ![c] = {}]

\* The row of u's alert becomes r, whatever copies of it other requests hold.
Put(c, u, r) ==
    /\ alert' = [alert EXCEPT ![u] = r]
    /\ overtaken' = IF \E d \in Call \ {c} : pc[d] \in Editing /\ who[d] = u
                    THEN overtaken \cup {u} ELSE overtaken

---------------------------------------------------------------------------
(* The owner's alert.                                                      *)

\* create: the user is read, the floor is now.
ReadUser(c, u) ==
    /\ Idle(c)
    /\ u \in Owner \ born
    /\ Exists(u)
    /\ Go(c, "insert", u)
    /\ copy' = [copy EXCEPT ![c] = [isActive |-> TRUE, matchFrom |-> Now]]
    /\ born' = born \cup {u}
    /\ UNCHANGED <<tables, mailing, discovered, matched, dirty, missed, silenced, removed,
                   patched, overtaken, straddled, meddled>>

\* The insert needs the user (foreign key).
InsertAlert(c) ==
    LET u == who[c] IN
    /\ pc[c] = "insert"
    /\ IF Exists(u) THEN Put(c, u, copy[c]) ELSE UNCHANGED <<alert, overtaken>>
    /\ Leave(c)
    /\ UNCHANGED <<role, saved, log, mailing, discovered, matched, born, missed, silenced,
                   removed, patched, straddled, meddled>>

\* getOwned, and the change of the copy; `on` says that the owner switches it on.
Edit(c, u, r, on) ==
    /\ Idle(c)
    /\ alert[u] # None
    /\ Go(c, "compare", u)
    /\ copy' = [copy EXCEPT ![c] = r]
    /\ silenced' = IF on THEN silenced \ {u} ELSE silenced
    /\ UNCHANGED <<tables, mailing, discovered, matched, dirty, born, missed, removed,
                   overtaken, straddled, meddled>>

Pause(c, u) ==
    /\ Edit(c, u, [alert[u] EXCEPT !.isActive = FALSE], FALSE)
    /\ UNCHANGED patched

\* Mutant: the floor stays where it is.
ResumeHere(c, u) ==
    /\ Edit(c, u, [alert[u] EXCEPT !.isActive = TRUE], TRUE)
    /\ UNCHANGED patched

\* Mutant: the floor moves to the announcement before.
ResumeBefore(c, u) ==
    /\ Edit(c, u, [isActive |-> TRUE, matchFrom |-> discovered], TRUE)
    /\ UNCHANGED patched

\* resume moves the floor to now.
Resume(c, u) ==
    /\ Edit(c, u, [isActive |-> TRUE, matchFrom |-> Now], TRUE)
    /\ UNCHANGED patched

\* Mutant: a PATCH that does not say isActive switches the alert on.
UpdateActive(c, u, isActive) ==
    /\ Edit(c, u, [alert[u] EXCEPT !.isActive = isActive \in {"omitted", "true"}],
            isActive = "true")
    /\ patched' = IF isActive = "true" THEN patched \cup {u} ELSE patched

\* Mutant: a PATCH moves the floor to the start.
UpdateFloor(c, u, isActive) ==
    /\ Edit(c, u, [isActive |-> IF isActive = "omitted" THEN alert[u].isActive
                                ELSE isActive = "true",
                   matchFrom |-> 1],
            isActive = "true")
    /\ patched' = IF isActive = "true" THEN patched \cup {u} ELSE patched

\* update: what the PATCH does not say stays as read, and the floor always does.
Update(c, u, isActive) ==
    /\ Edit(c, u, [alert[u] EXCEPT !.isActive = IF isActive = "omitted" THEN @
                                                ELSE isActive = "true"],
            isActive = "true")
    /\ patched' = IF isActive = "true" THEN patched \cup {u} ELSE patched

\* save: the row is selected again.
Compare(c) ==
    LET u == who[c]
        differs == {k \in Column : IF k = "isActive" THEN alert[u].isActive # copy[c].isActive
                                   ELSE alert[u].matchFrom # copy[c].matchFrom}
    IN
    /\ pc[c] = "compare"
    /\ IF alert[u] = None
       THEN Go(c, "reinsert", u) /\ UNCHANGED <<copy, dirty>>
       ELSE IF differs = {}
       THEN Leave(c)
       ELSE Go(c, "write", u) /\ dirty' = [dirty EXCEPT ![c] = differs] /\ UNCHANGED copy
    /\ UNCHANGED <<tables, mailing, discovered, matched, marks, straddled, meddled>>

\* Update by id of the columns that differed.
Write(c) ==
    LET u == who[c] IN
    /\ pc[c] = "write"
    /\ IF alert[u] = None
       THEN UNCHANGED <<alert, overtaken>>
       ELSE LET kept(k) == IF k \in dirty[c] THEN copy[c] ELSE alert[u]
            IN Put(c, u, [isActive |-> kept("isActive").isActive,
                          matchFrom |-> kept("matchFrom").matchFrom])
    /\ Leave(c)
    /\ UNCHANGED <<role, saved, log, mailing, discovered, matched, born, missed, silenced,
                   removed, patched, straddled, meddled>>

\* The alert was deleted after it was read: save makes it again, if the user is there.
Reinsert(c) ==
    LET u == who[c] IN
    /\ pc[c] = "reinsert"
    /\ IF Exists(u) /\ alert[u] = None
       THEN Put(c, u, copy[c]) ELSE UNCHANGED <<alert, overtaken>>
    /\ Leave(c)
    /\ UNCHANGED <<role, saved, log, mailing, discovered, matched, born, missed, silenced,
                   removed, patched, straddled, meddled>>

\* remove: getOwned.
ReadForDelete(c, u) ==
    /\ Idle(c)
    /\ alert[u] # None
    /\ Go(c, "delete", u)
    /\ UNCHANGED <<tables, mailing, discovered, matched, copy, dirty, marks, straddled,
                   meddled>>

\* Mutant: the alert is only switched off.
DeleteSoftly(c) ==
    LET u == who[c] IN
    /\ pc[c] = "delete"
    /\ Put(c, u, IF alert[u] = None THEN None ELSE [alert[u] EXCEPT !.isActive = FALSE])
    /\ removed' = removed \cup {u}
    /\ Leave(c)
    /\ UNCHANGED <<role, saved, log, mailing, discovered, matched, born, missed, silenced,
                   patched, straddled, meddled>>

DeleteAlert(c) ==
    LET u == who[c] IN
    /\ pc[c] = "delete"
    /\ Put(c, u, None)
    /\ removed' = removed \cup {u}
    /\ Leave(c)
    /\ UNCHANGED <<role, saved, log, mailing, discovered, matched, born, missed, silenced,
                   patched, straddled, meddled>>

\* unsubscribe: the alert is found by its token; one that is off is left alone.
FindByToken(c, u) ==
    /\ Idle(c)
    /\ alert[u] # None
    /\ alert[u].isActive
    /\ Go(c, "silence", u)
    /\ UNCHANGED <<tables, mailing, discovered, matched, copy, dirty, marks, straddled,
                   meddled>>

\* Update by id of the one column.
Silence(c) ==
    LET u == who[c] IN
    /\ pc[c] = "silence"
    /\ IF alert[u] = None
       THEN UNCHANGED <<alert, overtaken, silenced>>
       ELSE /\ Put(c, u, [alert[u] EXCEPT !.isActive = FALSE])
            /\ silenced' = silenced \cup {u}
    /\ Leave(c)
    /\ UNCHANGED <<role, saved, log, mailing, discovered, matched, born, missed, removed,
                   patched, straddled, meddled>>

---------------------------------------------------------------------------
(* What the alert hears of.                                                *)

SwitchingOn(u) ==
    \E c \in Call : pc[c] \in Editing /\ who[c] = u /\ copy[c].isActive

Off(u) == alert[u] # None /\ ~alert[u].isActive /\ ~SwitchingOn(u)

\* A crawl stores an announcement.
Discover ==
    /\ discovered < MaxJobs
    /\ discovered' = Now
    /\ missed' = [u \in User |-> IF Off(u) THEN missed[u] \cup {Now} ELSE missed[u]]
    /\ UNCHANGED <<tables, mailing, matched, locals, born, silenced, removed, patched,
                   overtaken, straddled, meddled>>

\* findMatchingAlerts, for the alerts whose other criteria it satisfies: after its
\* crawl, after its document, or when a crawl finds it changed.
Match(j) ==
    /\ j \in 1 .. discovered
    /\ matched' = [u \in User |-> IF /\ alert[u] # None
                                     /\ alert[u].isActive
                                     /\ alert[u].matchFrom <= j
                                  THEN matched[u] \cup {j} ELSE matched[u]]
    /\ UNCHANGED <<tables, mailing, discovered, locals, marks, straddled, meddled>>

---------------------------------------------------------------------------
(* Deletion of the account, and the role it depends on.                    *)

\* deleteAccount: the user is read, the password compared.
BeginDelete(c, u) ==
    /\ Idle(c)
    /\ Exists(u)
    /\ Go(c, IF role[u] = "ADMIN" THEN "count" ELSE "erase", u)
    /\ meddled' = (meddled \/ \E d \in Call : pc[d] \in Deleting)
    /\ UNCHANGED <<tables, mailing, discovered, matched, copy, dirty, marks, straddled>>

\* Mutant: an off-by-one lets the last administrator go.
CountAny(c) ==
    /\ pc[c] = "count"
    /\ IF Cardinality(Admins) < 1 THEN Leave(c)
       ELSE Go(c, "erase", who[c]) /\ UNCHANGED <<copy, dirty>>
    /\ UNCHANGED <<tables, mailing, discovered, matched, marks, straddled, meddled>>

\* The last administrator is kept.
CountAdmins(c) ==
    /\ pc[c] = "count"
    /\ IF Cardinality(Admins) <= 1 THEN Leave(c)
       ELSE Go(c, "erase", who[c]) /\ UNCHANGED <<copy, dirty>>
    /\ UNCHANGED <<tables, mailing, discovered, matched, marks, straddled, meddled>>

\* Mutant: the email log is left to the cascade.
EraseNothing(c) ==
    /\ pc[c] = "erase"
    /\ Go(c, "remove", who[c])
    /\ straddled' = IF who[c] \in mailing THEN straddled \cup {who[c]} ELSE straddled
    /\ UNCHANGED <<tables, mailing, discovered, matched, copy, dirty, marks, meddled>>

\* email_log has no foreign key: its rows go first.
EraseLog(c) ==
    /\ pc[c] = "erase"
    /\ log' = log \ {who[c]}
    /\ Go(c, "remove", who[c])
    /\ straddled' = IF who[c] \in mailing THEN straddled \cup {who[c]} ELSE straddled
    /\ UNCHANGED <<role, alert, saved, mailing, discovered, matched, copy, dirty, marks,
                   meddled>>

\* The user, and with it, by ON DELETE CASCADE, its alert and saved jobs (and its
\* sessions).
RemoveUser(c) ==
    LET u == who[c] IN
    /\ pc[c] = "remove"
    /\ role' = [role EXCEPT ![u] = "GONE"]
    /\ alert' = [alert EXCEPT ![u] = None]
    /\ saved' = saved \ {u}
    /\ Leave(c)
    /\ UNCHANGED <<log, mailing, discovered, matched, marks, straddled, meddled>>

\* admin:promote, with --demote or without.
SetRole(u, r) ==
    /\ Exists(u)
    /\ role[u] # r
    /\ role' = [role EXCEPT ![u] = r]
    /\ meddled' = (meddled \/ r = "USER" \/ \E d \in Call : pc[d] \in Deleting)
    /\ UNCHANGED <<alert, saved, log, mailing, discovered, matched, locals, marks,
                   straddled>>

\* SavedJobsService.save: a conflict is ignored, and the foreign key needs the user.
SaveJob(u) ==
    /\ u \in Owner
    /\ Exists(u)
    /\ saved' = saved \cup {u}
    /\ UNCHANGED <<role, alert, log, mailing, discovered, matched, locals, marks, straddled,
                   meddled>>

UnsaveJob(u) ==
    /\ u \in saved
    /\ saved' = saved \ {u}
    /\ UNCHANGED <<role, alert, log, mailing, discovered, matched, locals, marks, straddled,
                   meddled>>

\* The email worker has loaded the alert with its user.
LoadAlert(u) ==
    /\ alert[u] # None
    /\ alert[u].isActive
    /\ mailing' = mailing \cup {u}
    /\ straddled' = IF \E c \in Call : pc[c] = "remove" /\ who[c] = u
                    THEN straddled \cup {u} ELSE straddled
    /\ UNCHANGED <<tables, discovered, matched, locals, marks, meddled>>

\* EmailService.send writes the row before it sends.
LogMail(u) ==
    /\ u \in mailing
    /\ mailing' = mailing \ {u}
    /\ log' = log \cup {u}
    /\ UNCHANGED <<role, alert, saved, discovered, matched, locals, marks, straddled,
                   meddled>>

\* A call of the request throws, or the process dies.
Fail(c) ==
    /\ ~Idle(c)
    /\ Leave(c)
    /\ UNCHANGED <<tables, mailing, discovered, matched, marks, straddled, meddled>>

Begin(c, u) ==
    \/ ReadUser(c, u)
    \/ Pause(c, u)
    \/ Resume(c, u)
    \/ \E isActive \in {"omitted", "true", "false"} : Update(c, u, isActive)
    \/ ReadForDelete(c, u)
    \/ FindByToken(c, u)
    \/ BeginDelete(c, u)

Continue(c) ==
    \/ InsertAlert(c)
    \/ Compare(c)
    \/ Write(c)
    \/ Reinsert(c)
    \/ DeleteAlert(c)
    \/ Silence(c)
    \/ CountAdmins(c)
    \/ EraseLog(c)
    \/ RemoveUser(c)
    \/ Fail(c)

Next ==
    \/ \E c \in Call, u \in User : Begin(c, u)
    \/ \E c \in Call : Continue(c)
    \/ Discover
    \/ \E j \in Job : Match(j)
    \/ \E u \in User, r \in {"USER", "ADMIN"} : SetRole(u, r)
    \/ \E u \in User : \/ SaveJob(u)
                       \/ UnsaveJob(u)
                       \/ LoadAlert(u)
                       \/ LogMail(u)

Spec == Init /\ [][Next]_vars

---------------------------------------------------------------------------

\* An alert that was unsubscribed from an email stays off until its owner switches it
\* on, unless a request held an older copy of it.
SilencedStaysOff ==
    \A u \in silenced \ overtaken : alert[u] # None => ~alert[u].isActive

\* "An edit can never be used to replay old matches": the floor of an alert never moves
\* back, unless a request saves an older copy.
FloorNeverMovesBack ==
    [][\A u \in User \ overtaken' :
        alert[u] # None /\ alert'[u] # None
            => alert[u].matchFrom <= alert'[u].matchFrom]_vars

\* "A paused alert never notifies about what it missed", unless it was switched on by
\* PATCH, which leaves the floor, or a request saved an older copy.
MissedIsNotHeard ==
    \A u \in User \ (patched \cup overtaken) : matched[u] \cap missed[u] = {}

\* A deleted alert is gone for good, unless a request held a copy of it.
RemovedStaysRemoved ==
    \A u \in removed \ overtaken : alert[u] = None

\* "The last administrator account cannot be deleted": deletions alone leave one, unless
\* two of them, or one and the command, overlapped.
AdminRemains ==
    [][~meddled' /\ Admins # {} => Admins' # {}]_vars

\* A deleted account leaves nothing behind, in email_log either, unless an email to it
\* was being sent meanwhile.
GoneIsForgotten ==
    \A u \in User : role[u] = "GONE" =>
        /\ alert[u] = None
        /\ u \notin saved
        /\ u \in log => u \in straddled

=============================================================================
