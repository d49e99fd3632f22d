---------------------------- MODULE CrawlIngest ----------------------------
(***************************************************************************)
(* What a crawl does to the tables: CrawlerService.persist and             *)
(* replaceAttachments, then enqueueMatching and enqueueDocuments, one      *)
(* database or queue call per step.  There is no transaction around any of *)
(* it, so an error or a death leaves whatever the earlier steps wrote.     *)
(* Crawls of one source overlap when one of them outlives its slot         *)
(* (CrawlerRuns).  The workers are there in outline, AlertDelivery and     *)
(* Documents have them call by call, with an operator who resets rows.     *)
(*                                                                         *)
(* The content of an announcement is its content hash; its attachments are *)
(* URLs, which the hash does not cover.  Attachment names and types, and   *)
(* lastSeenAt, which no code reads back, are left out.  The two queues are *)
(* BullMQ: an add whose id is still there, waiting or retained, is dropped.*)
(***************************************************************************)
EXTENDS Naturals, FiniteSets

CONSTANTS
    Ann,        \* external ids of one source
    Edition,    \* what the source may publish as an announcement: [hash, urls]
    Url,        \* attachment URLs
    Crawl,      \* crawls that may be in progress together
    None,       \* no edition, no content
    BatchSize,  \* document.batchSize
    MaxCrawls   \* bound on the crawls that reach persist

Hash == {e.hash : e \in Edition}

ASSUME EditionAssumption == Edition \subseteq [hash : Hash, urls : SUBSET Url]
ASSUME NoneAssumption == None \notin Edition \cup Hash \cup Ann
ASSUME BoundAssumption == BatchSize \in Nat /\ MaxCrawls \in Nat

VARIABLES
    published,  \* what the source lists, by announcement
    content,    \* job.contentHash, None where there is no row
    firstSeen,  \* job.firstSeenAt, in crawls
    reading,    \* job_attachment.extraction_status by URL, "ABSENT" where no row
    matchTask,  \* the matching queue's record of id match--job--hash
    docTask,    \* the document queue's record of id document--attachment
    clock,      \* crawls that have reached persist
    pc,         \* where each crawl is
    batch,      \* the jobs crawl() returned that it has still to persist
    cur,        \* the announcement it is persisting
    wanted,     \* the edition of it
    found,      \* the content findOne returned
    have,       \* the attachment URLs find returned
    changed,    \* changedJobIds
    ids,        \* matching ids it has found and not yet added
    offer,      \* attachments it has found unread and not yet added
    seenAt,     \* seenAt of its persist
    matched,    \* history: contents an announcement was matched with by a crawl's task
    gaveUp,     \* history: ids whose matching task failed for good
    stored,     \* history: contents an announcement has had
    reverted,   \* history: an announcement went back to an earlier content
    broken,     \* history: a crawl failed or died
    overlapped  \* history: two crawls were in progress together

tables == <<content, firstSeen, reading>>
queues == <<matchTask, docTask>>
locals == <<pc, batch, cur, wanted, found, have, changed, ids, offer, seenAt>>
history == <<matched, gaveUp, stored, reverted, broken, overlapped>>
vars == <<published, tables, queues, clock, locals, history>>

Place == {"idle", "fetch", "find", "save", "attach", "prune", "insert",
          "match", "addMatch", "document", "addDocument"}
Reading == {"ABSENT", "PENDING", "PROCESSING", "COMPLETED", "FAILED"}
TaskState == {"absent", "waiting", "retained"}

TypeOK ==
    /\ published \in [Ann -> Edition \cup {None}]
    /\ content \in [Ann -> Hash \cup {None}]
    /\ firstSeen \in [Ann -> 0 .. MaxCrawls]
    /\ reading \in [Ann -> [Url -> Reading]]
    /\ matchTask \in [Ann -> [Hash -> TaskState]]
    /\ docTask \in [Ann -> [Url -> {"absent", "waiting", "active"}]]
    /\ clock \in 0 .. MaxCrawls
    /\ pc \in [Crawl -> Place]
    /\ batch \in [Crawl -> [Ann -> Edition \cup {None}]]
    /\ cur \in [Crawl -> Ann \cup {None}]
    /\ wanted \in [Crawl -> Edition \cup {None}]
    /\ found \in [Crawl -> Hash \cup {None}]
    /\ have \in [Crawl -> SUBSET Url]
    /\ changed \in [Crawl -> SUBSET Ann]
    /\ ids \in [Crawl -> SUBSET (Ann \X Hash)]
    /\ offer \in [Crawl -> SUBSET (Ann \X Url)]
    /\ seenAt \in [Crawl -> 0 .. MaxCrawls]
    /\ matched \in [Ann -> SUBSET Hash]
    /\ gaveUp \in [Ann -> SUBSET Hash]
    /\ stored \in [Ann -> SUBSET Hash]
    /\ reverted \in BOOLEAN
    /\ broken \in BOOLEAN
    /\ overlapped \in BOOLEAN

Nothing == [a \in Ann |-> None]

Init ==
    /\ published = Nothing
    /\ content = Nothing
    /\ firstSeen = [a \in Ann |-> 0]
    /\ reading = [a \in Ann |-> [u \in Url |-> "ABSENT"]]
    /\ matchTask = [a \in Ann |-> [h \in Hash |-> "absent"]]
    /\ docTask = [a \in Ann |-> [u \in Url |-> "absent"]]
    /\ clock = 0
    /\ pc = [c \in Crawl |-> "idle"]
    /\ batch = [c \in Crawl |-> Nothing]
    /\ cur = [c \in Crawl |-> None]
    /\ wanted = [c \in Crawl |-> None]
    /\ found = [c \in Crawl |-> None]
    /\ have = [c \in Crawl |-> {}]
    /\ changed = [c \in Crawl |-> {}]
    /\ ids = [c \in Crawl |-> {}]
    /\ offer = [c \in Crawl |-> {}]
    /\ seenAt = [c \in Crawl |-> 0]
    /\ matched = [a \in Ann |-> {}]
    /\ gaveUp = [a \in Ann |-> {}]
    /\ stored = [a \in Ann |-> {}]
    /\ reverted = FALSE
    /\ broken = FALSE
    /\ overlapped = FALSE

---------------------------------------------------------------------------
(* The source, which is not ours.                                          *)

Publish(a, e) ==
    /\ published[a] # e
    /\ published' = [published EXCEPT ![a] = e]
    /\ UNCHANGED <<tables, queues, clock, locals, history>>

Withdraw(a) ==
    /\ published[a] # None
    /\ published' = [published EXCEPT ![a] = None]
    /\ UNCHANGED <<tables, queues, clock, locals, history>>

---------------------------------------------------------------------------
(* A crawl, from the claim of its slot to its last enqueue.                *)

Idle(c) == pc[c] = "idle"

\* run() has claimed the slot; if another crawl is still at it, that one was
\* released as stale.
Start(c) ==
    /\ Idle(c)
    /\ pc' = [pc EXCEPT ![c] = "fetch"]
    /\ overlapped' = (overlapped \/ \E d \in Crawl : ~Idle(d))
    /\ UNCHANGED <<published, tables, queues, clock, batch, cur, wanted, found, have,
                   changed, ids, offer, seenAt, matched, gaveUp, stored, reverted, broken>>

\* crawl() returns the announcements of the listing that could be read: a failed
\* page ends the sweep and a failed announcement is rejected.
Fetch(c, S) ==
    /\ pc[c] = "fetch"
    /\ clock < MaxCrawls
    /\ \A a \in S : published[a] # None
    /\ clock' = clock + 1
    /\ seenAt' = [seenAt EXCEPT ![c] = clock + 1]
    /\ batch' = [batch EXCEPT ![c] =
                    [a \in Ann |-> IF a \in S THEN published[a] ELSE None]]
    /\ pc' = [pc EXCEPT ![c] = "find"]
    /\ UNCHANGED <<published, tables, queues, cur, wanted, found, have, changed, ids,
                   offer, history>>

\* Mutant: the row is compared as a whole instead of by its hash.
FindWholeRow(c, a) ==
    /\ pc[c] = "find"
    /\ batch[c][a] # None
    /\ cur' = [cur EXCEPT ![c] = a]
    /\ wanted' = [wanted EXCEPT ![c] = batch[c][a]]
    /\ batch' = [batch EXCEPT ![c][a] = None]
    /\ found' = [found EXCEPT ![c] = batch[c][a]]
    /\ pc' = [pc EXCEPT ![c] = "save"]
    /\ UNCHANGED <<published, tables, queues, clock, have, changed, ids, offer, seenAt,
                   history>>

\* The next job of the loop: findOne by (source, externalId).
Find(c, a) ==
    /\ pc[c] = "find"
    /\ batch[c][a] # None
    /\ cur' = [cur EXCEPT ![c] = a]
    /\ wanted' = [wanted EXCEPT ![c] = batch[c][a]]
    /\ batch' = [batch EXCEPT ![c][a] = None]
    /\ found' = [found EXCEPT ![c] = content[a]]
    /\ pc' = [pc EXCEPT ![c] = "save"]
    /\ UNCHANGED <<published, tables, queues, clock, have, changed, ids, offer, seenAt,
                   history>>

\* The loop moves on, dropping what it knew of the current job.
NextJob(c) ==
    /\ cur' = [cur EXCEPT ![c] = None]
    /\ wanted' = [wanted EXCEPT ![c] = None]
    /\ found' = [found EXCEPT ![c] = None]
    /\ have' = [have EXCEPT ![c] = {}]
    /\ pc' = [pc EXCEPT ![c] = "find"]

\* The row of the current job takes the content it was crawled with.
Store(c) ==
    /\ content' = [content EXCEPT ![cur[c]] = wanted[c].hash]
    /\ stored' = [stored EXCEPT ![cur[c]] = @ \cup {wanted[c].hash}]
    /\ reverted' = (reverted \/ wanted[c].hash \in stored[cur[c]])
    /\ pc' = [pc EXCEPT ![c] = "attach"]
    /\ UNCHANGED <<published, reading, queues, clock, batch, cur, wanted, found, have,
                   changed, ids, offer, seenAt, matched, gaveUp, broken, overlapped>>

\* A new announcement: firstSeenAt is set here and nowhere else.
Insert(c) ==
    /\ pc[c] = "save"
    /\ found[c] = None
    /\ content[cur[c]] = None
    /\ firstSeen' = [firstSeen EXCEPT ![cur[c]] = seenAt[c]]
    /\ Store(c)

\* A known announcement whose hash has not moved: only the sighting is touched.
Touch(c) ==
    /\ pc[c] = "save"
    /\ found[c] = wanted[c].hash
    /\ NextJob(c)
    /\ UNCHANGED <<published, tables, queues, clock, batch, changed, ids, offer, seenAt,
                   history>>

\* Mutant: the update writes every column of the entity, first sighting included.
UpdateAll(c) ==
    /\ pc[c] = "save"
    /\ found[c] # None
    /\ found[c] # wanted[c].hash
    /\ firstSeen' = [firstSeen EXCEPT ![cur[c]] = seenAt[c]]
    /\ Store(c)

\* A known announcement whose hash has.
Update(c) ==
    /\ pc[c] = "save"
    /\ found[c] # None
    /\ found[c] # wanted[c].hash
    /\ Store(c)
    /\ UNCHANGED firstSeen

Stored(a) == {u \in Url : reading[a][u] # "ABSENT"}

\* replaceAttachments: the rows of the job are read.
ReadAttachments(c) ==
    /\ pc[c] = "attach"
    /\ have' = [have EXCEPT ![c] = Stored(cur[c])]
    /\ pc' = [pc EXCEPT ![c] = "prune"]
    /\ UNCHANGED <<published, tables, queues, clock, batch, cur, wanted, found, changed,
                   ids, offer, seenAt, history>>

\* The rows of the URLs in S are deleted.  A task of a deleted row, or one still to be
\* added, finds no row to read.
Drop(c, S) ==
    /\ reading' = [reading EXCEPT ![cur[c]] =
                    [u \in Url |-> IF u \in S THEN "ABSENT" ELSE @[u]]]
    /\ docTask' = [docTask EXCEPT ![cur[c]] =
                    [u \in Url |-> IF u \in S THEN "absent" ELSE @[u]]]
    /\ offer' = [d \in Crawl |-> offer[d] \ ({cur[c]} \X S)]
    /\ pc' = [pc EXCEPT ![c] = "insert"]
    /\ UNCHANGED <<published, content, firstSeen, matchTask, clock, batch, cur, wanted,
                   found, changed, ids, seenAt, history>>

\* Mutant: the attachments are replaced wholesale.
DeleteAll(c) ==
    /\ pc[c] = "prune"
    /\ Drop(c, have[c])
    /\ have' = [have EXCEPT ![c] = {}]

\* Mutant: attachments are only ever added.
DeleteNone(c) ==
    /\ pc[c] = "prune"
    /\ pc' = [pc EXCEPT ![c] = "insert"]
    /\ UNCHANGED <<published, tables, queues, clock, batch, cur, wanted, found, have,
                   changed, ids, offer, seenAt, history>>

\* The rows whose URL is gone are deleted.
DeleteStale(c) ==
    /\ pc[c] = "prune"
    /\ Drop(c, have[c] \ wanted[c].urls)
    /\ UNCHANGED have

\* Mutant: only a new announcement goes into changedJobIds.
InsertMissingOfNew(c) ==
    LET missing == wanted[c].urls \ have[c] IN
    /\ pc[c] = "insert"
    /\ missing \cap Stored(cur[c]) = {}
    /\ reading' = [reading EXCEPT ![cur[c]] =
                    [u \in Url |-> IF u \in missing THEN "PENDING" ELSE @[u]]]
    /\ changed' = [changed EXCEPT ![c] =
                    IF found[c] = None THEN @ \cup {cur[c]} ELSE @]
    /\ NextJob(c)
    /\ UNCHANGED <<published, content, firstSeen, queues, clock, batch, ids, offer, seenAt,
                   history>>

\* The rows that were not there are inserted, unless another crawl has meanwhile
\* inserted one of them (uq_job_attachment_job_url), and the job is a changed one.
InsertMissing(c) ==
    LET missing == wanted[c].urls \ have[c] IN
    /\ pc[c] = "insert"
    /\ missing \cap Stored(cur[c]) = {}
    /\ reading' = [reading EXCEPT ![cur[c]] =
                    [u \in Url |-> IF u \in missing THEN "PENDING" ELSE @[u]]]
    /\ changed' = [changed EXCEPT ![c] = @ \cup {cur[c]}]
    /\ NextJob(c)
    /\ UNCHANGED <<published, content, firstSeen, queues, clock, batch, ids, offer, seenAt,
                   history>>

\* persist returns.
Persisted(c) ==
    /\ pc[c] = "find"
    /\ batch[c] = Nothing
    /\ pc' = [pc EXCEPT ![c] = "match"]
    /\ UNCHANGED <<published, tables, queues, clock, batch, cur, wanted, found, have,
                   changed, ids, offer, seenAt, history>>

\* enqueueMatching: ids come from the content the rows have now.
FindChanged(c) ==
    /\ pc[c] = "match"
    /\ ids' = [ids EXCEPT ![c] = {<<a, content[a]>> : a \in changed[c]}]
    /\ pc' = [pc EXCEPT ![c] = IF changed[c] = {} THEN "document" ELSE "addMatch"]
    /\ UNCHANGED <<published, tables, queues, clock, batch, cur, wanted, found, have,
                   changed, offer, seenAt, history>>

\* addBulk drops the ids the queue still holds.
AddMatching(c) ==
    /\ pc[c] = "addMatch"
    /\ matchTask' = [a \in Ann |-> [h \in Hash |->
                        IF <<a, h>> \in ids[c] /\ matchTask[a][h] = "absent"
                        THEN "waiting" ELSE matchTask[a][h]]]
    /\ pc' = [pc EXCEPT ![c] = "document"]
    /\ ids' = [ids EXCEPT ![c] = {}]
    /\ UNCHANGED <<published, tables, docTask, clock, batch, cur, wanted, found, have,
                   changed, offer, seenAt, history>>

\* run() has returned or thrown; its locals are gone.
Leave(c) ==
    /\ pc' = [pc EXCEPT ![c] = "idle"]
    /\ batch' = [batch EXCEPT ![c] = Nothing]
    /\ cur' = [cur EXCEPT ![c] = None]
    /\ wanted' = [wanted EXCEPT ![c] = None]
    /\ found' = [found EXCEPT ![c] = None]
    /\ have' = [have EXCEPT ![c] = {}]
    /\ changed' = [changed EXCEPT ![c] = {}]
    /\ ids' = [ids EXCEPT ![c] = {}]
    /\ offer' = [offer EXCEPT ![c] = {}]
    /\ seenAt' = [seenAt EXCEPT ![c] = 0]

Pending == {p \in Ann \X Url : reading[p[1]][p[2]] = "PENDING"}

\* enqueueDocuments finds up to BatchSize unread attachments, whichever announcement
\* they belong to (oldest first: which those are is left open).
FindUnread(c, D) ==
    /\ pc[c] = "document"
    /\ D \subseteq Pending
    /\ \/ Cardinality(D) = BatchSize
       \/ D = Pending /\ Cardinality(D) <= BatchSize
    /\ IF D = {}
       THEN Leave(c)
       ELSE /\ offer' = [offer EXCEPT ![c] = D]
            /\ pc' = [pc EXCEPT ![c] = "addDocument"]
            /\ UNCHANGED <<batch, cur, wanted, found, have, changed, ids, seenAt>>
    /\ UNCHANGED <<published, tables, queues, clock, history>>

\* addBulk, whatever has become of the rows meanwhile.
AddDocuments(c) ==
    /\ pc[c] = "addDocument"
    /\ docTask' = [a \in Ann |-> [u \in Url |->
                        IF <<a, u>> \in offer[c] /\ docTask[a][u] = "absent"
                        THEN "waiting" ELSE docTask[a][u]]]
    /\ Leave(c)
    /\ UNCHANGED <<published, tables, matchTask, clock, history>>

\* A step of the crawl throws: a fetch that gives up, a unique violation, a
\* database or queue error.  Or the process dies.  What was written stays.
Fail(c) ==
    /\ ~Idle(c)
    /\ Leave(c)
    /\ broken' = TRUE
    /\ UNCHANGED <<published, tables, queues, clock, matched, gaveUp, stored, reverted,
                   overlapped>>

---------------------------------------------------------------------------
(* The workers the crawl hands over to.                                    *)

\* The matching worker reads the announcement as it is when the task runs, not
\* as it was when the task was named.
Match(a, h) ==
    /\ matchTask[a][h] = "waiting"
    /\ matchTask' = [matchTask EXCEPT ![a][h] = "retained"]
    /\ matched' = [matched EXCEPT ![a] = @ \cup {content[a]}]
    /\ UNCHANGED <<published, tables, docTask, clock, locals, gaveUp, stored, reverted,
                   broken, overlapped>>

\* It has used up its attempts or its stalls; an attempt may have matched the
\* announcement, but that is not counted on.
MatchFails(a, h) ==
    /\ matchTask[a][h] = "waiting"
    /\ matchTask' = [matchTask EXCEPT ![a][h] = "retained"]
    /\ gaveUp' = [gaveUp EXCEPT ![a] = @ \cup {h}]
    /\ UNCHANGED <<published, tables, docTask, clock, locals, matched, stored, reverted,
                   broken, overlapped>>

\* The queue drops its record of a task by age, a completed one after a day and a failed
\* one after a week, when a later task of the queue ends.
Expire(a, h) ==
    /\ matchTask[a][h] = "retained"
    /\ matchTask' = [matchTask EXCEPT ![a][h] = "absent"]
    /\ UNCHANGED <<published, tables, docTask, clock, locals, history>>

\* The document worker takes a task and writes PROCESSING, whatever the row says: also
\* one that was read after it was found unread, or by an attempt that died.
BeginReading(a, u) ==
    /\ docTask[a][u] = "waiting"
    /\ \A b \in Ann, v \in Url : docTask[b][v] # "active"
    /\ docTask' = [docTask EXCEPT ![a][u] = "active"]
    /\ reading' = [reading EXCEPT ![a][u] = "PROCESSING"]
    /\ UNCHANGED <<published, content, firstSeen, matchTask, clock, locals, history>>

\* The text is recorded, with requeueMatching still to come.
RecordText(a, u) ==
    /\ docTask[a][u] = "active"
    /\ reading[a][u] = "PROCESSING"
    /\ reading' = [reading EXCEPT ![a][u] = "COMPLETED"]
    /\ UNCHANGED <<published, content, firstSeen, queues, clock, locals, history>>

\* An attempt is over: the task is gone, or back in the queue if the worker died or a
\* call outside readAndRecord threw.  One that failed for good counts as gone: which
\* later offers its retained record keeps out is the subject of Documents.
EndAttempt(a, u) ==
    \E st \in {"absent", "waiting"} : docTask' = [docTask EXCEPT ![a][u] = st]

\* process() returns, throws or dies, with the row as it is, maybe before it wrote to it.
StopReading(a, u) ==
    /\ docTask[a][u] # "absent"
    /\ EndAttempt(a, u)
    /\ UNCHANGED <<published, tables, matchTask, clock, locals, history>>

\* The document could not be read, has too little text (FAILED stands for both), or
\* requeueMatching threw: process() records that also of a row that was just read.
RecordFailure(a, u) ==
    /\ docTask[a][u] = "active"
    /\ reading' = [reading EXCEPT ![a][u] = "FAILED"]
    /\ EndAttempt(a, u)
    /\ UNCHANGED <<published, content, firstSeen, matchTask, clock, locals, history>>

Step(c) ==
    \/ Start(c)
    \/ \E S \in SUBSET Ann : Fetch(c, S)
    \/ \E a \in Ann : Find(c, a)
    \/ Insert(c)
    \/ Touch(c)
    \/ Update(c)
    \/ ReadAttachments(c)
    \/ DeleteStale(c)
    \/ InsertMissing(c)
    \/ Persisted(c)
    \/ FindChanged(c)
    \/ AddMatching(c)
    \/ \E D \in SUBSET (Ann \X Url) : FindUnread(c, D)
    \/ AddDocuments(c)
    \/ Fail(c)

Source ==
    \/ \E a \in Ann, e \in Edition : Publish(a, e)
    \/ \E a \in Ann : Withdraw(a)

Workers ==
    \/ \E a \in Ann, h \in Hash : Match(a, h) \/ MatchFails(a, h) \/ Expire(a, h)
    \/ \E a \in Ann, u \in Url :
            BeginReading(a, u) \/ RecordText(a, u) \/ StopReading(a, u) \/ RecordFailure(a, u)

Next == Source \/ Workers \/ \E c \in Crawl : Step(c)

Spec == Init /\ [][Next]_vars

---------------------------------------------------------------------------

\* README: "first_seen_at never moves. Alerts match on it, so touching it on a
\* re-crawl would re-notify the entire back catalogue": neither a changed
\* announcement nor a second crawl that finds it first moves it.
FirstSeenNeverMoves ==
    [][\A a \in Ann : content[a] # None =>
            firstSeen'[a] = firstSeen[a] /\ content'[a] # None]_vars

\* No work is left that would match announcement a.
Settled(a) ==
    /\ \A c \in Crawl : Idle(c)
    /\ \A h \in Hash : matchTask[a][h] # "waiting"

\* Every content the crawls stored has been matched once they are done, by the task named
\* after it, provided no crawl failed, that task did not fail for good, and no announcement
\* went back to an earlier content (whose task id the queue may still hold).  Overlapping
\* crawls alone lose nothing, though the ids one of them found are of contents another has
\* replaced when it adds them.
UnmatchedOnlyAfterFailure ==
    \A a \in Ann :
        (content[a] # None /\ Settled(a) /\ ~broken /\ ~reverted)
            => content[a] \in matched[a] \cup gaveUp[a]

\* The document queue has a task of the attachment, or a crawl is about to add one.
InQueue(a, u) == docTask[a][u] # "absent" \/ \E c \in Crawl : <<a, u>> \in offer[c]

\* replaceAttachments keeps the row of a URL that is still published, with what was read
\* of it, and enqueueDocuments offers unread rows only: a COMPLETED row stays so, and out
\* of the queue if it is out of it, unless its URL left the edition being stored.  Only a
\* task from before the row was read, which is still running, died, or is added late, may
\* read it again or fail over it.
ReadingSurvives ==
    [][\A a \in Ann, u \in Url : reading[a][u] = "COMPLETED" =>
            \/ reading'[a][u] = "COMPLETED" /\ (InQueue(a, u)' => InQueue(a, u))
            \/ docTask[a][u] # "absent" /\ reading'[a][u] \in {"PROCESSING", "FAILED"}
            \/ \E c \in Crawl : cur[c] = a /\ u \notin wanted[c].urls]_vars

\* Content and attachments come from one edition, once no crawl is between the
\* write of the one and of the other, if crawls neither failed nor overlapped.
AttachmentsFitContent ==
    \A a \in Ann :
        /\ content[a] # None
        /\ \A c \in Crawl : cur[c] # a
        /\ ~broken
        /\ ~overlapped
        => \E e \in Edition : e.hash = content[a] /\ e.urls = Stored(a)

\* README: "Matching runs at the end of each crawl, over exactly the announcements
\* that were inserted or materially changed."  A crawl that fails or dies after a write
\* hands nothing over, and the next one finds the content unchanged.  There is no
\* attachment either whose reading would have the announcement matched.
StoredIsMatched ==
    \A a \in Ann :
        /\ content[a] # None
        /\ Settled(a)
        /\ Stored(a) = {}
        => content[a] \in matched[a]

=============================================================================
