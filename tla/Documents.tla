------------------------------ MODULE Documents ------------------------------
(***************************************************************************)
(* Reading attachments: CrawlerService.enqueueDocuments offers the rows    *)
(* that are PENDING, one worker (concurrency 1) runs                       *)
(* DocumentProcessingService.process one call per step, the download       *)
(* chunk by chunk, and a readable document has its announcement matched    *)
(* again.  Crawls insert and delete rows meanwhile, and an operator resets *)
(* them to PENDING.                                                        *)
(*                                                                         *)
(* Attachments are numbered in the order of createdAt.  A file is the      *)
(* bytes behind a URL; it stands for its SHA-256 and for the text a parser *)
(* finds in it.  Left out: extractionError, extractionMethod, processedAt, *)
(* and that a text of no characters is stored as null.                     *)
(***************************************************************************)
EXTENDS Naturals, FiniteSets

CONSTANTS
    MaxAtt,         \* bound on the attachments ever inserted
    File,           \* what URLs serve
    Served,         \* the ways URLs of attachments may serve files
    Size,           \* bytes of a file, in units of which the numbers below are too
    Verdict,        \* what the parser makes of a file
    InitialBuffer,  \* 64 * 1024
    MaxBytes,       \* document.maxBytes
    BatchSize,      \* document.batchSize
    Attempts,       \* DEFAULT_JOB_OPTIONS.attempts
    MaxStalled,     \* BullMQ's maxStalledCount
    MaxFaults,      \* bound on database errors, queue errors and deaths
    MaxResets,      \* bound on the rows an operator resets
    None            \* no attachment, no file, no text

Att == 1 .. MaxAtt
Read == {"COMPLETED", "INSUFFICIENT_TEXT"}
Result == [status : Read \cup {"FAILED"}, text : File]

ASSUME FileAssumption ==
    /\ Served \subseteq [Att -> File]
    /\ Size \in [File -> Nat]
    /\ Verdict \in [File -> Read \cup {"UNREADABLE"}]
ASSUME BufferAssumption == InitialBuffer \in Nat \ {0} /\ MaxBytes \in Nat \ {0}
ASSUME QueueAssumption ==
    BatchSize \in Nat \ {0} /\ Attempts \in Nat \ {0} /\ MaxStalled \in Nat
ASSUME BoundAssumption == MaxAtt \in Nat /\ MaxFaults \in Nat /\ MaxResets \in Nat
ASSUME NoneAssumption == None \notin File \cup Att \cup Result

VARIABLES
    fileOf,     \* the bytes behind the URL of an attachment, which never change
    status,     \* job_attachment.extraction_status; NEW before the row, GONE after it
    fileHash,   \* job_attachment.file_hash
    text,       \* job_attachment.extracted_text
    docTask,    \* the document queue's record of document--id
    matchTask,  \* the matching queue's record of match-doc--id
    offer,      \* ids enqueueDocuments has found and not yet added
    pc,         \* the call the worker is at
    cur,        \* the attachment it holds
    total,      \* bytes received
    buffer,     \* length of the buffer they are in
    result,     \* what it is about to record
    why,        \* history: why it is about to record a failure
    heard,      \* history: attachments whose last text their announcement was matched with
    troubled,   \* history: attachments whose own reading failed last
    abandoned,  \* history: attachments whose last task failed for good
    unmatched,  \* history: attachments whose last reading could not be announced
    faults,
    resets

rows == <<status, fileHash, text>>
queues == <<docTask, matchTask, offer>>
locals == <<pc, cur, total, buffer, result, why>>
history == <<heard, troubled, abandoned, unmatched>>
moving == <<rows, queues, locals, history, faults, resets>>
vars == <<fileOf, moving>>

Stored == {"PENDING", "PROCESSING", "FAILED"} \cup Read
Place == {"idle", "begin", "fetch", "stream", "twin", "extract", "record",
          "rematch", "fail", "return"}
Reason == {"none", "fetch", "size", "file", "call"}
TaskState == {"absent", "waiting", "active", "completed", "failed"}
Task == [st : TaskState,
         fails : 0 .. Attempts, stalls : 0 .. MaxStalled + 1]

TypeOK ==
    /\ fileOf \in [Att -> File]
    /\ status \in [Att -> Stored \cup {"NEW", "GONE"}]
    /\ fileHash \in [Att -> File \cup {None}]
    /\ text \in [Att -> File \cup {None}]
    /\ docTask \in [Att -> Task]
    /\ matchTask \in [Att -> TaskState]
    /\ offer \in SUBSET Att
    /\ pc \in Place
    /\ cur \in Att \cup {None}
    /\ total \in Nat
    /\ buffer \in Nat
    /\ result \in Result \cup {None}
    /\ why \in Reason
    /\ heard \in SUBSET Att
    /\ troubled \in SUBSET Att
    /\ abandoned \in SUBSET Att
    /\ unmatched \in SUBSET Att
    /\ faults \in 0 .. MaxFaults
    /\ resets \in 0 .. MaxResets

Absent == [st |-> "absent", fails |-> 0, stalls |-> 0]
Waiting == [st |-> "waiting", fails |-> 0, stalls |-> 0]

Init ==
    /\ fileOf \in Served
    /\ status = [a \in Att |-> "NEW"]
    /\ fileHash = [a \in Att |-> None]
    /\ text = [a \in Att |-> None]
    /\ docTask = [a \in Att |-> Absent]
    /\ matchTask = [a \in Att |-> "absent"]
    /\ offer = {}
    /\ pc = "idle"
    /\ cur = None
    /\ total = 0
    /\ buffer = 0
    /\ result = None
    /\ why = "none"
    /\ heard = {}
    /\ troubled = {}
    /\ abandoned = {}
    /\ unmatched = {}
    /\ faults = 0
    /\ resets = 0

Exists(a) == status[a] \in Stored

---------------------------------------------------------------------------
(* Crawls and the operator.                                                *)

\* A crawl inserts the next attachment.
Insert(a) ==
    /\ status[a] = "NEW"
    /\ \A b \in 1 .. a - 1 : status[b] # "NEW"
    /\ status' = [status EXCEPT ![a] = "PENDING"]
    /\ UNCHANGED <<fileHash, text, queues, locals, history, faults, resets>>

\* Its announcement no longer has the URL: replaceAttachments deletes the row.
Delete(a) ==
    /\ Exists(a)
    /\ status' = [status EXCEPT ![a] = "GONE"]
    /\ fileHash' = [fileHash EXCEPT ![a] = None]
    /\ text' = [text EXCEPT ![a] = None]
    /\ heard' = heard \ {a}
    /\ troubled' = troubled \ {a}
    /\ abandoned' = abandoned \ {a}
    /\ unmatched' = unmatched \ {a}
    /\ UNCHANGED <<queues, locals, faults, resets>>

\* UPDATE job_attachment SET extraction_status = 'PENDING', by hand.
Reset(a) ==
    /\ Exists(a)
    /\ status[a] # "PENDING"
    /\ resets < MaxResets
    /\ resets' = resets + 1
    /\ status' = [status EXCEPT ![a] = "PENDING"]
    /\ UNCHANGED <<fileHash, text, queues, locals, history, faults>>

Pending == {a \in Att : status[a] = "PENDING"}

\* Mutant: the newest rows first.
FindNewest ==
    /\ offer = {}
    /\ Pending # {}
    /\ offer' = {a \in Pending : Cardinality({b \in Pending : b > a}) < BatchSize}
    /\ UNCHANGED <<rows, docTask, matchTask, locals, history, faults, resets>>

\* find: the oldest PENDING rows, up to the batch size.
FindPending ==
    /\ offer = {}
    /\ Pending # {}
    /\ offer' = {a \in Pending : Cardinality({b \in Pending : b < a}) < BatchSize}
    /\ UNCHANGED <<rows, docTask, matchTask, locals, history, faults, resets>>

\* addBulk: an id the queue still has is dropped, whatever has become of the row.
AddOffered ==
    /\ offer # {}
    /\ docTask' = [a \in Att |-> IF a \in offer /\ docTask[a].st = "absent"
                                 THEN Waiting ELSE docTask[a]]
    /\ offer' = {}
    /\ UNCHANGED <<rows, matchTask, locals, history, faults, resets>>

---------------------------------------------------------------------------
(* The worker: process.                                                    *)

At(p) == pc = p /\ cur # None

Go(p) == pc' = p /\ UNCHANGED <<cur, total, buffer, result, why>>

\* process() has returned or thrown.
Leave ==
    /\ pc' = "idle"
    /\ cur' = None
    /\ total' = 0
    /\ buffer' = 0
    /\ result' = None
    /\ why' = "none"

\* findOne; a row deleted since it was queued has nothing to read.
Load(a) ==
    /\ pc = "idle"
    /\ docTask[a].st = "waiting"
    /\ IF Exists(a)
       THEN /\ docTask' = [docTask EXCEPT ![a].st = "active"]
            /\ pc' = "begin"
            /\ cur' = a
       ELSE docTask' = [docTask EXCEPT ![a] = Absent] /\ UNCHANGED <<pc, cur>>
    /\ abandoned' = abandoned \ {a}
    /\ unmatched' = unmatched \ {a}
    /\ UNCHANGED <<rows, matchTask, offer, total, buffer, result, why, heard, troubled,
                   faults, resets>>

\* An update by id does nothing to a row that is gone.
SetStatus(a, s) ==
    status' = [status EXCEPT ![a] = IF Exists(a) THEN s ELSE @]

Begin ==
    /\ At("begin")
    /\ SetStatus(cur, "PROCESSING")
    /\ heard' = heard \ {cur}
    /\ Go("fetch")
    /\ UNCHANGED <<fileHash, text, queues, troubled, abandoned, unmatched, faults, resets>>

\* The document cannot be read: an error process() catches.
Give(reason) ==
    /\ pc' = "fail"
    /\ total' = 0
    /\ buffer' = 0
    /\ why' = reason
    /\ troubled' = troubled \cup {cur}

\* No answer, an error status, no body, or a content-length over the limit.
FetchRefused ==
    /\ At("fetch")
    /\ Give("fetch")
    /\ UNCHANGED <<rows, queues, cur, result, heard, abandoned, unmatched, faults, resets>>

Fetch ==
    /\ At("fetch")
    /\ pc' = "stream"
    /\ total' = 0
    /\ buffer' = InitialBuffer
    /\ UNCHANGED <<rows, queues, cur, result, why, history, faults, resets>>

Larger(m, n) == IF m < n THEN n ELSE m
Smaller(m, n) == IF m < n THEN m ELSE n

\* Mutant: the buffer only ever doubles.
GrownTwice(length, needed) ==
    IF needed > length THEN Smaller(length * 2, MaxBytes) ELSE length

\* The buffer for `needed` bytes, grown geometrically and never past the cap.
Grown(length, needed) ==
    IF needed > length THEN Smaller(Larger(length * 2, needed), MaxBytes) ELSE length

\* The next chunk, of any length; past the cap the read is abandoned.
Chunk(n) ==
    /\ At("stream")
    /\ n \in 1 .. Size[fileOf[cur]] - total
    /\ IF total + n > MaxBytes
       THEN Give("size")
       ELSE /\ total' = total + n
            /\ buffer' = Grown(buffer, total + n)
            /\ UNCHANGED <<pc, why, troubled>>
    /\ UNCHANGED <<rows, queues, cur, result, heard, abandoned, unmatched, faults, resets>>

\* The stream breaks, or ends with nothing received.
StreamFails ==
    /\ At("stream")
    /\ Give("fetch")
    /\ UNCHANGED <<rows, queues, cur, result, heard, abandoned, unmatched, faults, resets>>

\* The stream ends; the hash is taken of what was received.
StreamEnds ==
    /\ At("stream")
    /\ total = Size[fileOf[cur]]
    /\ total > 0
    /\ total' = 0
    /\ buffer' = 0
    /\ pc' = "twin"
    /\ UNCHANGED <<rows, queues, cur, result, why, history, faults, resets>>

\* Mutant: a twin that is yet to be read will do.
TwinsUnread(a) == {b \in Att \ {a} : fileHash[b] = fileOf[a]}

\* Mutant: a twin that failed will do.
TwinsFailedToo(a) ==
    {b \in Att \ {a} : fileHash[b] = fileOf[a] /\ status[b] \in Read \cup {"FAILED"}}

\* Mutant: any document that has been read will do.
TwinsOfAnyHash(a) == {b \in Att \ {a} : status[b] \in Read}

\* findProcessedTwin: other rows of the same bytes that have been read.
Twins(a) == {b \in Att \ {a} : fileHash[b] = fileOf[a] /\ status[b] \in Read}

FindTwin(b) ==
    /\ At("twin")
    /\ b \in Twins(cur)
    /\ result' = [status |-> status[b], text |-> text[b]]
    /\ pc' = "record"
    /\ UNCHANGED <<rows, queues, cur, total, buffer, why, history, faults, resets>>

FindNoTwin ==
    /\ At("twin")
    /\ Twins(cur) = {}
    /\ Go("extract")
    /\ UNCHANGED <<rows, queues, history, faults, resets>>

\* looksLikePdf and the parser; a file that is no PDF is refused before a twin is looked
\* for, but has none that was read.  Short of minTextLength there is no usable text.
Extract ==
    LET verdict == Verdict[fileOf[cur]] IN
    /\ At("extract")
    /\ IF verdict = "UNREADABLE"
       THEN Give("file") /\ UNCHANGED result
       ELSE /\ pc' = "record"
            /\ result' = [status |-> verdict, text |-> fileOf[cur]]
            /\ UNCHANGED <<total, buffer, why, troubled>>
    /\ UNCHANGED <<rows, queues, cur, heard, abandoned, unmatched, faults,
                   resets>>

\* Verdict, text and hash are written together.
Record ==
    /\ At("record")
    /\ SetStatus(cur, result.status)
    /\ fileHash' = [fileHash EXCEPT ![cur] = IF Exists(cur) THEN fileOf[cur] ELSE @]
    /\ text' = [text EXCEPT ![cur] = IF Exists(cur) THEN result.text ELSE @]
    /\ heard' = heard \ {cur}
    /\ troubled' = troubled \ {cur}
    /\ pc' = IF result.status = "COMPLETED" THEN "rematch" ELSE "return"
    /\ UNCHANGED <<queues, cur, total, buffer, result, why, abandoned, unmatched, faults,
                   resets>>

\* requeueMatching: dropped if the queue still has the task of an earlier read.  One
\* that is waiting will read the new text; one that runs or failed will not.
Rematch ==
    /\ At("rematch")
    /\ matchTask' = [matchTask EXCEPT ![cur] = IF @ = "absent" THEN "waiting" ELSE @]
    /\ unmatched' = IF matchTask[cur] \in {"active", "failed"}
                    THEN unmatched \cup {cur} ELSE unmatched
    /\ Go("return")
    /\ UNCHANGED <<rows, docTask, offer, heard, troubled, abandoned, faults, resets>>

\* Mutant: the error is logged and the row left as it is.
LogFailure ==
    /\ At("fail")
    /\ Go("return")
    /\ UNCHANGED <<rows, queues, history, faults, resets>>

RecordFailure ==
    /\ At("fail")
    /\ SetStatus(cur, "FAILED")
    /\ Go("return")
    /\ UNCHANGED <<fileHash, text, queues, history, faults, resets>>

\* removeOnComplete: the id is free again.
Return ==
    /\ At("return")
    /\ docTask' = [docTask EXCEPT ![cur] = Absent]
    /\ Leave
    /\ UNCHANGED <<rows, matchTask, offer, history, faults, resets>>

---------------------------------------------------------------------------
(* What goes wrong.                                                        *)

\* A call inside readAndRecord throws, and process() takes it for a failure of the
\* document: also after the row was recorded as read.
CallFails ==
    /\ pc \in {"twin", "record", "rematch"} /\ cur # None
    /\ faults < MaxFaults
    /\ faults' = faults + 1
    /\ Give("call")
    /\ UNCHANGED <<rows, queues, cur, result, heard, abandoned, unmatched,
                   resets>>

\* The task goes back to the queue, or has failed for good.
Unfinished(a, again) ==
    /\ docTask' = [docTask EXCEPT ![a] = again]
    /\ abandoned' = IF again.st = "failed" THEN abandoned \cup {a} ELSE abandoned
    /\ unmatched' = unmatched \cup {a}
    /\ faults < MaxFaults
    /\ faults' = faults + 1
    /\ Leave
    /\ UNCHANGED <<rows, matchTask, offer, heard, troubled, resets>>

\* A call outside it throws: the task is retried.
Throw ==
    /\ pc \in {"begin", "fail"} /\ cur # None
    /\ LET t == docTask[cur] IN
       Unfinished(cur, [st |-> IF t.fails + 1 < Attempts THEN "waiting" ELSE "failed",
                        fails |-> t.fails + 1,
                        stalls |-> t.stalls])

\* The process dies, and the queue finds the task stalled.
Die ==
    /\ pc # "idle" /\ cur # None
    /\ LET t == docTask[cur] IN
       Unfinished(cur, [st |-> IF t.stalls < MaxStalled THEN "waiting" ELSE "failed",
                        fails |-> t.fails,
                        stalls |-> t.stalls + 1])

\* removeOnFail: a failed task is forgotten after a week, though not by a timer.  BullMQ
\* looks for aged records when another task of the queue fails, which may never happen:
\* here it may at any time, and nothing counts on it.
Expire(a) ==
    /\ \/ docTask[a].st = "failed" /\ docTask' = [docTask EXCEPT ![a] = Absent]
                                   /\ UNCHANGED matchTask
       \/ matchTask[a] = "failed" /\ matchTask' = [matchTask EXCEPT ![a] = "absent"]
                                  /\ UNCHANGED docTask
    /\ UNCHANGED <<rows, offer, locals, history, faults, resets>>

---------------------------------------------------------------------------
(* The matching worker, as far as a document's task goes.                  *)

\* The texts of COMPLETED documents are part of what is matched.
MatchReads(a) ==
    /\ matchTask[a] = "waiting"
    /\ matchTask' = [matchTask EXCEPT ![a] = "active"]
    /\ heard' = IF status[a] = "COMPLETED" THEN heard \cup {a} ELSE heard
    /\ UNCHANGED <<rows, docTask, offer, locals, troubled, abandoned, unmatched, faults,
                   resets>>

\* Mutant: a completed matching task is retained.
MatchKept(a) ==
    /\ matchTask[a] = "active"
    /\ matchTask' = [matchTask EXCEPT ![a] = "completed"]
    /\ UNCHANGED <<rows, docTask, offer, locals, history, faults, resets>>

\* removeOnComplete.
MatchEnds(a) ==
    /\ matchTask[a] = "active"
    /\ matchTask' = [matchTask EXCEPT ![a] = "absent"]
    /\ UNCHANGED <<rows, docTask, offer, locals, history, faults, resets>>

\* It used up its attempts (AlertDelivery has them one by one).
MatchFails(a) ==
    /\ matchTask[a] = "active"
    /\ faults < MaxFaults
    /\ faults' = faults + 1
    /\ matchTask' = [matchTask EXCEPT ![a] = "failed"]
    /\ unmatched' = unmatched \cup {a}
    /\ UNCHANGED <<rows, docTask, offer, locals, heard, troubled, abandoned, resets>>

---------------------------------------------------------------------------

\* The steps of process() that succeed or fail for the document's own reasons.
Process ==
    \/ \E a \in Att : Load(a)
    \/ Begin
    \/ FetchRefused
    \/ Fetch
    \/ \E n \in 1 .. MaxBytes + 1 : Chunk(n)
    \/ StreamFails
    \/ StreamEnds
    \/ \E b \in Att : FindTwin(b)
    \/ FindNoTwin
    \/ Extract
    \/ Record
    \/ Rematch
    \/ RecordFailure
    \/ Return

Enqueue == FindPending \/ AddOffered

Matching(a) == MatchReads(a) \/ MatchEnds(a)

Next ==
    /\ UNCHANGED fileOf
    /\ \/ \E a \in Att : Insert(a) \/ Delete(a) \/ Reset(a)
       \/ Enqueue
       \/ Process
       \/ CallFails
       \/ Throw
       \/ Die
       \/ \E a \in Att : Matching(a) \/ MatchFails(a) \/ Expire(a)

\* The scheduler crawls every hour, and the workers run as long as the process does.
Fairness ==
    /\ WF_moving(Enqueue)
    /\ WF_moving(Process)
    /\ \A a \in Att : WF_moving(Matching(a))

Spec == Init /\ [][Next]_vars /\ Fairness

---------------------------------------------------------------------------

\* readCapped: what was received is always inside the buffer it is written to, neither is
\* ever over the cap, however the chunks fall, and a document is refused for its size only
\* if it is over the limit: one of exactly the limit is read.
BufferHolds ==
    /\ pc = "stream" =>
        /\ total <= buffer
        /\ total <= MaxBytes
        /\ buffer <= Larger(InitialBuffer, MaxBytes)
    /\ why = "size" => Size[fileOf[cur]] > MaxBytes

\* What a row says was read is the text of the file behind its URL, with the verdict
\* of that text, whether it was read or copied from a twin that is reset, read again or
\* deleted meanwhile.
TextFitsFile ==
    \A a \in Att : status[a] \in Read =>
        /\ fileHash[a] = fileOf[a]
        /\ text[a] = fileOf[a]
        /\ status[a] = Verdict[fileOf[a]]

\* "FAILED twins are ignored on purpose": a failure is never taken over from another
\* announcement's row of the same file.
FailureIsOwn ==
    \A a \in Att : status[a] = "FAILED" => a \in troubled

\* "A stuck PROCESSING row is worse than a recorded failure": a row is left PROCESSING
\* with no task to finish it only if its task was retried or stalled to the end.
StuckOnlyIfAbandoned ==
    \A a \in Att :
        status[a] = "PROCESSING" /\ docTask[a].st \notin {"waiting", "active"}
            => a \in abandoned

\* Reading a document has its announcement matched with the text, each time it is read,
\* unless the worker died before it asked for that, an earlier task of the attachment
\* was running (and may have read the rows before) or has failed and is still retained.
ReadIsMatched ==
    \A a \in Att :
        /\ status[a] = "COMPLETED"
        /\ cur # a
        /\ matchTask[a] # "waiting"
        /\ a \notin unmatched
        => a \in heard

\* The queue retains the failed task of a row that is PENDING, and drops each new offer.
Refused(a) == status[a] = "PENDING" /\ docTask[a].st = "failed"

\* enqueueDocuments cannot have row a read: its own offers are dropped, or those of older
\* rows fill each batch.
Starved(a) ==
    Refused(a) \/ Cardinality({b \in Att : b < a /\ Refused(b)}) >= BatchSize

\* "Re-processing anything is therefore UPDATE job_attachment SET extraction_status =
\* 'PENDING', and the next crawl picks it up": a later crawl does, with one exception.  A
\* row is read however old or young it is, unless its task, or those of a whole batch of
\* older rows, failed for good and are still retained.
PendingIsRead ==
    \A a \in Att : status[a] = "PENDING" ~> status[a] # "PENDING" \/ Starved(a)

=============================================================================
