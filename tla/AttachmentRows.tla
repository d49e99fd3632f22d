---------------------------- MODULE AttachmentRows ----------------------------
(***************************************************************************)
(* What crawls, the document worker and an operator together may do to the *)
(* rows of job_attachment, whoever takes a step and however many it takes: *)
(* a row starts unread, is read only while it is unread and then says what *)
(* its file says, and one that is not there is given no verdict.           *)
(* CrawlIngest and Documents implement this, each with the steps of its    *)
(* own side one by one and those of the other in outline.                  *)
(***************************************************************************)
CONSTANT Row

VARIABLES
    reading,  \* extraction_status, "UNREAD" while it is PENDING or PROCESSING
    verdict   \* what a reading that succeeds makes of a row's file

rows == <<reading, verdict>>

Verdicts == {"COMPLETED", "INSUFFICIENT_TEXT"}
RowState == {"ABSENT", "UNREAD", "FAILED"} \cup Verdicts

RowsInit == reading = [r \in Row |-> "ABSENT"]

Become(S, state) == reading' = [r \in Row |-> IF r \in S THEN state ELSE reading[r]]

There(r) == reading[r] # "ABSENT"

\* replaceAttachments inserts the rows of a job that are missing.
InsertRows(S) ==
    /\ \A r \in S : ~There(r)
    /\ Become(S, "UNREAD")

\* replaceAttachments deletes those whose URL is gone.
DeleteRows(S) == Become(S, "ABSENT")

\* An operator has a row read again, or a task of an earlier offer finds it read.
Reopen(r) ==
    /\ There(r)
    /\ Become({r}, "UNREAD")

Conclude(r) ==
    /\ reading[r] = "UNREAD"
    /\ verdict[r] \in Verdicts
    /\ Become({r}, verdict[r])

\* Also of a row just recorded as read, when a later call of its task throws.
GiveUp(r) ==
    /\ There(r)
    /\ Become({r}, "FAILED")

RowsNext ==
    /\ UNCHANGED verdict
    /\ \/ \E S \in SUBSET Row : InsertRows(S) \/ DeleteRows(S)
       \/ \E r \in Row : Reopen(r) \/ Conclude(r) \/ GiveUp(r)

RowsSpec == RowsInit /\ [][RowsNext]_rows

===============================================================================
