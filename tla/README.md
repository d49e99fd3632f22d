# Verification of the Gov Jobs Alert backend

TLA+ models of the NestJS service in this repository, TLC runs that check them on small
instances, and TLAPS proofs of what matters most for every instance. The service crawls
government job announcements, reads their attachments, matches them against the alerts of its
users, and emails the matches. What makes it hard is that almost nothing is transactional: a
crawl, a matching task, an email, a password change or an edit is each a row of separate database
and queue calls, several of them run at once, any of them may fail or die between two calls, and
the queue tries again.

## The system

| Component | State it keeps | Operations | Interacts with | What must hold |
|---|---|---|---|---|
| Crawler runs: `modules/crawler/crawler.service.ts` (`run`, `runAll`, `startRun`, `releaseStaleRuns`), registry, controller, scheduler | `crawler_run`, unique `(source) WHERE RUNNING` | claim the slot, release a stale one, record the outcome | HTTP callers and cron; ingest inside the slot | one active row per source; a crash does not block the source for ever |
| Source crawlers: `ocsc/`, `dol/`, `mdes/` | `reference_item` for OCSC | sync taxonomies, fetch with retries, page, parse, reject | portals; reference cache; ingest | a sweep misses nothing it could have seen; one bad announcement or page never fails a crawl |
| Reference cache: `modules/reference/`, `shared/cache/` | cache entries, in memory or Upstash | remember, forget | crawls; filters | not stale after a crawl |
| Crawl ingest: `crawler.service.ts` (`persist`, `replaceAttachments`, `enqueueMatching`, `enqueueDocuments`), `normalization.ts` | `job`, `job_attachment` | insert, touch, update an announcement; replace its attachments; hand over | sources, matching and document queues | `first_seen_at` never moves; readings survive; changed content is matched |
| Documents: `modules/documents/` | `job_attachment.extraction_*` | download, extract, reuse a twin, re-match | document queue; matching queue | text is of the file; no attachment stuck; the byte cap |
| Alert matching: `modules/job-alerts/alert-matching.service.ts`, `job-matching.processor.ts` | `job_alert_match`, `crawler_run.alert_matches` | find alerts, insert matches, count, dispatch | matching queue; dispatch | one match per alert and announcement, counted once |
| Notification dispatch: `modules/notifications/notification-dispatch.service.ts`, controller | the email queue | immediate emails, daily and weekly digests | workflow cron; email queue | one email per match, one digest per period |
| Email worker: `email-notification.processor.ts`, `modules/email/` | `notified_at`, `email_log`, `last_sent_at` | load, read, send, mark | provider | at least once; nothing marked that was not sent |
| Queues: `queue.constants.ts`, `modules/queue/` | BullMQ jobs in PostgreSQL | de-duplicate by id, retry, recover stalled work, retain | every producer and worker | ids prevent what they are said to prevent |
| Job alerts: `job-alerts.service.ts`, `unsubscribe.service.ts` | `job_alert` | create, edit, pause, resume, delete, unsubscribe | users; matching and email read it | no mail after an unsubscribe; no back catalogue after a resume |
| Sessions and accounts: `modules/auth/` | `refresh_token`, `user` | login, refresh, logout, change password, delete | every authenticated request | a logout is final; the last administrator stays; a deleted account is forgotten |
| Saved jobs: `modules/saved-jobs/` | `saved_job` | save, remove, list | account deletion | gone with the account |
| Admin: `modules/admin/`, `admin:promote` | `user.role` | read-only dashboards; change a role | account deletion | numbers are those of the rows |
| Jobs search, shared utilities: `modules/jobs/`, `shared/` | none | filter, sort, page, status, dates, text | everything that lists | what is shown is what was asked for |
| Health, configuration, migrations; HTTP layer (guards, filters, DTO validation) | none | | | not modelled |

The hazards in `PROJECT.json` list, at its line, each thing in this code that a test would
hardly reach; each names the properties that watch for it, or says why none does.

How the parts hang together: the scheduler or a caller claims a source's slot (CrawlerRuns); inside
it the crawl syncs taxonomies and sweeps the portal (SourceCrawl, Announcements), stores what it
found and hands ids to two queues (CrawlIngest). The document worker reads attachments and asks for
matching again (Documents). The matching worker and the digests queue emails, and the email worker
sends and marks them (AlertDelivery, which implements MatchLedger). Users edit alerts, sign in and
out and delete accounts meanwhile (Accounts, Sessions). Each model keeps the steps of its
neighbours that touch its state: CrawlIngest has the workers in outline, Documents has crawls that
insert and delete rows, AlertDelivery has the edits, Accounts has matching and mailing.
Where two models meet in one piece of state, an abstract specification says what both keep to:
AttachmentRows for the rows CrawlIngest and Documents share, TaskQueue for the queues of
AlertDelivery and Documents.

## The modules

Time, ids and content are abstract. Each component has a module in which its handlers go call by
call: one TLA+ step is one database or queue call, with what follows it in memory, and a step may
fail wherever the call may. Two calls are joined where a section below says so. Next to another
component a worker is in outline: its writes are there, one by one, and its reads are not. Every
definition's lines are in the `map` of `PROJECT.json`.

### CrawlerRuns

`run` and `runAll` for a set of concurrent callers. `pc[c]` is where a call is between its
database calls: `release` (before `releaseStaleRuns`), `claim` (before `startRun`), `crawl` (in
the `try` block), `succeed` and `fail` (before the final updates). `SlotTaken` is the partial
unique index. `Record` is the final update, which goes by id alone: a crawl released as stale
writes its outcome over the FAILED of its release. `Crash` drops a call and leaves its row;
`DatabaseError` is a rejected UPDATE or INSERT, after which the loop goes on. The age of a
RUNNING row counts clock ticks and saturates one above `StaleAfter`, and ids of ended rows that
no live call refers to are used again, so neither time nor the number of crawls is bounded.

### SourceCrawl

One crawl up to the point where its announcements are persisted, and the readers of the cached
taxonomies. `Start`, `Upsert`, `PassOver` (an endpoint that answered no rows), `TryAgain` and
`SyncFails` are `syncReference`; `Forget` and `ForgetFails` the invalidation, which on Upstash is a
request that may be lost while the entry stays; `ReadPage`, `EndOfArchive`, `CutShort` and
`ListingFails` the sweep of `ListingPages` pages, newest first, where a failed page after the first
ends the sweep and a failed first page fails the crawl. `Miss`, `Load`, `Write` and `ReadFails` are
`CacheService.remember`. The portal publishes, withdraws and relabels between any two requests. The
source and the cache provider are chosen once, so a run covers each combination.

### CrawlIngest

What happens inside the slot, for crawls of one source that may overlap (which CrawlerRuns shows
they can). An announcement's content is its hash and its attachments are URLs, because
`HASHED_FIELDS` leaves attachments out: an *edition* is a pair of both. `Find` is `findOne`;
`Insert`, `Touch` and `Update` are the three branches of `persist`; `ReadAttachments`,
`DeleteStale` and `InsertMissing` are the calls of `replaceAttachments`, the last refused by the
unique constraint if another crawl inserted first. `FindChanged` and `AddMatching` are the two
calls of `enqueueMatching`, `FindUnread` and `AddDocuments` those of `enqueueDocuments`: what was
found (`ids`, `offer`) may be out of date when it is added. `Fail` at any point is a throw or a
death, and what was written stays. `firstSeen` counts crawls. `Publish` and `Withdraw` are the
source.

The workers are in outline. The matching queue is the record of each id `match--job--hash`; `Match`
reads the content as it is then, and `MatchFails` is a task that used up its attempts. The document
worker takes one task at a time: `BeginReading` writes PROCESSING whatever the row says, as
`process()` does, `RecordText` the text, and `RecordFailure` a failure, which may come after the
text was recorded, when `requeueMatching` throws. `StopReading` ends an attempt anywhere else, by
return, throw or death. After the last two the task is gone or back in the queue, so a row already
read may be read again. Failed document tasks are retained in Documents only.

History variables (`matched`, `gaveUp`, `stored`, `reverted`, `broken`, `overlapped`) are read by
no action.

### Documents

`FindPending` and `AddOffered` are the two calls of `enqueueDocuments`: up to `BatchSize` PENDING
rows, oldest first, are added, and an id the queue still has is dropped. `Load`, `Begin`, `Fetch`,
`Chunk`, `StreamEnds`, `FindTwin`, `FindNoTwin`, `Extract`, `Record`, `Rematch`, `LogFailure`,
`RecordFailure` and `Return` are the calls of `process()` in order; `FetchRefused` and
`StreamFails` end a download early. The buffer of `readCapped` has its length and its doubling,
cut at the cap. A file stands for its bytes, its SHA-256 and its text. `CallFails` is a call that
throws inside the `try`, and so becomes a recorded failure; `Throw` is one outside it, which costs
an attempt; `Die` is a stall. `Insert` and `Delete` are what crawls do to rows, `Reset` an operator
who sets a row back to PENDING. A failed task is retained until `Expire`. The matching task
`match-doc--id` has `MatchReads` and `MatchEnds`, because a task asked for while an earlier one is
running is dropped: that is what `ReadIsMatched` excuses, and nothing more. `Expire` may happen or
not: see Fairness. History: `why`,
`heard`, `troubled`, `abandoned`, `unmatched`.

### AlertDelivery

From a stored announcement to a marked match: the matching worker (`FindAlerts`,
`InsertMatches`, `CountMatches`, `PickImmediate`, `AddEmails`), the digests (`CollectDigests`,
`AddDigests`), the email worker (`LoadAlert`, `ReadMatches`, `Send`, `Mark`, `Return`), and what
users do meanwhile (`Create`, `Pause`, `Resume`, `Reactivate`, `SetFrequency`, `Remove`). Every
step of a worker is one call, and between any two `Fail` (a call throws) or `Stall` (the process
dies) may send the work back to the queue or, when its attempts are used up, to the failed set.

* The id of an immediate email is the match it carries: `immediateEmailJobId` hashes the set of
  matches of one dispatch, a task dispatches the matches of one announcement, and the set is
  grouped by alert, so it has one element. (Digests has the grouping itself.)
* The id of a digest is alert, frequency and period. A weekly period is `day \div Week`.
* `old` are the records completed before today: the ones whose 24 hours of retention may be over.
  `Keep` is the count of 500 after which they go earlier. Failed records are kept for seven days,
  longer than the modelled calendar.
* The day counter wraps after `Days` days; the ids of the new period are then fresh ones.
* `FindAlerts` and `LoadAlert` join taking the work and making the first read.
* Left out: email contents, `email_log`, `last_sent_at`, criteria edits, back-off delays.

### MatchLedger

What the pipeline promises about a match, with no queue or worker in it: recorded once, marked
only after it was delivered, never taken back, dropped only with its alert. `AlertDelivery`
instantiates it with `delivered` as the matches some accepted email carried, checks it as the
property `KeepsLedger` and proves it.

### AttachmentRows, TaskQueue

Two more abstract specifications, which the detailed ones are proved to implement. *AttachmentRows*
is what may become of `job_attachment`: rows are inserted unread, deleted, read again, and given a
verdict only while unread and only the one their file has. CrawlIngest implements it with the
document worker in outline, Documents with crawls in outline: the two sides of the table agree.
*TaskQueue* is what this code takes a BullMQ queue to do: an id is added only if the queue has no
record of it, taken with a slot to spare, let go by its worker or a fault, tried at most `Attempts`
times and recovered at most `MaxStalled`, and forgotten only when nobody works on it. The matching
and the email queue of AlertDelivery are instances of it, and the document queue of Documents with
one slot. When AlertDelivery's calendar wraps, a digest id of the new period stands for a fresh
one, which is to the queue as if the old one had been forgotten.

### Sessions

Refresh tokens under overlapping requests. `Register` and `Login` end in `IssueSession`; `Present`
is the read and the checks of `refresh` (a live token goes on to `Rotate`, a rotated one within its
grace straight to a new session, anything else is refused); `Rotate` is the update that goes by id
alone, whatever the row says by then; `Logout` revokes a live token by its hash. `BeginChange`,
`SetPassword` and `RevokeAll` are `changePassword`; `Fail` drops a request between its calls. A
password is the number of times it was changed, and every token remembers (`since`) the password
its session goes back to. History names exactly the races: `raced` tokens were written to while a
request was about to rotate them, `excused` requests were overtaken by a password change, `half`
users had a change that ended between its writes.

### Accounts

The alert, the saved jobs, the log and the row of a user. `ReadUser` and `InsertAlert` create an
alert; `Pause`, `Resume` and `Update` read it and change the copy; `Compare` is the SELECT of
TypeORM's `save`, which finds the columns that differ, and `Write` writes those; `Reinsert` is what
`save` does when the row is gone. `DeleteSoftly` and `DeleteAlert` remove it, `FindByToken` and
`Silence` are the unsubscribe link, `Discover` and `Match` the announcements it hears of.
`BeginDelete`, `CountAdmins`, `EraseLog` and `RemoveUser` are `deleteAccount`; `SetRole` is
`admin:promote`; `SaveJob` and `UnsaveJob` are single statements; `LoadAlert` and `LogMail` an
email being sent. History: `silenced`, `removed`, `missed`, `patched`, and `overtaken` for alerts
that somebody wrote to while a request held a copy, `straddled` for users deleted while an email to
them was under way, `meddled` for deletions that overlapped another or the command.

### Announcements, Listings, Digests

Pure operators. *Announcements*: Thai text and dates, the listings and pages of the portals, the
job each becomes, and its hash. *Listings*: the status of a job in code and in SQL (three-valued),
the filters of the listing and of an alert, an edit of the filters, pages, the admin's counts.
*Digests*: days of Bangkok and ISO weeks, the grouping of matches into emails, subject and fields
of an email. What is claimed of them is in `AnnouncementChecks`, `ListingChecks` and
`DigestChecks`, as named assumptions over bounded inputs; most of those whose proof needs no
induction over data are theorems of all inputs as well, in the proof modules below.

### Proof and model-checking modules

Each of the eight state machines `M` has its theorems in `M_proofs`; those about Listings are in
`Accounts_proofs`, about Digests in `AlertDelivery_proofs`, about Announcements in
`SourceCrawl_proofs`. `MCCrawlIngest`,
`MCDocuments`, `MCAlertDelivery`, `MCSessions`, `MCAccounts` and `MCSourceCrawl` give the sets of
the instances; three of them extend the `*Checks` modules so that TLC evaluates those with a run.

## The runs

| Run | Checks | Instance |
|---|---|---|
| CrawlerRuns | `OneActivePerSource`, `OverlapOnlyPastLimit`, `EndedStaysEnded`, `OrphanIsReleased` | two callers, three rows, a crawlable and an unsupported source, stale after one tick |
| CrawlerRunsOverlap (violation) | `OneCrawlPerSource` | the same with one source |
| SourceCrawl | `StaleOnlyIfOvertaken`, `SweepMissesNothing` | OCSC and DOL, memory and Upstash, two endpoints, three pages of one announcement, two attempts, two readers, four announcements, one edit of a taxonomy |
| CrawlIngest | `UnmatchedOnlyAfterFailure`, `AttachmentsFitContent`, `FirstSeenNeverMoves`, `ReadingSurvives` | one announcement, three editions over two contents and two files, batches of one attachment, two crawls, which may overlap |
| CrawlIngestUnmatched (violation) | `StoredIsMatched` | one crawl at a time, three in all |
| Documents | `BufferHolds`, `TextFitsFile`, `FailureIsOwn`, `StuckOnlyIfAbandoned`, `ReadIsMatched`, `PendingIsRead` | two attachments of one file or of two; a file of exactly the cap (3 units), a scan, one over the cap; batch 1, one attempt, one stall, one fault, one reset |
| AlertDelivery | `NotifiedMeansSent`, `SentOncePerOffer`, `OfferedOnce`, `CountedAtMostOnce`, `CarriedUntilFault`, `OneDigestPerPeriod`, `KeepsLedger` | one alert, one announcement matched after its crawl and after its document, immediate and daily, two attempts, one failure, one edit of an active alert and any of a paused one, two days |
| AlertDaily | `DailyIsDelivered` | one daily alert, one task, two failures, enough to fail a digest for good, one edit as above |
| AlertImmediate (violation) | `ImmediateIsCarried` | one immediate alert, one failure |
| AlertWeekly (violation) | `OneDigestPerPeriod` | one weekly alert, two announcements a day apart, no failure |
| Sessions | `SignedOutStaysOut`, `GraceIsNotExtended`, `OldSessionsEnd` | one user, two requests at a time, two refresh tokens, two password changes, a grace of one tick and two ticks |
| Accounts | `SilencedStaysOff`, `MissedIsNotHeard`, `RemovedStaysRemoved`, `GoneIsForgotten`, `FloorNeverMovesBack`, `AdminRemains` | two users, one with an alert, two requests at a time, one announcement |

Every passing run but AlertDaily checks its module's `TypeOK` too. Three runs evaluate the
assumptions of a pure module at their start: SourceCrawl those of `AnnouncementChecks` (texts of up
to four characters, every day of 1857 to 2450 in both eras, listings of up to three cards),
Accounts those of `ListingChecks` (dates, salaries, ids, pages of up to four rows), AlertDelivery's
those of `DigestChecks` (every day of 1970 to 2029).

Why the bounds are enough. Two callers, crawls, readers or requests are what a race needs; three
rows let an orphan, its successor and a third claim exist together. One announcement suffices for
ingest because no step relates two of them (`enqueueDocuments` chooses any, so its order is open);
two contents and two files give every combination of changed and unchanged; two crawls are an
earlier and a later one as well as an overlap, and the five properties are proved for every number.
Crawls and files are interchangeable there, and TLC treats them so (`Symmetry`; the run has no
liveness property). Two attachments make a twin, and with a batch of one the older of them can keep
the younger waiting. A buffer of one unit doubles and is cut at the cap of three. One alert and one
announcement suffice for delivery where the property is about one match; two tasks make the
duplicate, and one failure or death can fall between any two calls. Two attempts let a failed email
be retried and, in AlertDaily, run out. `AlertWeekly` needs a second announcement, because a second
digest needs something pending. Two tokens are a token and the one it is rotated into, and two
password changes matter because they can overlap. Two users are needed for the last administrator
only, so one of them has an alert. Three pages of one announcement and a fourth announcement let
every announcement be pushed over a page boundary. With alerts that every announcement satisfies,
the filters of `findMatchingAlerts` are not exercised; the proofs leave `Criteria` arbitrary and
Listings has the filters themselves.

What the passing runs say that is not obvious.

* *Sessions*: a logout is final, except that a refresh which read the token before the logout
  writes "rotated" over it, and the token is then forgiven for the grace (`raced`). The same double
  read is the only way to make a grace longer. A password change ends every session, except one
  issued to a request that had read its token or user before, to a second change that overlaps the
  first, or when the process dies between its two writes.
* *Accounts*: `save` writes only what it finds different from the row as it is then, so a request
  that read an alert earlier undoes an unsubscribe only for a column it differs in; and it inserts
  a deleted alert again. Each exception of the properties is one such history. `AdminRemains` has
  the overlap of two deletions, or of one with `admin:promote`, as its exception. `GoneIsForgotten`
  has one email that was being sent.
* *CrawlIngest*: no crawl that finds an attachment read has it read again, but an older task may.
  `ReadingSurvives` says so: a COMPLETED row leaves that state only if its URL left the edition
  being stored, or for a task that was in the queue, or about to be added, before it was read; and
  no crawl finds it to add it again.
* *Documents*: a failed re-matching after a successful read is recorded as a failure of the
  document (`Rematch` under `CallFails`), and a re-matching task asked for while one is running is
  dropped. A row stays PROCESSING only when its task ran out of attempts or stalls. A PENDING row is
  read unless it is starved: its own task failed and is retained, or retained failures of older
  PENDING rows fill every batch. BullMQ drops such records by age only when another task of the
  queue fails, so with nothing added nothing need ever free them, and the comment at
  `crawler.service.ts:329` ("the next crawl picks it up") does not hold of such a row.
* *SourceCrawl*: a stale copy is served for an hour at most after a failed sync, a failed delete,
  or a reader that overlapped the sync. A withdrawn announcement can make a sweep miss another.
* *Listings*: an alert and the listing differ where a job leaves its type or province open
  (`AlertsHearWhatSearchFinds`). They also differ in what text is searched: the listing looks into
  the ministry, which an alert's keywords do not, and alerts look into descriptions and documents.

What the four violations show.

* *OneCrawlPerSource*: `README.md:202` says one run per source at a time. That holds of RUNNING
  rows (`OneActivePerSource`) but a crawl slower than 30 minutes is declared dead while it works.
* *StoredIsMatched*: `README.md:415` says matching runs over what was inserted or changed. A crawl
  that fails after some of its writes never hands them over, and the next one sees no change.
  `UnmatchedOnlyAfterFailure` shows that without a failure of a crawl or of the matching task, and
  without content going back to an earlier hash whose task id is retained, overlap alone loses
  nothing.
* *ImmediateIsCarried*: a matching task that fails after its insert finds nothing new on its
  retry, so an immediate email is never queued. `CarriedUntilFault` shows the failure is necessary.
* *OneDigestPerPeriod* under WEEKLY: `README.md:472` says a cron that fires twice in a period
  queues one digest. The id is remembered for 24 hours, so a second call later in the week queues
  another. The shipped workflow calls it on Mondays only; within one day, and for DAILY, it holds.
  For DAILY it holds as long as the queue completes no more than `removeOnComplete.count` = 500
  emails a day: the instance does not reach `Keep`, and `DigestOnceADay` states it for all.

`CHECK_DEADLOCK FALSE` is set for the runs of AlertDelivery, Documents, Sessions and Accounts only:
when every task is done, every token issued or every bound used up, they rest.

## Fairness

`CrawlerRuns!FairSpec`: the clock runs and the scheduler's call comes again (`CrawlerScheduler`);
a crawl that started ends, since every request has a timeout and a retry limit. The steps from the
cron's call to the release are strongly fair: a process that dies, or finds its database down,
every single time before it comes to the release is not something the code could defend against.
Nothing is assumed of other callers.

`AlertDelivery!FairSpec`: days pass, the workflow keeps calling for digests, and a queued digest
is eventually worked on. Workers are strongly fair because a slot may be taken by other emails in
between, and BullMQ serves a queue in order. Failures are finite (`MaxFaults`), which is what
"eventually delivered" has to mean; nothing forces users to leave an alert alone.

`Documents!Fairness`: weak fairness of the hourly crawl's `enqueueDocuments`, of the document
worker and of the matching worker. No crawl is made to insert, delete or succeed, and nobody to
reset a row. `Expire`, by which BullMQ drops a failed task by age, is not fair: it is no timer but
part of failing another task of the same queue, and completed document tasks leave no record that
could count. So the retained record of a failed task may swallow every new offer of its row, and
with a batch of one keep younger rows waiting as well. `PendingIsRead` excepts exactly these
(`Starved`), and is about all other rows.

Sessions, Accounts, SourceCrawl and CrawlIngest state no fairness: nothing in them is promised to
happen.

## What is proved

With tlapm, for every value of the constants that satisfies the assumptions stated beside them
(finite users, alerts and announcements, distinct ids, bounds that are numbers):

* **CrawlerRuns.** `TypeCorrect`, `OneActive`, `OverlapBounded`, `EndedForGood`. The inductive
  invariant says that a crawl in progress holds a row of its source, that no two calls hold one
  row, and that a held row which is not RUNNING has aged past the limit. The last clause carries
  `OverlapBounded`: of two crawls of one source one row is not RUNNING, hence released, hence old.
* **SourceCrawl.** `TypeCorrect`, `CacheFollowsTable`, `SweepIsComplete`. `Stale` adds that a reader
  about to write what the table no longer holds is known to be behind. `Swept` adds, for each page
  of a sweep, that what the pages before it hold has been collected. It rests on two facts about
  pages, proved with cardinalities and a largest element: while none is withdrawn announcements only
  move away from the first page, and an empty page has none after it. Of Announcements,
  `DatesAreReadAlike`, for all integers.
* **CrawlIngest.** `IngestTypeCorrect`, `FirstSeenStays`, `ReadingStays`,
  `OnlyFailuresLoseMatches`, `OnlyFaultsMixEditions`. `IngestInv` says that a crawl which writes
  has an announcement and an edition of it in hand and writes attachments of a stored one only,
  that tables, queues and what crawls are about to add refer to stored announcements only
  (`Known`), and that document tasks and offers are of rows that are there (`Rowed`). `TellInv`
  says that a content not yet matched has a waiting task, one that failed for good, or a crawl that
  will name or add one (`WillTell`), and that task ids, added or only found, are of contents an
  announcement has had (`Recorded`), so that a content never had before finds its id free. `FitInv`
  says that a crawl alone knows exactly what it has written and read of an announcement's files at
  each call (`HalfWay`). `ImplementsRows` maps each step to one of AttachmentRows.
* **Documents.** `TypeCorrect`, `TextIsOfTheFile`, `BufferIsLargeEnough`, `FailuresAreOwn`,
  `OnlyAbandonedAreStuck`, `ReadDocumentsAreMatched`. `Holding` ties the worker to the one active
  task; `Fits` says of the result in hand what the property says of rows; `Troubled`, `Stuck` and
  `Matched` say of the attachment in hand what the property says of it once it is let go.
  `ImplementsRows` needs one more, `Open`: the row in hand was inserted, and from the write of
  PROCESSING to the verdict it stays unread unless it is deleted. `ImplementsQueue` is the
  document queue as a TaskQueue.
* **MatchLedger.** `LedgerDelivers`, `LedgerNeverGoesBack`.
* **AlertDelivery.** `DeliveryTypeCorrect`, `NotifiedSent`, `OneOffer`, `CountedOnce`,
  `NobodyDropsIt`, `SentForAnOffer`, `DigestOnceADay`, `ImplementsLedger`, `ImplementsQueues`.
  `DeliveryInvariant` says that a worker is somewhere exactly while its work is active, that work
  which will run has tries left, and that what an email worker is about to send is recorded and
  what it is about to mark was sent. `OfferInv`: at most one task sees to a new match, and it has
  not queued it before. `CountInv`: the count and the matches tasks are about to count are together
  no more than the matches there are. `CarryInv`: an immediate email keeps its one match from its
  queueing to its mark, and an alert nobody edits stays active. `SendInv`: the emails that may
  still carry a match, plus what was sent, are no more than what was queued plus what was lost,
  counted over the finite set of email ids. `DayInv`: a digest of the current period was queued at
  most once on each day so far, and if on today as well the queue has it still. It holds while the
  queue retains what it completed (`Retained`), which is the hypothesis of `DigestOnceADay`: no
  digest is queued more often than its period has days, which for a daily alert is once.
  `ImplementsLedger` maps each action to the ledger's Record, Deliver, Notify, Drop or a stutter.
* **Digests**, in the same module: `EachInOneEmail`, `OneMatchPerEmail`, `OneKeyPerWeek`,
  `WeekTurnsAtSeven`, `ZeroHidesMaximum`. The week key rests on a year having 365 or 366 days and on
  the least year that has not begun by a day.
* **Sessions.** `TypeCorrect`, `RevokedStaysRevoked`, `GraceIsOfTheFirst`,
  `PasswordChangeEndsSessions`. `RotatesLive`: a request rotates a token that is live or that
  another wrote to meanwhile. `StaysRevoked` and `FirstStands`: what the row of a revoked token
  says unless two requests raced for it. `Latecomers`: why a request may be about to issue a
  session of an earlier password.
* **Accounts.** `TypeCorrect`, `DeletionForgets`, `LastAdminStays`, `DeletedStaysDeleted`,
  `UnsubscribedStaysOff`, `FloorStays`, `MissedStaysUnheard`. `Forgetting` is what the email worker
  and a deletion in progress may still write; `Guarded`, that whoever deletes an administrator has
  seen another; `Birth`, that an alert is made once; `Wishes`, `Floors` and `Heard` relate the copy
  a request will save to the row, unless another request wrote to the row meanwhile.
* **Listings**, in the same module: `OneStatus`, `StatusOnlyMovesOn`, `AlertsHearWhatIsFound`,
  `SalariesOverlap`, `FiltersAreNotCleared`, `PagesAreBounded`, `PagesPartitionTheRows`,
  `ListingAgreesWithItself`, `EveryRowIsCounted`, for every job, query, day and finite set of rows.
  Pages rest on the number of rows before a row being a bijection onto 0 .. n - 1.

What is only model-checked. Liveness, which is out of the prover's reach: `OrphanIsReleased`,
`DailyIsDelivered`, `PendingIsRead`. `OneDigestPerPeriod`, which is false in general (AlertWeekly,
or more emails a day than `Keep`): `DigestOnceADay` is what holds of every instance. Of the
assumptions of the `*Checks` modules, for the inputs they enumerate: those about what a fold
computes, which would need induction over sequences (the spellings of Thai text and the words found
in it, the DOL and MDES listings, the halves of an OCSC field, failures since the last success);
those about the hash of a job, a function built with `@@`, which the prover does not know; and
three about single records, what is rejected, an impossible date that is kept, and what an email
prints for a label that is missing.

## Not modelled

* *HTTP layer*: guards, filters, decorators, DTO validation and the throttle decide which requests
  reach the services and keep no state. *Health, configuration, migrations*: I/O and wiring; the
  constraints the migrations create are in the models that rely on them, and the configured
  numbers are constants.
* *Parsing*: the regular expressions that find a card, a link or a date in a page, HTML entities,
  what a PDF or DOCX parser makes of a file (a constant of Documents), LIKE wildcards in `q`, the
  layout of an email. *BullMQ and PostgreSQL* are external and modelled as this code uses them;
  back-off delays are left out because no property is about time between attempts.
* *Left out of a modelled part*: announcements pinned above a listing are read with the page they
  are on (ParseDolListing has them, the sweep of SourceCrawl does not); a reset twin that is
  re-read copies the text its twin had; the seed command fills the taxonomies in a process of its
  own and leaves a memory cache of another stale for up to an hour; access tokens and the 30 days
  of a refresh token; `pruneExpiredTokens`, which nothing calls; `lastSeenAt`, which no code reads
  back, and `lastSentAt`, which alerts and the admin's pages show and nothing else depends on.
* *Hazards without a property*: a file published under another URL with unchanged text is not
  stored (the expectation at `document-processing.service.ts:53`; `AttachmentsFitContent` asks only
  for an edition of the stored content); pending matches of an alert switched from DAILY to
  IMMEDIATE, for which the docs promise nothing; an alert deleted before the insert that names it,
  where the whole insert is refused and the retry no longer finds the alert; two emails in flight
  with one match, which both are sent, as at-least-once delivery allows; and three pure functions,
  which the `*Checks` modules pin down instead (empty lists in a PATCH, impossible dates, ISO
  weeks), all but the impossible dates with a theorem.

## What could follow

The matching queue of CrawlIngest as a TaskQueue, for which its records would need attempts; the
composition of CrawlerRuns with CrawlIngest, in which an overlap is one that the stale limit
allows; weekly digests whose ids are kept for a week, of which there would be one per period.

## Running it

`tlc -config X.cfg M` for a run, `tlapm M_proofs.tla` for the proofs, from this directory.
