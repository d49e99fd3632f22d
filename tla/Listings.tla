------------------------------- MODULE Listings -------------------------------
(***************************************************************************)
(* What a reader is shown, and an alert matched with: the status of a job, *)
(* the filters of the listing and of an alert, pages, and the numbers      *)
(* beside the rows of a page.  Operators only; ListingChecks has what is   *)
(* checked of them.                                                        *)
(*                                                                         *)
(* A nullable column is a set of at most one value, an array column a set. *)
(* A condition in SQL is a set of at most one truth value, empty when it   *)
(* is NULL; WHERE keeps the rows for which it holds.                       *)
(***************************************************************************)
EXTENDS Integers, FiniteSets, Sequences

Holds(condition) == condition = {TRUE}

Or(p, q) ==
    IF TRUE \in p \cup q THEN {TRUE} ELSE IF {} \in {p, q} THEN {} ELSE {FALSE}

And(p, q) ==
    IF FALSE \in p \cup q THEN {FALSE} ELSE IF {} \in {p, q} THEN {} ELSE {TRUE}

IsNull(column) == {column = {}}
IsNotNull(column) == {column # {}}

\* = ANY and &&.
AnyOf(column, S) == {(value \in S) : value \in column}
Overlap(S, T) == {S \cap T # {}}

---------------------------------------------------------------------------
(* The status of a job; days are numbers.                                  *)

ResolveJobStatus(job, today) ==
    IF \E start \in job.applicationStart : today < start THEN "UPCOMING"
    ELSE IF \E end \in job.applicationEnd : today > end THEN "CLOSED"
    ELSE "OPEN"

JobStatusSqlExpression(job, today) ==
    IF Holds(And(IsNotNull(job.applicationStart),
                 {today < start : start \in job.applicationStart})) THEN "UPCOMING"
    ELSE IF Holds(And(IsNotNull(job.applicationEnd),
                      {today > end : end \in job.applicationEnd})) THEN "CLOSED"
    ELSE "OPEN"

\* Days left, negative once it is over.
DaysUntilDeadline(job, today) == {end - today : end \in job.applicationEnd}

---------------------------------------------------------------------------
(* Filters.  A query has a set per dimension, empty when it was not given. *)

\* toNumberArray: what is sent is a set of at most one array, and one with no number in
\* it is as if none had been.
ToNumberArray(sent) == {ids \in sent : ids # {}}

\* The filters of what was sent.
QueryJobsDto(sent) ==
    [sent EXCEPT !.jobType = UNION ToNumberArray(@),
                 !.jobCategory = UNION ToNumberArray(@),
                 !.education = UNION ToNumberArray(@),
                 !.province = UNION ToNumberArray(@)]

\* The title, the agency and the ministry; a text is the set of the words in it.
FindsText(query, job) ==
    query.q = {} \/ query.q \cap (job.title \cup job.agency \cup job.ministry) # {}

FindsProvince(query, job) ==
    \/ query.province = {}
    \/ Holds(Overlap(job.provinceIds, query.province))
    \/ ~query.provinceStrict /\ job.provinceIds = {}

FindsSalary(query, job) ==
    /\ \A least \in query.salaryMin :
          Holds(Or(IsNull(job.salaryMax), {max >= least : max \in job.salaryMax}))
    /\ \A most \in query.salaryMax :
          Holds(Or(IsNull(job.salaryMin), {min <= most : min \in job.salaryMin}))

\* applyFilters.
Found(query, job, today) ==
    /\ FindsText(query, job)
    /\ query.jobType # {} => Holds(AnyOf(job.jobTypeId, query.jobType))
    /\ query.jobCategory # {} => Holds(AnyOf(job.jobCategoryId, query.jobCategory))
    /\ query.education # {} => Holds(Overlap(job.educationLevelIds, query.education))
    /\ FindsProvince(query, job)
    /\ \A status \in query.status : JobStatusSqlExpression(job, today) = status
    /\ FindsSalary(query, job)

\* The title, the agency and the description, but not the ministry; the text of documents
\* only where that is configured, and only of those that were read.
BuildHaystack(job, includeDocuments) ==
    LET read == {doc \in job.documents : doc.status = "COMPLETED"}
    IN job.title \cup job.agency \cup job.description
       \cup (IF includeDocuments THEN UNION {doc.words : doc \in read} ELSE {})

\* findMatchingAlerts: a keyword of the alert is in what it is matched with, and each
\* filter it has is met; an announcement with no type or no province meets every one.
Matches(alert, job, includeDocuments) ==
    /\ alert.isActive
    /\ alert.matchFrom <= job.firstSeenAt
    /\ alert.keywords = {} \/ alert.keywords \cap BuildHaystack(job, includeDocuments) # {}
    /\ Holds(Or(Or({alert.jobTypes = {}}, IsNull(job.jobTypeId)),
                AnyOf(job.jobTypeId, alert.jobTypes)))
    /\ Holds(Or({alert.educations = {}}, Overlap(alert.educations, job.educationLevelIds)))
    /\ Holds(Or(Or({alert.provinces = {}}, {job.provinceIds = {}}),
                Overlap(alert.provinces, job.provinceIds)))

\* update: what was not sent stays as it is.
Updated(kept, sent) == IF sent = {} THEN kept ELSE UNION sent

UpdatedAlert(alert, dto) ==
    [alert EXCEPT !.keywords = Updated(@, dto.keywords),
                  !.jobTypes = Updated(@, ToNumberArray(dto.jobTypes)),
                  !.educations = Updated(@, ToNumberArray(dto.educations)),
                  !.provinces = Updated(@, ToNumberArray(dto.provinces))]

---------------------------------------------------------------------------
(* Pages of rows, each with an id and columns; a page is a set of rows, in *)
(* the order of Precedes.                                                  *)

DefaultPageSize == 20
MaxPageSize == 100

Within(low, n, high) == IF n < low THEN low ELSE IF n > high THEN high ELSE n

\* A number that was not given is the empty set.
GetPaginationOptions(query) ==
    LET given(n, otherwise) == IF n \in {{}, {0}} THEN otherwise ELSE CHOOSE k \in n : TRUE
        page == given(query.page, 1)
        limit == Within(1, given(query.limit, DefaultPageSize), MaxPageSize)
        from == IF page < 1 THEN 1 ELSE page
    IN [page |-> from, limit |-> limit, skip |-> (from - 1) * limit]

LastPage(total, limit) == IF total = 0 THEN 0 ELSE (total + limit - 1) \div limit

\* NULLS LAST in both directions, and the id, descending, between equals.
Precedes(a, b, column, order) ==
    LET x == a.columns[column]
        y == b.columns[column]
    IN IF x = y THEN a.id > b.id
       ELSE \/ y = {}
            \/ \E m \in x, n \in y : IF order = "ASC" THEN m < n ELSE m > n

\* A column to sort by that is not in the allow-list is refused.
Sortable(query, allowed) == query.sortBy \subseteq allowed

\* The rows of a page; a query that names no column has the default one, descending.
Paginate(rows, query, default) ==
    LET options == GetPaginationOptions(query)
        column == IF query.sortBy = {} THEN default ELSE CHOOSE c \in query.sortBy : TRUE
        order == IF query.sortBy = {} THEN "DESC" ELSE query.order
        before(r) == Cardinality({a \in rows : Precedes(a, r, column, order)})
    IN {r \in rows : before(r) \in options.skip .. options.skip + options.limit - 1}

JobSortableColumns ==
    {"publishedAt", "applicationEnd", "applicationStart", "salaryMax", "salaryMin", "title",
     "firstSeenAt"}

\* What is derived for a reader.
ToJobSummary(job, today) ==
    [id |-> job.id, isNationwide |-> job.provinceIds = {},
     status |-> ResolveJobStatus(job, today),
     daysUntilDeadline |-> DaysUntilDeadline(job, today)]

\* JobsService.findAll: one "today" for the filter and for the status of every row.
FindAll(jobs, query, today) ==
    LET found == {job \in jobs : Found(query, job, today)}
        limit == GetPaginationOptions(query).limit
    IN IF ~Sortable(query, JobSortableColumns) THEN [refused |-> TRUE]
       ELSE [refused |-> FALSE,
             data |-> {ToJobSummary(job, today) : job \in Paginate(found, query, "publishedAt")},
             total |-> Cardinality(found),
             lastPage |-> LastPage(Cardinality(found), limit)]

\* SavedJobsService.findAll: the jobs a user saved.
FindSaved(saved, user, query) ==
    Paginate({s \in saved : s.user = user}, query, "createdAt")

---------------------------------------------------------------------------
(* The numbers beside the rows of a page, and the dashboard.               *)

\* GROUP BY: an owner with no row has no entry.
Counts(owners, rows) ==
    [o \in {p \in owners : \E r \in rows : r.owner = p} |->
        Cardinality({r \in rows : r.owner = o})]

CountOf(counts, o) == IF o \in DOMAIN counts THEN counts[o] ELSE 0

\* AdminService.users.
Users(users, query, alerts, saved) ==
    LET page == Paginate(users, query, "createdAt")
        alertCounts == Counts({u.id : u \in page}, alerts)
        savedJobCounts == Counts({u.id : u \in page}, saved)
    IN {[id |-> u.id, alertCount |-> CountOf(alertCounts, u.id),
         savedJobCount |-> CountOf(savedJobCounts, u.id)] : u \in page}

\* AdminService.alerts, and JobAlertsService.findAll over the alerts of its user.
Alerts(alerts, query, matches) ==
    LET page == Paginate(alerts, query, "createdAt")
        matchCounts == Counts({a.id : a \in page}, matches)
    IN {[id |-> a.id, matchCount |-> CountOf(matchCounts, a.id)] : a \in page}

\* The latest runs come first; one that is RUNNING neither counts nor ends the count.
CountLeadingFailures(runs) ==
    Cardinality({i \in DOMAIN runs : /\ runs[i].status = "FAILED"
                                     /\ \A j \in 1 .. i - 1 : runs[j].status # "SUCCESS"})

RecentRuns == 20

\* overview: `runs` has the latest first, of which it looks at RecentRuns.
Overview(users, jobs, saved, alerts, matches, emails, runs, today) ==
    LET recent == SubSeq(runs, 1, Within(0, Len(runs), RecentRuns))
        \* The number of rows of a table for which a condition holds.
        count(rows, condition(_)) == Cardinality({r \in rows : condition(r)})
    IN [users |-> Cardinality(users),
        admins |-> count(users, LAMBDA u : u.role = "ADMIN"),
        jobs |-> Cardinality(jobs),
        openJobs |-> count(jobs, LAMBDA j : JobStatusSqlExpression(j, today) = "OPEN"),
        savedJobs |-> Cardinality(saved),
        alerts |-> Cardinality(alerts),
        activeAlerts |-> count(alerts, LAMBDA a : a.isActive),
        alertMatches |-> Cardinality(matches),
        pendingNotifications |-> count(matches, LAMBDA m : ~m.notified),
        emailsSent |-> count(emails, LAMBDA e : e.status = "SENT"),
        emailsFailed |-> count(emails, LAMBDA e : e.status = "FAILED"),
        lastCrawlerRun |-> {recent[i] : i \in DOMAIN recent \cap {1}},
        consecutiveFailures |-> CountLeadingFailures(recent)]

=============================================================================
