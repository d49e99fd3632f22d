---------------------------- MODULE ListingChecks ----------------------------
(***************************************************************************)
(* What Listings computes, checked over bounded inputs against what it is  *)
(* for.  TLC evaluates these with the run of MCAccounts.                   *)
(***************************************************************************)
EXTENDS Listings

Nullable(S) == {{}} \cup {{s} : s \in S}

---------------------------------------------------------------------------
(* Status.                                                                 *)

Day == 0 .. 4

DatedJob == [applicationStart : Nullable(Day), applicationEnd : Nullable(Day)]

\* The status shown is the status filtered by, whichever date is missing (resolveJobStatus,
\* jobStatusSqlExpression).
ASSUME OneStatus ==
    \A job \in DatedJob, today \in Day :
        ResolveJobStatus(job, today) = JobStatusSqlExpression(job, today)

\* From a day to the next no job goes back, and what is CLOSED has no day left
\* (daysUntilDeadline).
ASSUME StatusOnlyMovesOn ==
    LET rank == [UPCOMING |-> 0, OPEN |-> 1, CLOSED |-> 2] IN
    \A job \in DatedJob, today \in Day :
        /\ rank[ResolveJobStatus(job, today)] <= rank[ResolveJobStatus(job, today + 1)]
        /\ ResolveJobStatus(job, today) = "CLOSED" =>
               \A left \in DaysUntilDeadline(job, today) : left < 0

---------------------------------------------------------------------------
(* Filters.                                                                *)

Wage == 0 .. 3

Salaries == [salaryMin : Nullable(Wage), salaryMax : Nullable(Wage)]

\* The amounts between two bounds, either of which may be missing.
Between(bounds) ==
    {w \in Wage : /\ \A least \in bounds.salaryMin : least <= w
                  /\ \A most \in bounds.salaryMax : w <= most}

\* The salary filter keeps the jobs that may pay an amount that is asked for, those that do
\* not say included (applyFilters).
ASSUME SalariesOverlap ==
    \A query, job \in Salaries :
        Between(query) # {} /\ Between(job) # {} =>
            (FindsSalary(query, job) <=> Between(query) \cap Between(job) # {})

Ids == SUBSET {1, 2}

FilteredJob ==
    [jobTypeId : Nullable({1, 2}), jobCategoryId : {{}}, educationLevelIds : Ids,
     provinceIds : Ids, salaryMin : {{}}, salaryMax : {{}}, applicationStart : {{}},
     applicationEnd : {{}}, firstSeenAt : {1}, title : {{}}, agency : {{}}, ministry : {{}},
     description : {{}}, documents : {{}}]

FilterQuery ==
    [q : {{}}, jobType : Ids, jobCategory : {{}}, education : Ids, province : Ids,
     provinceStrict : BOOLEAN, status : {{}}, salaryMin : {{}}, salaryMax : {{}}]

\* The alert of the filters of a query.
AlertOf(query) ==
    [isActive |-> TRUE, matchFrom |-> 1, keywords |-> {}, jobTypes |-> query.jobType,
     educations |-> query.education, provinces |-> query.province]

\* Whoever finds a new job in the listing is told of it by an alert of the same filters
\* (applyFilters, findMatchingAlerts); the alert tells of more only where the job leaves its
\* type open, or its province and the query insists on one.
ASSUME AlertsHearWhatSearchFinds ==
    \A query \in FilterQuery, job \in FilteredJob :
        LET found == Found(query, job, 0)
            matched == Matches(AlertOf(query), job, TRUE)
            open == \/ query.jobType # {} /\ job.jobTypeId = {}
                    \/ query.province # {} /\ query.provinceStrict /\ job.provinceIds = {}
        IN found = (matched /\ ~open)

\* An edit can empty the keywords of an alert but not its types, provinces or educations: an
\* empty list of those is as if none had been sent (toNumberArray, update).
ASSUME FiltersAreNotCleared ==
    \A kept, sent \in Ids :
        LET alert == [keywords |-> kept, jobTypes |-> kept, educations |-> kept,
                      provinces |-> kept]
            updated == UpdatedAlert(alert, [keywords |-> {sent}, jobTypes |-> {sent},
                                            educations |-> {sent}, provinces |-> {sent}])
        IN /\ updated.keywords = sent
           /\ updated.jobTypes = (IF sent = {} THEN kept ELSE sent)
           /\ updated.educations = updated.jobTypes
           /\ updated.provinces = updated.jobTypes

---------------------------------------------------------------------------
(* Pages and counts.                                                       *)

ListedJob ==
    [id |-> 0, columns |-> [publishedAt |-> {}], jobTypeId |-> {}, jobCategoryId |-> {},
     educationLevelIds |-> {}, provinceIds |-> {}, salaryMin |-> {}, salaryMax |-> {},
     applicationStart |-> {}, applicationEnd |-> {}, title |-> {}, agency |-> {},
     ministry |-> {}]

\* A page of the listing filtered by a status shows no job with another, counts all that have
\* it, and lists without number what was sent filter nothing (findAll, QueryJobsDto).
ASSUME ListingAgreesWithItself ==
    \A starts, ends \in [1 .. 2 -> Nullable(0 .. 2)], today \in 0 .. 2 :
    \A status \in Nullable({"UPCOMING", "OPEN", "CLOSED"}), list \in {{}, {{}}} :
        LET jobs == {[ListedJob EXCEPT !.id = i, !.applicationStart = starts[i],
                                       !.applicationEnd = ends[i]] : i \in 1 .. 2}
            query == QueryJobsDto(
                [q |-> {}, jobType |-> list, jobCategory |-> list, education |-> list,
                 province |-> list, provinceStrict |-> TRUE, status |-> status,
                 salaryMin |-> {}, salaryMax |-> {}, page |-> {}, limit |-> {},
                 sortBy |-> {}, order |-> "DESC"])
            page == FindAll(jobs, query, today)
        IN /\ ~page.refused
           /\ \A row \in page.data : status \subseteq {row.status}
           /\ page.total = Cardinality({j \in jobs :
                                          status \subseteq {ResolveJobStatus(j, today)}})

\* Whatever is asked for, a page is of 1 to MaxPageSize rows and none is skipped before the
\* first (getPaginationOptions).
ASSUME PagesAreBounded ==
    \A page \in Nullable(-2 .. 3), limit \in Nullable(-2 .. MaxPageSize + 2) :
        LET options == GetPaginationOptions([page |-> page, limit |-> limit])
        IN /\ options.limit \in 1 .. MaxPageSize
           /\ options.skip >= 0 /\ (page \subseteq {1} => options.skip = 0)
           /\ \A k \in limit \cap 1 .. MaxPageSize : options.limit = k

RowBound == 4

\* Rows with equal keys or none are on one page each, in order, rows without a key last in
\* both directions; every page up to last_page but the last is full (paginate).
ASSUME PagesPartitionTheRows ==
    \A n \in 0 .. RowBound, limit \in 1 .. 3, order \in {"ASC", "DESC"} :
    \A key \in [1 .. n -> Nullable({1, 2})] :
        LET rows == {[id |-> i, columns |-> [k |-> key[i]]] : i \in 1 .. n}
            page == [p \in 1 .. RowBound + 1 |->
                        Paginate(rows, [page |-> {p}, limit |-> {limit}, sortBy |-> {"k"},
                                        order |-> order], "k")]
            last == LastPage(n, limit)
        IN /\ rows = UNION {page[p] : p \in 1 .. last}
           /\ \A p \in 1 .. last - 1 : Cardinality(page[p]) = limit
           /\ \A p \in DOMAIN page : page[p] = {} <=> p > last
           /\ \A p, r \in 1 .. last : p < r =>
                \A a \in page[p], b \in page[r] :
                    Precedes(a, b, "k", order) /\ (a.columns.k = {} => b.columns.k = {})

Owned == [id : 1 .. 3, owner : {1, 2}]

\* Every row of a page has its own numbers, those with nothing to count a zero (users).
ASSUME EveryRowIsCounted ==
    \A ids \in Ids, alerts, saved \in SUBSET Owned :
        LET users == {[id |-> i, columns |-> [createdAt |-> {i}]] : i \in ids}
            query == [page |-> {}, limit |-> {}, sortBy |-> {}, order |-> "DESC"]
            count(rows, i) == Cardinality({r \in rows : r.owner = i})
        IN Users(users, query, alerts, saved) =
               {[id |-> i, alertCount |-> count(alerts, i),
                 savedJobCount |-> count(saved, i)] : i \in ids}

\* The failures counted are those since the last success, however many runs are still
\* RUNNING among them (countLeadingFailures).
ASSUME FailuresSinceSuccess ==
    \A n \in 0 .. 5 : \A runs \in [1 .. n -> [status : {"SUCCESS", "FAILED", "RUNNING"}]] :
        LET settled == SelectSeq(runs, LAMBDA r : r.status # "RUNNING")
            failures == CountLeadingFailures(runs)
        IN /\ failures <= Len(settled)
           /\ \A i \in 1 .. failures : settled[i].status = "FAILED"
           /\ failures < Len(settled) => settled[failures + 1].status = "SUCCESS"

=============================================================================
