------------------------------- MODULE Digests -------------------------------
(***************************************************************************)
(* Which matches go into one email, which period a digest is of, and what  *)
(* an email says of a job.  Operators only; DigestChecks has what is       *)
(* checked of them.                                                        *)
(*                                                                         *)
(* Time is in whole hours since 1970-01-01T00:00Z.  An optional value is a *)
(* set of at most one.  Left out: the layout of an email.                  *)
(***************************************************************************)
EXTENDS Integers, FiniteSets, Sequences

---------------------------------------------------------------------------
(* Periods.                                                                *)

UtcDay(hour) == hour \div 24

\* getLocalDateString, in Asia/Bangkok.
LocalDay(hour) == (hour + 7) \div 24

\* Monday is 1; 1970-01-01 was a Thursday.
Weekday(day) == ((day + 3) % 7) + 1

\* 1 January of a year: leap years before it are those of the Gregorian calendar.
YearStart(y) ==
    LET leaps(n) == n \div 4 - n \div 100 + n \div 400
    IN 365 * (y - 1970) + leaps(y - 1) - leaps(1969)

YearOf(day) ==
    CHOOSE y \in 1969 + day \div 366 .. 1971 + day \div 365 :
        YearStart(y) <= day /\ day < YearStart(y + 1)

\* The ISO week is of the year its Thursday is in.
IsoWeekKey(hour) ==
    LET thursday == UtcDay(hour) + 4 - Weekday(UtcDay(hour))
        y == YearOf(thursday)
    IN <<y, (thursday - YearStart(y)) \div 7 + 1>>

PeriodKey(frequency, hour) ==
    IF frequency = "DAILY" THEN LocalDay(hour) ELSE IsoWeekKey(hour)

---------------------------------------------------------------------------
(* Groups.  A match has an alert, a job and the URLs of the job's files;   *)
(* URLs are numbers, in the order of sort().                               *)

\* The first URL, or the job itself when it has no file.
AnnouncementKey(match) ==
    IF match.urls = {} THEN <<"job", match.job>>
    ELSE <<"url", CHOOSE u \in match.urls : \A v \in match.urls : u <= v>>

\* dispatchImmediate: an email per alert and announcement.
Groups(matches) ==
    LET key(match) == <<match.alert, AnnouncementKey(match)>>
    IN {{n \in matches : key(n) = key(m)} : m \in matches}

---------------------------------------------------------------------------
(* What an email says.                                                     *)

\* Names of a taxonomy, by kind and id; the English one is ours and may be missing.
Label(labels, kind, id, locale) ==
    {IF locale = "en" /\ labels[n].nameEn # {} THEN CHOOSE e \in labels[n].nameEn : TRUE
     ELSE labels[n].nameTh : n \in {<<kind, i>> : i \in id \ {0}} \cap DOMAIN labels}

\* Neither null nor 0.
Said(amount) == amount \notin {{}, {0}}

\* What is printed: two amounts, one, or none.
SalaryRange(job) ==
    IF ~Said(job.salaryMin) /\ ~Said(job.salaryMax) THEN {}
    ELSE IF Said(job.salaryMin) /\ Said(job.salaryMax) THEN job.salaryMin \cup job.salaryMax
    ELSE IF job.salaryMin # {} THEN job.salaryMin ELSE job.salaryMax

\* The labels of the ids that have one, or what is said when none has or there is none.
Labelled(labels, kind, ids, locale, none) ==
    LET known == UNION {Label(labels, kind, {i}, locale) : i \in ids}
    IN IF ids = {} THEN {none} ELSE IF known = {} THEN {"unspecified"} ELSE known

JobFields(job, labels, locale) ==
    [agency |-> {job.agency} \cup job.ministry,
     jobType |-> Labelled(labels, "JOB_TYPE", job.jobTypeId, locale, "unspecified"),
     education |-> Labelled(labels, "EDUCATION_LEVEL", job.educationLevelIds, locale,
                            "unspecified"),
     province |-> Labelled(labels, "PROVINCE", job.provinceIds, locale, "nationwide"),
     period |-> <<job.applicationStart, job.applicationEnd>>,
     salary |-> SalaryRange(job)]

\* The position comes first, the alert's name only when there is nothing else to say.
BuildSubject(jobs, alertName) ==
    IF jobs = <<>> THEN <<alertName>> ELSE <<Head(jobs).title, Len(jobs) - 1>>

=============================================================================
