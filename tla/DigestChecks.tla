----------------------------- MODULE DigestChecks -----------------------------
(***************************************************************************)
(* What Digests computes, checked over bounded inputs against what it is   *)
(* for.  TLC evaluates these with the run of MCAlertDelivery.              *)
(***************************************************************************)
EXTENDS Digests

---------------------------------------------------------------------------
(* Periods.                                                                *)

\* Days from 1970, to the end of 2029.
LastDay == 21914

MondayOf(day) == day + 1 - Weekday(day)

\* Two instants up to a week apart have one week key exactly when their days have one Monday,
\* also over the end of a year (isoWeekKey): no week gets two digests, none gets another's.
ASSUME OneKeyPerWeek ==
    \A day \in 0 .. LastDay : \A later \in {day + 1, day + 6, day + 7} :
        IsoWeekKey(24 * day) = IsoWeekKey(24 * later + 23) <=> MondayOf(day) = MondayOf(later)

\* A week is numbered by the Thursdays of its year, 1 to 53.
ASSUME WeeksAreNumbered ==
    \A day \in 0 .. LastDay :
        LET key == IsoWeekKey(24 * day)
            thursday == day + 4 - Weekday(day)
        IN key[2] = Cardinality({t \in YearStart(key[1]) .. thursday : Weekday(t) = 4})

\* A day is that of Bangkok but a week that of UTC (dispatchDigests): until seven on a Monday
\* morning a weekly digest is still of the week before, and at no other time.
ASSUME WeekTurnsAtSeven ==
    \A hour \in 0 .. 24 * 21 :
        LET local == LocalDay(hour)
        IN IsoWeekKey(hour) # IsoWeekKey(24 * local) <=>
               Weekday(local) = 1 /\ (hour + 7) % 24 < 7

---------------------------------------------------------------------------
(* Groups, and what an email says.                                         *)

MatchRow == [alert : {1, 2}, job : {1, 2}, urls : SUBSET {1, 2}]

\* Every match is in one email, and two are in the same one only when they are of one alert
\* and of one announcement, by a file of theirs if they are two jobs (dispatchImmediate).
ASSUME EachInOneEmail ==
    \A matches \in SUBSET MatchRow :
        LET groups == Groups(matches)
        IN /\ UNION groups = matches
           /\ \A g, h \in groups : g # h => g \cap h = {}
           /\ \A g \in groups : \A m, n \in g :
                 m.alert = n.alert /\ (m.job = n.job \/ m.urls \cap n.urls # {})

Amount == {{}, {0}, {1}, {2}}

\* A salary is printed when one bound at least is neither missing nor zero; a zero is printed
\* only as the minimum beside a maximum, where it hides the maximum (salaryRange).
ASSUME ZeroHidesMaximum ==
    \A min, max \in Amount :
        LET printed == SalaryRange([salaryMin |-> min, salaryMax |-> max])
        IN /\ printed = {} <=> ~Said(min) /\ ~Said(max)
           /\ 0 \in printed <=> min = {0} /\ Said(max)
           /\ printed = {0} \/ printed = (min \cup max) \ {0}

Names == [nameTh : {"th"}, nameEn : {{}, {"en"}}]

\* No field of an email is left empty, whichever labels are missing, and one in Thai has no
\* English in it (jobFields).
ASSUME NoFieldIsEmpty ==
    \A known \in SUBSET ({"JOB_TYPE", "PROVINCE", "EDUCATION_LEVEL"} \X {1}),
       ids \in SUBSET {1, 2}, type \in {{}, {0}, {1}, {2}}, locale \in {"th", "en"} :
    \A labels \in [known -> Names] :
        LET job == [agency |-> "agency", ministry |-> {}, educationLevelIds |-> ids,
                    jobTypeId |-> type, provinceIds |-> ids, salaryMin |-> {},
                    salaryMax |-> {}, applicationStart |-> {}, applicationEnd |-> {}]
            fields == JobFields(job, labels, locale)
        IN /\ \A f \in {"agency", "jobType", "education", "province"} : fields[f] # {}
           /\ \A f \in {"jobType", "education", "province"} :
                 "en" \in fields[f] => locale = "en"

=============================================================================
