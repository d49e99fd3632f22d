---------------------------- MODULE Announcements ----------------------------
(***************************************************************************)
(* What a crawler makes of what a portal publishes: the text, dates,       *)
(* listing and attachments of an announcement, and the job they become.    *)
(* Operators only; AnnouncementChecks has what is checked of them.         *)
(*                                                                         *)
(* A text is a sequence of characters, null when it is empty; an optional  *)
(* number or date is a set of at most one.  Characters are those that      *)
(* normalizeThaiText tells apart: x stands for any other.  A job has one   *)
(* field of each way a field is read.  Left out: the regular expressions   *)
(* that find a card, a link or a date in a page, HTML entities, trimming.  *)
(***************************************************************************)
EXTENDS Integers, SequencesExt

---------------------------------------------------------------------------
(* Thai text.                                                              *)

\* Marks as the Private Use Area encodes them.
PuaMark == [puaTone |-> "tone", puaNikhahit |-> "nikhahit"]

Character == {"x", "nikhahit", "tone", "saraAa", "saraAm", "saraU"} \cup DOMAIN PuaMark

RestorePuaMarks(s) ==
    [i \in DOMAIN s |-> IF s[i] \in DOMAIN PuaMark THEN PuaMark[s[i]] ELSE s[i]]

\* normalize("NFC"): a vowel below the consonant goes before the tones over it.
CanonicalOrder(s) ==
    LET tones(t) == {i \in DOMAIN t : \A j \in i .. Len(t) : t[j] = "tone"}
        place(t, c) == IF c = "saraU" THEN InsertAt(t, Len(t) + 1 - Cardinality(tones(t)), c)
                       ELSE Append(t, c)
    IN FoldLeft(place, <<>>, s)

\* DECOMPOSED_SARA_AM: the two halves become one, after a tone caught between them.
ComposeSaraAm(s) ==
    LET ends(t, marks) == IsSuffix(marks, t)
        place(t, c) ==
            CASE c = "saraAa" /\ ends(t, <<"nikhahit">>) -> Append(Front(t), "saraAm")
              [] c = "saraAa" /\ ends(t, <<"nikhahit", "tone">>) ->
                    SubSeq(t, 1, Len(t) - 2) \o <<"tone", "saraAm">>
              [] OTHER -> Append(t, c)
    IN FoldLeft(place, <<>>, s)

NormalizeThaiText(s) == ComposeSaraAm(CanonicalOrder(RestorePuaMarks(s)))

\* RECRUITMENT_TITLE_PATTERNS is `patterns`.
IsRecruitmentAnnouncement(title, patterns) ==
    \E p \in patterns : p \in SubSeqs(NormalizeThaiText(title))

---------------------------------------------------------------------------
(* Dates.                                                                  *)

Leap(y) == y % 4 = 0 /\ (y % 100 # 0 \/ y % 400 = 0)

DaysIn(y, m) ==
    CASE m = 2 -> IF Leap(y) THEN 29 ELSE 28
      [] m \in {4, 6, 9, 11} -> 30
      [] OTHER -> 31

\* Buddhist era only when it is large enough to be one.
GregorianYear(raw) == IF raw >= 2400 THEN raw - 543 ELSE raw

\* Round-tripped through Date.UTC, which reads a year below 100 as one of the 1900s.
OnCalendar(y, m, d) == y > 99 /\ m \in 1 .. 12 /\ d \in 1 .. DaysIn(y, m)

Gregorian(d, m, raw) ==
    {<<y, m, d>> : y \in {n \in {GregorianYear(raw)} : OnCalendar(n, m, d)}}

\* A month has two names; a name that is neither's makes no date.
ThaiMonths == [m \in 1 .. 12 |-> {<<m, "abbreviated">>, <<m, "full">>}]

ParseThaiDate(d, name, raw) ==
    UNION {Gregorian(d, m, raw) : m \in {n \in 1 .. 12 : name \in ThaiMonths[n]}}

\* dd/mm and the year, all in digits.
ParseSlashDate(d, m, raw) == Gregorian(d, m, raw)

\* Four, two and two digits are taken for a date whatever they say; the rest is dropped.
ToDateString(values) == {v.date : v \in {w \in values : w.digits}}

---------------------------------------------------------------------------
(* Pages.                                                                  *)

\* The elements of a sequence, each where it is first.
Firsts(s) == FoldLeft(LAMBDA t, e : IF Contains(t, e) THEN t ELSE Append(t, e), <<>>, s)

Listed(entries, id) == \E i \in DOMAIN entries : entries[i].id = id

\* Cards without a link or a title are dropped, and so is a card pinned again.
ParseDolListing(cards) ==
    LET add(entries, card) ==
            IF card.id = {} \/ card.titleAttribute = <<>> THEN entries
            ELSE LET id == CHOOSE n \in card.id : TRUE IN
                 IF Listed(entries, id) THEN entries
                 ELSE Append(entries, [id |-> id, title |-> card.titleAttribute,
                                       category |-> card.category, on |-> card.on])
    IN FoldLeft(add, <<>>, cards)

\* The text of a link stands in for a title attribute it does not have.
ParseMdesListing(cards) ==
    LET title(card) == IF card.titleAttribute # <<>> THEN card.titleAttribute ELSE card.inner
        add(entries, card) ==
            IF card.id = {} THEN entries
            ELSE LET id == CHOOSE n \in card.id : TRUE IN
                 IF Listed(entries, id) \/ title(card) = <<>> THEN entries
                 ELSE Append(entries, [id |-> id, title |-> title(card)])
    IN FoldLeft(add, <<>>, cards)

\* Links to PDFs, but for those of the site's theme.
ParsePdfUrls(links) ==
    Firsts(SelectSeq(links, LAMBDA u : u.kind = "pdf"))

ParseDolAnnouncement(page) ==
    [urls |-> ParsePdfUrls(page.links), body |-> page.body, on |-> {}]

\* The date follows the word for it, and the download endpoint has no extension.
ParseMdesAnnouncement(page) ==
    [urls |-> Firsts(SelectSeq(page.links, LAMBDA u : u.kind = "download")),
     body |-> <<>>,
     on |-> page.on]

---------------------------------------------------------------------------
(* Jobs.                                                                   *)

TextFields == {"title", "agency", "jobCategoryOther", "description", "knowledge", "skill"}

HashedFields ==
    TextFields \cup {"jobCategoryId", "provinceIds", "salaryMin", "salaryMax",
                     "applicationStart", "applicationEnd"}

\* SHA-256 of the fields hashed stands for what they say.
ComputeContentHash(job) == [f \in HashedFields |-> job[f]]

NormalizeJobText(job) ==
    [f \in DOMAIN job |-> IF f \in TextFields THEN NormalizeThaiText(job[f]) ELSE job[f]]

Hashed(job) ==
    LET normalized == NormalizeJobText(job)
    IN [job |-> normalized, contentHash |-> ComputeContentHash(normalized)]

\* A job of a portal that publishes no taxonomy, salary or period.
Untold ==
    [jobCategoryId |-> {}, provinceIds |-> <<>>, knowledge |-> <<>>, skill |-> <<>>,
     salaryMin |-> {}, salaryMax |-> {}, applicationStart |-> {}, applicationEnd |-> {}]

\* What becomes of an announcement: a set of one job, or none when it is rejected.
NormalizeDolJob(entry, detail, agency) ==
    IF entry.title = <<>> THEN {}
    ELSE {Hashed([source |-> "DOL", externalId |-> entry.id, title |-> entry.title,
                  agency |-> agency, jobCategoryOther |-> entry.category,
                  description |-> detail.body, publishedAt |-> entry.on,
                  attachments |-> detail.urls] @@ Untold)}

NormalizeMdesJob(entry, detail, agency) ==
    IF entry.title = <<>> THEN {}
    ELSE {Hashed([source |-> "MDES", externalId |-> entry.id, title |-> entry.title,
                  agency |-> agency, jobCategoryOther |-> <<>>,
                  description |-> detail.body, publishedAt |-> detail.on,
                  attachments |-> detail.urls] @@ Untold)}

\* The first of two texts that is there.
Either(s, t) == IF s # <<>> THEN s ELSE t

\* Numbered halves, a line each, without the one that only repeats the other.
JoinText(halves) ==
    LET parts == Firsts(SelectSeq(halves, LAMBDA t : t # <<>>))
        line(joined, t) == IF joined = <<>> THEN t ELSE joined \o <<"newline">> \o t
    IN FoldLeft(line, <<>>, parts)

\* Entries that are no number are dropped, the others sorted.
IntArray(values) ==
    SortSeq(FlattenSeq([i \in DOMAIN values |-> SetToSeq(values[i])]), <)

\* Civil servants fill one block of fields, government employees the other.
NormalizeOcscJob(raw) ==
    IF raw.id = {} \/ raw.position = <<>> \/ raw.department = <<>> THEN {}
    ELSE {Hashed(
        [source |-> "OCSC", externalId |-> CHOOSE n \in raw.id : TRUE,
         title |-> raw.position, agency |-> raw.department,
         jobCategoryId |-> raw.jobCategoryId, jobCategoryOther |-> raw.jobCategoryOther,
         provinceIds |-> IntArray(raw.provinceIds),
         description |-> Either(raw.civilJobDescription, raw.employeeJobDescription),
         knowledge |-> Either(raw.civilJobKnowledge, JoinText(raw.employeeJobKnowledge)),
         skill |-> Either(raw.civilJobSkill, JoinText(raw.employeeJobSkill)),
         salaryMin |-> raw.salaryMin, salaryMax |-> raw.salaryMax,
         applicationStart |-> ToDateString(raw.applicationStart),
         applicationEnd |-> ToDateString(raw.applicationEnd),
         publishedAt |-> raw.createDate,
         attachments |-> raw.fileName])}

=============================================================================
