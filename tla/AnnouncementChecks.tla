-------------------------- MODULE AnnouncementChecks --------------------------
(***************************************************************************)
(* What Announcements computes, checked over bounded inputs against what   *)
(* it is for.  TLC evaluates these with the run of MCSourceCrawl.          *)
(***************************************************************************)
EXTENDS Announcements

---------------------------------------------------------------------------
(* Thai text.                                                              *)

\* Texts of up to this many characters are tried.
TextBound == 4

Tones == {"tone", "puaTone"}
Nikhahits == {"nikhahit", "puaNikhahit"}

\* The spellings of each syllable, as portals and keyboards produce them.
Spellings ==
    {{<<"x">>}, {<<"x", "saraU">>}, {<<"x", t>> : t \in Tones},
     {<<"x", "saraU", t>> : t \in Tones} \cup {<<"x", t, "saraU">> : t \in Tones},
     {<<"x", "saraAm">>} \cup {<<"x", n, "saraAa">> : n \in Nikhahits},
     {<<"x", t, "saraAm">> : t \in Tones}
        \cup {<<"x", n, t, "saraAa">> : n \in Nikhahits, t \in Tones}
        \cup {<<"x", t, n, "saraAa">> : n \in Nikhahits, t \in Tones}}

\* Normalising twice is normalising once (normalizeThaiText): text that is normalised when
\* it is crawled and again when it is compared stays the same.
ASSUME NormalizedOnce ==
    \A s \in BoundedSeq(Character, TextBound) :
        NormalizeThaiText(NormalizeThaiText(s)) = NormalizeThaiText(s)

\* Two spellings are made equal exactly when they spell the same syllable.
ASSUME SpellingsMeet ==
    \A S, T \in Spellings : \A s \in S, t \in T :
        NormalizeThaiText(s) = NormalizeThaiText(t) <=> S = T

\* A word is found in text that has it in another spelling, whatever stands around it: what
\* a keyword, and a pattern of isRecruitmentAnnouncement, rely on.
ASSUME WordsAreFound ==
    \A S \in Spellings : \A word, spelled \in S : \A other \in UNION Spellings :
        \A text \in {spelled \o other, other \o spelled} :
            IsRecruitmentAnnouncement(text, {NormalizeThaiText(word)})

---------------------------------------------------------------------------
(* Dates and pages.                                                        *)

Years == {99, 100} \cup 1857 .. 2450

\* The two ways a portal writes a date are read alike, in either era (parseThaiDate,
\* parseSlashDate), and only a date on the calendar is.
ASSUME DatesAreReadAlike ==
    \A d \in 0 .. 32, m \in 0 .. 13, y \in Years :
        /\ ParseThaiDate(d, <<m, "full">>, y) = ParseSlashDate(d, m, y)
        /\ y \in 1857 .. 2399 => ParseSlashDate(d, m, y) = ParseSlashDate(d, m, y + 543)
        /\ \A date \in ParseSlashDate(d, m, y) : OnCalendar(date[1], date[2], date[3])

Card == [id : {{}, {1}, {2}}, titleAttribute : {<<>>, <<"x">>, <<"x", "x">>},
         inner : {<<>>}, category : {<<>>}, on : {{}}]

\* A listing has an announcement once, though it is pinned above the page it is on, and
\* lacks none whose card can be read (parseDolListing, parseMdesListing).
ASSUME ListedOnce ==
    \A cards \in BoundedSeq(Card, 3) :
        LET dol == ParseDolListing(cards)
            mdes == ParseMdesListing(cards)
            seen(s) == [i \in DOMAIN s |-> <<s[i].id, s[i].title>>]
        IN /\ seen(dol) = seen(mdes)
           /\ \A i, j \in DOMAIN dol : dol[i].id = dol[j].id => i = j
           /\ \A n \in {1, 2} : Listed(dol, n) <=>
                 \E k \in DOMAIN cards : cards[k].id = {n} /\ cards[k].titleAttribute # <<>>

---------------------------------------------------------------------------
(* Jobs.                                                                   *)

Text == {<<>>, <<"x">>, <<"x", "nikhahit", "saraAa">>, <<"x", "saraAm">>}

\* An announcement of OCSC with nothing but these fields, which the job of it needs.
Raw(id, position, department) ==
    [id |-> id, position |-> position, department |-> department, jobCategoryId |-> {2},
     jobCategoryOther |-> <<>>, provinceIds |-> <<>>,
     civilJobDescription |-> <<>>, employeeJobDescription |-> <<>>,
     civilJobKnowledge |-> <<>>, employeeJobKnowledge |-> <<>>,
     civilJobSkill |-> <<>>, employeeJobSkill |-> <<>>,
     salaryMin |-> {}, salaryMax |-> {}, applicationStart |-> {}, applicationEnd |-> {},
     createDate |-> {}, fileName |-> <<>>]

Filled == Raw({1}, <<"x">>, <<"x">>)

Hash(jobs) == {j.contentHash : j \in jobs}

\* A page that comes back in another spelling, or with its file under another URL, is not
\* taken for a change (computeContentHash): nobody is told of it again.
ASSUME HashIgnoresSpelling ==
    \A s, t \in Text : \A files, others \in {<<>>, <<1>>} :
        LET dol(text, urls) ==
                NormalizeDolJob([id |-> 1, title |-> text, category |-> text, on |-> {}],
                                [urls |-> urls, body |-> text, on |-> {}], <<"x">>)
        IN Hash(dol(s, files)) = Hash(dol(t, others)) <=>
               NormalizeThaiText(s) = NormalizeThaiText(t)

\* Nor is one that lists the same provinces in another order (intArray).
ASSUME HashIgnoresOrder ==
    \A p, q \in BoundedSeq({{}, {1}, {2}}, 3) :
        LET ocsc(ids) == NormalizeOcscJob([Filled EXCEPT !.provinceIds = ids])
            count(ids, n) == Cardinality({i \in DOMAIN ids : ids[i] = {n}})
        IN Hash(ocsc(p)) = Hash(ocsc(q)) <=> \A n \in {1, 2} : count(p, n) = count(q, n)

\* A half that only repeats the other says nothing (joinText), and neither half is lost.
ASSUME HalvesAreJoined ==
    \A s, t \in Text :
        LET skill(halves) == JoinText(halves)
        IN /\ skill(<<s, s>>) = skill(<<s, <<>>>>) /\ skill(<<s, <<>>>>) = skill(<<<<>>, s>>)
           /\ \A half \in {s, t} : half \in SubSeqs(skill(<<s, t>>))

\* An announcement is rejected exactly when it has no id, position or department
\* (normalizeOcscJob).
ASSUME RejectedOnlyWhenUnusable ==
    \A id \in {{}, {1}}, s, t \in Text :
        NormalizeOcscJob(Raw(id, s, t)) = {} <=> id = {} \/ s = <<>> \/ t = <<>>

\* Unlike the dates of the other portals, one of OCSC that is not on the calendar is kept
\* (toDateString), for the column of the table to refuse.
ASSUME ImpossibleDateIsKept ==
    \E r \in NormalizeOcscJob(
                 [Filled EXCEPT !.applicationStart =
                                    {[digits |-> TRUE, date |-> <<2026, 2, 30>>]}]) :
        \E date \in r.job.applicationStart : ~OnCalendar(date[1], date[2], date[3])

=============================================================================
