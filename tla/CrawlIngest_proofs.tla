------------------------ MODULE CrawlIngest_proofs ------------------------
(***************************************************************************)
(* What a crawl may never do to the tables, for every number of            *)
(* announcements, attachments and overlapping crawls.                      *)
(*                                                                         *)
(* No property is inductive.  AtJob says that a crawl which writes has an  *)
(* announcement and an edition of it in hand; Known, that what crawls hand *)
(* over and the tables and queues refer to is of stored announcements;     *)
(* Rowed, that the document queue and those about to add to it refer to    *)
(* stored attachments.  TellInv adds that contents not yet matched have a  *)
(* task, or a crawl that will name or add one; FitInv, what a crawl that   *)
(* is alone knows of the files it has written and read.  The rows it       *)
(* writes are those of AttachmentRows.                                     *)
(***************************************************************************)
EXTENDS CrawlIngest, TLAPS

AtJob == \A c \in Crawl :
    /\ pc[c] \in {"save", "attach", "prune", "insert"} =>
          cur[c] \in Ann /\ wanted[c] \in Edition
    /\ pc[c] \in {"attach", "prune", "insert"} => content[cur[c]] # None

Known == \A a \in Ann : content[a] = None =>
    /\ \A h \in Hash : matchTask[a][h] = "absent"
    /\ \A u \in Url : reading[a][u] = "ABSENT"
    /\ \A c \in Crawl : a \notin changed[c] /\ \A h \in Hash : <<a, h>> \notin ids[c]

Rowed == \A a \in Ann, u \in Url : reading[a][u] = "ABSENT" => ~InQueue(a, u)

IngestInv == TypeOK /\ AtJob /\ Known /\ Rowed

\* The initial states satisfy the inductive invariant.
LEMMA InitIngestInv == Init => IngestInv
  <1> SUFFICES ASSUME Init PROVE IngestInv
    OBVIOUS
  <1>1. Nothing \in [Ann -> Edition \cup {None}] /\ Nothing \in [Ann -> Hash \cup {None}]
    BY DEF Nothing
  <1>2. 0 \in 0 .. MaxCrawls
    BY BoundAssumption
  <1>3. TypeOK
    BY <1>1, <1>2 DEF Init, TypeOK, Place, Reading, TaskState
  <1> QED
    BY <1>3 DEF Init, IngestInv, AtJob, Known, Rowed, InQueue

\* The hash of an edition is a hash, and its URLs are URLs.
LEMMA EditionType == ASSUME NEW e \in Edition PROVE e.hash \in Hash /\ e.urls \in SUBSET Url
  BY EditionAssumption DEF Hash

\* The source is not ours and moves nothing of ours.
LEMMA SourceStep == ASSUME IngestInv, Source PROVE IngestInv'
  <1> USE DEF tables, queues, locals, history, IngestInv, TypeOK
  <1>1. published' \in [Ann -> Edition \cup {None}]
    BY DEF Source, Publish, Withdraw
  <1>2. UNCHANGED <<tables, queues, clock, locals, history>>
    BY DEF Source, Publish, Withdraw
  <1>3. TypeOK'
    BY <1>1, <1>2
  <1> QED
    BY <1>2, <1>3 DEF AtJob, Known, Rowed, InQueue

\* The document worker touches no announcement, and no row but that of a task.
LEMMA ReaderStep ==
  ASSUME IngestInv, NEW a \in Ann, NEW u \in Url,
         BeginReading(a, u) \/ RecordText(a, u) \/ StopReading(a, u) \/ RecordFailure(a, u)
  PROVE /\ UNCHANGED <<published, content, firstSeen, matchTask, clock, locals, history>>
        /\ reading[a][u] # "ABSENT" /\ docTask[a][u] # "absent"
        /\ \E s \in Reading \ {"ABSENT"} : reading' = [reading EXCEPT ![a][u] = s]
        /\ \E t \in {"absent", "waiting", "active"} :
              docTask' = [docTask EXCEPT ![a][u] = t]
  <1> USE DEF IngestInv, TypeOK
  <1>1. docTask[a][u] # "absent"
    BY DEF BeginReading, RecordText, StopReading, RecordFailure
  <1>2. reading[a][u] \in Reading \ {"ABSENT"}
    <2>1. reading[a][u] # "ABSENT"
      <3> HIDE DEF TypeOK
      <3> QED
        BY <1>1 DEF Rowed, InQueue
    <2> QED
      BY <2>1
  <1>3. reading = [reading EXCEPT ![a][u] = reading[a][u]]
        /\ docTask = [docTask EXCEPT ![a][u] = docTask[a][u]]
        /\ docTask[a][u] \in {"absent", "waiting", "active"}
    OBVIOUS
  <1>4. UNCHANGED <<published, content, firstSeen, matchTask, clock, locals, history>>
    BY DEF BeginReading, RecordText, StopReading, RecordFailure, tables, queues
  <1>5. \E s \in Reading \ {"ABSENT"} : reading' = [reading EXCEPT ![a][u] = s]
    <2>1. CASE StopReading(a, u)
      BY <1>2, <1>3, <2>1 DEF StopReading, tables
    <2> QED
      BY <2>1 DEF BeginReading, RecordText, RecordFailure, Reading
  <1>6. \E t \in {"absent", "waiting", "active"} : docTask' = [docTask EXCEPT ![a][u] = t]
    <2>1. CASE RecordText(a, u)
      BY <1>3, <2>1 DEF RecordText, queues
    <2> QED
      BY <2>1 DEF BeginReading, StopReading, RecordFailure, EndAttempt
  <1> QED
    BY <1>1, <1>2, <1>4, <1>5, <1>6

\* The workers keep to stored announcements and stored attachments.
LEMMA WorkersStep == ASSUME IngestInv, Workers PROVE IngestInv'
  <1> USE DEF IngestInv, TypeOK
  <1>1. ASSUME NEW a \in Ann, NEW h \in Hash, Match(a, h) PROVE IngestInv'
    <2>1. content[a] \in Hash
      BY <1>1 DEF Match, Known
    <2>2. TypeOK'
      BY <1>1, <2>1 DEF Match, tables, locals, TaskState
    <2>3. Known'
      BY <1>1, <2>1, NoneAssumption DEF Match, tables, locals, Known
    <2> QED
      BY <1>1, <2>2, <2>3 DEF Match, tables, locals, AtJob, Rowed, InQueue
  <1>2. ASSUME NEW a \in Ann, NEW h \in Hash, MatchFails(a, h) PROVE IngestInv'
    <2>1. content[a] # None
      BY <1>2 DEF MatchFails, Known
    <2>2. TypeOK'
      BY <1>2 DEF MatchFails, tables, locals, TaskState
    <2>3. Known'
      BY <1>2, <2>1 DEF MatchFails, tables, locals, Known
    <2> QED
      BY <1>2, <2>2, <2>3 DEF MatchFails, tables, locals, AtJob, Rowed, InQueue
  <1>3. ASSUME NEW a \in Ann, NEW h \in Hash, Expire(a, h) PROVE IngestInv'
    BY <1>3 DEF Expire, tables, locals, history, TaskState, AtJob, Known, Rowed, InQueue
  <1>4. ASSUME NEW a \in Ann, NEW u \in Url,
               BeginReading(a, u) \/ RecordText(a, u) \/ StopReading(a, u)
                  \/ RecordFailure(a, u)
        PROVE IngestInv'
    <2>1. /\ UNCHANGED <<published, content, firstSeen, matchTask, clock, locals, history>>
          /\ reading[a][u] # "ABSENT"
          /\ \E s \in Reading \ {"ABSENT"} : reading' = [reading EXCEPT ![a][u] = s]
          /\ \E t \in {"absent", "waiting", "active"} :
                docTask' = [docTask EXCEPT ![a][u] = t]
      BY <1>4, ReaderStep
    <2>2. TypeOK'
      BY <2>1 DEF locals, history
    <2>3. content[a] # None
      BY <2>1 DEF Known
    <2>4. AtJob' /\ Known'
      BY <2>1, <2>3 DEF locals, AtJob, Known
    <2>5. ASSUME NEW b \in Ann, NEW v \in Url, reading'[b][v] = "ABSENT"
          PROVE ~InQueue(b, v)'
      <3>1. ~(b = a /\ v = u)
        BY <2>1, <2>5
      <3>2. reading'[b][v] = reading[b][v] /\ docTask'[b][v] = docTask[b][v] /\ UNCHANGED offer
        BY <2>1, <3>1 DEF locals
      <3> HIDE DEF TypeOK
      <3> QED
        BY <2>5, <3>2 DEF Rowed, InQueue
    <2> QED
      BY <2>2, <2>4, <2>5 DEF Rowed
  <1> QED
    BY <1>1, <1>2, <1>3, <1>4 DEF Workers

\* A crawl that reads, waits, fails or hands over leaves rows and knowledge in step.
LEMMA ReadStep ==
  ASSUME IngestInv, NEW c \in Crawl,
         \/ Start(c) \/ Touch(c) \/ ReadAttachments(c) \/ Persisted(c) \/ Fail(c)
         \/ \E S \in SUBSET Ann : Fetch(c, S)
         \/ \E a \in Ann : Find(c, a)
  PROVE IngestInv'
  <1> USE BoundAssumption DEF IngestInv, TypeOK, AtJob, Known, Rowed, InQueue, Place
  <1>1. CASE Start(c)
    BY <1>1 DEF Start, tables, queues
  <1>2. CASE Touch(c)
    BY <1>2 DEF Touch, NextJob, tables, queues, history
  <1>3. CASE ReadAttachments(c)
    BY <1>3 DEF ReadAttachments, Stored, tables, queues, history
  <1>4. CASE Persisted(c)
    BY <1>4 DEF Persisted, tables, queues, history
  <1>5. CASE Fail(c)
    <2>1. Nothing \in [Ann -> Edition \cup {None}] /\ 0 \in 0 .. MaxCrawls
      BY DEF Nothing
    <2> QED
      BY <1>5, <2>1 DEF Fail, Leave, tables, queues
  <1>6. ASSUME NEW S \in SUBSET Ann, Fetch(c, S) PROVE IngestInv'
    BY <1>6 DEF Fetch, tables, queues, history
  <1>7. ASSUME NEW a \in Ann, Find(c, a) PROVE IngestInv'
    <2>1. batch[c] \in [Ann -> Edition \cup {None}] /\ batch[c][a] \in Edition
      BY <1>7 DEF Find
    <2>2. TypeOK'
      BY <1>7, <2>1 DEF Find, tables, queues, history
    <2>3. AtJob' /\ Known'
      BY <1>7, <2>1 DEF Find, tables, queues
    <2> QED
      BY <1>7, <2>2, <2>3 DEF Find, tables, queues
  <1> QED
    BY <1>1, <1>2, <1>3, <1>4, <1>5, <1>6, <1>7

\* A crawl that writes a row gives it a content of the source.
LEMMA SaveStep ==
  ASSUME IngestInv, NEW c \in Crawl, Insert(c) \/ Update(c)
  PROVE IngestInv'
  <1> USE DEF IngestInv, TypeOK
  <1>1. cur[c] \in Ann /\ wanted[c].hash \in Hash /\ wanted[c].hash # None
    BY EditionType, NoneAssumption DEF Insert, Update, AtJob
  <1>2. /\ Store(c)
        /\ firstSeen' \in [Ann -> 0 .. MaxCrawls]
        /\ pc[c] = "save"
    BY DEF Insert, Update
  <1>3. TypeOK'
    BY <1>1, <1>2 DEF Store, queues, Place
  <1>4. AtJob'
    BY <1>1, <1>2 DEF Store, AtJob
  <1>5. Known' /\ Rowed'
    BY <1>1, <1>2, NoneAssumption DEF Store, queues, Known, Rowed, InQueue
  <1> QED
    BY <1>3, <1>4, <1>5

\* A crawl that replaces attachments touches those of its announcement.
LEMMA AttachmentStep ==
  ASSUME IngestInv, NEW c \in Crawl, DeleteStale(c) \/ InsertMissing(c)
  PROVE IngestInv'
  <1> USE DEF IngestInv, TypeOK
  <1>1. cur[c] \in Ann /\ wanted[c].urls \in SUBSET Url /\ content[cur[c]] # None
    BY EditionType DEF DeleteStale, InsertMissing, AtJob
  <1>2. CASE DeleteStale(c)
    <2>1. TypeOK'
      BY <1>1, <1>2 DEF DeleteStale, Drop, Place, Reading, history
    <2>2. AtJob'
      BY <1>1, <1>2 DEF DeleteStale, Drop, AtJob
    <2>3. Known'
      BY <1>1, <1>2 DEF DeleteStale, Drop, Known
    <2>4. Rowed'
      BY <1>1, <1>2 DEF DeleteStale, Drop, Rowed, InQueue
    <2> QED
      BY <2>1, <2>2, <2>3, <2>4
  <1>3. CASE InsertMissing(c)
    <2>1. TypeOK'
      BY <1>1, <1>3 DEF InsertMissing, NextJob, queues, Place, Reading, history
    <2>2. AtJob'
      BY <1>1, <1>3 DEF InsertMissing, NextJob, AtJob
    <2>3. Known'
      BY <1>1, <1>3 DEF InsertMissing, queues, Known
    <2>4. Rowed'
      BY <1>1, <1>3 DEF InsertMissing, queues, Rowed, InQueue
    <2> QED
      BY <2>1, <2>2, <2>3, <2>4
  <1> QED
    BY <1>2, <1>3

\* A crawl hands over stored announcements and stored attachments.
LEMMA EnqueueStep ==
  ASSUME IngestInv, NEW c \in Crawl,
         \/ FindChanged(c) \/ AddMatching(c) \/ AddDocuments(c)
         \/ \E D \in SUBSET (Ann \X Url) : FindUnread(c, D)
  PROVE IngestInv'
  <1> USE DEF IngestInv, TypeOK
  <1>1. Nothing \in [Ann -> Edition \cup {None}] /\ 0 \in 0 .. MaxCrawls
    BY BoundAssumption DEF Nothing
  <1>2. CASE FindChanged(c)
    <2> DEFINE new == {<<a, content[a]>> : a \in changed[c]}
    <2>1. \A a \in changed[c] : a \in Ann /\ content[a] \in Hash
      BY DEF Known
    <2>2. new \in SUBSET (Ann \X Hash) /\ ids' = [ids EXCEPT ![c] = new]
      BY <1>2, <2>1 DEF FindChanged
    <2>3. \A a \in Ann, h \in Hash : <<a, h>> \in new => content[a] # None
      BY <2>1, NoneAssumption
    <2> HIDE DEF new
    <2>4. TypeOK'
      BY <1>2, <2>2 DEF FindChanged, tables, queues, history, Place
    <2>5. Known'
      BY <1>2, <2>2, <2>3 DEF FindChanged, tables, queues, Known
    <2> QED
      BY <1>2, <2>4, <2>5 DEF FindChanged, tables, queues, AtJob, Rowed, InQueue
  <1>3. CASE AddMatching(c)
    <2>1. TypeOK'
      BY <1>3 DEF AddMatching, tables, history, Place, TaskState
    <2>2. Known'
      BY <1>3 DEF AddMatching, tables, Known
    <2> QED
      BY <1>3, <2>1, <2>2 DEF AddMatching, tables, AtJob, Rowed, InQueue
  <1>4. ASSUME NEW D \in SUBSET (Ann \X Url), FindUnread(c, D) PROVE IngestInv'
    <2>1. \A a \in Ann, u \in Url : <<a, u>> \in D => reading[a][u] = "PENDING"
      BY <1>4 DEF FindUnread, Pending
    <2>2. TypeOK' /\ AtJob' /\ Known'
      <3>1. CASE D = {}
        <4>1. Leave(c) /\ UNCHANGED <<published, tables, queues, clock, history>>
          BY <1>4, <3>1 DEF FindUnread
        <4>2. TypeOK'
          BY <1>1, <4>1 DEF Leave, tables, queues, history, Place
        <4>3. AtJob'
          BY <4>1 DEF Leave, tables, AtJob
        <4>4. Known'
          BY <4>1 DEF Leave, tables, queues, Known
        <4> QED
          BY <4>2, <4>3, <4>4
      <3>2. CASE D # {}
        <4>1. /\ offer' = [offer EXCEPT ![c] = D] /\ pc' = [pc EXCEPT ![c] = "addDocument"]
              /\ UNCHANGED <<batch, cur, wanted, found, have, changed, ids, seenAt>>
              /\ UNCHANGED <<published, tables, queues, clock, history>>
          BY <1>4, <3>2 DEF FindUnread
        <4>2. TypeOK'
          BY <4>1 DEF tables, queues, history, Place
        <4>3. AtJob' /\ Known'
          BY <4>1 DEF tables, queues, AtJob, Known
        <4> QED
          BY <4>2, <4>3
      <3> QED
        BY <3>1, <3>2
    <2>4. Rowed'
      <3>1. /\ UNCHANGED <<reading, docTask>>
            /\ \A d \in Crawl : offer'[d] \subseteq offer[d] \cup D
        BY <1>4 DEF FindUnread, Leave, tables, queues
      <3> HIDE DEF IngestInv, TypeOK
      <3> QED
        BY <2>1, <3>1 DEF IngestInv, Rowed, InQueue
    <2> QED
      BY <2>2, <2>4
  <1>5. CASE AddDocuments(c)
    <2>1. TypeOK'
      BY <1>1, <1>5 DEF AddDocuments, Leave, tables, history, Place
    <2>2. AtJob' /\ Known'
      BY <1>5 DEF AddDocuments, Leave, tables, AtJob, Known
    <2>3. Rowed'
      BY <1>5 DEF AddDocuments, Leave, tables, Rowed, InQueue
    <2> QED
      BY <2>1, <2>2, <2>3
  <1> QED
    BY <1>2, <1>3, <1>4, <1>5

\* IngestInv is inductive.
LEMMA IngestStep == IngestInv /\ [Next]_vars => IngestInv'
  <1> SUFFICES ASSUME IngestInv, [Next]_vars PROVE IngestInv'
    OBVIOUS
  <1>1. CASE UNCHANGED vars
    BY <1>1 DEF vars, tables, queues, locals, history, IngestInv, TypeOK, AtJob, Known,
       Rowed, InQueue
  <1>2. ASSUME NEW c \in Crawl, Step(c) PROVE IngestInv'
    BY <1>2, ReadStep, SaveStep, AttachmentStep, EnqueueStep DEF Step
  <1> QED
    BY <1>1, <1>2, SourceStep, WorkersStep DEF Next

\* The inductive invariant holds of the specification.
THEOREM IngestInvariant == Spec => []IngestInv
  <1> QED
    BY InitIngestInv, IngestStep, PTL DEF Spec

\* Every column, local and queue keeps its type.
THEOREM IngestTypeCorrect == Spec => []TypeOK
  <1>1. IngestInv => TypeOK
    BY DEF IngestInv
  <1> QED
    BY <1>1, IngestInvariant, PTL

---------------------------------------------------------------------------

\* first_seen_at is written with the row and never again, however many crawls of the
\* announcement overlap: the second insert is refused, and an update leaves it alone.
THEOREM FirstSeenStays == Spec => FirstSeenNeverMoves
  <1> DEFINE Stays == \A a \in Ann : content[a] # None =>
               firstSeen'[a] = firstSeen[a] /\ content'[a] # None
  <1>1. IngestInv /\ [Next]_vars => [Stays]_vars
    <2> SUFFICES ASSUME IngestInv, Next PROVE Stays
      OBVIOUS
    <2>1. UNCHANGED <<content, firstSeen>> => Stays
      OBVIOUS
    <2>2. ASSUME NEW c \in Crawl, Insert(c) \/ Update(c) PROVE Stays
      <3>1. /\ cur[c] \in Ann /\ wanted[c].hash # None
            /\ content' = [content EXCEPT ![cur[c]] = wanted[c].hash]
            /\ \/ content[cur[c]] = None
                  /\ firstSeen' = [firstSeen EXCEPT ![cur[c]] = seenAt[c]]
               \/ UNCHANGED firstSeen
        BY <2>2, EditionType, NoneAssumption DEF Insert, Update, Store, IngestInv, AtJob
      <3> QED
        BY <3>1 DEF IngestInv, TypeOK
    <2>3. Source => UNCHANGED <<content, firstSeen>>
      BY DEF Source, Publish, Withdraw, tables
    <2>4. Workers => UNCHANGED <<content, firstSeen>>
      BY DEF Workers, Match, MatchFails, Expire, BeginReading, RecordText, StopReading,
         RecordFailure, tables
    <2>5. ASSUME NEW c \in Crawl, Step(c), ~Insert(c), ~Update(c)
          PROVE UNCHANGED <<content, firstSeen>>
      BY <2>5 DEF Step, Start, Fetch, Find, Touch, ReadAttachments, DeleteStale, Drop,
         InsertMissing, Persisted, FindChanged, AddMatching, FindUnread, AddDocuments, Fail,
         tables
    <2> QED
      BY <2>1, <2>2, <2>3, <2>4, <2>5 DEF Next
  <1> QED
    BY <1>1, IngestInvariant, PTL DEF Spec, FirstSeenNeverMoves

\* What was read of a URL survives every crawl that stores an edition with the URL, and is
\* read again only by a task that is from before: the crawls offer no row that was read.
THEOREM ReadingStays == Spec => ReadingSurvives
  <1> DEFINE Survives == \A a \in Ann, u \in Url : reading[a][u] = "COMPLETED" =>
            \/ reading'[a][u] = "COMPLETED" /\ (InQueue(a, u)' => InQueue(a, u))
            \/ docTask[a][u] # "absent" /\ reading'[a][u] \in {"PROCESSING", "FAILED"}
            \/ \E c \in Crawl : cur[c] = a /\ u \notin wanted[c].urls
  <1>1. IngestInv /\ [Next]_vars => [Survives]_vars
    <2> DEFINE Left(a, u) == \E c \in Crawl : cur[c] = a /\ u \notin wanted[c].urls
               Again(a, u) == docTask[a][u] # "absent"
                              /\ reading'[a][u] \in {"PROCESSING", "FAILED"}
               Kept(a, u) == reading'[a][u] = "COMPLETED" /\ (InQueue(a, u)' => InQueue(a, u))
    <2> SUFFICES ASSUME IngestInv, Next, NEW a \in Ann, NEW u \in Url,
                        reading[a][u] = "COMPLETED", ~Left(a, u)
                 PROVE Kept(a, u) \/ Again(a, u)
      OBVIOUS
    <2> USE DEF IngestInv, TypeOK
    <2>1. ASSUME UNCHANGED <<reading, docTask>>,
                 \A c \in Crawl : <<a, u>> \in offer'[c] => <<a, u>> \in offer[c]
          PROVE Kept(a, u)
      BY <2>1 DEF InQueue
    <2>2. ASSUME NEW c \in Crawl, DeleteStale(c) PROVE Kept(a, u)
      <3>1. cur[c] = a => u \notin have[c] \ wanted[c].urls
        OBVIOUS
      <3>2. cur[c] \in Ann
        BY <2>2 DEF DeleteStale, AtJob
      <3>3. reading'[a][u] = reading[a][u] /\ docTask'[a][u] = docTask[a][u]
        BY <2>2, <3>1, <3>2 DEF DeleteStale, Drop
      <3>4. \A d \in Crawl : offer'[d] \subseteq offer[d]
        BY <2>2 DEF DeleteStale, Drop
      <3> QED
        BY <3>3, <3>4 DEF InQueue
    <2>3. ASSUME NEW c \in Crawl, InsertMissing(c) PROVE Kept(a, u)
      BY <2>3 DEF InsertMissing, Stored, AtJob, queues, InQueue
    <2>4. ASSUME NEW b \in Ann, NEW v \in Url,
                 BeginReading(b, v) \/ RecordText(b, v) \/ StopReading(b, v)
                    \/ RecordFailure(b, v)
          PROVE Kept(a, u) \/ Again(a, u)
      <3>1. CASE a = b /\ u = v
        BY <2>4, <3>1 DEF BeginReading, RecordText, StopReading, RecordFailure, EndAttempt,
           tables, locals, InQueue
      <3>2. CASE ~(a = b /\ u = v)
        <4>1. /\ UNCHANGED locals
              /\ \E s \in Reading \ {"ABSENT"} : reading' = [reading EXCEPT ![b][v] = s]
              /\ \E t \in {"absent", "waiting", "active"} :
                    docTask' = [docTask EXCEPT ![b][v] = t]
          BY <2>4, ReaderStep
        <4>2. reading'[a][u] = reading[a][u] /\ docTask'[a][u] = docTask[a][u]
          BY <3>2, <4>1
        <4> QED
          BY <4>1, <4>2 DEF locals, InQueue
      <3> QED
        BY <3>1, <3>2
    <2>5. ASSUME NEW c \in Crawl, AddDocuments(c) PROVE Kept(a, u)
      BY <2>5 DEF AddDocuments, Leave, tables, InQueue
    <2>6. ASSUME NEW c \in Crawl, NEW D \in SUBSET (Ann \X Url), FindUnread(c, D)
          PROVE Kept(a, u)
      <3>1. <<a, u>> \notin D
        BY <2>6 DEF FindUnread, Pending
      <3>2. \A d \in Crawl : offer'[d] \subseteq offer[d] \cup D
        BY <2>6 DEF FindUnread, Leave
      <3> QED
        BY <2>1, <2>6, <3>1, <3>2 DEF FindUnread, tables, queues
    <2>7. Source \/ (\E b \in Ann, h \in Hash :
                        Match(b, h) \/ MatchFails(b, h) \/ Expire(b, h))
          => Kept(a, u)
      BY <2>1 DEF Source, Publish, Withdraw, Match, MatchFails, Expire, tables, queues, locals
    <2>8. ASSUME NEW c \in Crawl, Step(c), ~DeleteStale(c), ~InsertMissing(c),
                 ~AddDocuments(c), ~\E D \in SUBSET (Ann \X Url) : FindUnread(c, D)
          PROVE Kept(a, u)
      <3>1. UNCHANGED <<reading, docTask>> /\ \A d \in Crawl : offer'[d] \subseteq offer[d]
        BY <2>8 DEF Step, Start, Fetch, Find, Insert, Touch, Update, Store, NextJob,
           ReadAttachments, Persisted, FindChanged, AddMatching, Fail, Leave, tables, queues
      <3> QED
        BY <2>1, <3>1
    <2> QED
      BY <2>2, <2>3, <2>4, <2>5, <2>6, <2>7, <2>8 DEF Next, Workers
  <1> QED
    BY <1>1, IngestInvariant, PTL DEF Spec, ReadingSurvives

---------------------------------------------------------------------------
(* What is matched.                                                        *)

Replacing == {"attach", "prune", "insert"}

\* Crawl c will hand announcement a to the matching queue.
WillTell(c, a) ==
    \/ pc[c] \in Replacing /\ cur[c] = a
    \/ pc[c] \in {"find", "save", "match"} \cup Replacing /\ a \in changed[c]
    \/ pc[c] = "addMatch" /\ <<a, content[a]>> \in ids[c]

\* Contents, the tasks named after them and the ids found are of contents an announcement
\* has had.
Recorded == \A a \in Ann :
    /\ content[a] # None => content[a] \in stored[a]
    /\ \A h \in Hash : matchTask[a][h] # "absent" => h \in stored[a]
    /\ \A c \in Crawl, h \in Hash : <<a, h>> \in ids[c] => h \in stored[a]

\* What was not matched yet will be, and a task that has ended has matched the content it
\* is named after, if that is still the one, or failed for good.
Telling == \A a \in Ann : content[a] # None =>
    \/ content[a] \in matched[a] \cup gaveUp[a]
    \/ matchTask[a][content[a]] = "waiting"
    \/ matchTask[a][content[a]] = "absent" /\ \E c \in Crawl : WillTell(c, a)

TellInv == Recorded /\ (~broken /\ ~reverted => Telling)

\* A step that takes no announcement out of a crawl's hands and leaves contents and tasks.
LEMMA StillTold ==
  ASSUME TellInv, UNCHANGED <<content, matchTask, stored, reverted>>,
         broken' = FALSE => broken = FALSE,
         \A a \in Ann : matched[a] \subseteq matched'[a] /\ gaveUp[a] \subseteq gaveUp'[a],
         \A c \in Crawl : ids'[c] \subseteq ids[c],
         \A a \in Ann, c \in Crawl : broken' \/ (WillTell(c, a) => WillTell(c, a)')
  PROVE TellInv'
  BY DEF TellInv, Recorded, Telling

\* The source and the workers.
LEMMA TellAside == ASSUME IngestInv, TellInv, Source \/ Workers PROVE TellInv'
  <1> USE DEF IngestInv, TypeOK
  <1>1. ASSUME UNCHANGED <<content, locals>>, NEW c \in Crawl, NEW a \in Ann, WillTell(c, a)
        PROVE WillTell(c, a)'
    BY <1>1 DEF locals, WillTell
  <1>2. CASE Source
    BY <1>1, <1>2, StillTold DEF Source, Publish, Withdraw, tables, queues, locals, history
  <1>3. ASSUME UNCHANGED <<content, locals, stored, reverted, broken>>,
               NEW a \in Ann, NEW h \in Hash, matchTask[a][h] = "waiting",
               matchTask' = [matchTask EXCEPT ![a][h] = "retained"],
               \A b \in Ann : matched[b] \subseteq matched'[b] /\ gaveUp[b] \subseteq gaveUp'[b],
               content[a] = h => h \in matched'[a] \cup gaveUp'[a]
        PROVE TellInv'
    <2>1. Recorded'
      BY <1>3 DEF TellInv, Recorded, locals
    <2>2. ASSUME Telling PROVE Telling'
      BY <1>1, <1>3, <2>2 DEF Telling
    <2> QED
      BY <1>3, <2>1, <2>2 DEF TellInv
  <1>4. ASSUME NEW a \in Ann, NEW h \in Hash, Match(a, h) \/ MatchFails(a, h) PROVE TellInv'
    <2>1. /\ UNCHANGED <<content, locals, stored, reverted, broken>>
          /\ matchTask[a][h] = "waiting" /\ matchTask' = [matchTask EXCEPT ![a][h] = "retained"]
      BY <1>4 DEF Match, MatchFails, tables
    <2>2. /\ \A b \in Ann : matched[b] \subseteq matched'[b] /\ gaveUp[b] \subseteq gaveUp'[b]
          /\ content[a] = h => h \in matched'[a] \cup gaveUp'[a]
      <3>1. CASE Match(a, h)
        <4>1. matched' = [matched EXCEPT ![a] = @ \cup {content[a]}] /\ UNCHANGED gaveUp
          BY <3>1 DEF Match
        <4> QED
          BY <4>1
      <3>2. CASE MatchFails(a, h)
        <4>1. gaveUp' = [gaveUp EXCEPT ![a] = @ \cup {h}] /\ UNCHANGED matched
          BY <3>2 DEF MatchFails
        <4> QED
          BY <4>1
      <3> QED
        BY <1>4, <3>1, <3>2
    <2> QED
      BY <1>3, <2>1, <2>2
  <1>5. ASSUME NEW a \in Ann, NEW h \in Hash, Expire(a, h) PROVE TellInv'
    <2>1. /\ matchTask' = [matchTask EXCEPT ![a][h] = "absent"]
          /\ matchTask[a][h] = "retained"
          /\ UNCHANGED <<content, locals, history>>
      BY <1>5 DEF Expire, tables
    <2>2. Recorded'
      BY <2>1 DEF TellInv, Recorded, locals, history
    <2>3. ASSUME Telling PROVE Telling'
      BY <1>1, <2>1, <2>3 DEF Telling, history
    <2> QED
      BY <2>1, <2>2, <2>3 DEF TellInv, history
  <1>6. ASSUME NEW a \in Ann, NEW u \in Url,
               BeginReading(a, u) \/ RecordText(a, u) \/ StopReading(a, u)
                  \/ RecordFailure(a, u)
        PROVE TellInv'
    <2>1. UNCHANGED <<content, matchTask, locals, history>>
      BY <1>6, ReaderStep
    <2> QED
      BY <1>1, <2>1, StillTold DEF locals, history
  <1> QED
    BY <1>2, <1>4, <1>5, <1>6 DEF Workers

\* The crawls.
LEMMA TellStep == ASSUME IngestInv, TellInv, NEW c \in Crawl, Step(c) PROVE TellInv'
  <1> USE DEF IngestInv, TypeOK, Replacing
  <1>1. ASSUME UNCHANGED <<content, matchTask, stored, reverted, broken, matched, gaveUp>>,
               \A d \in Crawl \ {c} : /\ pc'[d] = pc[d] /\ cur'[d] = cur[d]
                                     /\ changed'[d] = changed[d] /\ ids'[d] = ids[d],
               ids'[c] \subseteq ids[c],
               \A a \in Ann : WillTell(c, a) => WillTell(c, a)'
        PROVE TellInv'
    <2>1. \A a \in Ann, d \in Crawl : WillTell(d, a) => WillTell(d, a)'
      BY <1>1 DEF WillTell
    <2> QED
      BY <1>1, <2>1, StillTold
  <1>2. CASE Start(c) \/ \E S \in SUBSET Ann : Fetch(c, S)
    BY <1>1, <1>2 DEF Start, Fetch, Idle, WillTell, tables, queues, history
  <1>3. CASE (\E a \in Ann : Find(c, a)) \/ Touch(c)
    BY <1>1, <1>3 DEF Find, Touch, NextJob, WillTell, tables, queues, history
  <1>4. CASE ReadAttachments(c) \/ DeleteStale(c) \/ Persisted(c)
    BY <1>1, <1>4 DEF ReadAttachments, DeleteStale, Drop, Persisted, WillTell,
       tables, queues, history
  <1>5. CASE InsertMissing(c)
    BY <1>1, <1>5 DEF InsertMissing, NextJob, WillTell, queues, history
  <1>6. CASE AddDocuments(c) \/ \E D \in SUBSET (Ann \X Url) : FindUnread(c, D)
    BY <1>1, <1>6 DEF AddDocuments, FindUnread, Leave, WillTell, tables, queues, history
  <1>7. CASE Fail(c)
    BY <1>7, StillTold DEF Fail, Leave, tables, queues
  <1>8. CASE Insert(c) \/ Update(c)
    <2> DEFINE b == cur[c]
               h == wanted[c].hash
    <2>1. /\ b \in Ann /\ h \in Hash /\ h # None
          /\ pc[c] = "save" /\ Store(c)
      BY <1>8, EditionType, NoneAssumption DEF Insert, Update, AtJob
    <2> HIDE DEF b, h
    <2>2. /\ content' = [content EXCEPT ![b] = h]
          /\ stored' = [stored EXCEPT ![b] = @ \cup {h}]
          /\ reverted' = (reverted \/ h \in stored[b])
          /\ pc' = [pc EXCEPT ![c] = "attach"]
          /\ UNCHANGED <<matchTask, cur, changed, ids, matched, gaveUp, broken>>
      BY <2>1 DEF Store, queues, b, h
    <2>3. Recorded'
      BY <2>1, <2>2 DEF TellInv, Recorded
    <2>4. ASSUME ~broken', ~reverted' PROVE Telling'
      <3>1. ~broken /\ ~reverted /\ h \notin stored[b] /\ matchTask[b][h] = "absent"
        BY <2>1, <2>2, <2>4 DEF TellInv, Recorded
      <3>2. ASSUME NEW a \in Ann, a = b PROVE WillTell(c, a)'
        BY <2>2, <3>2 DEF WillTell, b
      <3>3. ASSUME NEW a \in Ann, a # b PROVE content'[a] = content[a]
        BY <2>1, <2>2, <3>3
      <3>4. ASSUME NEW a \in Ann, a # b, NEW d \in Crawl, WillTell(d, a) PROVE WillTell(d, a)'
        BY <2>1, <2>2, <3>3, <3>4 DEF WillTell
      <3>5. content'[b] = h
        BY <2>1, <2>2
      <3>6. Telling
        BY <3>1 DEF TellInv
      <3> SUFFICES ASSUME NEW a \in Ann, content'[a] # None
                   PROVE \/ content'[a] \in matched[a] \cup gaveUp[a]
                         \/ matchTask[a][content'[a]] = "waiting"
                         \/ matchTask[a][content'[a]] = "absent"
                               /\ \E d \in Crawl : WillTell(d, a)'
        BY <2>2 DEF Telling
      <3>7. CASE a = b
        BY <3>1, <3>2, <3>5, <3>7
      <3>8. CASE a # b
        <4>1. content'[a] = content[a] /\ content[a] # None
          BY <3>3, <3>8
        <4>2. (\E d \in Crawl : WillTell(d, a)) => \E d \in Crawl : WillTell(d, a)'
          BY <3>4, <3>8
        <4> HIDE DEF IngestInv
        <4> QED
          BY <3>6, <4>1, <4>2 DEF Telling
      <3> QED
        BY <3>7, <3>8
    <2> QED
      BY <2>3, <2>4 DEF TellInv
  <1>9. CASE FindChanged(c)
    <2>1. /\ UNCHANGED <<content, matchTask, cur, changed, stored, matched, gaveUp, reverted,
                         broken>>
          /\ pc[c] = "match"
          /\ \A d \in Crawl \ {c} : pc'[d] = pc[d] /\ ids'[d] = ids[d]
          /\ ids'[c] = {<<a, content[a]>> : a \in changed[c]}
          /\ changed[c] # {} => pc'[c] = "addMatch"
      BY <1>9 DEF FindChanged, tables, queues, history
    <2>2. ASSUME NEW a \in Ann, NEW h \in Hash, <<a, h>> \in ids'[c] PROVE h \in stored[a]
      BY <2>1, <2>2, NoneAssumption DEF TellInv, Recorded
    <2>3. Recorded'
      BY <2>1, <2>2 DEF TellInv, Recorded
    <2>4. ASSUME NEW a \in Ann, NEW d \in Crawl, WillTell(d, a) PROVE WillTell(d, a)'
      BY <2>1, <2>4 DEF WillTell
    <2>5. ASSUME Telling PROVE Telling'
      <3> HIDE DEF IngestInv
      <3> QED
        BY <2>1, <2>4, <2>5 DEF Telling
    <2> QED
      BY <2>1, <2>3, <2>5 DEF TellInv
  <1>10. CASE AddMatching(c)
    <2>1. /\ UNCHANGED <<content, cur, changed, matched, gaveUp, stored, reverted, broken>>
          /\ pc[c] = "addMatch" /\ pc' = [pc EXCEPT ![c] = "document"]
          /\ ids' = [ids EXCEPT ![c] = {}]
      BY <1>10 DEF AddMatching, tables, history
    <2>2. \A a \in Ann, h \in Hash :
             matchTask'[a][h] = IF <<a, h>> \in ids[c] /\ matchTask[a][h] = "absent"
                                THEN "waiting" ELSE matchTask[a][h]
      BY <1>10 DEF AddMatching
    <2>3. Recorded'
      BY <2>1, <2>2 DEF TellInv, Recorded
    <2>4. \A d \in Crawl \ {c}, a \in Ann : WillTell(d, a) => WillTell(d, a)'
      BY <2>1 DEF WillTell
    <2>5. \A a \in Ann : WillTell(c, a) => <<a, content[a]>> \in ids[c]
      BY <2>1 DEF WillTell
    <2>6. \A a \in Ann : content[a] # None => content[a] \in Hash
      OBVIOUS
    <2>7. ASSUME Telling PROVE Telling'
      <3> SUFFICES ASSUME NEW a \in Ann, content[a] # None
                   PROVE \/ content[a] \in matched[a] \cup gaveUp[a]
                         \/ matchTask'[a][content[a]] = "waiting"
                         \/ matchTask'[a][content[a]] = "absent" /\ \E d \in Crawl : WillTell(d, a)'
        BY <2>1 DEF Telling
      <3> HIDE DEF IngestInv
      <3> QED
        BY <2>2, <2>4, <2>5, <2>6, <2>7 DEF Telling
    <2> QED
      BY <2>1, <2>3, <2>7 DEF TellInv
  <1> QED
    BY <1>2, <1>3, <1>4, <1>5, <1>6, <1>7, <1>8, <1>9, <1>10 DEF Step

\* Overlap alone leaves nothing unmatched: a failure does, or content that goes back.
THEOREM OnlyFailuresLoseMatches == Spec => []UnmatchedOnlyAfterFailure
  <1>1. Init => TellInv
    BY DEF Init, Nothing, TellInv, Recorded, Telling
  <1>2. IngestInv /\ TellInv /\ [Next]_vars => TellInv'
    <2> SUFFICES ASSUME IngestInv, TellInv, [Next]_vars PROVE TellInv'
      OBVIOUS
    <2>1. CASE UNCHANGED vars
      BY <2>1 DEF vars, tables, queues, locals, history, TellInv, Recorded, Telling, WillTell
    <2> QED
      BY <2>1, TellAside, TellStep DEF Next
  <1>3. IngestInv /\ TellInv => UnmatchedOnlyAfterFailure
    BY DEF IngestInv, TypeOK, TellInv, Telling, WillTell, Replacing, UnmatchedOnlyAfterFailure,
           Settled, Idle
  <1> QED
    BY InitIngestInv, IngestStep, <1>1, <1>2, <1>3, PTL DEF Spec

---------------------------------------------------------------------------
(* What is attached.                                                       *)

\* Until two crawls overlap, one at most is in progress.
Alone == ~overlapped => \A c, d \in Crawl : Idle(c) \/ Idle(d) \/ c = d

\* Only a crawl that persists has an announcement in hand.
InHand == \A c \in Crawl : cur[c] # None => pc[c] \in {"save"} \cup Replacing

\* What a crawl that replaces attachments has written and read so far.
HalfWay(c) ==
    /\ pc[c] \in Replacing => content[cur[c]] = wanted[c].hash
    /\ pc[c] = "prune" => Stored(cur[c]) = have[c]
    /\ pc[c] = "insert" => Stored(cur[c]) = have[c] \cap wanted[c].urls

\* Content and attachments of announcement a are those of one edition.
OneEdition(a) == \E e \in Edition : e.hash = content[a] /\ e.urls = Stored(a)

Fitting ==
    /\ \A c \in Crawl : HalfWay(c)
    /\ \A a \in Ann : \/ content[a] = None
                      \/ \E c \in Crawl : pc[c] \in Replacing /\ cur[c] = a
                      \/ OneEdition(a)

FitInv == Alone /\ InHand /\ (~broken /\ ~overlapped => Fitting)

\* A step that keeps the rows, and what a crawl in progress knows of them, keeps Fitting.
LEMMA StillFitting ==
  ASSUME Fitting, UNCHANGED content, \A a \in Ann : Stored(a)' = Stored(a),
         \A c \in Crawl : HalfWay(c)',
         \A c \in Crawl : pc[c] \in Replacing =>
             pc'[c] \in Replacing /\ cur'[c] = cur[c]
  PROVE Fitting'
  <1>1. ASSUME NEW a \in Ann, OneEdition(a) PROVE OneEdition(a)'
    BY <1>1 DEF OneEdition
  <1>2. ASSUME NEW a \in Ann
        PROVE \/ content'[a] = None
              \/ \E c \in Crawl : pc'[c] \in Replacing /\ cur'[c] = a
              \/ OneEdition(a)'
    BY <1>1 DEF Fitting
  <1> QED
    BY <1>2 DEF Fitting, Replacing

\* The source and the workers keep the rows: a reading is of a row that is there.
LEMMA FitAside == ASSUME IngestInv, FitInv, Source \/ Workers PROVE FitInv'
  <1> USE DEF IngestInv, TypeOK
  <1>1. /\ UNCHANGED <<content, locals, broken, overlapped>>
        /\ \A a \in Ann : Stored(a)' = Stored(a)
    <2>1. ASSUME NEW b \in Ann, NEW u \in Url,
                 BeginReading(b, u) \/ RecordText(b, u) \/ StopReading(b, u)
                    \/ RecordFailure(b, u)
          PROVE /\ UNCHANGED <<content, locals, broken, overlapped>>
                /\ \A a \in Ann : Stored(a)' = Stored(a)
      <3>1. /\ UNCHANGED <<content, locals, history>> /\ reading[b][u] # "ABSENT"
            /\ \E s \in Reading \ {"ABSENT"} : reading' = [reading EXCEPT ![b][u] = s]
        BY <2>1, ReaderStep
      <3>2. \A a \in Ann, v \in Url : reading'[a][v] = "ABSENT" <=> reading[a][v] = "ABSENT"
        BY <3>1
      <3> QED
        BY <3>1, <3>2 DEF Stored, history
    <2> QED
      BY <2>1 DEF Source, Publish, Withdraw, Workers, Match, MatchFails, Expire, tables, history,
         Stored
  <1>2. Alone' /\ InHand'
    BY <1>1 DEF FitInv, Alone, InHand, Idle, locals
  <1>3. ASSUME Fitting PROVE Fitting'
    <2>1. ASSUME NEW c \in Crawl PROVE HalfWay(c)'
      <3>1. pc[c] \in Replacing => cur[c] \in Ann
        BY DEF AtJob, Replacing
      <3> QED
        BY <1>1, <1>3, <3>1 DEF Fitting, HalfWay, locals, Replacing
    <2> QED
      BY <1>1, <1>3, <2>1, StillFitting DEF locals
  <1> QED
    BY <1>1, <1>2, <1>3 DEF FitInv

\* A crawl that goes alone.
LEMMA FitStep == ASSUME IngestInv, FitInv, NEW c \in Crawl, Step(c) PROVE FitInv'
  <1> USE DEF IngestInv, TypeOK
  <1>1. Alone'
    <2>1. CASE Start(c)
      BY <2>1 DEF Start, FitInv, Alone, Idle
    <2>2. CASE ~Start(c)
      <3>1. /\ ~Idle(c)
            /\ UNCHANGED overlapped
            /\ \A d \in Crawl \ {c} : pc'[d] = pc[d]
        BY <2>2 DEF Step, Fetch, Find, Insert, Touch, Update, Store, ReadAttachments,
           DeleteStale, Drop, InsertMissing, Persisted, FindChanged, AddMatching, FindUnread,
           AddDocuments, Fail, NextJob, Leave, Idle, history
      <3> QED
        BY <3>1 DEF FitInv, Alone, Idle
    <2> QED
      BY <2>1, <2>2
  <1>2. InHand'
    <2>1. CASE (\E a \in Ann : Find(c, a)) \/ Insert(c) \/ Touch(c) \/ Update(c)
      BY <2>1 DEF FitInv, InHand, Replacing, Find, Insert, Touch, Update, Store, NextJob
    <2>2. CASE ReadAttachments(c) \/ DeleteStale(c) \/ InsertMissing(c) \/ Fail(c)
      BY <2>2 DEF FitInv, InHand, Replacing, ReadAttachments, DeleteStale, Drop, InsertMissing,
         NextJob, Fail, Leave
    <2>3. CASE \/ Start(c) \/ Persisted(c) \/ FindChanged(c) \/ AddMatching(c) \/ AddDocuments(c)
               \/ \E S \in SUBSET Ann : Fetch(c, S)
               \/ \E D \in SUBSET (Ann \X Url) : FindUnread(c, D)
      BY <2>3 DEF FitInv, InHand, Replacing, Start, Idle, Persisted, FindChanged, AddMatching,
         Fetch, FindUnread, AddDocuments, Leave
    <2> QED
      BY <2>1, <2>2, <2>3 DEF Step
  <1>3. ASSUME ~broken', ~overlapped' PROVE Fitting'
    <2> DEFINE b == cur[c]
    <2>1. /\ Fitting
          /\ \A d \in Crawl \ {c} : pc[d] = "idle" /\ pc'[d] = "idle"
          /\ \A d \in Crawl \ {c} : cur'[d] = cur[d]
      <3>1. ~broken /\ ~overlapped /\ \A d \in Crawl \ {c} : pc'[d] = pc[d] /\ cur'[d] = cur[d]
        BY <1>3 DEF Step, Start, Fetch, Find, Insert, Touch, Update, Store, ReadAttachments,
           DeleteStale, Drop, InsertMissing, Persisted, FindChanged, AddMatching, FindUnread,
           AddDocuments, Fail, NextJob, Leave, history
      <3>2. \A d \in Crawl \ {c} : pc[d] = "idle"
        <4>1. CASE Start(c)
          BY <1>3, <4>1 DEF Start, Idle
        <4>2. CASE ~Start(c)
          <5>1. ~Idle(c)
            BY <4>2 DEF Step, Fetch, Find, Insert, Touch, Update, ReadAttachments,
               DeleteStale, Drop, InsertMissing, Persisted, FindChanged, AddMatching,
               FindUnread, AddDocuments, Fail, Idle
          <5> QED
            BY <3>1, <5>1 DEF FitInv, Alone, Idle
        <4> QED
          BY <4>1, <4>2
      <3> QED
        BY <3>1, <3>2 DEF FitInv
    <2>2. ASSUME NEW d \in Crawl, d # c PROVE HalfWay(d)'
      BY <2>1, <2>2 DEF HalfWay, Replacing
    <2>3. ASSUME UNCHANGED <<content, reading>>, HalfWay(c)',
                 pc[c] \in Replacing => pc'[c] \in Replacing /\ cur'[c] = cur[c]
          PROVE Fitting'
      <3>1. \A a \in Ann : Stored(a)' = Stored(a)
        BY <2>3 DEF Stored
      <3>2. \A d \in Crawl : HalfWay(d)'
        BY <2>2, <2>3
      <3>3. \A d \in Crawl : pc[d] \in Replacing => pc'[d] \in Replacing /\ cur'[d] = cur[d]
        BY <2>1, <2>3 DEF Replacing
      <3> QED
        BY <2>1, <2>3, <3>1, <3>2, <3>3, StillFitting
    <2>4. CASE \/ Start(c) \/ (\E S \in SUBSET Ann : Fetch(c, S)) \/ Touch(c)
               \/ (\E a \in Ann : Find(c, a)) \/ Persisted(c) \/ FindChanged(c)
               \/ AddMatching(c) \/ AddDocuments(c)
               \/ \E D \in SUBSET (Ann \X Url) : FindUnread(c, D)
      <3>1. /\ UNCHANGED <<content, reading>>
            /\ pc[c] \notin Replacing /\ pc'[c] \notin Replacing
        BY <2>4 DEF Start, Idle, Fetch, Touch, Find, NextJob, Persisted, FindChanged, AddMatching,
           FindUnread, AddDocuments, Leave, tables, Replacing
      <3>2. HalfWay(c)'
        BY <3>1 DEF HalfWay, Replacing
      <3> QED
        BY <2>3, <3>1, <3>2
    <2>5. CASE ReadAttachments(c)
      <3>1. /\ UNCHANGED <<content, reading, cur, wanted>>
            /\ pc[c] \in Replacing /\ pc'[c] = "prune" /\ have'[c] = Stored(cur[c])
        BY <2>5 DEF ReadAttachments, tables, Replacing
      <3>2. HalfWay(c)'
        BY <2>1, <3>1 DEF Fitting, HalfWay, Stored, Replacing
      <3> QED
        BY <2>3, <3>1, <3>2 DEF Replacing
    <2>6. CASE Insert(c) \/ Update(c)
      <3>1. /\ b \in Ann /\ pc[c] = "save"
            /\ content' = [content EXCEPT ![b] = wanted[c].hash]
            /\ pc' = [pc EXCEPT ![c] = "attach"]
            /\ UNCHANGED <<cur, wanted, reading>>
        BY <2>6 DEF Insert, Update, Store, AtJob
      <3>2. HalfWay(c)'
        BY <3>1 DEF HalfWay, Replacing
      <3>3. ASSUME NEW a \in Ann
            PROVE \/ content'[a] = None
                  \/ \E d \in Crawl : pc'[d] \in Replacing /\ cur'[d] = a
                  \/ OneEdition(a)'
        <4>1. CASE a = b
          BY <3>1, <4>1 DEF Replacing
        <4>2. CASE a # b
          <5>1. content'[a] = content[a] /\ Stored(a)' = Stored(a)
            BY <3>1, <4>2 DEF Stored
          <5>2. \A d \in Crawl : pc[d] \in Replacing => FALSE
            BY <2>1, <3>1 DEF Replacing
          <5> QED
            BY <2>1, <5>1, <5>2 DEF Fitting, OneEdition
        <4> QED
          BY <4>1, <4>2
      <3> QED
        BY <2>2, <3>2, <3>3 DEF Fitting
    <2>7. CASE DeleteStale(c)
      <3>1. /\ b \in Ann /\ pc[c] = "prune"
            /\ reading' = [reading EXCEPT ![b] =
                  [u \in Url |-> IF u \in have[c] \ wanted[c].urls THEN "ABSENT" ELSE @[u]]]
            /\ pc' = [pc EXCEPT ![c] = "insert"]
            /\ UNCHANGED <<content, cur, wanted, have>>
        BY <2>7 DEF DeleteStale, Drop, AtJob
      <3>2. Stored(b) = have[c] /\ content[b] = wanted[c].hash
        BY <2>1, <3>1 DEF Fitting, HalfWay, Replacing
      <3>3. {u \in Url : reading'[b][u] # "ABSENT"} = have[c] \cap wanted[c].urls
        BY <3>1, <3>2 DEF Stored
      <3>4. HalfWay(c)'
        BY <3>1, <3>2, <3>3 DEF HalfWay, Stored, Replacing
      <3>5. ASSUME NEW a \in Ann
            PROVE \/ content'[a] = None
                  \/ \E d \in Crawl : pc'[d] \in Replacing /\ cur'[d] = a
                  \/ OneEdition(a)'
        <4>1. CASE a = b
          BY <3>1, <4>1 DEF Replacing
        <4>2. CASE a # b
          <5>1. content'[a] = content[a] /\ Stored(a)' = Stored(a)
            BY <3>1, <4>2 DEF Stored
          <5>2. \A d \in Crawl : pc[d] \in Replacing => cur[d] # a
            BY <2>1, <3>1, <4>2 DEF Replacing
          <5> QED
            BY <2>1, <5>1, <5>2 DEF Fitting, OneEdition
        <4> QED
          BY <4>1, <4>2
      <3> QED
        BY <2>2, <3>4, <3>5 DEF Fitting
    <2>8. CASE InsertMissing(c)
      <3>1. /\ b \in Ann /\ pc[c] = "insert"
            /\ wanted[c] \in Edition /\ wanted[c].urls \in SUBSET Url
            /\ reading' = [reading EXCEPT ![b] =
                  [u \in Url |-> IF u \in wanted[c].urls \ have[c] THEN "PENDING" ELSE @[u]]]
            /\ pc' = [pc EXCEPT ![c] = "find"]
            /\ UNCHANGED content
        BY <2>8, EditionType DEF InsertMissing, NextJob, AtJob
      <3>2. Stored(b) = have[c] \cap wanted[c].urls /\ content[b] = wanted[c].hash
        BY <2>1, <3>1 DEF Fitting, HalfWay, Replacing
      <3>3. {u \in Url : reading'[b][u] # "ABSENT"} = wanted[c].urls
        BY <3>1, <3>2 DEF Stored
      <3>4. HalfWay(c)'
        BY <3>1 DEF HalfWay, Replacing
      <3>5. ASSUME NEW a \in Ann
            PROVE content'[a] = None \/ OneEdition(a)'
        <4>1. CASE a = b
          BY <3>1, <3>2, <3>3, <4>1 DEF OneEdition, Stored
        <4>2. CASE a # b
          <5>1. content'[a] = content[a] /\ Stored(a)' = Stored(a)
            BY <3>1, <4>2 DEF Stored
          <5>2. \A d \in Crawl : pc[d] \in Replacing => cur[d] # a
            BY <2>1, <3>1, <4>2 DEF Replacing
          <5> QED
            BY <2>1, <5>1, <5>2 DEF Fitting, OneEdition
        <4> QED
          BY <4>1, <4>2
      <3> QED
        BY <2>2, <3>4, <3>5 DEF Fitting
    <2>9. ~Fail(c)
      BY <1>3 DEF Fail
    <2> QED
      BY <2>4, <2>5, <2>6, <2>7, <2>8, <2>9 DEF Step
  <1> QED
    BY <1>1, <1>2, <1>3 DEF FitInv

\* Content and attachments drift apart only through a failure or an overlap.
THEOREM OnlyFaultsMixEditions == Spec => []AttachmentsFitContent
  <1>1. Init => FitInv
    BY DEF Init, Nothing, FitInv, Alone, InHand, Fitting, HalfWay, Idle, Replacing
  <1>2. IngestInv /\ FitInv /\ [Next]_vars => FitInv'
    <2> SUFFICES ASSUME IngestInv, FitInv, [Next]_vars PROVE FitInv'
      OBVIOUS
    <2>1. CASE UNCHANGED vars
      BY <2>1 DEF vars, tables, queues, locals, history, FitInv, Alone, InHand, Fitting,
         HalfWay, OneEdition, Stored, Idle
    <2> QED
      BY <2>1, FitAside, FitStep DEF Next
  <1>3. IngestInv /\ FitInv => AttachmentsFitContent
    BY NoneAssumption DEF IngestInv, TypeOK, AtJob, FitInv, Fitting, OneEdition, Replacing,
       AttachmentsFitContent
  <1> QED
    BY InitIngestInv, IngestStep, <1>1, <1>2, <1>3, PTL DEF Spec

---------------------------------------------------------------------------
(* CrawlIngest implements AttachmentRows.                                  *)

\* Of an announcement and a URL; a URL that comes back has a new row.
RowOf(s) == IF s \in {"PENDING", "PROCESSING"} THEN "UNREAD" ELSE s

Rows == INSTANCE AttachmentRows WITH
    Row <- Ann \X Url,
    reading <- [r \in Ann \X Url |-> RowOf(reading[r[1]][r[2]])],
    verdict <- [r \in Ann \X Url |-> "COMPLETED"]

\* The rows of the URLs in S of announcement a become s, all others stay.
LEMMA RowsBecome ==
  ASSUME NEW a \in Ann, NEW S \in SUBSET Url, NEW s \in Reading, TypeOK,
         reading' = [reading EXCEPT ![a] = [u \in Url |-> IF u \in S THEN s ELSE @[u]]]
  PROVE /\ {a} \X S \in SUBSET (Ann \X Url)
        /\ Rows!Become({a} \X S, RowOf(s))
  <1>1. ASSUME NEW r \in Ann \X Url
        PROVE RowOf(reading'[r[1]][r[2]]) =
                IF r \in {a} \X S THEN RowOf(s) ELSE RowOf(reading[r[1]][r[2]])
    <2>1. PICK b \in Ann, u \in Url : r = <<b, u>>
      OBVIOUS
    <2>2. r \in {a} \X S <=> b = a /\ u \in S
      BY <2>1
    <2>3. reading'[b][u] = IF b = a /\ u \in S THEN s ELSE reading[b][u]
      BY <2>1 DEF TypeOK
    <2> QED
      BY <2>1, <2>2, <2>3
  <1> QED
    BY <1>1 DEF Rows!Become

\* Only replaceAttachments and the document worker touch a row: the one inserts those that
\* are missing and deletes, the other reads, again if need be, the row of its task.
THEOREM ImplementsRows == Spec => Rows!RowsSpec
  <1>1. Init => Rows!RowsInit
    BY DEF Init, Rows!RowsInit, RowOf
  <1>2. IngestInv /\ [Next]_vars => [Rows!RowsNext]_Rows!rows
    <2> SUFFICES ASSUME IngestInv, [Next]_vars PROVE [Rows!RowsNext]_Rows!rows
      OBVIOUS
    <2> USE DEF IngestInv
    <2>1. CASE UNCHANGED reading
      BY <2>1 DEF Rows!rows
    <2>2. ASSUME NEW c \in Crawl, DeleteStale(c) PROVE Rows!RowsNext
      <3> DEFINE a == cur[c]
                 stale == have[c] \ wanted[c].urls
      <3>1. /\ a \in Ann /\ stale \in SUBSET Url
            /\ reading' = [reading EXCEPT ![a] =
                              [u \in Url |-> IF u \in stale THEN "ABSENT" ELSE @[u]]]
        BY <2>2 DEF DeleteStale, Drop, AtJob, TypeOK
      <3> HIDE DEF a, stale
      <3>2. {a} \X stale \in SUBSET (Ann \X Url) /\ Rows!DeleteRows({a} \X stale)
        BY <3>1, RowsBecome DEF Rows!DeleteRows, RowOf, Reading
      <3> QED
        BY <3>2 DEF Rows!RowsNext
    <2>3. ASSUME NEW c \in Crawl, InsertMissing(c) PROVE Rows!RowsNext
      <3> DEFINE a == cur[c]
                 missing == wanted[c].urls \ have[c]
      <3>1. /\ a \in Ann /\ missing \in SUBSET Url /\ missing \cap Stored(a) = {}
            /\ reading' = [reading EXCEPT ![a] =
                              [u \in Url |-> IF u \in missing THEN "PENDING" ELSE @[u]]]
        BY <2>3, EditionType DEF InsertMissing, AtJob
      <3> HIDE DEF a, missing
      <3>2. /\ {a} \X missing \in SUBSET (Ann \X Url)
            /\ Rows!Become({a} \X missing, "UNREAD")
        BY <3>1, RowsBecome DEF RowOf, Reading
      <3>3. \A r \in {a} \X missing : ~Rows!There(r)
        BY <3>1 DEF Rows!There, Stored, RowOf
      <3>4. Rows!InsertRows({a} \X missing)
        BY <3>2, <3>3 DEF Rows!InsertRows
      <3> QED
        BY <3>2, <3>4 DEF Rows!RowsNext
    <2>4. ASSUME NEW a \in Ann, NEW u \in Url,
                 BeginReading(a, u) \/ RecordText(a, u) \/ RecordFailure(a, u)
          PROVE Rows!RowsNext
      <3> DEFINE r == <<a, u>>
      <3>1. reading[a][u] \in Reading /\ reading[a][u] # "ABSENT"
        BY <2>4, ReaderStep DEF TypeOK
      <3>2. /\ r \in Ann \X Url /\ {a} \X {u} = {r}
            /\ RowOf(reading[r[1]][r[2]]) = RowOf(reading[a][u])
        OBVIOUS
      <3>3. Rows!There(r)
        BY <3>1, <3>2 DEF Rows!There, RowOf
      <3>4. ASSUME NEW s \in Reading, reading' = [reading EXCEPT ![a][u] = s]
            PROVE Rows!Become({r}, RowOf(s))
        <4>1. reading' = [reading EXCEPT ![a] = [v \in Url |-> IF v \in {u} THEN s ELSE @[v]]]
          BY <3>4 DEF TypeOK
        <4>2. Rows!Become({a} \X {u}, RowOf(s))
          BY <4>1, RowsBecome
        <4> QED
          BY <3>2, <4>2
      <3> HIDE DEF r
      <3>5. CASE BeginReading(a, u)
        <4>1. Rows!Become({r}, "UNREAD")
          BY <3>4, <3>5 DEF BeginReading, Reading, RowOf
        <4> QED
          BY <3>2, <3>3, <4>1 DEF Rows!Reopen, Rows!RowsNext
      <3>6. CASE RecordText(a, u)
        <4>1. Rows!Become({r}, "COMPLETED") /\ RowOf(reading[r[1]][r[2]]) = "UNREAD"
          BY <3>2, <3>4, <3>6 DEF RecordText, Reading, RowOf
        <4> QED
          BY <3>2, <4>1 DEF Rows!Conclude, Rows!Verdicts, Rows!RowsNext
      <3>7. CASE RecordFailure(a, u)
        <4>1. Rows!Become({r}, "FAILED")
          BY <3>4, <3>7 DEF RecordFailure, Reading, RowOf
        <4> QED
          BY <3>2, <3>3, <4>1 DEF Rows!GiveUp, Rows!RowsNext
      <3> QED
        BY <2>4, <3>5, <3>6, <3>7
    <2>5. (\E a \in Ann, h \in Hash : Match(a, h) \/ MatchFails(a, h) \/ Expire(a, h))
             \/ (\E a \in Ann, u \in Url : StopReading(a, u))
          => UNCHANGED reading
      BY DEF Match, MatchFails, Expire, StopReading, tables
    <2>6. Source => UNCHANGED reading
      BY DEF Source, Publish, Withdraw, tables
    <2>7. ASSUME NEW c \in Crawl, Step(c), ~DeleteStale(c), ~InsertMissing(c)
          PROVE UNCHANGED reading
      BY <2>7 DEF Step, Start, Fetch, Find, Insert, Touch, Update, Store,
         ReadAttachments, Persisted, FindChanged, AddMatching, FindUnread, AddDocuments, Fail,
         tables
    <2>8. UNCHANGED vars => UNCHANGED reading
      BY DEF vars, tables
    <2> QED
      BY <2>1, <2>2, <2>3, <2>4, <2>5, <2>6, <2>7, <2>8 DEF Next, Workers
  <1> QED
    BY InitIngestInv, IngestStep, <1>1, <1>2, PTL DEF Spec, Rows!RowsSpec

=============================================================================
