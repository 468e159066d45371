---------------------------- MODULE ProgressProofs ----------------------------
(***************************************************************************)
(* Proofs about Progress: that a callback that raises changes nothing of   *)
(* the operation it listens to, that what it hears says how the operation  *)
(* ended, and that the percentages it hears do not fall.                   *)
(***************************************************************************)
EXTENDS Progress, TLAPS

-----------------------------------------------------------------------------
(* What an operation goes through.                                         *)

Phases == {"validating_input", "building_evidence", "embedding_evidence", "extracting_facts",
           "building_indexes", "activating_version", "parsing_claim", "retrieving_graph",
           "retrieving_full_text", "retrieving_vectors", "fusing_candidates",
           "expanding_context", "verifying_visuals", "deciding_verdict", "persisting_trace"}

Events == [what : {"event"}, phase : Phases,
           status : {"start", "progress", "warning", "completed"}, percent : Int]
Commits == {Commit("open"), Commit("served")}

\* From here on a course only reports: what it commits last serves.
SettledAfter(s) ==
  /\ (s = 0 /\ operation \in {"reuse", "retry"}) \/ (s \in DOMAIN course /\ course[s] = Commit("served"))
  /\ \A k \in s + 1 .. Len(course) : course[k].what = "event"

CourseShape ==
  /\ course \in Seq(Events \union Commits \union {Completed}) /\ Len(course) > 0
  /\ course[Len(course)] = Completed
  /\ \A k \in 1 .. Len(course) : k # Len(course) => course[k] \in Events \union Commits
  /\ operation \in {"reuse", "retry"} => \A k \in 1 .. Len(course) : course[k] # Commit("open")
  /\ \E s \in 0 .. Len(course) - 1 : SettledAfter(s)

-----------------------------------------------------------------------------
(* The parts of a course are lists of events and commits.                  *)

LEMMA PercentIsInt ==
  ASSUME NEW completed \in Int, NEW total \in Nat
  PROVE  Percent(completed, total) \in Int
<1>1. CASE total = 0
  BY <1>1 DEF Percent
<1>2. CASE total # 0
  BY <1>2 DEF Percent
<1> QED
  BY <1>1, <1>2

LEMMA EventTypes ==
  ASSUME NEW p \in Phases
  PROVE  /\ Opened(p) \in Events /\ Told(p) \in Events
         /\ \A n \in Nat : Start(p, n) \in Events
         /\ \A completed \in Int, total \in Nat : Done(p, completed, total) \in Events
<1>1. \A q \in Int, status \in {"start", "progress", "warning", "completed"} :
        Event(p, status, q) \in Events
  BY DEF Event, Events
<1>2. Unmeasured \in Int
  BY DEF Unmeasured
<1> QED
  BY <1>1, <1>2, PercentIsInt DEF Opened, Told, Start, Done

LEMMA StepsAreEvents ==
  ASSUME NEW p \in Phases, NEW n \in Nat, NEW missed
  PROVE  Steps(p, n, missed) \in Seq(Events)
<1>1. ASSUME NEW i \in 1 .. n
      PROVE  (IF i \in missed THEN Event(p, "warning", Unmeasured)
              ELSE Event(p, "progress", Percent(i, n))) \in Events
  <2>1. Percent(i, n) \in Int /\ Unmeasured \in Int
    BY PercentIsInt DEF Unmeasured
  <2> QED
    BY <2>1 DEF Event, Events
<1>2. Steps(p, n, missed) \in [1 .. n -> Events]
  BY <1>1 DEF Steps
<1> QED
  BY <1>2

LEMMA CountedAreEvents ==
  ASSUME NEW p \in Phases, NEW n \in Nat, NEW missed
  PROVE  Counted(p, n, missed) \in Seq(Events)
<1>1. Start(p, n) \in Events /\ Done(p, n, n) \in Events
  BY EventTypes
<1> QED
  BY <1>1, StepsAreEvents DEF Counted

LEMMA ValidatedAreEvents ==
  ASSUME NEW pages \in Nat
  PROVE  Validated(pages) \in Seq(Events)
<1>1. "validating_input" \in Phases
  BY DEF Phases
<1>2. Opened("validating_input") \in Events /\ Done("validating_input", pages, pages) \in Events
  BY <1>1, EventTypes
<1> QED
  BY <1>2 DEF Validated

LEMMA SearchedAreEvents ==
  ASSUME NEW p \in Phases, NEW found \in Nat
  PROVE  Searched(p, found) \in Seq(Events)
<1>1. Start(p, SearchPool) \in Events /\ Done(p, found, SearchPool) \in Events
  BY EventTypes, ConstantsAssumption
<1> QED
  BY <1>1 DEF Searched

LEMMA PassesAreEvents ==
  ASSUME NEW found \in Nat, NEW passes \in Passes(found)
  PROVE  passes \in Seq(Events)
<1>1. "verifying_visuals" \in Phases /\ "deciding_verdict" \in Phases
  BY DEF Phases
<1>2. Opened("deciding_verdict") \in Events /\ Done("verifying_visuals", 0, 0) \in Events
  BY <1>1, EventTypes
<1>3. Decided \in Seq(Events)
  BY <1>2 DEF Decided
<1>4. ASSUME NEW crops \in Nat PROVE Judged(crops) \in Seq(Events)
  <2>1. Counted("verifying_visuals", crops, {}) \in Seq(Events)
    BY <1>1, CountedAreEvents
  <2> QED
    BY <1>2, <2>1 DEF Judged
<1>5. \A crops \in 0 .. found * MaxItems : crops \in Nat
  OBVIOUS
<1>6. \A crops \in 0 .. found * MaxItems : \A again \in crops .. MaxItems : again \in Nat
  BY <1>5
<1>7. \A crops, again \in Nat : Judged(crops) \o Judged(again) \in Seq(Events)
  BY <1>4
<1>8. \/ passes = Decided
      \/ \E crops \in 0 .. found * MaxItems : passes = Judged(crops)
      \/ \E crops \in 0 .. found * MaxItems : \E again \in crops .. MaxItems :
           passes = Judged(crops) \o Judged(again)
  BY DEF Passes
<1> QED
  BY <1>3, <1>4, <1>5, <1>6, <1>7, <1>8

-----------------------------------------------------------------------------
(* Every course ends in the same way.                                      *)

LEMMA EndsInCompleted ==
  Completed = [what |-> "event", phase |-> "completed", status |-> "completed", percent |-> 100]
  BY DEF Completed, Done, Event, Percent

LEMMA ListOfEntries ==
  ASSUME NEW S, NEW s \in Seq(S)
  PROVE  Len(s) \in Nat /\ DOMAIN s = 1 .. Len(s) /\ \A k \in 1 .. Len(s) : s[k] \in S
  OBVIOUS

LEMMA Appendix ==
  ASSUME NEW S, NEW T, NEW s \in Seq(S), NEW t \in Seq(T)
  PROVE  /\ s \o t \in Seq(S \union T) /\ Len(s \o t) = Len(s) + Len(t)
         /\ \A k \in 1 .. Len(s) : (s \o t)[k] = s[k]
         /\ \A k \in 1 .. Len(t) : (s \o t)[Len(s) + k] = t[k]
<1>1. s \in Seq(S \union T) /\ t \in Seq(S \union T)
  BY ListOfEntries
<1> QED
  BY <1>1

LEMMA CommitsAreNotEvents ==
  /\ \A e \in Events : e.what = "event" /\ e # Commit("open") /\ e # Completed
  /\ Commit("served") # Commit("open") /\ Commit("open") # Completed /\ Commit("served") # Completed
  /\ Completed.what = "event"
<1>1. Commit("open").what = "commit" /\ Commit("served").what = "commit"
      /\ Commit("open").row = "open" /\ Commit("served").row = "served"
  BY DEF Commit
<1>2. \A e \in Events : e.what = "event" /\ e.phase # "completed"
  BY DEF Events, Phases
<1>3. Completed.what = "event" /\ Completed.phase = "completed"
  BY EndsInCompleted
<1> QED
  BY <1>1, <1>2, <1>3

\* A course of events and commits whose last commit serves, or that has none to make.
EndsWell(before, end) ==
  /\ before \in Seq(Events \union Commits)
  /\ end \in Seq(Events \union Commits \union {Completed})
  /\ Len(end) > 0 /\ end[Len(end)] = Completed
  /\ \A k \in 1 .. Len(end) - 1 : end[k] \in Events \union Commits
  /\ operation \in {"reuse", "retry"} =>
       /\ \A k \in 1 .. Len(before) : before[k] \in Events
       /\ \A k \in 1 .. Len(end) : end[k] # Commit("open")
  /\ \/ \E s \in 1 .. Len(end) - 1 :
          end[s] = Commit("served") /\ \A k \in s + 1 .. Len(end) : end[k].what = "event"
     \/ /\ operation \in {"reuse", "retry"}
        /\ \A k \in 1 .. Len(end) : end[k].what = "event"

LEMMA ShapeOfCourse ==
  ASSUME NEW before, NEW end, EndsWell(before, end), course = before \o end
  PROVE  CourseShape
<1> USE DEF EndsWell
<1> DEFINE b == Len(before)
           n == Len(end)
<1>1. /\ b \in Nat /\ n \in Nat \ {0}
      /\ course \in Seq(Events \union Commits \union {Completed})
      /\ Len(course) = b + n /\ DOMAIN course = 1 .. b + n
      /\ \A k \in 1 .. b : course[k] = before[k] /\ before[k] \in Events \union Commits
      /\ \A k \in 1 .. n : course[b + k] = end[k]
  <2>1. b \in Nat /\ n \in Nat /\ n > 0 /\ \A k \in 1 .. b : before[k] \in Events \union Commits
    BY ListOfEntries
  <2>2. /\ course \in Seq((Events \union Commits) \union (Events \union Commits \union {Completed}))
        /\ Len(course) = b + n
        /\ \A k \in 1 .. b : course[k] = before[k]
        /\ \A k \in 1 .. n : course[b + k] = end[k]
    BY Appendix
  <2>3. DOMAIN course = 1 .. b + n
    BY <2>2, ListOfEntries
  <2>4. (Events \union Commits) \union (Events \union Commits \union {Completed})
          = Events \union Commits \union {Completed}
    OBVIOUS
  <2> QED
    BY <2>1, <2>2, <2>3, <2>4
<1> HIDE DEF b, n
\* An entry of the course is one of either part.
<1>2. \A k \in 1 .. b + n : k \in 1 .. b \/ (k - b \in 1 .. n /\ course[k] = end[k - b])
  <2>1. TAKE k \in 1 .. b + n
  <2>2. CASE k <= b
    BY <1>1, <2>2
  <2>3. CASE k > b
    <3>1. k - b \in 1 .. n /\ b + (k - b) = k
      BY <1>1, <2>3
    <3> QED
      BY <1>1, <3>1
  <2> QED
    BY <1>1, <2>2, <2>3
<1>3. course[b + n] = Completed
  BY <1>1 DEF n
<1>4. ASSUME NEW k \in 1 .. b + n, k # b + n PROVE course[k] \in Events \union Commits
  <2>1. CASE k \in 1 .. b
    BY <1>1, <2>1
  <2>2. CASE k - b \in 1 .. n /\ course[k] = end[k - b]
    <3>1. k - b \in 1 .. n - 1
      BY <1>1, <1>4, <2>2
    <3> QED
      BY <2>2, <3>1 DEF n
  <2> QED
    BY <1>2, <2>1, <2>2
<1>5. ASSUME operation \in {"reuse", "retry"}, NEW k \in 1 .. b + n PROVE course[k] # Commit("open")
  <2>1. CASE k \in 1 .. b
    <3>1. before[k] \in Events
      BY <1>5, <2>1 DEF b
    <3> QED
      BY <1>1, <2>1, <3>1, CommitsAreNotEvents
  <2>2. CASE k - b \in 1 .. n /\ course[k] = end[k - b]
    BY <1>5, <2>2 DEF n
  <2> QED
    BY <1>2, <2>1, <2>2
<1>6. \E s \in 0 .. b + n - 1 : SettledAfter(s)
  <2>1. ASSUME NEW s \in 1 .. n - 1, end[s] = Commit("served"),
               \A k \in s + 1 .. n : end[k].what = "event"
        PROVE  SettledAfter(b + s) /\ b + s \in 0 .. b + n - 1
    <3>1. b + s \in DOMAIN course /\ b + s \in 0 .. b + n - 1 /\ s \in 1 .. n
      BY <1>1
    <3>2. course[b + s] = Commit("served")
      BY <1>1, <2>1, <3>1
    <3>3. ASSUME NEW k \in b + s + 1 .. Len(course) PROVE course[k].what = "event"
      <4>1. k \in 1 .. b + n /\ k \notin 1 .. b /\ k - b \in s + 1 .. n
        BY <1>1, <3>1
      <4>2. course[k] = end[k - b]
        BY <1>2, <4>1
      <4> QED
        BY <2>1, <4>1, <4>2
    <3> QED
      BY <3>1, <3>2, <3>3 DEF SettledAfter
  <2>2. ASSUME operation \in {"reuse", "retry"}, \A k \in 1 .. n : end[k].what = "event"
        PROVE  SettledAfter(0) /\ 0 \in 0 .. b + n - 1
    <3>1. ASSUME NEW k \in 1 .. b + n PROVE course[k].what = "event"
      <4>1. CASE k \in 1 .. b
        <5>1. before[k] \in Events
          BY <2>2, <4>1 DEF b
        <5> QED
          BY <1>1, <4>1, <5>1, CommitsAreNotEvents
      <4>2. CASE k - b \in 1 .. n /\ course[k] = end[k - b]
        BY <2>2, <4>2
      <4> QED
        BY <1>2, <4>1, <4>2
    <3> QED
      BY <1>1, <2>2, <3>1 DEF SettledAfter
  <2> QED
    BY <2>1, <2>2 DEF n
<1> QED
  BY <1>1, <1>3, <1>4, <1>5, <1>6 DEF CourseShape

\* What comes before the end of a course.
IngestBefore(pages, batches, passages, missed) ==
  Validated(pages) \o <<Commit("open")>>
  \o Counted("building_evidence", pages, {}) \o Counted("embedding_evidence", batches, {})
  \o Counted("extracting_facts", passages, missed) \o Counted("building_indexes", 1, {})

RetryBefore(n, missed) ==
  <<Start("extracting_facts", n)>> \o Steps("extracting_facts", n, missed)

AuditBefore(found, vectors, passes) ==
  <<Opened("parsing_claim"), Told("parsing_claim"), Commit("open")>>
  \o Searched("retrieving_graph", found) \o Searched("retrieving_full_text", 0) \o vectors
  \o <<Opened("fusing_candidates"), Done("fusing_candidates", found, found)>>
  \o Counted("expanding_context", found, {}) \o passes

AuditEnd(found) ==
  <<Told("deciding_verdict"), Opened("persisting_trace"), Commit("open"),
    Done("persisting_trace", found, found), Commit("served"), Completed>>

LEMMA IngestParts ==
  ASSUME course \in IngestCourses
  PROVE  \E pages \in Items \ {0}, batches \in Items, passages \in Items, missed \in SUBSET {1} :
           course = IngestBefore(pages, batches, passages, missed) \o Activated
<1>1. \A pages, batches, passages, missed :
        IngestCourse(pages, batches, passages, missed)
          = IngestBefore(pages, batches, passages, missed) \o Activated
  BY Zenon DEF IngestBefore, IngestCourse
<1> QED
  BY <1>1 DEF IngestCourses

LEMMA RetryParts ==
  ASSUME course \in RetryCourses
  PROVE  \E n \in Items, missed \in SUBSET {1} :
           course = RetryBefore(n, missed) \o <<Commit("served"), Completed>>
  BY DEF RetryCourses, RetryBefore

LEMMA AuditParts ==
  ASSUME NEW found, course \in AuditFinding(found)
  PROVE  \E vectors \in {<<>>, Searched("retrieving_vectors", 1)}, passes \in Passes(found) :
           course = AuditBefore(found, vectors, passes) \o AuditEnd(found)
<1>1. \A vectors, passes :
        AuditCourse(found, vectors, passes) = AuditBefore(found, vectors, passes) \o AuditEnd(found)
  BY Zenon DEF AuditBefore, AuditEnd, AuditCourse
<1> QED
  BY <1>1 DEF AuditFinding

LEMMA CoursesHaveShape ==
  ASSUME operation \in Operations, course \in Courses(operation)
  PROVE  CourseShape
<1> DEFINE E == Events \union Commits
           End == Events \union Commits \union {Completed}
<1>0. /\ \A s \in Seq(Events) : s \in Seq(E)
      /\ Commit("open") \in E /\ Commit("served") \in E
      /\ Completed \in End /\ Commit("served") \in End /\ Commit("open") \in End
      /\ \A e \in Events : e \in E /\ e \in End
      /\ MaxItems \in Nat
  <2>1. \A s \in Seq(Events) : s \in Seq(E)
    BY ListOfEntries
  <2> QED
    BY <2>1, ConstantsAssumption DEF Commits
<1>1. CASE operation = "ingest"
  <2>1. PICK pages \in Items \ {0}, batches \in Items, passages \in Items, missed \in SUBSET {1} :
           course = IngestBefore(pages, batches, passages, missed) \o Activated
    <3>1. course \in IngestCourses
      BY <1>1 DEF Courses
    <3> QED
      BY <3>1, IngestParts
  <2> DEFINE before == IngestBefore(pages, batches, passages, missed)
  <2>2. pages \in Nat /\ batches \in Nat /\ passages \in Nat
    BY <1>0 DEF Items
  <2>3. /\ "building_evidence" \in Phases /\ "embedding_evidence" \in Phases
        /\ "extracting_facts" \in Phases /\ "building_indexes" \in Phases
        /\ "activating_version" \in Phases
    BY DEF Phases
  <2>4. /\ Validated(pages) \in Seq(E) /\ <<Commit("open")>> \in Seq(E)
        /\ Counted("building_evidence", pages, {}) \in Seq(E)
        /\ Counted("embedding_evidence", batches, {}) \in Seq(E)
        /\ Counted("extracting_facts", passages, missed) \in Seq(E)
        /\ Counted("building_indexes", 1, {}) \in Seq(E)
    <3>1. /\ Validated(pages) \in Seq(Events)
          /\ Counted("building_evidence", pages, {}) \in Seq(Events)
          /\ Counted("embedding_evidence", batches, {}) \in Seq(Events)
          /\ Counted("extracting_facts", passages, missed) \in Seq(Events)
          /\ Counted("building_indexes", 1, {}) \in Seq(Events)
      BY <2>2, <2>3, ValidatedAreEvents, CountedAreEvents
    <3> HIDE DEF E
    <3> QED
      BY <1>0, <3>1
  <2>5. before \in Seq(E)
    <3> HIDE DEF E
    <3> QED
      BY <2>4 DEF IngestBefore
  <2>6. /\ Opened("activating_version") \in Events /\ Done("activating_version", 1, 1) \in Events
        /\ Opened("activating_version").what = "event" /\ Done("activating_version", 1, 1).what = "event"
    BY <2>3, EventTypes DEF Events
  <2> HIDE DEF before, E
  <2>7. Activated \in Seq(End)
    <3> HIDE DEF End
    <3> QED
      BY <1>0, <2>6 DEF Activated
  <2>8. /\ Len(Activated) = 4 /\ Activated[1] = Opened("activating_version")
        /\ Activated[2] = Commit("served") /\ Activated[3] = Done("activating_version", 1, 1)
        /\ Activated[4] = Completed
    BY DEF Activated
  <2>9. \A k \in 1 .. 4 : k = 1 \/ k = 2 \/ k = 3 \/ k = 4
    OBVIOUS
  <2>10. \A k \in 1 .. Len(Activated) - 1 : Activated[k] \in E
    BY <1>0, <2>6, <2>8
  <2>11. 2 \in 1 .. Len(Activated) - 1 /\ \A k \in 3 .. Len(Activated) : Activated[k].what = "event"
    BY <2>6, <2>8, CommitsAreNotEvents
  <2>12. course = before \o Activated
    BY <2>1 DEF before
  <2>13. EndsWell(before, Activated)
    BY <1>1, <2>5, <2>7, <2>8, <2>10, <2>11 DEF E, End, EndsWell
  <2> QED
    BY <2>12, <2>13, ShapeOfCourse
<1>2. CASE operation = "reuse"
  <2>1. PICK pages \in Items \ {0} : course = Validated(pages) \o <<Completed>>
    BY <1>2 DEF Courses, ReuseCourses
  <2>2. Validated(pages) \in Seq(Events)
    BY <1>0, ValidatedAreEvents DEF Items
  <2>3. Validated(pages) \in Seq(E) /\ \A k \in 1 .. Len(Validated(pages)) : Validated(pages)[k] \in Events
    BY <1>0, <2>2, ListOfEntries
  <2>4. /\ <<Completed>> \in Seq(End) /\ Len(<<Completed>>) = 1
        /\ \A k \in 1 .. 1 : <<Completed>>[k] = Completed
    BY <1>0
  <2>5. EndsWell(Validated(pages), <<Completed>>)
    BY <1>2, <2>3, <2>4, CommitsAreNotEvents DEF EndsWell
  <2> QED
    BY <2>1, <2>5, ShapeOfCourse
<1>3. CASE operation = "retry"
  <2>1. PICK n \in Items, missed \in SUBSET {1} :
          course = RetryBefore(n, missed) \o <<Commit("served"), Completed>>
    <3>1. course \in RetryCourses
      BY <1>3 DEF Courses
    <3> QED
      BY <3>1, RetryParts
  <2> DEFINE before == RetryBefore(n, missed)
             end == <<Commit("served"), Completed>>
  <2>2. before \in Seq(Events)
    <3>1. n \in Nat /\ "extracting_facts" \in Phases
      BY <1>0 DEF Items, Phases
    <3>2. Start("extracting_facts", n) \in Events /\ Steps("extracting_facts", n, missed) \in Seq(Events)
      BY <3>1, EventTypes, StepsAreEvents
    <3> QED
      BY <3>2 DEF RetryBefore
  <2>3. before \in Seq(E) /\ \A k \in 1 .. Len(before) : before[k] \in Events
    BY <1>0, <2>2, ListOfEntries
  <2>4. end \in Seq(End) /\ Len(end) = 2 /\ end[1] = Commit("served") /\ end[2] = Completed
    BY <1>0
  <2>5. course = before \o end
    BY <2>1
  <2> HIDE DEF before, end
  <2>6. \A k \in 1 .. Len(end) - 1 : end[k] \in E
    BY <1>0, <2>4
  <2>7. \A k \in 1 .. Len(end) : end[k] # Commit("open")
    BY <2>4, CommitsAreNotEvents
  <2>8. 1 \in 1 .. Len(end) - 1 /\ \A k \in 2 .. Len(end) : end[k].what = "event"
    BY <2>4, CommitsAreNotEvents
  <2>9. EndsWell(before, end)
    BY <2>3, <2>4, <2>6, <2>7, <2>8 DEF EndsWell
  <2> QED
    BY <2>5, <2>9, ShapeOfCourse
<1>4. CASE operation = "audit"
  <2>1. PICK found \in {0, 1} : course \in AuditFinding(found)
    BY <1>4 DEF Courses, AuditCourses
  <2>2. PICK vectors \in {<<>>, Searched("retrieving_vectors", 1)}, passes \in Passes(found) :
          course = AuditBefore(found, vectors, passes) \o AuditEnd(found)
    BY <2>1, AuditParts
  <2> DEFINE before == AuditBefore(found, vectors, passes)
             end == AuditEnd(found)
  <2>3. found \in Nat
    OBVIOUS
  <2>4. /\ "parsing_claim" \in Phases /\ "retrieving_graph" \in Phases
        /\ "retrieving_full_text" \in Phases /\ "retrieving_vectors" \in Phases
        /\ "fusing_candidates" \in Phases /\ "expanding_context" \in Phases
        /\ "deciding_verdict" \in Phases /\ "persisting_trace" \in Phases
    BY DEF Phases
  <2>5. /\ Opened("parsing_claim") \in Events /\ Told("parsing_claim") \in Events
        /\ Opened("fusing_candidates") \in Events /\ Done("fusing_candidates", found, found) \in Events
        /\ Told("deciding_verdict") \in Events /\ Opened("persisting_trace") \in Events
        /\ Done("persisting_trace", found, found) \in Events
    BY <2>3, <2>4, EventTypes
  <2>6. /\ Searched("retrieving_graph", found) \in Seq(Events)
        /\ Searched("retrieving_full_text", 0) \in Seq(Events)
        /\ vectors \in Seq(Events) /\ passes \in Seq(Events)
        /\ Counted("expanding_context", found, {}) \in Seq(Events)
    <3>1. Searched("retrieving_vectors", 1) \in Seq(Events) /\ <<>> \in Seq(Events)
      BY <2>4, SearchedAreEvents
    <3> QED
      BY <2>3, <2>4, <3>1, SearchedAreEvents, PassesAreEvents, CountedAreEvents
  <2>7. before \in Seq(E)
    <3>1. <<Opened("parsing_claim"), Told("parsing_claim"), Commit("open")>> \in Seq(E)
          /\ <<Opened("fusing_candidates"), Done("fusing_candidates", found, found)>> \in Seq(E)
      <4> HIDE DEF E
      <4> QED
        BY <1>0, <2>5
    <3>2. /\ Searched("retrieving_graph", found) \in Seq(E)
          /\ Searched("retrieving_full_text", 0) \in Seq(E)
          /\ vectors \in Seq(E) /\ passes \in Seq(E)
          /\ Counted("expanding_context", found, {}) \in Seq(E)
      BY <1>0, <2>6
    <3> HIDE DEF E
    <3> QED
      BY <3>1, <3>2 DEF AuditBefore
  <2>8. course = before \o end
    BY <2>2
  <2> HIDE DEF before
  <2>9. /\ Len(end) = 6 /\ end[1] = Told("deciding_verdict") /\ end[2] = Opened("persisting_trace")
        /\ end[3] = Commit("open") /\ end[4] = Done("persisting_trace", found, found)
        /\ end[5] = Commit("served") /\ end[6] = Completed
    BY DEF AuditEnd
  <2>10. end \in Seq(End)
    <3> HIDE DEF End
    <3> QED
      BY <1>0, <2>5 DEF AuditEnd
  <2> HIDE DEF end
  <2>11. \A k \in 1 .. Len(end) - 1 : end[k] \in E
    <3>1. \A k \in 1 .. 5 : k = 1 \/ k = 2 \/ k = 3 \/ k = 4 \/ k = 5
      OBVIOUS
    <3> QED
      BY <1>0, <2>5, <2>9, <3>1
  <2>12. 5 \in 1 .. Len(end) - 1 /\ \A k \in 6 .. Len(end) : end[k].what = "event"
    BY <2>9, CommitsAreNotEvents
  <2>13. EndsWell(before, end)
    BY <1>4, <2>7, <2>9, <2>10, <2>11, <2>12 DEF EndsWell
  <2> QED
    BY <2>8, <2>13, ShapeOfCourse
<1> QED
  BY <1>1, <1>2, <1>3, <1>4, ConstantsAssumption

-----------------------------------------------------------------------------
(* The inductive invariant.                                                *)

Walking ==
  /\ CourseShape
  /\ at \in 1 .. Len(course) + 1
  /\ pc \in {"working", "returned", "failing", "recording", "raised"}
  /\ pc = "returned" => at = Len(course) + 1

\* The row follows the commits passed, and what stopped the operation is known.
Standing ==
  /\ operation \in {"reuse", "retry"} => row = "served"
  /\ \A s \in 0 .. Len(course) : SettledAfter(s) /\ at > s => row = "served"
  /\ (cause = "none") = (pc \in {"working", "returned"})
  /\ pc = "raised" /\ cause # "listener" /\ row = "open" => refused

IsList(s) == s \in Seq(ToSet(s))

\* What the callback got.
Reported ==
  /\ IsList(heard)
  /\ \A k \in 1 .. Len(heard) : heard[k] = Completed => row = "served" /\ at > Len(course)
  /\ listening /\ ~broken =>
       /\ Len(heard) = 0 <=> phase = ""
       /\ Len(heard) > 0 => heard[Len(heard)].phase = phase
       /\ pc \in {"working", "failing", "returned"} =>
            \A k \in 1 .. Len(heard) : heard[k].status # "failed"
       /\ pc \in {"working", "returned"} /\ at > 1 /\ course[at - 1].what = "event" =>
            Len(heard) > 0 /\ heard[Len(heard)] = course[at - 1]
       /\ pc \in {"recording", "raised"} /\ operation # "retry" =>
            /\ Len(heard) > 0 /\ heard[Len(heard)].status = "failed"
            /\ \A k \in 1 .. Len(heard) - 1 : heard[k].status # "failed"
            /\ Len(heard) > 1 => heard[Len(heard)].phase = heard[Len(heard) - 1].phase

Inductive == Walking /\ Standing /\ Reported

LEMMA ListLength ==
  ASSUME NEW s, IsList(s)
  PROVE  Len(s) \in Nat /\ DOMAIN s = 1 .. Len(s)
  BY DEF IsList

LEMMA ListOver ==
  ASSUME NEW S, NEW s \in Seq(S)
  PROVE  IsList(s)
<1>1. Len(s) \in Nat /\ s \in [1 .. Len(s) -> S]
  OBVIOUS
<1>2. s \in [1 .. Len(s) -> ToSet(s)]
  BY <1>1 DEF ToSet
<1> QED
  BY <1>1, <1>2 DEF IsList

LEMMA Appended ==
  ASSUME NEW s, IsList(s), NEW x
  PROVE  /\ IsList(Append(s, x)) /\ Len(Append(s, x)) = Len(s) + 1
         /\ Append(s, x)[Len(s) + 1] = x
         /\ \A k \in 1 .. Len(s) : Append(s, x)[k] = s[k]
<1> DEFINE T == ToSet(s) \union {x}
<1>1. s \in Seq(T) /\ x \in T
  BY DEF IsList
<1>2. Append(s, x) \in Seq(T)
  BY <1>1
<1>3. IsList(Append(s, x))
  BY <1>2, ListOver
<1> QED
  BY <1>1, <1>3

LEMMA Starts ==
  ASSUME Init
  PROVE  Inductive
<1>1. CourseShape
  BY CoursesHaveShape DEF Init
<1>0. Len(course) \in Nat /\ Len(course) > 0
  BY <1>1 DEF CourseShape
<1>5. at = 1
  BY Zenon DEF Init
<1>6. heard = <<>> /\ phase = "" /\ pc = "working" /\ cause = "none"
  BY Zenon DEF Init
<1>2. Walking
  <2> DEFINE L == Len(course)
  <2>1. L \in Nat
    BY <1>0
  <2> HIDE DEF L
  <2>2. at \in 1 .. L + 1
    BY <1>5, <2>1
  <2> QED
    BY <1>1, <1>6, <2>2 DEF Walking, L
<1>3. Standing
  <2>1. ASSUME NEW s \in 0 .. Len(course), SettledAfter(s), at > s PROVE row = "served"
    <3>1. s \in Nat
      BY <1>0
    <3>2. s = 0
      BY <1>5, <2>1, <3>1
    <3>3. 0 \notin DOMAIN course
      BY <1>1 DEF CourseShape
    <3> QED
      BY <2>1, <3>2, <3>3 DEF SettledAfter, Init
  <2> QED
    BY <1>5, <1>6, <2>1 DEF Standing, Init
<1>4. Reported
  <2>1. IsList(<<>>) /\ Len(<<>>) = 0 /\ \A k \in 1 .. 0 : FALSE
    BY DEF IsList
  <2>2. IsList(heard) /\ Len(heard) = 0
    BY <1>6, <2>1, Zenon
  <2>3. phase = "" /\ pc = "working"
    BY <1>6, Zenon
  <2>4. /\ \A k \in 1 .. Len(heard) : FALSE
        /\ ~(Len(heard) > 0)
    BY <2>2
  <2>5. ~(at > 1)
    BY <1>5
  <2> QED
    BY <2>2, <2>3, <2>4, <2>5, Zenon DEF Reported
<1> QED
  BY <1>2, <1>3, <1>4 DEF Inductive

LEMMA ShapeKept ==
  ASSUME CourseShape, UNCHANGED call
  PROVE  CourseShape' /\ \A s : SettledAfter(s)' = SettledAfter(s)
<1>1. \A s : SettledAfter(s)' = SettledAfter(s)
  BY DEF SettledAfter, call
<1>2. CourseShape'
  BY <1>1 DEF CourseShape, call
<1> QED
  BY <1>1, <1>2

\* What is emitted is an event of the course, and Completed only once the row serves.
LEMMA NextEvent ==
  ASSUME Inductive, at <= Len(course), course[at].what = "event"
  PROVE  /\ at \in 1 .. Len(course) /\ at # 0
         /\ course[at].phase # "" /\ course[at].status # "failed"
         /\ course[at] = Completed => row = "served" /\ at = Len(course)
<1>1. at \in 1 .. Len(course) /\ Len(course) \in Nat /\ at # 0
  BY DEF Inductive, Walking, CourseShape
<1>2. CASE at # Len(course)
  <2>1. course[at] \in Events
    <3>1. course[at] \in Events \union Commits
      BY <1>1, <1>2 DEF Inductive, Walking, CourseShape
    <3>2. \A c \in Commits : c.what = "commit"
      BY DEF Commits, Commit
    <3> QED
      BY <3>1, <3>2
  <2> QED
    BY <1>1, <2>1, CommitsAreNotEvents DEF Events, Phases
<1>3. CASE at = Len(course)
  <2>1. course[at] = Completed
    BY <1>3 DEF Inductive, Walking, CourseShape
  <2>2. PICK s \in 0 .. Len(course) - 1 : SettledAfter(s)
    BY DEF Inductive, Walking, CourseShape
  <2>3. row = "served"
    BY <1>1, <1>3, <2>2 DEF Inductive, Standing
  <2> QED
    BY <1>1, <1>3, <2>1, <2>3, EndsInCompleted
<1> QED
  BY <1>2, <1>3

\* A commit of the course: nothing is left to settle after the one that settles it.
LEMMA NextCommit ==
  ASSUME Inductive, at <= Len(course), course[at].what = "commit"
  PROVE  /\ at \in 1 .. Len(course)
         /\ \A s \in 0 .. Len(course) : SettledAfter(s) /\ at + 1 > s => course[at].row = "served"
         /\ operation \in {"reuse", "retry"} => course[at].row = "served"
<1>1. at \in 1 .. Len(course) /\ Len(course) \in Nat /\ course[at] # Completed /\ at # Len(course)
  BY CommitsAreNotEvents DEF Inductive, Walking, CourseShape
<1>2. course[at] \in Commits
  <2>1. course[at] \in Events \union Commits
    BY <1>1 DEF Inductive, Walking, CourseShape
  <2> QED
    BY <2>1, CommitsAreNotEvents
<1>3. course[at] # Commit("open") => course[at].row = "served"
  BY <1>2 DEF Commits, Commit
<1>4. ASSUME NEW s \in 0 .. Len(course), SettledAfter(s), at + 1 > s PROVE course[at].row = "served"
  <2>1. ~(at \in s + 1 .. Len(course))
    BY <1>4 DEF SettledAfter
  <2>2. at = s /\ s # 0
    BY <1>1, <1>4, <2>1
  <2>3. course[at] = Commit("served")
    BY <1>4, <2>2 DEF SettledAfter
  <2> QED
    BY <2>3 DEF Commit
<1>5. operation \in {"reuse", "retry"} => course[at] # Commit("open")
  BY <1>1 DEF Inductive, Walking, CourseShape
<1> QED
  BY <1>1, <1>3, <1>4, <1>5

\* The callback got one more event, or it got nothing because it is not called.
LEMMA OneMoreHeard ==
  ASSUME Inductive, NEW event, Heard(event)
  PROVE  /\ IsList(heard')
         /\ Len(heard') = Len(heard) + 1 /\ Len(heard') \in Nat /\ DOMAIN heard' = 1 .. Len(heard')
         /\ heard'[Len(heard')] = event /\ Len(heard) \in Nat
         /\ \A k \in 1 .. Len(heard) : heard'[k] = heard[k]
<1>1. IsList(heard) /\ heard' = Append(heard, event)
  BY DEF Inductive, Reported, Heard
<1>2. /\ IsList(heard') /\ Len(heard') = Len(heard) + 1 /\ Len(heard) \in Nat
      /\ heard'[Len(heard) + 1] = event
      /\ \A k \in 1 .. Len(heard) : heard'[k] = heard[k]
  BY <1>1, Appended, ListLength
<1> QED
  BY <1>2, ListLength

\* An event that is not a failure: the callback hears it or does not, and the
\* operation goes on, or is interrupted.
LEMMA EventHeard ==
  ASSUME Inductive, UNCHANGED <<call, row>>, pc = "working",
         at <= Len(course), course[at].what = "event", at' = at + 1,
         \/ Delivered(course[at], "working")
         \/ Raises(course[at], "working")
         \/ Interrupts(course[at], "failing")
  PROVE  Inductive'
<1> DEFINE e == course[at]
<1>1. /\ at \in 1 .. Len(course) /\ at # 0 /\ e.phase # "" /\ e.status # "failed" /\ e.what = "event"
      /\ e = Completed => row = "served" /\ at = Len(course)
  BY NextEvent
<1>2. /\ course' = course /\ operation' = operation /\ listening' = listening /\ row' = row
      /\ at \in Int /\ Len(course) \in Nat /\ cause = "none" /\ CourseShape
  BY DEF call, Inductive, Walking, Standing, CourseShape
<1>3. /\ phase' = e.phase
      /\ \/ pc' = "working" /\ cause' = cause
         \/ pc' = "failing" /\ cause' = "listener"
  BY DEF Delivered, Raises, Interrupts
<1>4. \/ Heard(e)
      \/ heard' = heard /\ broken' = broken /\ ~(listening /\ ~broken)
  BY DEF Delivered, Raises, Interrupts
<1>5. ~broken' => ~broken
  BY DEF Delivered, Raises, Interrupts
<1> HIDE DEF e
<1>6. Walking'
  <2>1. CourseShape'
    BY <1>2, ShapeKept
  <2>2. at' \in 1 .. Len(course') + 1
    <3> DEFINE L == Len(course)
    <3>1. L \in Nat /\ at \in 1 .. L /\ Len(course') = L
      BY <1>1, <1>2
    <3> HIDE DEF L
    <3> QED
      BY <3>1
  <2> QED
    BY <1>3, <2>1, <2>2 DEF Walking
<1>7. Standing'
  <2>1. ASSUME NEW s \in 0 .. Len(course), SettledAfter(s), at + 1 > s PROVE row = "served"
    <3>1. CASE at > s
      BY <2>1, <3>1 DEF Inductive, Standing
    <3>2. CASE at = s
      <4>1. Commit("served").what = "commit" /\ s # 0
        BY <1>1, <3>2 DEF Commit
      <4> QED
        BY <1>1, <2>1, <3>2, <4>1 DEF SettledAfter, e
    <3> QED
      BY <1>2, <2>1, <3>1, <3>2
  <2>2. \A s : SettledAfter(s)' = SettledAfter(s)
    BY <1>2, ShapeKept
  <2>3. operation \in {"reuse", "retry"} => row = "served"
    BY DEF Inductive, Standing
  <2> QED
    BY <1>2, <1>3, <2>1, <2>2, <2>3 DEF Standing
<1>8. Reported'
  <2>1. CASE Heard(e)
    <3>1. /\ IsList(heard') /\ Len(heard) \in Nat /\ Len(heard') = Len(heard) + 1
          /\ Len(heard') \in Nat /\ DOMAIN heard' = 1 .. Len(heard')
          /\ heard'[Len(heard')] = e
          /\ \A k \in 1 .. Len(heard) : heard'[k] = heard[k]
      BY <2>1, OneMoreHeard
    <3> DEFINE m == Len(heard)
               n == Len(heard')
    <3>2. \A k \in 1 .. n : k = n \/ k \in 1 .. m
      BY <3>1
    <3>3. n > 0 /\ n # 0
      BY <3>1
    <3>4. \A k \in 1 .. n : heard'[k] = Completed => row' = "served" /\ at' > Len(course')
      <4>1. at + 1 > at /\ (at > Len(course) => at + 1 > Len(course))
        BY <1>2
      <4> QED
        BY <1>1, <1>2, <3>1, <3>2, <4>1 DEF Inductive, Reported
    <3>5. ASSUME listening', ~broken' PROVE \A k \in 1 .. n : heard'[k].status # "failed"
      BY <1>1, <1>2, <1>5, <3>1, <3>2, <3>5 DEF Inductive, Reported
    <3>6. course'[at' - 1] = e
      BY <1>2 DEF e
    <3>7. pc' \notin {"recording", "raised"}
      BY <1>3
    <3> QED
      BY <1>1, <1>3, <3>1, <3>3, <3>4, <3>5, <3>6, <3>7 DEF Reported
  <2>2. CASE heard' = heard /\ broken' = broken /\ ~(listening /\ ~broken)
    <3>1. at + 1 > at /\ (at > Len(course) => at + 1 > Len(course))
      BY <1>2
    <3>2. \A k \in 1 .. Len(heard) : heard[k] = Completed => row = "served" /\ at + 1 > Len(course)
      BY <3>1 DEF Inductive, Reported
    <3> QED
      BY <1>2, <2>2, <3>2 DEF Inductive, Reported
  <2> QED
    BY <1>4, <2>1, <2>2
<1> QED
  BY <1>6, <1>7, <1>8 DEF Inductive

\* The one event that says the operation failed.
LEMMA FailureHeard ==
  ASSUME Inductive, ReportFailure
  PROVE  Inductive'
<1> DEFINE e == Failed
<1>1. /\ e.status = "failed" /\ e.phase = (IF phase = "" THEN "unknown" ELSE phase) /\ e.what = "event"
      /\ e # Completed /\ e.phase # ""
  BY EndsInCompleted DEF Failed, Event
<1>2. /\ UNCHANGED <<call, at, row>> /\ pc = "failing" /\ operation # "retry"
      /\ course' = course /\ operation' = operation /\ listening' = listening /\ row' = row /\ at' = at
      /\ cause # "none" /\ CourseShape
  BY DEF ReportFailure, call, Inductive, Walking, Standing
<1>3. /\ phase' = e.phase
      /\ \/ pc' = "recording" /\ cause' = cause
         \/ pc' = "raised" /\ cause' = "listener"
  BY DEF ReportFailure, Delivered, Raises, Interrupts
<1>4. \/ Heard(e)
      \/ heard' = heard /\ broken' = broken /\ ~(listening /\ ~broken)
  BY DEF ReportFailure, Delivered, Raises, Interrupts
<1>5. ~broken' => ~broken
  BY DEF ReportFailure, Delivered, Raises, Interrupts
<1> HIDE DEF e
<1>6. Walking'
  <2>1. CourseShape'
    BY <1>2, ShapeKept
  <2>2. at' \in 1 .. Len(course') + 1
    BY <1>2 DEF Inductive, Walking
  <2> QED
    BY <1>3, <2>1, <2>2 DEF Walking
<1>7. Standing'
  <2>1. \A s : SettledAfter(s)' = SettledAfter(s)
    BY <1>2, ShapeKept
  <2> QED
    BY <1>2, <1>3, <2>1 DEF Inductive, Standing
<1>8. Reported'
  <2>1. CASE Heard(e)
    <3>1. /\ IsList(heard') /\ Len(heard) \in Nat /\ Len(heard') = Len(heard) + 1
          /\ Len(heard') \in Nat /\ DOMAIN heard' = 1 .. Len(heard')
          /\ heard'[Len(heard')] = e
          /\ \A k \in 1 .. Len(heard) : heard'[k] = heard[k]
      BY <2>1, OneMoreHeard
    <3> DEFINE m == Len(heard)
               n == Len(heard')
    <3>2. \A k \in 1 .. n : k = n \/ k \in 1 .. m
      BY <3>1
    <3>3. n > 0 /\ n # 0 /\ n - 1 = m
      BY <3>1
    <3>4. \A k \in 1 .. n : heard'[k] = Completed => row' = "served" /\ at' > Len(course')
      BY <1>1, <1>2, <3>1, <3>2 DEF Inductive, Reported
    <3>5. ASSUME listening', ~broken' PROVE \A k \in 1 .. m : heard'[k].status # "failed"
      BY <1>2, <1>5, <3>1, <3>5 DEF Inductive, Reported
    <3>6. ASSUME listening', ~broken', n > 1 PROVE heard'[n].phase = heard'[n - 1].phase
      <4>1. m > 0 /\ m # 0 /\ m \in 1 .. m
        BY <3>1, <3>6
      <4>2. heard[m].phase = phase /\ phase # ""
        BY <1>2, <1>5, <3>6, <4>1 DEF Inductive, Reported
      <4>3. heard'[m] = heard[m]
        BY <3>1, <4>1
      <4> QED
        BY <1>1, <3>1, <3>3, <4>2, <4>3
    <3>7. pc' \notin {"working", "failing", "returned"}
      BY <1>3
    <3> QED
      BY <1>1, <1>3, <3>1, <3>3, <3>4, <3>5, <3>6, <3>7 DEF Reported
  <2>2. CASE heard' = heard /\ broken' = broken /\ ~(listening /\ ~broken)
    BY <1>2, <2>2 DEF Inductive, Reported
  <2> QED
    BY <1>4, <2>1, <2>2
<1> QED
  BY <1>6, <1>7, <1>8 DEF Inductive

LEMMA Kept ==
  ASSUME Inductive, [Next]_vars
  PROVE  Inductive'
<1>1. CASE Emit
  BY <1>1, EventHeard DEF Emit
<1>2. CASE ReportFailure
  BY <1>2, FailureHeard
<1>3. ASSUME UNCHANGED call PROVE CourseShape' /\ \A s : SettledAfter(s)' = SettledAfter(s)
  BY <1>3, ShapeKept DEF Inductive, Walking
<1>4. CASE CommitNext
  <2>1. /\ UNCHANGED <<call, broken, phase, heard, cause, pc>> /\ pc = "working"
        /\ at <= Len(course) /\ course[at].what = "commit"
        /\ row' = course[at].row /\ at' = at + 1
        /\ course' = course /\ operation' = operation /\ listening' = listening
    BY <1>4 DEF CommitNext, call
  <2>2. /\ at \in 1 .. Len(course)
        /\ \A s \in 0 .. Len(course) : SettledAfter(s) /\ at + 1 > s => course[at].row = "served"
        /\ operation \in {"reuse", "retry"} => course[at].row = "served"
    BY <2>1, NextCommit
  <2>3. Walking'
    <3>1. Len(course) \in Nat
      BY DEF Inductive, Walking, CourseShape
    <3>2. at' \in 1 .. Len(course') + 1
      BY <2>1, <2>2, <3>1
    <3> QED
      BY <1>3, <2>1, <3>2 DEF Inductive, Walking
  <2>4. Standing'
    BY <1>3, <2>1, <2>2 DEF Inductive, Standing
  <2>5. Reported'
    <3>0. ~(at > Len(course))
      <4>1. course \in Seq(Events \union Commits \union {Completed}) /\ at \in Int
        BY DEF Inductive, Walking, CourseShape
      <4> QED
        BY <2>1, <4>1
    <3>1. \A k \in 1 .. Len(heard) : heard[k] # Completed
      BY <3>0 DEF Inductive, Reported
    <3>2. course'[at' - 1].what # "event"
      <4>1. at' - 1 = at
        BY <2>1, <2>2
      <4> QED
        BY <2>1, <4>1
    <3> QED
      BY <2>1, <3>1, <3>2 DEF Inductive, Reported
  <2> QED
    BY <2>3, <2>4, <2>5 DEF Inductive
<1>5. CASE Return
  <2>1. /\ UNCHANGED <<call, at, broken, phase, heard, row, cause>> /\ pc = "working" /\ pc' = "returned"
        /\ at > Len(course) /\ course' = course /\ operation' = operation /\ listening' = listening
    BY <1>5 DEF Return, call
  <2>2. at = Len(course) + 1
    BY <2>1 DEF Inductive, Walking, CourseShape
  <2> QED
    BY <1>3, <2>1, <2>2 DEF Inductive, Walking, Standing, Reported
<1>6. CASE WorkFails
  <2>1. /\ UNCHANGED <<call, at, broken, phase, heard, row>> /\ pc = "working" /\ pc' = "failing"
        /\ cause' = "work" /\ course' = course /\ operation' = operation /\ listening' = listening
    BY <1>6 DEF WorkFails, call
  <2>2. Walking'
    BY <1>3, <2>1 DEF Inductive, Walking
  <2>3. Standing'
    BY <1>3, <2>1 DEF Inductive, Standing
  <2>4. Reported'
    BY <2>1 DEF Inductive, Reported
  <2> QED
    BY <2>2, <2>3, <2>4 DEF Inductive
<1>7. CASE FailUnreported
  <2>1. /\ UNCHANGED <<call, at, broken, phase, heard, row, cause>> /\ pc = "failing" /\ pc' = "raised"
        /\ operation = "retry" /\ course' = course /\ operation' = operation /\ listening' = listening
    BY <1>7 DEF FailUnreported, call
  <2>2. Walking'
    BY <1>3, <2>1 DEF Inductive, Walking
  <2>3. Standing'
    BY <1>3, <2>1 DEF Inductive, Standing
  <2>4. Reported'
    BY <2>1 DEF Inductive, Reported
  <2> QED
    BY <2>2, <2>3, <2>4 DEF Inductive
<1>8. CASE RecordFailure
  <2>1. /\ UNCHANGED <<call, at, broken, phase, heard, cause>> /\ pc = "recording" /\ pc' = "raised"
        /\ \/ row' = (IF row = "open" THEN "failed" ELSE row)
           \/ row = "open" /\ refused' /\ row' = row
        /\ course' = course /\ operation' = operation /\ listening' = listening
    BY <1>8 DEF RecordFailure, call
  <2>2. row = "served" => row' = "served"
    BY <2>1
  <2>3. row' = "open" => refused'
    BY <2>1
  <2>4. Walking'
    BY <1>3, <2>1 DEF Inductive, Walking
  <2>5. Standing'
    BY <1>3, <2>1, <2>2, <2>3 DEF Inductive, Standing
  <2>6. Reported'
    BY <2>1, <2>2 DEF Inductive, Reported
  <2> QED
    BY <2>4, <2>5, <2>6 DEF Inductive
<1>9. CASE UNCHANGED vars
  <2>1. UNCHANGED call
    BY <1>9 DEF vars, call
  <2>2. Walking'
    BY <1>3, <1>9, <2>1 DEF vars, Inductive, Walking
  <2>3. Standing'
    BY <1>3, <1>9, <2>1 DEF vars, Inductive, Standing
  <2>4. Reported'
    BY <1>9 DEF vars, Inductive, Reported
  <2> QED
    BY <2>2, <2>3, <2>4 DEF Inductive
<1> QED
  BY <1>1, <1>2, <1>4, <1>5, <1>6, <1>7, <1>8, <1>9 DEF Next, Finished

\* Whatever a callback raises short of an interrupt, a call returns exactly if its
\* work did not fail, a returned call is committed, and a failed one leaves a row that
\* looks as if it were running only where the database refused to mark it
\* (ProgressReporter.emit and its callers, _record_failure, _record_audit_failure).
THEOREM ListenerIsHarmless == Spec => []ListenerChangesNothing
<1>1. ASSUME Inductive PROVE ListenerChangesNothing
  <2>1. SUFFICES ASSUME Ended, cause # "listener" PROVE ListenerChangesNothing
    BY DEF ListenerChangesNothing
  <2>2. pc = "returned" => row = "served"
    <3>1. PICK s \in 0 .. Len(course) - 1 : SettledAfter(s)
      BY <1>1 DEF Inductive, Walking, CourseShape
    <3>2. Len(course) \in Nat
      BY <1>1 DEF Inductive, Walking, CourseShape
    <3>3. s \in 0 .. Len(course) /\ (at = Len(course) + 1 => at > s)
      BY <3>2
    <3> QED
      BY <1>1, <3>1, <3>3 DEF Inductive, Walking, Standing
  <2> QED
    BY <1>1, <2>1, <2>2 DEF Inductive, Walking, Standing, ListenerChangesNothing, Ended
<1> QED
  BY <1>1, Starts, Kept, PTL DEF Spec

\* What a caller hears says how the call ended: completion only of what is durable,
\* and a single failure, the last event, in the phase the call stopped in (fail).
THEOREM EventsAreTrue == Spec => []EventsTellTheOutcome
<1>1. ASSUME Inductive PROVE EventsTellTheOutcome
  <2> DEFINE failures == {k \in DOMAIN heard : heard[k].status = "failed"}
             last == Len(heard)
  <2>1. IsList(heard) /\ last \in Nat /\ DOMAIN heard = 1 .. last
    BY <1>1, ListLength DEF Inductive, Reported
  <2>2. Contains(heard, Completed) => row = "served"
    BY <1>1, <2>1 DEF Inductive, Reported, Contains
  <2>3. ASSUME pc = "returned", listening, ~broken
        PROVE  heard[last] = Completed /\ failures = {}
    <3>1. course[Len(course)] = Completed /\ Len(course) \in Nat /\ Len(course) > 0
          /\ at = Len(course) + 1
      BY <1>1, <2>3 DEF Inductive, Walking, CourseShape
    <3>2. at > 1 /\ at - 1 = Len(course)
      BY <3>1
    <3>3. course[at - 1] = Completed /\ course[at - 1].what = "event"
      BY <3>1, <3>2, CommitsAreNotEvents
    <3> QED
      BY <1>1, <2>1, <2>3, <3>2, <3>3 DEF Inductive, Reported
  <2>4. ASSUME pc = "raised", operation # "retry", listening, ~broken
        PROVE  failures = {last} /\ (last > 1 => heard[last].phase = heard[last - 1].phase)
    <3>1. /\ last > 0 /\ heard[last].status = "failed"
          /\ \A k \in 1 .. last - 1 : heard[k].status # "failed"
          /\ last > 1 => heard[last].phase = heard[last - 1].phase
      BY <1>1, <2>4 DEF Inductive, Reported
    <3>2. last \in 1 .. last /\ \A k \in 1 .. last : k = last \/ k \in 1 .. last - 1
      <4> HIDE DEF last
      <4> QED
        BY <2>1, <3>1
    <3> QED
      BY <2>1, <3>1, <3>2
  <2> QED
    BY <2>2, <2>3, <2>4 DEF EventsTellTheOutcome, Ended
<1> QED
  BY <1>1, Starts, Kept, PTL DEF Spec

-----------------------------------------------------------------------------
(* Percentages of a course.                                                *)

Entries == Events \union Commits \union {Completed}
Measured(e) == e.what = "event" /\ e.percent # Unmeasured
Begins(e, p) == e.what = "event" /\ e.phase = p /\ e.status = "start"

\* From one start of a phase to the next its percentages do not fall.
Rises(s) ==
  \A i, j \in 1 .. Len(s) :
    i < j /\ Measured(s[i]) /\ Measured(s[j]) /\ s[i].phase = s[j].phase =>
      s[i].percent <= s[j].percent \/ \E k \in i + 1 .. j : Begins(s[k], s[j].phase)

\* A part of a course that measures only phases in met, and each after its start,
\* but for those in unbegun.
Climbs(s, unbegun, met) ==
  /\ s \in Seq(Entries) /\ Rises(s)
  /\ \A j \in 1 .. Len(s) : Measured(s[j]) =>
       /\ s[j].phase \in met
       /\ s[j].phase \notin unbegun => \E k \in 1 .. j : Begins(s[k], s[j].phase)

\* Parts whose phases begin in them can be put after any others.
LEMMA Joined ==
  ASSUME NEW s, NEW t, NEW U, NEW V, NEW M, NEW N,
         Climbs(s, U, M), Climbs(t, V, N), M \intersect V = {}
  PROVE  Climbs(s \o t, U \union V, M \union N)
<1> DEFINE r == s \o t
           a == Len(s)
           b == Len(t)
<1>0. a \in Nat /\ b \in Nat
  BY DEF Climbs
<1>1. s \in Seq(Entries) /\ t \in Seq(Entries)
  BY DEF Climbs
<1>2. /\ r \in Seq(Entries) /\ Len(r) = a + b
      /\ \A k \in 1 .. a : r[k] = s[k]
      /\ \A k \in 1 .. b : r[a + k] = t[k]
  <2> HIDE DEF Entries
  <2> QED
    BY <1>0, <1>1
<1> HIDE DEF r, a, b
<1>3. ASSUME NEW k \in 1 .. a + b, ~(k \in 1 .. a)
      PROVE  k - a \in 1 .. b /\ r[k] = t[k - a] /\ a + (k - a) = k
  <2>1. k - a \in 1 .. b /\ a + (k - a) = k
    BY <1>0, <1>3
  <2> QED
    BY <1>2, <2>1
\* What t measures begins in t, or is not measured in s.
<1>4. ASSUME NEW j \in 1 .. b, Measured(t[j])
      PROVE  /\ t[j].phase \in N
             /\ t[j].phase \notin V => \E k \in 1 .. j : Begins(t[k], t[j].phase)
  BY <1>4 DEF Climbs, b
<1>5. ASSUME NEW j \in 1 .. a, Measured(s[j])
      PROVE  /\ s[j].phase \in M
             /\ s[j].phase \notin U => \E k \in 1 .. j : Begins(s[k], s[j].phase)
  BY <1>5 DEF Climbs, a
<1>6. Rises(r)
  <2> SUFFICES ASSUME NEW i \in 1 .. a + b, NEW j \in 1 .. a + b, i < j,
                      Measured(r[i]), Measured(r[j]), r[i].phase = r[j].phase
               PROVE  r[i].percent <= r[j].percent \/ \E k \in i + 1 .. j : Begins(r[k], r[j].phase)
    BY <1>2 DEF Rises
  <2>1. CASE j \in 1 .. a
    <3>1. i \in 1 .. a /\ r[i] = s[i] /\ r[j] = s[j]
      BY <1>0, <1>2, <2>1
    <3>2. s[i].percent <= s[j].percent \/ \E k \in i + 1 .. j : Begins(s[k], s[j].phase)
      BY <2>1, <3>1 DEF Climbs, Rises, a
    <3>3. \A k \in i + 1 .. j : k \in 1 .. a
      BY <1>0, <2>1, <3>1
    <3> QED
      BY <1>2, <3>1, <3>2, <3>3
  <2>2. CASE i \in 1 .. a /\ ~(j \in 1 .. a)
    <3>1. j - a \in 1 .. b /\ r[j] = t[j - a] /\ r[i] = s[i]
      BY <1>2, <1>3, <2>2
    <3>2. r[j].phase \in M
      BY <1>5, <2>2, <3>1
    <3>3. PICK k \in 1 .. j - a : Begins(t[k], r[j].phase)
      BY <1>4, <3>1, <3>2
    <3>4. j - a \in 1 .. b
      BY <3>1
    <3>5. a + k \in i + 1 .. j /\ k \in 1 .. b
      BY <1>0, <2>2, <3>3, <3>4
    <3>6. Begins(r[a + k], r[j].phase)
      BY <1>2, <3>1, <3>3, <3>5
    <3> QED
      BY <3>5, <3>6
  <2>3. CASE ~(i \in 1 .. a)
    <3>1. ~(j \in 1 .. a)
      BY <1>0, <2>3
    <3>2. /\ i - a \in 1 .. b /\ r[i] = t[i - a]
          /\ j - a \in 1 .. b /\ r[j] = t[j - a] /\ i - a < j - a
      BY <1>0, <1>3, <2>3, <3>1
    <3>3. \/ t[i - a].percent <= t[j - a].percent
          \/ \E k \in (i - a) + 1 .. j - a : Begins(t[k], t[j - a].phase)
      BY <3>2 DEF Climbs, Rises, b
    <3>4. ASSUME NEW k \in (i - a) + 1 .. j - a, Begins(t[k], t[j - a].phase)
          PROVE  \E l \in i + 1 .. j : Begins(r[l], r[j].phase)
      <4>0. i - a \in 1 .. b /\ j - a \in 1 .. b
        BY <3>2
      <4>1. a + k \in i + 1 .. j /\ k \in 1 .. b
        BY <1>0, <3>4, <4>0
      <4>2. Begins(r[a + k], r[j].phase)
        BY <1>2, <3>2, <3>4, <4>1
      <4> QED
        BY <4>1, <4>2
    <3> QED
      BY <3>2, <3>3, <3>4
  <2> QED
    BY <2>1, <2>2, <2>3
<1>7. ASSUME NEW j \in 1 .. a + b, Measured(r[j])
      PROVE  /\ r[j].phase \in M \union N
             /\ r[j].phase \notin U \union V => \E k \in 1 .. j : Begins(r[k], r[j].phase)
  <2>1. CASE j \in 1 .. a
    <3>1. \A k \in 1 .. j : k \in 1 .. a
      BY <1>0, <2>1
    <3> QED
      BY <1>2, <1>5, <1>7, <2>1, <3>1
  <2>2. CASE ~(j \in 1 .. a)
    <3>1. j - a \in 1 .. b /\ r[j] = t[j - a]
      BY <1>3, <2>2
    <3>2. ASSUME NEW k \in 1 .. j - a, Begins(t[k], r[j].phase)
          PROVE  \E l \in 1 .. j : Begins(r[l], r[j].phase)
      <4>0. j - a \in 1 .. b
        BY <3>1
      <4>1. a + k \in 1 .. j /\ k \in 1 .. b
        BY <1>0, <3>2, <4>0
      <4>2. Begins(r[a + k], r[j].phase)
        BY <1>2, <3>2, <4>1
      <4> QED
        BY <4>1, <4>2
    <3> QED
      BY <1>4, <1>7, <3>1, <3>2
  <2> QED
    BY <2>1, <2>2
<1> QED
  BY <1>2, <1>6, <1>7 DEF Climbs, r

\* A part that begins what it measures, put after another.
LEMMA Continued ==
  ASSUME NEW s, NEW t, NEW U, NEW M, Climbs(s, U, M), Climbs(t, {}, M)
  PROVE  Climbs(s \o t, U, M)
<1>1. Climbs(s \o t, U \union {}, M \union M)
  BY Joined
<1>2. U \union {} = U /\ M \union M = M
  OBVIOUS
<1> QED
  BY <1>1, <1>2

\* A part that measures nothing.
LEMMA Silence ==
  ASSUME NEW s \in Seq(Entries), NEW M, \A k \in 1 .. Len(s) : ~Measured(s[k])
  PROVE  Climbs(s, {}, M)
  BY DEF Climbs, Rises

\* A part that is all in one phase, and begins with its start.
LEMMA OnePhase ==
  ASSUME NEW p, NEW M, p \in M, NEW s \in Seq(Entries),
         \A k \in 1 .. Len(s) : Measured(s[k]) => s[k].phase = p /\ Begins(s[1], p),
         \A i, j \in 1 .. Len(s) :
           i < j /\ Measured(s[i]) /\ Measured(s[j]) => s[i].percent <= s[j].percent
  PROVE  Climbs(s, {}, M)
<1>1. Rises(s)
  BY DEF Rises
<1>2. ASSUME NEW j \in 1 .. Len(s), Measured(s[j])
      PROVE  s[j].phase \in M /\ \E k \in 1 .. j : Begins(s[k], s[j].phase)
  <2>1. 1 \in 1 .. j
    OBVIOUS
  <2> QED
    BY <1>2, <2>1
<1> QED
  BY <1>1, <1>2 DEF Climbs

\* Percentages of more items are higher, and all items are all of it.
LEMMA PercentRises ==
  ASSUME NEW n \in Nat \ {0}
  PROVE  /\ Percent(n, n) = 100
         /\ \A a \in Nat : Percent(a, n) \in Nat
         /\ \A a, b \in Nat : a <= b => Percent(a, n) <= Percent(b, n)
<1>1. ASSUME NEW x \in Nat
      PROVE  x \div n \in Nat /\ n * (x \div n) <= x /\ x < n * (x \div n) + n
  OBVIOUS
<1>2. ASSUME NEW x \in Nat, NEW y \in Nat, x <= y
      PROVE  x \div n <= y \div n
  <2> DEFINE q == x \div n
             r == y \div n
  <2>1. /\ q \in Nat /\ n * q <= x
        /\ r \in Nat /\ y < n * r + n
    BY <1>1
  <2> HIDE DEF q, r
  <2>2. SUFFICES ASSUME q >= r + 1 PROVE FALSE
    BY <2>1 DEF q, r
  <2>3. n * q >= n * (r + 1)
    BY <2>1, <2>2
  <2>4. n * (r + 1) = n * r + n
    BY <2>1
  <2> DEFINE u == n * q
             v == n * r
  <2>5. u \in Nat /\ v \in Nat
    BY <2>1
  <2> HIDE DEF u, v
  <2>6. u <= x /\ y < v + n /\ u >= v + n
    BY <2>1, <2>3, <2>4 DEF u, v
  <2> QED
    BY <1>2, <2>5, <2>6
<1>3. (100 * n) \div n = 100
  <2> DEFINE q == (100 * n) \div n
  <2>1. q \in Nat /\ n * q <= 100 * n /\ 100 * n < n * q + n
    BY <1>1
  <2> HIDE DEF q
  <2>2. ASSUME q <= 99 PROVE FALSE
    <3>1. n * q <= n * 99
      BY <2>1, <2>2
    <3> DEFINE u == n * q
    <3>2. u \in Nat
      BY <2>1
    <3> HIDE DEF u
    <3>3. 100 * n < u + n /\ u <= 99 * n
      BY <2>1, <3>1 DEF u
    <3> QED
      BY <3>2, <3>3
  <2>3. ASSUME q >= 101 PROVE FALSE
    <3>1. n * q >= n * 101
      BY <2>1, <2>3
    <3> DEFINE u == n * q
    <3>2. u \in Nat
      BY <2>1
    <3> HIDE DEF u
    <3>3. u <= 100 * n /\ u >= 101 * n
      BY <2>1, <3>1 DEF u
    <3> QED
      BY <3>2, <3>3
  <2>4. q = 100
    BY <2>1, <2>2, <2>3
  <2> QED
    BY <2>4 DEF q
<1>4. \A a \in Nat : Percent(a, n) = (100 * a) \div n
  BY DEF Percent
<1>5. ASSUME NEW a \in Nat, NEW b \in Nat, a <= b
      PROVE  Percent(a, n) <= Percent(b, n)
  <2>1. 100 * a \in Nat /\ 100 * b \in Nat /\ 100 * a <= 100 * b
    BY <1>5
  <2> QED
    BY <1>2, <1>4, <2>1
<1>6. ASSUME NEW a \in Nat PROVE Percent(a, n) \in Nat
  <2>1. 100 * a \in Nat
    OBVIOUS
  <2> QED
    BY <1>1, <1>4, <2>1
<1> QED
  BY <1>3, <1>4, <1>5, <1>6

\* A phase starts at nothing, or unmeasured if it has nothing to count.
LEMMA StartsAtNothing ==
  ASSUME NEW p, NEW n \in Nat
  PROVE  /\ Begins(Start(p, n), p) /\ Start(p, n).phase = p
         /\ Measured(Start(p, n)) => Start(p, n).percent = 0
         /\ Begins(Opened(p), p) /\ Opened(p).phase = p /\ ~Measured(Opened(p))
         /\ Told(p).phase = p /\ ~Measured(Told(p))
  BY DEF Start, Opened, Told, Event, Begins, Measured, Unmeasured

LEMMA DoneAbove ==
  ASSUME NEW p, NEW n \in Nat, NEW total \in Nat
  PROVE  Done(p, n, total).phase = p /\ Done(p, n, total).percent >= 0
<1>1. Percent(n, total) >= 0
  BY PercentRises DEF Percent
<1> QED
  BY <1>1 DEF Done, Event

\* The start and the end of a phase, or its start alone.
LEMMA PairClimbs ==
  ASSUME NEW p \in Phases, NEW M, p \in M, NEW a \in Nat, NEW b \in Nat, NEW n \in Nat
  PROVE  /\ Climbs(<<Opened(p), Done(p, a, b)>>, {}, M)
         /\ Climbs(<<Start(p, n), Done(p, a, b)>>, {}, M)
         /\ Climbs(<<Opened(p)>>, {}, M)
<1>1. /\ Opened(p) \in Entries /\ Start(p, n) \in Entries /\ Done(p, a, b) \in Entries
  BY EventTypes DEF Entries
<1>2. ASSUME NEW e \in Entries, Begins(e, p), e.phase = p, Measured(e) => e.percent = 0
      PROVE  Climbs(<<e, Done(p, a, b)>>, {}, M)
  <2> DEFINE s == <<e, Done(p, a, b)>>
  <2>1. s \in Seq(Entries) /\ Len(s) = 2 /\ s[1] = e /\ s[2] = Done(p, a, b)
    BY <1>1
  <2> HIDE DEF s
  <2>2. \A k \in 1 .. Len(s) : k = 1 \/ k = 2
    BY <2>1
  <2>3. \A k \in 1 .. Len(s) : Measured(s[k]) => s[k].phase = p /\ Begins(s[1], p)
    BY <1>2, <2>1, <2>2, DoneAbove
  <2>4. ASSUME NEW i \in 1 .. Len(s), NEW j \in 1 .. Len(s), i < j, Measured(s[i]), Measured(s[j])
        PROVE  s[i].percent <= s[j].percent
    <3>1. i = 1 /\ j = 2
      BY <2>2, <2>4
    <3> QED
      BY <1>2, <2>1, <2>4, <3>1, DoneAbove
  <2>5. Climbs(s, {}, M)
    BY <2>1, <2>3, <2>4, OnePhase
  <2> QED
    BY <2>5 DEF s
<1>3. Climbs(<<Opened(p)>>, {}, M)
  <2> DEFINE s == <<Opened(p)>>
  <2>1. s \in Seq(Entries) /\ \A k \in 1 .. Len(s) : ~Measured(s[k])
    BY <1>1, StartsAtNothing
  <2> HIDE DEF s
  <2>2. Climbs(s, {}, M)
    BY <2>1, Silence
  <2> QED
    BY <2>2 DEF s
<1> QED
  BY <1>1, <1>2, <1>3, StartsAtNothing

\* What steps say is above where the phase starts, and rises.
LEMMA StepsRise ==
  ASSUME NEW p, NEW n \in Nat, NEW missed
  PROVE  /\ Len(Steps(p, n, missed)) = n
         /\ \A i \in 1 .. n : Steps(p, n, missed)[i].phase = p
         /\ \A i \in 1 .. n : Measured(Steps(p, n, missed)[i]) =>
              Steps(p, n, missed)[i].percent = Percent(i, n)
<1>1. Len(Steps(p, n, missed)) = n
  BY DEF Steps
<1>2. ASSUME NEW i \in 1 .. n
      PROVE  LET e == Steps(p, n, missed)[i]
             IN  e.phase = p /\ (Measured(e) => e.percent = Percent(i, n))
  BY DEF Steps, Measured, Event
<1> QED
  BY <1>1, <1>2

\* A counted phase, with its end or without, as of a retry.
LEMMA CountedClimbs ==
  ASSUME NEW p \in Phases, NEW M, p \in M, NEW n \in Nat, NEW missed
  PROVE  /\ Climbs(<<Start(p, n)>> \o Steps(p, n, missed), {}, M)
         /\ Climbs(Counted(p, n, missed), {}, M)
<1> DEFINE steps == Steps(p, n, missed)
           s == <<Start(p, n)>> \o steps
           t == s \o <<Done(p, n, n)>>
<1>1. Start(p, n) \in Entries /\ Done(p, n, n) \in Entries /\ steps \in Seq(Entries)
  <2>1. steps \in Seq(Events)
    BY StepsAreEvents
  <2> HIDE DEF steps
  <2>2. \A e \in Events : e \in Entries
    BY DEF Entries
  <2>3. steps \in Seq(Entries)
    BY <2>1, <2>2, ListOfEntries
  <2> QED
    BY <2>2, <2>3, EventTypes
<1>2. /\ Len(steps) = n
      /\ \A i \in 1 .. n : steps[i].phase = p
      /\ \A i \in 1 .. n : Measured(steps[i]) => steps[i].percent = Percent(i, n)
  BY StepsRise
<1> HIDE DEF steps
<1>3. /\ s \in Seq(Entries) /\ Len(s) = n + 1 /\ s[1] = Start(p, n)
      /\ \A k \in 2 .. n + 1 : s[k] = steps[k - 1] /\ k - 1 \in 1 .. n
  <2> HIDE DEF Entries
  <2> QED
    BY <1>1, <1>2
<1> HIDE DEF s
<1>4. /\ t \in Seq(Entries) /\ Len(t) = n + 2 /\ t[n + 2] = Done(p, n, n)
      /\ \A k \in 1 .. n + 1 : t[k] = s[k]
  <2> HIDE DEF Entries
  <2> QED
    BY <1>1, <1>3
<1> HIDE DEF t
<1>5. \A i, j \in 1 .. n : i < j => Percent(i, n) <= Percent(j, n)
  <2> SUFFICES ASSUME NEW i \in 1 .. n, NEW j \in 1 .. n, i < j
               PROVE  Percent(i, n) <= Percent(j, n)
    OBVIOUS
  <2>1. n \in Nat \ {0} /\ i \in Nat /\ j \in Nat /\ i <= j
    OBVIOUS
  <2> QED
    BY <2>1, PercentRises
<1>6. ASSUME NEW k \in 1 .. n + 1
      PROVE  s[k].phase = p
  <2>1. k = 1 \/ k \in 2 .. n + 1
    OBVIOUS
  <2> QED
    BY <1>2, <1>3, <2>1, StartsAtNothing
<1>7. ASSUME NEW k \in 1 .. n + 1, Measured(s[k])
      PROVE  /\ k = 1 => s[k].percent = 0
             /\ k # 1 => k - 1 \in 1 .. n /\ s[k].percent = Percent(k - 1, n)
  <2>1. k = 1 \/ k \in 2 .. n + 1
    OBVIOUS
  <2> QED
    BY <1>2, <1>3, <1>7, <2>1, StartsAtNothing
<1>8. ASSUME NEW i \in 1 .. n + 1, NEW j \in 1 .. n + 1, i < j, Measured(s[i]), Measured(s[j])
      PROVE  s[i].percent <= s[j].percent
  <2>1. j - 1 \in 1 .. n /\ s[j].percent = Percent(j - 1, n) /\ n # 0
    BY <1>7, <1>8
  <2>2. CASE i = 1
    <3>1. Percent(j - 1, n) >= 0
      BY <2>1, PercentRises
    <3> QED
      BY <1>7, <1>8, <2>1, <2>2, <3>1
  <2>3. CASE i # 1
    <3>1. i - 1 \in 1 .. n /\ s[i].percent = Percent(i - 1, n)
      BY <1>7, <1>8, <2>3
    <3>2. Percent(i - 1, n) <= Percent(j - 1, n)
      BY <1>5, <1>8, <2>1, <3>1
    <3> QED
      BY <2>1, <3>1, <3>2
  <2> QED
    BY <2>2, <2>3
<1>9. Climbs(s, {}, M)
  <2>1. \A k \in 1 .. Len(s) : Measured(s[k]) => s[k].phase = p /\ Begins(s[1], p)
    BY <1>3, <1>6, StartsAtNothing
  <2>2. \A i, j \in 1 .. Len(s) :
          i < j /\ Measured(s[i]) /\ Measured(s[j]) => s[i].percent <= s[j].percent
    BY <1>3, <1>8
  <2> QED
    BY <1>3, <2>1, <2>2, OnePhase
<1>10. Done(p, n, n).phase = p /\ Done(p, n, n).percent = 100
  BY PercentRises DEF Done, Event, Percent
<1>11. ASSUME NEW k \in 1 .. n + 1, Measured(s[k])
       PROVE  s[k].percent <= 100
  <2>1. CASE k = 1
    BY <1>7, <1>11, <2>1
  <2>2. CASE k # 1
    <3>1. k - 1 \in 1 .. n /\ s[k].percent = Percent(k - 1, n) /\ n \in Nat \ {0}
      BY <1>7, <1>11, <2>2
    <3>2. Percent(n, n) = 100 /\ Percent(k - 1, n) <= Percent(n, n)
      BY <3>1, PercentRises
    <3> QED
      BY <3>1, <3>2
  <2> QED
    BY <2>1, <2>2
<1>12. Climbs(t, {}, M)
  <2>1. \A k \in 1 .. Len(t) : k \in 1 .. n + 1 \/ k = n + 2
    BY <1>4
  <2>2. t[1] = Start(p, n) /\ 1 \in 1 .. n + 1
    BY <1>3, <1>4
  <2>3. \A k \in 1 .. Len(t) : Measured(t[k]) => t[k].phase = p /\ Begins(t[1], p)
    BY <1>4, <1>6, <1>10, <2>1, <2>2, StartsAtNothing
  <2>4. ASSUME NEW i \in 1 .. Len(t), NEW j \in 1 .. Len(t), i < j, Measured(t[i]), Measured(t[j])
        PROVE  t[i].percent <= t[j].percent
    <3>1. i \in 1 .. n + 1
      BY <1>4, <2>4
    <3>2. CASE j \in 1 .. n + 1
      BY <1>4, <1>8, <2>4, <3>1, <3>2
    <3>3. CASE j = n + 2
      BY <1>4, <1>10, <1>11, <2>4, <3>1, <3>3
    <3> QED
      BY <2>1, <3>2, <3>3
  <2> QED
    BY <1>4, <2>3, <2>4, OnePhase
<1> QED
  BY <1>9, <1>12 DEF s, t, steps, Counted

\* The phases before the crops are looked at.
Early == Phases \ {"verifying_visuals"}

LEMMA EndClimbs ==
  /\ Climbs(<<Completed>>, {"completed"}, {"completed"})
  /\ Climbs(<<Commit("served"), Completed>>, {"completed"}, {"completed"})
  /\ \A M : Climbs(<<Commit("open")>>, {}, M)
<1>1. /\ Completed \in Entries /\ Commit("served") \in Entries /\ Commit("open") \in Entries
      /\ ~Measured(Commit("served")) /\ ~Measured(Commit("open"))
      /\ Completed.phase = "completed"
  BY EndsInCompleted DEF Entries, Commits, Commit, Measured
<1> HIDE DEF Entries
<1>2. Climbs(<<Completed>>, {"completed"}, {"completed"})
  <2> DEFINE s == <<Completed>>
  <2>1. s \in Seq(Entries) /\ Len(s) = 1 /\ s[1] = Completed
    BY <1>1
  <2> HIDE DEF s
  <2>2. \A k \in 1 .. Len(s) : k = 1
    BY <2>1
  <2>3. Climbs(s, {"completed"}, {"completed"})
    BY <1>1, <2>1, <2>2 DEF Climbs, Rises
  <2> QED
    BY <2>3 DEF s
<1>3. \A M : Climbs(<<Commit("open")>>, {}, M) /\ Climbs(<<Commit("served")>>, {}, M)
  <2>1. ASSUME NEW c \in Entries, ~Measured(c), NEW M PROVE Climbs(<<c>>, {}, M)
    <3> DEFINE s == <<c>>
    <3>1. s \in Seq(Entries) /\ \A k \in 1 .. Len(s) : ~Measured(s[k])
      BY <2>1
    <3> HIDE DEF s
    <3>2. Climbs(s, {}, M)
      BY <3>1, Silence
    <3> QED
      BY <3>2 DEF s
  <2> QED
    BY <1>1, <2>1
<1>4. Climbs(<<Commit("served")>> \o <<Completed>>, {} \union {"completed"}, {} \union {"completed"})
  BY <1>2, <1>3, Joined
<1>5. {} \union {"completed"} = {"completed"}
  OBVIOUS
<1>6. ASSUME NEW c \in Entries, NEW d \in Entries PROVE <<c>> \o <<d>> = <<c, d>>
  <2> DEFINE s == <<c>> \o <<d>>
             t == <<c, d>>
  <2>1. s \in Seq(Entries) /\ Len(s) = 2 /\ s[1] = c /\ s[2] = d
    OBVIOUS
  <2>2. t \in Seq(Entries) /\ Len(t) = 2 /\ t[1] = c /\ t[2] = d
    OBVIOUS
  <2> HIDE DEF s, t
  <2>3. s \in [1 .. 2 -> Entries] /\ t \in [1 .. 2 -> Entries] /\ \A k \in 1 .. 2 : s[k] = t[k]
    BY <2>1, <2>2
  <2>4. s = t
    BY <2>3
  <2> QED
    BY <2>4 DEF s, t
<1>7. <<Commit("served")>> \o <<Completed>> = <<Commit("served"), Completed>>
  BY <1>1, <1>6
<1> QED
  BY <1>2, <1>3, <1>4, <1>5, <1>7

\* A course is what climbs, and its end.
LEMMA CourseClimbs ==
  ASSUME NEW s, NEW t, NEW U, Climbs(s, U, Phases), Climbs(t, {"completed"}, {"completed"})
  PROVE  Rises(s \o t)
<1>1. Phases \intersect {"completed"} = {}
  BY DEF Phases
<1>2. Climbs(s \o t, U \union {"completed"}, Phases \union {"completed"})
  BY <1>1, Joined
<1> QED
  BY <1>2 DEF Climbs

LEMMA Wider ==
  ASSUME NEW s, NEW U, NEW M, NEW N, Climbs(s, U, M), M \subseteq N
  PROVE  Climbs(s, U, N)
  BY DEF Climbs

LEMMA PassesClimb ==
  ASSUME NEW found \in Nat, NEW passes \in Passes(found)
  PROVE  passes = Decided \/ Climbs(passes, {}, Phases)
<1>1. "verifying_visuals" \in Phases /\ "deciding_verdict" \in Phases
  BY DEF Phases
<1>2. ASSUME NEW crops \in Nat PROVE Climbs(Judged(crops), {}, Phases)
  <2>1. Climbs(Counted("verifying_visuals", crops, {}), {}, Phases)
    BY <1>1, CountedClimbs
  <2>2. 0 \in Nat
    OBVIOUS
  <2>3. Climbs(<<Opened("deciding_verdict")>>, {}, Phases)
    BY <1>1, <2>2, PairClimbs
  <2> QED
    BY <2>1, <2>3, Continued DEF Judged
<1>3. ASSUME NEW crops \in Nat, NEW again \in Nat
      PROVE  Climbs(Judged(crops) \o Judged(again), {}, Phases)
  BY <1>2, Continued
<1>4. \A crops \in 0 .. found * MaxItems : crops \in Nat
  OBVIOUS
<1>5. \A crops \in 0 .. found * MaxItems : \A again \in crops .. MaxItems : again \in Nat
  BY <1>4
<1>6. \/ passes = Decided
      \/ \E crops \in 0 .. found * MaxItems : passes = Judged(crops)
      \/ \E crops \in 0 .. found * MaxItems : \E again \in crops .. MaxItems :
           passes = Judged(crops) \o Judged(again)
  BY DEF Passes
<1> QED
  BY <1>2, <1>3, <1>4, <1>5, <1>6

\* A pass that arithmetic decides ends a phase it did not start.
LEMMA DecidedClimbs ==
  Climbs(Decided, {"verifying_visuals"}, {"verifying_visuals"})
<1>1. "verifying_visuals" \in Phases /\ "deciding_verdict" \in Phases
  BY DEF Phases
<1>2. /\ Done("verifying_visuals", 0, 0) \in Entries /\ Opened("deciding_verdict") \in Entries
      /\ Done("verifying_visuals", 0, 0).phase = "verifying_visuals"
      /\ ~Measured(Opened("deciding_verdict"))
  BY <1>1, EventTypes, DoneAbove, StartsAtNothing DEF Entries
<1> HIDE DEF Entries
<1>3. /\ Decided \in Seq(Entries) /\ Len(Decided) = 2
      /\ Decided[1] = Done("verifying_visuals", 0, 0) /\ Decided[2] = Opened("deciding_verdict")
  BY <1>2 DEF Decided
<1>4. \A k \in 1 .. Len(Decided) : k = 1 \/ k = 2
  BY <1>3
<1>5. \A k \in 1 .. Len(Decided) : Measured(Decided[k]) => k = 1
  BY <1>2, <1>3, <1>4
<1> QED
  BY <1>2, <1>3, <1>5 DEF Climbs, Rises

LEMMA AuditClimbs ==
  ASSUME NEW found \in Nat, NEW vectors \in {<<>>, Searched("retrieving_vectors", 1)},
         NEW passes \in Passes(found)
  PROVE  Rises(AuditBefore(found, vectors, passes) \o AuditEnd(found))
<1> DEFINE first == <<Opened("parsing_claim"), Told("parsing_claim"), Commit("open")>>
           fused == <<Opened("fusing_candidates"), Done("fusing_candidates", found, found)>>
           early == first
             \o Searched("retrieving_graph", found) \o Searched("retrieving_full_text", 0) \o vectors
             \o fused \o Counted("expanding_context", found, {})
           end == <<Told("deciding_verdict"), Opened("persisting_trace"), Commit("open"),
                    Done("persisting_trace", found, found), Commit("served")>>
<1>1. /\ "retrieving_graph" \in Early /\ "retrieving_full_text" \in Early
      /\ "retrieving_vectors" \in Early /\ "fusing_candidates" \in Early
      /\ "expanding_context" \in Early /\ Early \subseteq Phases /\ "parsing_claim" \in Phases
      /\ "deciding_verdict" \in Phases /\ "persisting_trace" \in Phases
      /\ Phases = Early \union {"verifying_visuals"} /\ Early \intersect {"verifying_visuals"} = {}
  BY DEF Early, Phases
<1>2. /\ Opened("parsing_claim") \in Entries /\ Told("parsing_claim") \in Entries
      /\ Commit("open") \in Entries /\ Commit("served") \in Entries
      /\ Told("deciding_verdict") \in Entries /\ Opened("persisting_trace") \in Entries
      /\ Done("persisting_trace", found, found) \in Entries
  BY <1>1, EventTypes DEF Entries, Commits
<1>3. /\ ~Measured(Opened("parsing_claim")) /\ ~Measured(Told("parsing_claim"))
      /\ ~Measured(Commit("open")) /\ ~Measured(Commit("served"))
      /\ ~Measured(Told("deciding_verdict")) /\ ~Measured(Opened("persisting_trace"))
      /\ Begins(Opened("persisting_trace"), "persisting_trace")
      /\ Done("persisting_trace", found, found).phase = "persisting_trace"
  <2>1. ~Measured(Commit("open")) /\ ~Measured(Commit("served"))
    BY DEF Commit, Measured
  <2>2. \A p : /\ ~Measured(Opened(p)) /\ ~Measured(Told(p)) /\ Begins(Opened(p), p)
               /\ Done(p, found, found).phase = p
    BY StartsAtNothing, DoneAbove
  <2> QED
    BY <2>1, <2>2
<1> HIDE DEF Entries
<1>4. Climbs(first, {}, Early)
  <2>1. first \in Seq(Entries) /\ Len(first) = 3
        /\ first[1] = Opened("parsing_claim") /\ first[2] = Told("parsing_claim") /\ first[3] = Commit("open")
    BY <1>2
  <2> HIDE DEF first
  <2>2. \A k \in 1 .. Len(first) : k = 1 \/ k = 2 \/ k = 3
    BY <2>1
  <2> QED
    BY <1>3, <2>1, <2>2, Silence
<1>5. ASSUME NEW p \in Early, NEW n \in Nat PROVE Climbs(Searched(p, n), {}, Early)
  <2>1. p \in Phases /\ SearchPool \in Nat
    BY <1>1, ConstantsAssumption
  <2> QED
    BY <2>1, PairClimbs DEF Searched
<1>6. Climbs(vectors, {}, Early)
  <2>1. Climbs(<<>>, {}, Early)
    BY DEF Climbs, Rises
  <2> QED
    BY <1>1, <1>5, <2>1
<1>7. Climbs(fused, {}, Early) /\ Climbs(Counted("expanding_context", found, {}), {}, Early)
  BY <1>1, PairClimbs, CountedClimbs
<1> HIDE DEF first, fused
<1>8. Climbs(early, {}, Early)
  <2>1. Climbs(first \o Searched("retrieving_graph", found), {}, Early)
    BY <1>1, <1>4, <1>5, Continued
  <2>2. Climbs(first \o Searched("retrieving_graph", found) \o Searched("retrieving_full_text", 0), {}, Early)
    BY <1>1, <1>5, <2>1, Continued
  <2>3. Climbs(first \o Searched("retrieving_graph", found) \o Searched("retrieving_full_text", 0)
               \o vectors, {}, Early)
    BY <1>6, <2>2, Continued
  <2>4. Climbs(first \o Searched("retrieving_graph", found) \o Searched("retrieving_full_text", 0)
               \o vectors \o fused, {}, Early)
    BY <1>7, <2>3, Continued
  <2> QED
    BY <1>7, <2>4, Continued
<1> HIDE DEF early
<1>9. \E U : Climbs(early \o passes, U, Phases)
  <2>1. CASE passes = Decided
    <3>1. Climbs(early \o Decided, {} \union {"verifying_visuals"}, Early \union {"verifying_visuals"})
      BY <1>1, <1>8, DecidedClimbs, Joined
    <3> QED
      BY <1>1, <2>1, <3>1
  <2>2. CASE Climbs(passes, {}, Phases)
    <3>1. Climbs(early, {}, Phases)
      BY <1>1, <1>8, Wider
    <3> QED
      BY <2>2, <3>1, Continued
  <2> QED
    BY <2>1, <2>2, PassesClimb
<1>10. Climbs(end, {}, Phases)
  <2>1. /\ end \in Seq(Entries) /\ Len(end) = 5
        /\ end[1] = Told("deciding_verdict") /\ end[2] = Opened("persisting_trace")
        /\ end[3] = Commit("open") /\ end[4] = Done("persisting_trace", found, found)
        /\ end[5] = Commit("served")
    BY <1>2
  <2> HIDE DEF end
  <2>2. \A k \in 1 .. Len(end) : k = 1 \/ k = 2 \/ k = 3 \/ k = 4 \/ k = 5
    BY <2>1
  <2>3. \A k \in 1 .. Len(end) : Measured(end[k]) => k = 4
    BY <1>3, <2>1, <2>2
  <2>4. 2 \in 1 .. 4 /\ Begins(end[2], "persisting_trace") /\ end[4].phase = "persisting_trace"
    BY <1>3, <2>1
  <2> QED
    BY <1>1, <2>1, <2>3, <2>4 DEF Climbs, Rises
<1>11. PICK U : Climbs(early \o passes \o end, U, Phases)
  BY <1>9, <1>10, Continued
<1>12. Rises(early \o passes \o end \o <<Completed>>)
  BY <1>11, CourseClimbs, EndClimbs
<1>13. AuditBefore(found, vectors, passes) = early \o passes
  BY Zenon DEF AuditBefore, early, first, fused
<1>14. AuditEnd(found) = end \o <<Completed>>
  <2> HIDE DEF Entries
  <2> QED
    BY DEF AuditEnd
<1>15. early \o passes \o end \o <<Completed>> = (early \o passes) \o (end \o <<Completed>>)
  <2> DEFINE a == early \o passes
  <2>1. a \o end \in Seq(Entries) /\ a \in Seq(Entries) /\ end \in Seq(Entries) /\ <<Completed>> \in Seq(Entries)
    BY <1>9, <1>10, <1>11, EndClimbs DEF Climbs
  <2> HIDE DEF a, end
  <2>2. a \o end \o <<Completed>> = a \o (end \o <<Completed>>)
    BY <2>1
  <2> QED
    BY <2>2 DEF a
<1> QED
  BY <1>12, <1>13, <1>14, <1>15

\* Whatever a course counts, it rises.
LEMMA CoursesRise ==
  ASSUME operation \in Operations, course \in Courses(operation)
  PROVE  Rises(course)
<1>0. MaxItems \in Nat
  BY ConstantsAssumption
<1>1. CASE operation = "ingest"
  <2>1. PICK pages \in Items \ {0}, batches \in Items, passages \in Items, missed \in SUBSET {1} :
           course = IngestBefore(pages, batches, passages, missed) \o Activated
    BY <1>1, IngestParts DEF Courses
  <2>2. pages \in Nat /\ batches \in Nat /\ passages \in Nat
    BY <1>0 DEF Items
  <2>3. /\ "validating_input" \in Phases /\ "building_evidence" \in Phases
        /\ "embedding_evidence" \in Phases /\ "extracting_facts" \in Phases
        /\ "building_indexes" \in Phases /\ "activating_version" \in Phases
    BY DEF Phases
  <2>4. /\ Climbs(Validated(pages), {}, Phases)
        /\ Climbs(<<Commit("open")>>, {}, Phases)
        /\ Climbs(Counted("building_evidence", pages, {}), {}, Phases)
        /\ Climbs(Counted("embedding_evidence", batches, {}), {}, Phases)
        /\ Climbs(Counted("extracting_facts", passages, missed), {}, Phases)
        /\ Climbs(Counted("building_indexes", 1, {}), {}, Phases)
    <3>1. Climbs(Validated(pages), {}, Phases)
      BY <2>2, <2>3, PairClimbs DEF Validated
    <3> QED
      BY <2>2, <2>3, <3>1, CountedClimbs, EndClimbs
  <2>5. Climbs(IngestBefore(pages, batches, passages, missed), {}, Phases)
    <3>1. Climbs(Validated(pages) \o <<Commit("open")>>, {}, Phases)
      BY <2>4, Continued
    <3>2. Climbs(Validated(pages) \o <<Commit("open")>> \o Counted("building_evidence", pages, {}), {}, Phases)
      BY <2>4, <3>1, Continued
    <3>3. Climbs(Validated(pages) \o <<Commit("open")>> \o Counted("building_evidence", pages, {})
                 \o Counted("embedding_evidence", batches, {}), {}, Phases)
      BY <2>4, <3>2, Continued
    <3>4. Climbs(Validated(pages) \o <<Commit("open")>> \o Counted("building_evidence", pages, {})
                 \o Counted("embedding_evidence", batches, {})
                 \o Counted("extracting_facts", passages, missed), {}, Phases)
      BY <2>4, <3>3, Continued
    <3> QED
      BY <2>4, <3>4, Continued DEF IngestBefore
  <2>6. Climbs(Activated, {"completed"}, Phases \union {"completed"})
    <3> DEFINE p == "activating_version"
    <3>1. /\ Opened(p) \in Entries /\ Commit("served") \in Entries /\ Done(p, 1, 1) \in Entries
          /\ Completed \in Entries
      BY <2>3, EventTypes DEF Entries, Commits
    <3>2. /\ ~Measured(Opened(p)) /\ Begins(Opened(p), p) /\ ~Measured(Commit("served"))
          /\ Done(p, 1, 1).phase = p /\ Completed.phase = "completed"
      BY StartsAtNothing, DoneAbove, EndsInCompleted DEF Commit, Measured
    <3> HIDE DEF Entries
    <3>3. /\ Activated \in Seq(Entries) /\ Len(Activated) = 4 /\ Activated[1] = Opened(p)
          /\ Activated[2] = Commit("served") /\ Activated[3] = Done(p, 1, 1)
          /\ Activated[4] = Completed
      BY <3>1 DEF Activated
    <3>4. \A k \in 1 .. Len(Activated) : k = 1 \/ k = 2 \/ k = 3 \/ k = 4
      BY <3>3
    <3>5. \A k \in 1 .. Len(Activated) : Measured(Activated[k]) => k = 3 \/ k = 4
      BY <3>2, <3>3, <3>4
    <3>6. Rises(Activated)
      BY <3>2, <3>3, <3>5 DEF Rises
    <3>7. 1 \in 1 .. 3 /\ Begins(Activated[1], p) /\ Activated[3].phase = p /\ p \in Phases
          /\ Activated[4].phase = "completed"
      BY <2>3, <3>2, <3>3
    <3> QED
      BY <3>3, <3>5, <3>6, <3>7 DEF Climbs
  <2>7. Phases \intersect {"completed"} = {}
    BY DEF Phases
  <2>8. Climbs(IngestBefore(pages, batches, passages, missed) \o Activated,
               {} \union {"completed"}, Phases \union (Phases \union {"completed"}))
    BY <2>5, <2>6, <2>7, Joined
  <2> QED
    BY <2>1, <2>8 DEF Climbs
<1>2. CASE operation = "reuse"
  <2>1. PICK pages \in Items \ {0} : course = Validated(pages) \o <<Completed>>
    BY <1>2 DEF Courses, ReuseCourses
  <2>2. pages \in Nat /\ "validating_input" \in Phases
    BY <1>0 DEF Items, Phases
  <2>3. Climbs(Validated(pages), {}, Phases)
    BY <2>2, PairClimbs DEF Validated
  <2> QED
    BY <2>1, <2>3, EndClimbs, CourseClimbs
<1>3. CASE operation = "retry"
  <2>1. PICK n \in Items, missed \in SUBSET {1} :
          course = RetryBefore(n, missed) \o <<Commit("served"), Completed>>
    BY <1>3, RetryParts DEF Courses
  <2>2. n \in Nat /\ "extracting_facts" \in Phases
    BY <1>0 DEF Items, Phases
  <2>3. Climbs(RetryBefore(n, missed), {}, Phases)
    BY <2>2, CountedClimbs DEF RetryBefore
  <2> QED
    BY <2>1, <2>3, EndClimbs, CourseClimbs
<1>4. CASE operation = "audit"
  <2>1. PICK found \in {0, 1} : course \in AuditFinding(found)
    BY <1>4 DEF Courses, AuditCourses
  <2>2. PICK vectors \in {<<>>, Searched("retrieving_vectors", 1)}, passes \in Passes(found) :
          course = AuditBefore(found, vectors, passes) \o AuditEnd(found)
    BY <2>1, AuditParts
  <2>3. found \in Nat
    OBVIOUS
  <2> QED
    BY <2>2, <2>3, AuditClimbs
<1> QED
  BY <1>1, <1>2, <1>3, <1>4, ConstantsAssumption

-----------------------------------------------------------------------------
(* Percentages that are heard.                                             *)

\* The callback got no phase without its start: each percentage heard stands in the
\* course, and so does each later start, as far as the operation has come.
Following ==
  listening /\ ~broken /\ pc = "working" =>
    \A i \in 1 .. Len(heard) : \E m \in 1 .. at - 1 :
      /\ heard[i] = course[m]
      /\ \A k \in m + 1 .. at - 1 : Begins(course[k], heard[i].phase) =>
           \E l \in i + 1 .. Len(heard) : Begins(heard[l], heard[i].phase)

Percentages ==
  /\ Rises(course) /\ Following /\ Rises(heard)
  /\ \A k \in 1 .. Len(heard) : heard[k].what = "event"

LEMMA RisingStarts == Init => Percentages
<1> SUFFICES ASSUME Init PROVE Percentages
  OBVIOUS
<1>1. Rises(course)
  BY CoursesRise DEF Init
<1>2. heard = <<>>
  BY Zenon DEF Init
<1>3. \A k \in 1 .. Len(heard) : FALSE
  BY <1>2
<1> QED
  BY <1>1, <1>3 DEF Percentages, Following, Rises

\* One more event is heard, and it is no lower than what was heard of its phase.
LEMMA RisingFurther ==
  ASSUME Inductive, Rises(heard), NEW event, Heard(event),
         Measured(event) =>
           \A i \in 1 .. Len(heard) : Measured(heard[i]) /\ heard[i].phase = event.phase =>
             \/ heard[i].percent <= event.percent
             \/ Begins(event, event.phase)
             \/ \E l \in i + 1 .. Len(heard) : Begins(heard[l], event.phase)
  PROVE  Rises(heard')
<1> DEFINE n == Len(heard)
<1>1. /\ Len(heard') = n + 1 /\ n \in Nat /\ heard'[n + 1] = event
      /\ \A k \in 1 .. n : heard'[k] = heard[k]
  BY OneMoreHeard
<1> HIDE DEF n
<1> SUFFICES ASSUME NEW i \in 1 .. n + 1, NEW j \in 1 .. n + 1, i < j,
                    Measured(heard'[i]), Measured(heard'[j]), heard'[i].phase = heard'[j].phase
             PROVE  \/ heard'[i].percent <= heard'[j].percent
                    \/ \E k \in i + 1 .. j : Begins(heard'[k], heard'[j].phase)
  BY <1>1 DEF Rises
<1>2. i \in 1 .. n /\ heard'[i] = heard[i]
  BY <1>1
<1>3. CASE j \in 1 .. n
  <2>1. heard'[j] = heard[j] /\ \A k \in i + 1 .. j : k \in 1 .. n
    BY <1>1, <1>2, <1>3
  <2>2. heard[i].percent <= heard[j].percent \/ \E k \in i + 1 .. j : Begins(heard[k], heard[j].phase)
    BY <1>2, <1>3, <2>1 DEF Rises, n
  <2> QED
    BY <1>1, <1>2, <2>1, <2>2
<1>4. CASE j = n + 1
  <2>1. heard'[j] = event
    BY <1>1, <1>4
  <2>2. \/ heard[i].percent <= event.percent
        \/ Begins(event, event.phase)
        \/ \E l \in i + 1 .. n : Begins(heard[l], event.phase)
    BY <1>2, <2>1 DEF n
  <2>3. j \in i + 1 .. j /\ \A l \in i + 1 .. n : l \in i + 1 .. j /\ l \in 1 .. n
    BY <1>1, <1>2, <1>4
  <2> QED
    BY <1>1, <1>2, <2>1, <2>2, <2>3
<1> QED
  BY <1>1, <1>3, <1>4

LEMMA EventsAdd ==
  ASSUME Inductive, NEW event, Heard(event), event.what = "event",
         \A k \in 1 .. Len(heard) : heard[k].what = "event"
  PROVE  \A k \in 1 .. Len(heard') : heard'[k].what = "event"
<1>1. /\ Len(heard') = Len(heard) + 1 /\ Len(heard) \in Nat /\ heard'[Len(heard) + 1] = event
      /\ \A k \in 1 .. Len(heard) : heard'[k] = heard[k]
  BY OneMoreHeard
<1>2. \A k \in 1 .. Len(heard') : k \in 1 .. Len(heard) \/ k = Len(heard) + 1
  BY <1>1
<1> QED
  BY <1>1, <1>2

LEMMA EmittedRises ==
  ASSUME Inductive, Percentages, Emit
  PROVE  Percentages'
<1> DEFINE e == course[at]
           n == Len(heard)
<1>1. /\ pc = "working" /\ at <= Len(course) /\ e.what = "event" /\ at' = at + 1
      /\ course' = course /\ listening' = listening
      /\ Delivered(e, "working") \/ Raises(e, "working") \/ Interrupts(e, "failing")
  BY DEF Emit, call
<1>2. at \in 1 .. Len(course) /\ at \in Nat /\ Len(course) \in Nat
  <2>1. Len(course) \in Nat /\ at \in 1 .. Len(course) + 1
    BY DEF Inductive, Walking, CourseShape
  <2> DEFINE L == Len(course)
  <2> HIDE DEF L
  <2>2. L \in Nat /\ at \in 1 .. L + 1 /\ at <= L
    BY <1>1, <2>1 DEF L
  <2> QED
    BY <2>2 DEF L
<1>3. \/ Heard(e) /\ listening /\ ~broken
      \/ heard' = heard /\ broken' = broken /\ ~(listening /\ ~broken)
  BY <1>1 DEF Delivered, Raises, Interrupts
<1>4. Rises(course')
  BY <1>1 DEF Percentages
<1> HIDE DEF e
<1>5. CASE heard' = heard /\ broken' = broken /\ ~(listening /\ ~broken)
  <2>1. Rises(heard') /\ Following'
    BY <1>1, <1>5 DEF Percentages, Following
  <2> QED
    BY <1>4, <1>5, <2>1 DEF Percentages
<1>6. CASE Heard(e) /\ listening /\ ~broken
  <2>1. /\ Len(heard') = n + 1 /\ n \in Nat /\ heard'[n + 1] = e
        /\ \A k \in 1 .. n : heard'[k] = heard[k]
    BY <1>6, OneMoreHeard
  <2> HIDE DEF n
  <2>2. ASSUME NEW i \in 1 .. n
        PROVE  \E m \in 1 .. at - 1 :
                 /\ heard[i] = course[m]
                 /\ \A k \in m + 1 .. at - 1 : Begins(course[k], heard[i].phase) =>
                      \E l \in i + 1 .. n : Begins(heard[l], heard[i].phase)
    BY <1>1, <1>6 DEF Percentages, Following, n
  <2>3. ASSUME Measured(e), NEW i \in 1 .. n, Measured(heard[i]), heard[i].phase = e.phase
        PROVE  \/ heard[i].percent <= e.percent
               \/ Begins(e, e.phase)
               \/ \E l \in i + 1 .. n : Begins(heard[l], e.phase)
    <3>1. PICK m \in 1 .. at - 1 :
                 /\ heard[i] = course[m]
                 /\ \A k \in m + 1 .. at - 1 : Begins(course[k], heard[i].phase) =>
                      \E l \in i + 1 .. n : Begins(heard[l], heard[i].phase)
      BY <2>2
    <3>2. m \in 1 .. Len(course) /\ m < at
      BY <1>2
    <3>3. \/ course[m].percent <= e.percent
          \/ \E k \in m + 1 .. at : Begins(course[k], e.phase)
      BY <1>2, <2>3, <3>1, <3>2 DEF Percentages, Rises, e
    <3>4. \A k \in m + 1 .. at : k = at \/ k \in m + 1 .. at - 1
      BY <1>2, <3>2
    <3> QED
      BY <2>3, <3>1, <3>3, <3>4 DEF e
  <2>4. Rises(heard')
    BY <1>6, <2>3, RisingFurther DEF Percentages, n
  <2>5. Following'
    <3> SUFFICES ASSUME NEW i \in 1 .. n + 1
                 PROVE  \E m \in 1 .. at :
                          /\ heard'[i] = course[m]
                          /\ \A k \in m + 1 .. at : Begins(course[k], heard'[i].phase) =>
                               \E l \in i + 1 .. n + 1 : Begins(heard'[l], heard'[i].phase)
      <4>1. at' - 1 = at
        BY <1>1, <1>2
      <4> QED
        BY <1>1, <2>1, <4>1 DEF Following
    <3>1. CASE i = n + 1
      <4>1. at \in 1 .. at /\ ~\E k \in at + 1 .. at : TRUE
        BY <1>2
      <4> QED
        BY <2>1, <3>1, <4>1 DEF e
    <3>2. CASE i \in 1 .. n
      <4>1. PICK m \in 1 .. at - 1 :
                 /\ heard[i] = course[m]
                 /\ \A k \in m + 1 .. at - 1 : Begins(course[k], heard[i].phase) =>
                      \E l \in i + 1 .. n : Begins(heard[l], heard[i].phase)
        BY <2>2, <3>2
      <4>2. m \in 1 .. at /\ heard'[i] = heard[i]
        BY <1>2, <2>1, <3>2
      <4>3. ASSUME NEW k \in m + 1 .. at, Begins(course[k], heard[i].phase)
            PROVE  \E l \in i + 1 .. n + 1 : Begins(heard'[l], heard[i].phase)
        <5>1. k = at \/ k \in m + 1 .. at - 1
          BY <1>2
        <5>2. CASE k = at
          <6>1. n + 1 \in i + 1 .. n + 1
            BY <2>1, <3>2
          <6> QED
            BY <2>1, <4>3, <5>2, <6>1 DEF e
        <5>3. CASE k \in m + 1 .. at - 1
          <6>1. PICK l \in i + 1 .. n : Begins(heard[l], heard[i].phase)
            BY <4>1, <4>3, <5>3
          <6>2. l \in i + 1 .. n + 1 /\ l \in 1 .. n
            BY <2>1, <3>2
          <6> QED
            BY <2>1, <6>1, <6>2
        <5> QED
          BY <5>1, <5>2, <5>3
      <4> QED
        BY <4>1, <4>2, <4>3
    <3>3. i = n + 1 \/ i \in 1 .. n
      BY <2>1
    <3> QED
      BY <3>1, <3>2, <3>3
  <2>6. \A k \in 1 .. Len(heard') : heard'[k].what = "event"
    BY <1>1, <1>6, EventsAdd DEF Percentages
  <2> QED
    BY <1>4, <2>4, <2>5, <2>6 DEF Percentages
<1> QED
  BY <1>3, <1>5, <1>6

LEMMA RisingKept ==
  ASSUME Inductive, Percentages, [Next]_vars
  PROVE  Percentages'
<1>1. CASE Emit
  BY <1>1, EmittedRises
<1>2. CASE CommitNext
  <2>1. /\ course' = course /\ listening' = listening /\ broken' = broken /\ heard' = heard
        /\ pc' = pc /\ at' = at + 1 /\ course[at].what = "commit"
    BY <1>2 DEF CommitNext, call
  <2>2. at \in Nat
    <3>1. Len(course) \in Nat /\ at \in 1 .. Len(course) + 1
      BY DEF Inductive, Walking, CourseShape
    <3> QED
      BY <3>1
  <2>3. ASSUME listening, ~broken, pc = "working", NEW i \in 1 .. Len(heard)
        PROVE  \E m \in 1 .. at :
                 /\ heard[i] = course[m]
                 /\ \A k \in m + 1 .. at : Begins(course[k], heard[i].phase) =>
                      \E l \in i + 1 .. Len(heard) : Begins(heard[l], heard[i].phase)
    <3>1. PICK m \in 1 .. at - 1 :
                 /\ heard[i] = course[m]
                 /\ \A k \in m + 1 .. at - 1 : Begins(course[k], heard[i].phase) =>
                      \E l \in i + 1 .. Len(heard) : Begins(heard[l], heard[i].phase)
      BY <2>3 DEF Percentages, Following
    <3>2. m \in 1 .. at /\ \A k \in m + 1 .. at : k = at \/ k \in m + 1 .. at - 1
      BY <2>2
    <3>3. ~Begins(course[at], heard[i].phase)
      BY <2>1 DEF Begins
    <3> QED
      BY <3>1, <3>2, <3>3
  <2>4. Following'
    <3>1. at' - 1 = at
      BY <2>1, <2>2
    <3> QED
      BY <2>1, <2>3, <3>1 DEF Following
  <2> QED
    BY <2>1, <2>4 DEF Percentages
<1>3. CASE ReportFailure
  <2>1. ~Measured(Failed)
    BY DEF Failed, Event, Measured
  <2>2. course' = course /\ pc' # "working" /\ (Heard(Failed) \/ heard' = heard)
    BY <1>3 DEF ReportFailure, Delivered, Raises, Interrupts, call
  <2>3. Rises(heard')
    BY <2>1, <2>2, RisingFurther DEF Percentages
  <2>4. \A k \in 1 .. Len(heard') : heard'[k].what = "event"
    BY <2>2, EventsAdd DEF Failed, Event, Percentages
  <2> QED
    BY <2>2, <2>3, <2>4 DEF Percentages, Following
<1>4. CASE Return \/ WorkFails \/ FailUnreported \/ RecordFailure
  <2>1. course' = course /\ heard' = heard /\ pc' # "working"
    BY <1>4 DEF Return, WorkFails, FailUnreported, RecordFailure, call
  <2> QED
    BY <2>1 DEF Percentages, Following
<1>5. CASE UNCHANGED vars
  BY <1>5 DEF vars, Percentages, Following
<1> QED
  BY <1>1, <1>2, <1>3, <1>4, <1>5 DEF Next, Finished

\* The percentages heard of a phase never fall before it starts anew, whatever was
\* missed or counted in batches and wherever the operation stops (phase_percent).
THEOREM PercentRisesToTheEnd == Spec => []PercentNeverDecreases
<1>1. Inductive /\ Percentages => PercentNeverDecreases
  <2> SUFFICES ASSUME Inductive, Percentages,
                      NEW i \in DOMAIN heard, NEW j \in DOMAIN heard,
                      i < j, heard[i].phase = heard[j].phase,
                      Unmeasured \notin {heard[i].percent, heard[j].percent},
                      \A k \in i + 1 .. j : heard[k].phase = heard[j].phase => heard[k].status # "start"
               PROVE  heard[i].percent <= heard[j].percent
    BY DEF PercentNeverDecreases
  <2>1. DOMAIN heard = 1 .. Len(heard) /\ Len(heard) \in Nat
    BY ListLength DEF Inductive, Reported
  <2>2. heard[i].what = "event" /\ heard[j].what = "event"
    BY <2>1 DEF Percentages
  <2>3. i \in 1 .. Len(heard) /\ j \in 1 .. Len(heard)
    BY <2>1
  <2>4. heard[i].percent <= heard[j].percent \/ \E k \in i + 1 .. j : Begins(heard[k], heard[j].phase)
    BY <2>2, <2>3 DEF Percentages, Rises, Measured
  <2> QED
    BY <2>4 DEF Begins
<1> QED
  BY <1>1, Starts, Kept, RisingStarts, RisingKept, PTL DEF Spec
=============================================================================
