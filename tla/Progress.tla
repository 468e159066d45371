------------------------------- MODULE Progress -------------------------------
(***************************************************************************)
(* What a caller hears of a long operation (ProgressReporter), and what    *)
(* the callback it hears it through can do to the operation.               *)
(*                                                                         *)
(* The events an operation emits and the commits between them are written  *)
(* down as its course; the operation walks along it, may fail anywhere,    *)
(* and hands each event to the callback, which may raise.                  *)
(***************************************************************************)
EXTENDS Integers, Sequences, FiniteSets, SequencesExt

CONSTANTS
  Operations, \* those that may run: "ingest", "reuse", "retry", "audit"
  MaxItems,   \* bound: pages, batches, passages, crops a phase counts
  SearchPool  \* candidates asked of a search

ASSUME ConstantsAssumption ==
  /\ Operations \subseteq {"ingest", "reuse", "retry", "audit"}
  /\ MaxItems \in Nat /\ SearchPool \in Nat \ {0}

VARIABLES
  operation,
  course,    \* events still to emit and commits still to make, and those behind
  at,        \* position in it
  listening, \* a callback was passed
  broken,    \* it raised and is not called again
  phase,     \* of the last event, heard or not
  heard,     \* events the callback got
  row,       \* the version or audit row: "none", "open", "served" or "failed"
  cause,     \* what stopped the operation: "none", "work" or "listener"
  refused,   \* the database did not take the mark of a failure either
  pc

vars == <<operation, course, at, listening, broken, phase, heard, row, cause, refused, pc>>
call == <<operation, course, listening>>

Items == 0 .. MaxItems
Unmeasured == -1

\* phase_percent
Percent(completed, total) == IF total = 0 THEN 100 ELSE (100 * completed) \div total

Event(p, status, percent) == [what |-> "event", phase |-> p, status |-> status, percent |-> percent]
Commit(to) == [what |-> "commit", row |-> to]

Start(p, total) == Event(p, "start", IF total = 0 THEN Unmeasured ELSE 0)
Opened(p) == Event(p, "start", Unmeasured)
Done(p, completed, total) == Event(p, "completed", Percent(completed, total))
Told(p) == Event(p, "completed", Unmeasured)
Completed == Done("completed", 1, 1)

\* A step for each item, or a warning for one the model could not process.
Steps(p, n, missed) ==
  [i \in 1 .. n |-> IF i \in missed THEN Event(p, "warning", Unmeasured)
                                    ELSE Event(p, "progress", Percent(i, n))]
\* Mutant: the phase closes on the items that succeeded.
CountedSucceeded(p, n, missed) ==
  <<Start(p, n)>> \o Steps(p, n, missed) \o <<Done(p, n - Cardinality(missed), n)>>
Counted(p, n, missed) == <<Start(p, n)>> \o Steps(p, n, missed) \o <<Done(p, n, n)>>

Validated(pages) ==
  <<Opened("validating_input"), Done("validating_input", pages, pages)>>

\* Mutant: the caller is told before the version serves.
ActivatedLate ==
  <<Opened("activating_version"), Done("activating_version", 1, 1), Completed, Commit("served")>>
Activated ==
  <<Opened("activating_version"), Commit("served"), Done("activating_version", 1, 1), Completed>>

\* Warnings that come beside an item, and say nothing of it, are left out.
IngestCourse(pages, batches, passages, missed) ==
  Validated(pages) \o <<Commit("open")>>
  \o Counted("building_evidence", pages, {}) \o Counted("embedding_evidence", batches, {})
  \o Counted("extracting_facts", passages, missed) \o Counted("building_indexes", 1, {})
  \o Activated
IngestCourses ==
  {IngestCourse(pages, batches, passages, missed) :
     pages \in Items \ {0}, batches \in Items, passages \in Items, missed \in SUBSET {1}}

\* Nothing changed: the version that serves is reported.
ReuseCourses == {Validated(pages) \o <<Completed>> : pages \in Items \ {0}}

RetryCourses ==
  {<<Start("extracting_facts", n)>> \o Steps("extracting_facts", n, missed)
   \o <<Commit("served"), Completed>> : n \in Items, missed \in SUBSET {1}}

Searched(p, found) == <<Start(p, SearchPool), Done(p, found, SearchPool)>>

\* A pass in which the model is to judge checks the crops first.  A second pass
\* follows only such a pass, has at least its crops, and is silent where arithmetic
\* decides.
Judged(crops) == Counted("verifying_visuals", crops, {}) \o <<Opened("deciding_verdict")>>
Decided == <<Done("verifying_visuals", 0, 0), Opened("deciding_verdict")>>
Passes(found) ==
  {Decided} \union {Judged(crops) : crops \in 0 .. found * MaxItems}
  \union UNION {{Judged(crops) \o Judged(again) : again \in crops .. MaxItems} :
                  crops \in 0 .. found * MaxItems}

AuditCourse(found, vectors, passes) ==
  <<Opened("parsing_claim"), Told("parsing_claim"), Commit("open")>>
  \o Searched("retrieving_graph", found) \o Searched("retrieving_full_text", 0) \o vectors
  \o <<Opened("fusing_candidates"), Done("fusing_candidates", found, found)>>
  \o Counted("expanding_context", found, {})
  \o passes \o <<Told("deciding_verdict"), Opened("persisting_trace"), Commit("open"),
                  Done("persisting_trace", found, found), Commit("served"), Completed>>
AuditFinding(found) ==
  {AuditCourse(found, vectors, passes) :
     vectors \in {<<>>, Searched("retrieving_vectors", 1)}, passes \in Passes(found)}

AuditCourses == AuditFinding(0) \union AuditFinding(1)

Courses(op) ==
  CASE op = "ingest" -> IngestCourses
    [] op = "reuse"  -> ReuseCourses
    [] op = "retry"  -> RetryCourses
    [] op = "audit"  -> AuditCourses

Init ==
  /\ operation \in Operations
  /\ course \in Courses(operation)
  /\ at = 1
  /\ listening \in BOOLEAN
  /\ broken = FALSE /\ phase = "" /\ heard = <<>> /\ cause = "none"
  /\ refused = FALSE
  /\ row = IF operation \in {"reuse", "retry"} THEN "served" ELSE "none"
  /\ pc = "working"

-----------------------------------------------------------------------------
(* One event.                                                              *)

Heard(event) == heard' = Append(heard, event)

\* The callback returns, or is not called.
Delivered(event, next) ==
  /\ phase' = event.phase
  /\ IF listening /\ ~broken THEN Heard(event) ELSE UNCHANGED heard
  /\ pc' = next
  /\ UNCHANGED <<broken, cause>>

\* Mutant: its exception is the operation's.
RaisesThrough(event, next) ==
  /\ listening /\ ~broken
  /\ phase' = event.phase /\ Heard(event)
  /\ pc' = "failing"
  /\ UNCHANGED <<broken, cause>>
\* It raises an Exception: it is not called again, and the work goes on.
Raises(event, next) ==
  /\ listening /\ ~broken
  /\ phase' = event.phase /\ Heard(event)
  /\ broken' = TRUE
  /\ pc' = next
  /\ UNCHANGED cause

\* It raises anything else, a KeyboardInterrupt: emit lets it through.
Interrupts(event, handler) ==
  /\ listening /\ ~broken
  /\ phase' = event.phase /\ Heard(event)
  /\ cause' = "listener"
  /\ pc' = handler
  /\ UNCHANGED broken

-----------------------------------------------------------------------------
(* The operation.                                                          *)

Emit ==
  /\ pc = "working" /\ at <= Len(course) /\ course[at].what = "event"
  /\ \/ Delivered(course[at], "working")
     \/ Raises(course[at], "working")
     \/ Interrupts(course[at], "failing")
  /\ at' = at + 1
  /\ UNCHANGED <<call, row, refused>>

CommitNext ==
  /\ pc = "working" /\ at <= Len(course) /\ course[at].what = "commit"
  /\ row' = course[at].row
  /\ at' = at + 1
  /\ UNCHANGED <<call, broken, phase, heard, cause, refused, pc>>

Return ==
  /\ pc = "working" /\ at > Len(course)
  /\ pc' = "returned"
  /\ UNCHANGED <<call, at, broken, phase, heard, row, cause, refused>>

WorkFails ==
  /\ pc = "working"
  /\ cause' = "work" /\ pc' = "failing"
  /\ UNCHANGED <<call, at, broken, phase, heard, row, refused>>

\* fail: one event in the phase the operation stopped in.  A retry has no handler.
Failed == Event(IF phase = "" THEN "unknown" ELSE phase, "failed", Unmeasured)

ReportFailure ==
  /\ pc = "failing" /\ operation # "retry"
  /\ \/ Delivered(Failed, "recording")
     \/ Raises(Failed, "recording")
     \/ Interrupts(Failed, "raised")
  /\ UNCHANGED <<call, at, row, refused>>

FailUnreported ==
  /\ pc = "failing" /\ operation = "retry"
  /\ pc' = "raised"
  /\ UNCHANGED <<call, at, broken, phase, heard, row, cause, refused>>

\* A row that is still open is marked, if the database lets it: an exception of
\* the rollback or of the mark is logged and dropped.  One that serves is left alone.
RecordFailure ==
  /\ pc = "recording"
  /\ \/ row' = (IF row = "open" THEN "failed" ELSE row) /\ UNCHANGED refused
     \/ row = "open" /\ refused' = TRUE /\ UNCHANGED row
  /\ pc' = "raised"
  /\ UNCHANGED <<call, at, broken, phase, heard, cause>>

Ended == pc \in {"returned", "raised"}
Finished == Ended /\ UNCHANGED vars

Next ==
  \/ Emit \/ CommitNext \/ Return \/ WorkFails
  \/ ReportFailure \/ FailUnreported \/ RecordFailure \/ Finished

Spec == Init /\ [][Next]_vars

-----------------------------------------------------------------------------
(* Properties.                                                             *)

\* "A broken UI must never corrupt an index build" (progress.py): whatever the
\* callback raises short of an interrupt, and whenever, a call returns exactly if
\* its work did not fail, a returned call has committed what it was for, and of a
\* failed one no row is left that looks as if it were running, unless the database
\* refused to record the failure: nothing the callback does keeps the handler from it.
ListenerChangesNothing ==
  Ended /\ cause # "listener" =>
    /\ (pc = "returned") = (cause = "none")
    /\ pc = "returned" => row = "served"
    /\ pc = "raised" /\ row = "open" => refused

\* A caller that only hears knows how the call ended: it is told of completion
\* only when the result is durable, a call that returns ends on that, and one that
\* raises ends on a single failure that names the phase it stopped in, even if it
\* stopped on the very event of its completion (progress.py fail).
EventsTellTheOutcome ==
  LET failures == {k \in DOMAIN heard : heard[k].status = "failed"}
      last == Len(heard)
  IN  /\ Contains(heard, Completed) => row = "served"
      /\ Ended /\ listening /\ ~broken =>
           /\ pc = "returned" => heard[last] = Completed /\ failures = {}
           /\ pc = "raised" /\ operation # "retry" =>
                failures = {last} /\ (last > 1 => heard[last].phase = heard[last - 1].phase)

\* "percent is phase-local and never decreases within a phase" (README, Progress
\* events), from a start of the phase to the next, also where items were missed, an
\* item is counted in batches or there are none.
PercentNeverDecreases ==
  \A i, j \in DOMAIN heard :
    /\ i < j /\ heard[i].phase = heard[j].phase
    /\ Unmeasured \notin {heard[i].percent, heard[j].percent}
    /\ \A k \in i + 1 .. j : heard[k].phase = heard[j].phase => heard[k].status # "start"
    => heard[i].percent <= heard[j].percent
=============================================================================
