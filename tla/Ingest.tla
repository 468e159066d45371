------------------------------- MODULE Ingest -------------------------------
(***************************************************************************)
(* The ingestion worker and the version rows it writes.                    *)
(*                                                                         *)
(* A document is indexed as a series of versions, one row per (document,   *)
(* fingerprint, attempt).  The worker builds a version in many small       *)
(* transactions: one per page, one per embedding batch, one per narrative  *)
(* candidate.  Then it checks the result and activates it.  An exception,  *)
(* a kill, a restart and the removal of the document can fall between any  *)
(* two commits.  One action of this module is one committed transaction.   *)
(*                                                                         *)
(* Data: the source unit of page p stands for all the units page_units     *)
(* yields for it; its text and its vector are told apart only as missing,  *)
(* left by an earlier attempt ("stale") or derived from the source the     *)
(* fingerprint names ("current").                                          *)
(***************************************************************************)
EXTENDS Naturals, FiniteSets

CONSTANTS
  Docs,         \* the documents
  Fps,          \* the index fingerprints a build can have
  NarrativeFps, \* those of builds with extract_narrative_facts
  Version,      \* bound: the version rows <<document, fingerprint, attempt>> there may be
  NPages,       \* pages in the manifest
  ClaimPages,   \* pages whose unit is a claim-like narrative passage
  BatchSize,    \* embed_batch_size
  StartModes,   \* how a process comes back after a kill: "frontend", "cli"
  Seeds,        \* what an unfinished attempt of an earlier process may hold
  NoVersion

Pages == 1..NPages
Ghost == 0  \* a unit, or the page under it, that the source no longer has

DocOf(v) == v[1]
FpOf(v) == v[2]
AttemptOf(v) == v[3]

Texts == {"none", "stale", "current"}
FactSources == {"none", "stale", "entity", "filename"}
Seed == [ status   : {"building", "failed", "interrupted"},
          text     : [Pages -> Texts],
          embedded : SUBSET Pages,
          leftover : SUBSET (Pages \union {Ghost}),
          facts    : {"none", "stale"},
          failures : SUBSET (ClaimPages \union {Ghost}) ]

ASSUME ConstantsAssumption ==
  /\ NPages \in Nat \ {0} /\ BatchSize \in Nat \ {0}
  /\ Version \subseteq Docs \X Fps \X (Nat \ {0})
  /\ ClaimPages \subseteq Pages
  /\ NarrativeFps \subseteq Fps
  /\ Seeds \subseteq Seed
  /\ NoVersion \notin Version

VARIABLES
  \* columns of document_version and the tables keyed by it
  status,      \* "absent" where there is no row
  unit,        \* text of the evidence unit of each page
  vector,      \* the text each unit's embedding was computed from
  leftover,    \* units the source no longer produces; Ghost: on a page it no longer has
  tableFacts,  \* the facts derived from tables
  facts,       \* the subject the facts of each narrative candidate are attributed to
  failures,    \* fact_candidate_failure
  total,       \* fact_candidates_total
  succeeded,   \* fact_candidates_succeeded
  \* the worker
  pc,
  cur,         \* the version being built or retried
  page,        \* the next page to index
  todo,        \* units still to embed, or candidates still to extract
  done         \* candidates extracted by this call

evidence   == <<unit, vector, leftover>>
enrichment == <<tableFacts, facts, failures, total, succeeded>>
rows       == <<status, evidence, enrichment>>
worker     == <<pc, cur, page, todo, done>>
vars       == <<rows, worker>>

Queryable == {"ready", "degraded"}
Statuses  == Queryable \union {"absent", "building", "failed", "inactive", "interrupted"}
Building  == {"pages", "embed", "tables", "narrative", "verify", "activate"}
Working   == Building \union {"report", "retry"}

TypeOK ==
  /\ status \in [Version -> Statuses]
  /\ unit \in [Version -> [Pages -> Texts]]
  /\ vector \in [Version -> [Pages -> Texts]]
  /\ leftover \in [Version -> SUBSET (Pages \union {Ghost})]
  /\ tableFacts \in [Version -> Texts]
  /\ facts \in [Version -> [ClaimPages -> FactSources]]
  /\ failures \in [Version -> SUBSET (ClaimPages \union {Ghost})]
  /\ total \in [Version -> Nat]
  /\ succeeded \in [Version -> Nat]
  /\ pc \in Working \union {"idle", "down"}
  /\ cur \in Version \union {NoVersion}
  /\ pc \in Working => cur \in Version
  /\ page \in 1..(NPages + 1)
  /\ todo \in SUBSET (Pages \union {Ghost})
  /\ pc = "narrative" => todo \subseteq ClaimPages
  /\ done \in Nat

-----------------------------------------------------------------------------
(* Initial states: an empty index, or one unfinished attempt that a process *)
(* now gone left behind, seeded the way the resume test seeds it.           *)

NoUnits == [p \in Pages |-> "none"]
NoFacts == [c \in ClaimPages |-> "none"]

Init ==
  /\ \/ /\ status = [v \in Version |-> "absent"]
        /\ unit = [v \in Version |-> NoUnits]
        /\ vector = [v \in Version |-> NoUnits]
        /\ leftover = [v \in Version |-> {}]
        /\ tableFacts = [v \in Version |-> "none"]
        /\ facts = [v \in Version |-> NoFacts]
        /\ failures = [v \in Version |-> {}]
     \/ \E v \in Version, s \in Seeds :
          /\ FpOf(v) \notin NarrativeFps => s.failures = {}
          /\ status = [w \in Version |-> IF w = v THEN s.status ELSE "absent"]
          /\ unit = [w \in Version |-> IF w = v THEN s.text ELSE NoUnits]
          /\ vector = [w \in Version |-> [p \in Pages |->
                         IF w = v /\ p \in s.embedded THEN s.text[p] ELSE "none"]]
          /\ leftover = [w \in Version |-> IF w = v THEN s.leftover ELSE {}]
          /\ tableFacts = [w \in Version |-> IF w = v THEN s.facts ELSE "none"]
          /\ facts = [w \in Version |-> [c \in ClaimPages |->
                        IF w = v THEN s.facts ELSE "none"]]
          /\ failures = [w \in Version |-> IF w = v THEN s.failures ELSE {}]
  /\ total = [v \in Version |-> 0]
  /\ succeeded = [v \in Version |-> 0]
  /\ pc = "idle" /\ cur = NoVersion /\ page = 1 /\ todo = {} /\ done = 0

\* The worker's locals end with the call they belong to.
Ends(where) ==
  pc' = where /\ cur' = NoVersion /\ page' = 1 /\ todo' = {} /\ done' = 0

-----------------------------------------------------------------------------
(* Opening a version.                                                       *)

AttemptsIn(v, statuses) ==
  {w \in Version : DocOf(w) = DocOf(v) /\ FpOf(w) = FpOf(v) /\ status[w] \in statuses}
Existing == Statuses \ {"absent"}

\* find_version, as ingestion uses it: is there a version of v's build to reuse?
HasQueryable(v) == AttemptsIn(v, Queryable) # {}

\* Mutants, each next to the definition it replaces, are what a plausible mistake
\* in that code would do; PROJECT.json says which property each one breaks.

\* The attempt a forced start_version opens: one more than the newest.
NextAttempt(v) ==
  /\ \A w \in AttemptsIn(v, Existing) : AttemptOf(w) < AttemptOf(v)
  /\ AttemptOf(v) = 1 \/ \E w \in AttemptsIn(v, Existing) : AttemptOf(v) = AttemptOf(w) + 1

\* The one it opens otherwise: the newest building or failed one, else the first.
ResumedAttempt(v) ==
  LET resumable == AttemptsIn(v, {"building", "failed"})
  IN  \/ resumable = {} /\ AttemptOf(v) = 1
      \/ v \in resumable /\ \A w \in resumable : AttemptOf(w) <= AttemptOf(v)

\* INSERT ... ON CONFLICT DO UPDATE SET status = 'building': a reopened row
\* keeps its evidence, its facts, its failures and its coverage.
StartVersion(v, force) ==
  /\ pc = "idle"
  /\ force => NextAttempt(v)
  /\ ~force => ~HasQueryable(v) /\ ResumedAttempt(v)
  /\ status' = [status EXCEPT ![v] = "building"]
  /\ cur' = v
  /\ pc' = "pages"
  /\ page' = 1
  /\ UNCHANGED <<evidence, enrichment, todo, done>>

-----------------------------------------------------------------------------
(* Building: every action commits.  The document may be gone, in which case *)
(* the statement finds no row and WorkFindsNoRow ends the build.            *)

\* Mutants: the text is replaced and its vector kept; a unit already there is kept.
UpsertKeepingVector(v, p) ==
  /\ unit' = [unit EXCEPT ![v][p] = "current"]
  /\ leftover' = [leftover EXCEPT ![v] = @ \ {p}]
  /\ vector' = vector
UpsertDoingNothing(v, p) ==
  /\ unit' = [unit EXCEPT ![v][p] = IF @ = "none" THEN "current" ELSE @]
  /\ leftover' = [leftover EXCEPT ![v] = @ \ {p}]
  /\ vector' = vector

\* Overwrite the page's unit; an embedding survives only if the text did not change.
UpsertEvidence(v, p) ==
  /\ unit' = [unit EXCEPT ![v][p] = "current"]
  /\ vector' = [vector EXCEPT ![v][p] = IF unit[v][p] = "current" THEN @ ELSE "none"]
  /\ leftover' = [leftover EXCEPT ![v] = @ \ {p}]

\* Mutant: one page too many.
IndexPageOffByOne ==
  /\ pc = "pages" /\ status[cur] # "absent" /\ page <= NPages + 1
  /\ UpsertEvidence(cur, page)
  /\ page' = page + 1
  /\ UNCHANGED <<status, enrichment, pc, cur, todo, done>>

IndexPage ==
  /\ pc = "pages"
  /\ status[cur] # "absent"
  /\ page <= NPages
  /\ UpsertEvidence(cur, page)
  /\ page' = page + 1
  /\ UNCHANGED <<status, enrichment, pc, cur, todo, done>>

\* Mutant: the pending units are those of the first batch.
MissingInFirstBatch(v) == {p \in 1..BatchSize : unit[v][p] # "none" /\ vector[v][p] = "none"}

\* The units still without a vector.
UnitsMissingEmbeddings(v) == {p \in Pages : unit[v][p] # "none" /\ vector[v][p] = "none"}

\* All pages are in: drop the pages the manifest no longer lists, and read
\* which units still lack an embedding.
DeleteStalePages ==
  /\ pc = "pages"
  /\ status[cur] # "absent"
  /\ page > NPages
  /\ leftover' = [leftover EXCEPT ![cur] = @ \ {Ghost}]
  /\ todo' = UnitsMissingEmbeddings(cur)
  /\ pc' = "embed"
  /\ UNCHANGED <<status, unit, vector, enrichment, cur, page, done>>

\* Mutant: a batch one unit short, which is empty where a batch is one unit.
BatchOneShort == {p \in todo : Cardinality({q \in todo : q < p}) + 1 < BatchSize}

\* The next batch: the first BatchSize of the pending units, in row order.
NextBatch == {p \in todo : Cardinality({q \in todo : q < p}) < BatchSize}

EmbedBatch ==
  /\ pc = "embed"
  /\ status[cur] # "absent"
  /\ todo # {}
  /\ vector' = [vector EXCEPT ![cur] =
                  [p \in Pages |-> IF p \in NextBatch THEN unit[cur][p] ELSE @[p]]]
  /\ todo' = todo \ NextBatch
  /\ UNCHANGED <<status, unit, leftover, enrichment, pc, cur, page, done>>

\* Mutant: facts are resumed.
KeepFacts ==
  /\ pc = "embed" /\ status[cur] # "absent" /\ todo = {}
  /\ pc' = "tables"
  /\ UNCHANGED <<status, evidence, enrichment, cur, page, todo, done>>

\* Facts are rebuilt, never resumed.
DeleteFacts ==
  /\ pc = "embed"
  /\ status[cur] # "absent"
  /\ todo = {}
  /\ tableFacts' = [tableFacts EXCEPT ![cur] = "none"]
  /\ facts' = [facts EXCEPT ![cur] = NoFacts]
  /\ pc' = "tables"
  /\ UNCHANGED <<status, evidence, failures, total, succeeded, cur, page, todo, done>>

StoreTableFacts ==
  /\ pc = "tables"
  /\ status[cur] # "absent"
  /\ tableFacts' = [tableFacts EXCEPT ![cur] = "current"]
  /\ IF FpOf(cur) \in NarrativeFps
       THEN pc' = "narrative" /\ todo' = ClaimPages /\ done' = 0
       ELSE pc' = "verify" /\ UNCHANGED <<todo, done>>
  /\ UNCHANGED <<status, evidence, facts, failures, total, succeeded, cur, page>>

\* Mutants: an answer leaves the failure on record; a failure is counted as answered.
SucceedKeepingFailure(c, subject) ==
  /\ facts' = [facts EXCEPT ![cur][c] = subject]
  /\ failures' = failures
  /\ done' = done + 1
FailCounted(c) ==
  /\ failures' = [failures EXCEPT ![cur] = @ \union {c}]
  /\ done' = done + 1
  /\ facts' = facts

\* The model answered for one candidate: its accepted facts (there may be none)
\* and the end of its failure are one commit.
CandidateSucceeds(c, subject) ==
  /\ \E kept \in BOOLEAN :
       facts' = [facts EXCEPT ![cur][c] = IF kept THEN subject ELSE @]
  /\ failures' = [failures EXCEPT ![cur] = @ \ {c}]
  /\ done' = done + 1

CandidateFails(c) ==
  /\ failures' = [failures EXCEPT ![cur] = @ \union {c}]
  /\ UNCHANGED <<facts, done>>

ExtractCandidate ==
  /\ pc = "narrative"
  /\ status[cur] # "absent"
  /\ \E c \in todo :
       /\ CandidateSucceeds(c, "entity") \/ CandidateFails(c)
       /\ todo' = todo \ {c}
  /\ UNCHANGED <<status, evidence, tableFacts, total, succeeded, pc, cur, page>>

SetFactCoverage ==
  /\ pc = "narrative"
  /\ status[cur] # "absent"
  /\ todo = {}
  /\ total' = [total EXCEPT ![cur] = Cardinality(ClaimPages)]
  /\ succeeded' = [succeeded EXCEPT ![cur] = done]
  /\ pc' = "verify"
  /\ UNCHANGED <<status, evidence, tableFacts, facts, failures, cur, page, todo, done>>

\* What _verify can tell from the rows: it counts units and pages and looks for
\* missing embeddings, but cannot tell a stale text or vector from a current one.
ChecksPass(v) ==
  /\ \A p \in Pages : unit[v][p] # "none" /\ vector[v][p] # "none"
  /\ leftover[v] = {}

\* mark_version_failed, on a building version only.  The mutant forgets that.
MarkAnyVersionFailed(v) == status' = [status EXCEPT ![v] = "failed"]
MarkVersionFailed(v) ==
  status' = [status EXCEPT ![v] = IF @ = "building" THEN "failed" ELSE @]

\* A failed check raises, and ingest_document records it.
Verify ==
  /\ pc = "verify"
  /\ status[cur] # "absent"
  /\ IF ChecksPass(cur)
       THEN pc' = "activate" /\ UNCHANGED <<status, cur, page, todo, done>>
       ELSE MarkVersionFailed(cur) /\ Ends("idle")
  /\ UNCHANGED <<evidence, enrichment>>

\* Mutant: only the attempts at the same build are retired.
ActivateAmongAttempts(v, st) ==
  status' = [w \in Version |->
               IF w = v THEN st
               ELSE IF DocOf(w) = DocOf(v) /\ FpOf(w) = FpOf(v) /\ status[w] \in Queryable
                      THEN "inactive" ELSE status[w]]

\* activate_version: retire what the document serves, then give v its status.
Activate(v, st) ==
  status' = [w \in Version |->
               IF w = v THEN st
               ELSE IF DocOf(w) = DocOf(v) /\ status[w] \in Queryable THEN "inactive"
               ELSE status[w]]

GradeOf(v) == IF failures[v] = {} THEN "ready" ELSE "degraded"

ActivateVersion ==
  /\ pc = "activate"
  /\ status[cur] # "absent"
  /\ Activate(cur, GradeOf(cur))
  /\ pc' = "report"
  /\ UNCHANGED <<evidence, enrichment, cur, page, todo, done>>

\* The report is assembled from reads after the activation has been committed.
Report ==
  /\ pc = "report"
  /\ status[cur] # "absent"
  /\ Ends("idle")
  /\ UNCHANGED rows

-----------------------------------------------------------------------------
(* Retrying the narrative candidates that failed.                           *)

RetryFailedFacts(d) ==
  /\ pc = "idle"
  /\ \E v \in Version :
       /\ DocOf(v) = d /\ status[v] \in Queryable
       /\ cur' = v
       /\ todo' = failures[v]
  /\ done' = 0
  /\ pc' = "retry"
  /\ UNCHANGED <<rows, page>>

\* One candidate, with its unit read back from the index; a failure whose unit
\* is gone is forgotten.  The subject is organization_name of the document.
RetryCandidate ==
  /\ pc = "retry"
  /\ status[cur] # "absent"
  /\ \E c \in todo :
       /\ \/ /\ c \notin ClaimPages
             /\ failures' = [failures EXCEPT ![cur] = @ \ {c}]
             /\ UNCHANGED <<facts, done>>
          \/ c \in ClaimPages /\ CandidateSucceeds(c, "filename")
          \/ c \in ClaimPages /\ CandidateFails(c)
       /\ todo' = todo \ {c}
  /\ UNCHANGED <<status, evidence, tableFacts, total, succeeded, pc, cur, page>>

\* Mutant: one answer is enough for ready.
SettleOptimistically ==
  /\ pc = "retry" /\ status[cur] # "absent" /\ todo = {}
  /\ succeeded' = [succeeded EXCEPT ![cur] = @ + done]
  /\ Activate(cur, IF done > 0 THEN "ready" ELSE GradeOf(cur))
  /\ Ends("idle")
  /\ UNCHANGED <<evidence, tableFacts, facts, failures, total>>

\* The coverage and the promotion are one commit, after the last candidate.
SettleRetry ==
  /\ pc = "retry"
  /\ status[cur] # "absent"
  /\ todo = {}
  /\ succeeded' = [succeeded EXCEPT ![cur] = @ + done]
  /\ Activate(cur, GradeOf(cur))
  /\ Ends("idle")
  /\ UNCHANGED <<evidence, tableFacts, facts, failures, total>>

-----------------------------------------------------------------------------
(* Everything that interrupts the worker.                                   *)

\* An exception: a failed check of the artifacts, an embedding the model did not answer, a lost
\* connection, a Ctrl-C.  A build records it, unless that write fails too; a
\* retry has no handler.
WorkRaises ==
  /\ pc \in Working
  /\ \/ pc # "retry" /\ MarkVersionFailed(cur)
     \/ UNCHANGED status
  /\ Ends("idle")
  /\ UNCHANGED <<evidence, enrichment>>

\* The document was removed under the worker: some statement finds no row, and
\* there is nothing left to mark.
WorkFindsNoRow ==
  /\ pc \in Working
  /\ status[cur] = "absent"
  /\ Ends("idle")
  /\ UNCHANGED rows

Kill ==
  /\ pc \in Working
  /\ Ends("down")
  /\ UNCHANGED rows

\* A frontend reconciles when it starts.
ReconcileInterrupted ==
  /\ pc = "down"
  /\ "frontend" \in StartModes
  /\ status' = [v \in Version |-> IF status[v] = "building" THEN "interrupted" ELSE status[v]]
  /\ Ends("idle")
  /\ UNCHANGED <<evidence, enrichment>>

\* The command line does not.
StartCli ==
  /\ pc = "down"
  /\ "cli" \in StartModes
  /\ Ends("idle")
  /\ UNCHANGED rows

\* delete_document: the rows of every version go with it.
RemoveDocument(d) ==
  /\ \E v \in Version : DocOf(v) = d /\ status[v] # "absent"
  /\ status' = [v \in Version |-> IF DocOf(v) = d THEN "absent" ELSE status[v]]
  /\ unit' = [v \in Version |-> IF DocOf(v) = d THEN NoUnits ELSE unit[v]]
  /\ vector' = [v \in Version |-> IF DocOf(v) = d THEN NoUnits ELSE vector[v]]
  /\ leftover' = [v \in Version |-> IF DocOf(v) = d THEN {} ELSE leftover[v]]
  /\ tableFacts' = [v \in Version |-> IF DocOf(v) = d THEN "none" ELSE tableFacts[v]]
  /\ facts' = [v \in Version |-> IF DocOf(v) = d THEN NoFacts ELSE facts[v]]
  /\ failures' = [v \in Version |-> IF DocOf(v) = d THEN {} ELSE failures[v]]
  /\ total' = [v \in Version |-> IF DocOf(v) = d THEN 0 ELSE total[v]]
  /\ succeeded' = [v \in Version |-> IF DocOf(v) = d THEN 0 ELSE succeeded[v]]
  /\ UNCHANGED worker

-----------------------------------------------------------------------------
WorkerStep ==
  \/ IndexPage \/ DeleteStalePages \/ EmbedBatch
  \/ DeleteFacts \/ StoreTableFacts \/ ExtractCandidate \/ SetFactCoverage
  \/ Verify \/ ActivateVersion \/ Report
  \/ RetryCandidate \/ SettleRetry
  \/ WorkFindsNoRow

Next ==
  \/ \E v \in Version, force \in BOOLEAN : StartVersion(v, force)
  \/ \E d \in Docs : RetryFailedFacts(d)
  \/ \E d \in Docs : RemoveDocument(d)
  \/ WorkerStep
  \/ WorkRaises \/ Kill \/ ReconcileInterrupted \/ StartCli

Spec == Init /\ [][Next]_vars

\* The worker takes its next step: loops over pages, batches and candidates are
\* finite and every model call has a timeout.  Nothing is assumed of exceptions,
\* kills, restarts, removals or of anyone asking for work.
FairSpec == Spec /\ WF_vars(WorkerStep)

-----------------------------------------------------------------------------
(* Properties.                                                              *)

\* An embedding is always of the text its unit holds, in every row and at every
\* moment, whatever attempt wrote which (upsert_evidence, _embed_pending).
VectorsMatchText ==
  \A v \in Version, p \in Pages : vector[v][p] \in {"none", unit[v][p]}

\* No document is ever answered from two versions (activate_version).
OneQueryableVersion ==
  \A v, w \in Version :
    /\ DocOf(v) = DocOf(w)
    /\ status[v] \in Queryable /\ status[w] \in Queryable
    => v = w

\* A version that answers queries holds exactly what its source yields: nothing
\* an earlier attempt left in the row survives into it (page loop, stale-page
\* deletion, embedding, fact rebuild and the checks together).
HoldsSource(v) ==
  /\ \A p \in Pages : unit[v][p] = "current" /\ vector[v][p] = "current"
  /\ leftover[v] = {}
  /\ tableFacts[v] = "current"
  /\ \A c \in ClaimPages : facts[v][c] # "stale"
QueryableIsCurrent == \A v \in Version : status[v] \in Queryable => HoldsSource(v)

\* What each phase can rely on.  A build's row stays building (or is removed)
\* under it: every page before the cursor is current, then every page, then
\* every vector or the list of those to come, then the facts.  A retry works on a
\* serving version, and only on what it owes.  So the checks never
\* reject what a resumed attempt started from.
PageCurrent(p) ==
  unit[cur][p] = "current" /\ vector[cur][p] \in {"none", "current"} /\ p \notin leftover[cur]
WorkProgress ==
  /\ pc \in Building => status[cur] \in {"building", "absent"}
  /\ pc \in {"report", "retry"} => status[cur] \in Queryable \union {"absent"}
  /\ pc \in Building /\ status[cur] = "building" =>
       /\ \A p \in Pages : pc # "pages" \/ p < page => PageCurrent(p)
       /\ pc # "pages" => Ghost \notin leftover[cur]
       /\ pc = "embed" => {p \in Pages : vector[cur][p] = "none"} \subseteq todo
       /\ pc \notin {"pages", "embed"} =>
            /\ \A p \in Pages : vector[cur][p] = "current"
            /\ \A c \in ClaimPages : facts[cur][c] # "stale"
       /\ pc \in {"narrative", "verify", "activate"} => tableFacts[cur] = "current"
  /\ pc = "retry" /\ status[cur] # "absent" => todo \subseteq failures[cur]

\* A version reported ready owes no candidate, across builds, retries, kills and
\* resumptions (the grade given by _ingest and retry_failed_facts).
ReadyOwesNothing ==
  \A v \in Version : status[v] = "ready" => failures[v] = {}

\* A candidate that is owed has left no fact behind: storing facts and clearing
\* the failure are one commit, and a rebuild starts from no facts.
OwedCandidateHasNoFact ==
  \A v \in Version : status[v] \in Queryable =>
    \A c \in failures[v] \cap ClaimPages : facts[v][c] = "none"

\* The stored coverage of a serving version never claims a candidate that is
\* still owed, however many retries ran and wherever they were cut off.
CoverageNotOverstated ==
  \A v \in Version : status[v] \in Queryable =>
    succeeded[v] + Cardinality(failures[v] \cap ClaimPages) <= total[v]

\* A document that answers queries keeps answering them until it is removed:
\* rebuilding, failing, being killed and reconciled never take it out of service.
Serving(d) == {v \in Version : DocOf(v) = d /\ status[v] \in Queryable}
Removed(d) == \A v \in Version : DocOf(v) = d => status[v] = "absent"
ServiceUninterrupted ==
  [][\A d \in Docs : Serving(d) # {} => Serving(d)' # {} \/ Removed(d)']_vars

\* A build or a retry comes to its end: no loop over pages, batches or candidates
\* can be kept going, whatever an earlier attempt left and however often the model
\* fails to answer.
WorkEnds == pc \in Working ~> pc \notin Working

\* What serves each document, as the abstract index sees it.
CompleteContent ==
  [units |-> [p \in Pages |-> "current"], vectors |-> [p \in Pages |-> "current"],
   leftover |-> {}, tables |-> "current"]
ContentOf(v) ==
  [units |-> unit[v], vectors |-> vector[v], leftover |-> leftover[v], tables |-> tableFacts[v]]
BuildOf(v) ==
  [version |-> v, content |-> ContentOf(v), owed |-> failures[v], grade |-> status[v]]
ServedBuilds(d) == {BuildOf(v) : v \in Serving(d)}

Index == INSTANCE ServingIndex WITH
           Versions <- Version, Complete <- CompleteContent,
           Candidates <- ClaimPages \union {Ghost},
           served <- [d \in Docs |-> ServedBuilds(d)]

\* The worker implements the abstract index: builds appear whole and in one step,
\* and evidence that serves is never rewritten.
ImplementsIndex == Index!Spec

-----------------------------------------------------------------------------
(* What the documentation says, and the code does not do.                   *)

\* schema.sql: the counts "say how much of it landed, so 'degraded' is a measured
\* state rather than a label".
ReadyIsFullyCounted ==
  \A v \in Version : status[v] = "ready" => succeeded[v] = total[v]

=============================================================================
