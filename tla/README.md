# Verification of claim_evidence

claim_evidence answers one question about a company's reports: is this claim
supported by what the report says? It is a Python package over one PostgreSQL
database. An ingestion worker turns an extraction (`extraction.json` and the files
around it) into rows that can be searched; an audit searches them, compares
figures by arithmetic, asks a local model where arithmetic does not decide, and
stores its verdict with the evidence it rests on.

This directory holds TLA+ modules of that program, TLC configurations that check
them on small instances, and TLAPS proofs for every instance of those properties
that matter most. Paths below are relative to the package,
`src/src/claim_evidence/`; documentation is quoted from `src/README.md`.

To run any of it, in this directory:

    tlc -workers 2 -config MCIngest_content.cfg MCIngest
    tlapm IngestProofs.tla

## 1. The system

### Components, their state and their operations

| component | state | operations | model |
|---|---|---|---|
| ingestion worker (`ingest.py`) | none of its own; one build at a time, its cursor in the stack of `_ingest` | `ingest_document`, `retry_failed_facts` | `Ingest` |
| index store (`db.py`, `sql/schema.sql`) | `document`, `document_version`, `page`, `evidence_unit`, `region`, `fact`, `fact_extraction_failure`, `audit_run`, `audit_candidate`, `visual_verification`, `schema_meta` | one function per statement or transaction | the rows of `Ingest` and `Audit`, the searches of `Retrieval`, transactions and the schema in `Sessions` |
| client facade (`client.py`) | one connection | `ingest_document`, `retry_facts`, `remove_document`, `reconcile_interrupted`, `audit_claim`, searches | the entry points of `Ingest`, `Audit` and `Sessions` |
| audit pipeline (`audit.py`) | none of its own; candidates, regions, grades and prompt in the stack of `audit_claim` | two passes, crop grading, prompt, verdict, trace | `Audit` |
| retrieval (`retrieve.py`) | none | three searches, fusion, expansion | `Retrieval`; steps of `Audit` |
| facts and comparison (`facts.py`, `normalize.py`) | none: pure functions | table and candidate facts, claim parsing, `compare_detailed` | `Comparison` |
| visual verification (`vision.py`) | none | cuts a crop, asks a model about it, grades the answer | `ModelAnswers`; an outcome in `Audit` |
| claim decomposition (`decompose.py`, `claims.py`) | none | splits a post into claims, grounds each in it, checks the final ones against it | `ModelAnswers` |
| extraction reader (`source.py`, `contracts/`) | files | builds the units of a page, maps Markdown segments to them | `PageUnits` |
| progress reporting (`progress.py`) | the phase, its timings, `_broken` | `start`, `step`, `warn`, `done`, `fail`; the callback | `Progress` |
| read models (`frontend.py`) | none | queries for the user interface | those that open a transaction before a removal, in `Sessions` |
| development reset (`reset.py`) | none | guards, drop, rebuild | `Sessions` |
| model clients (`model_client.py`, `ollama.py`) | none | structured requests with one retry, vision, embeddings | `ModelAnswers` |
| configuration, command line, types | settings | argument parsing | not modelled |

### How they interact

The worker and the audits share nothing but the database. Both run under
PostgreSQL's default READ COMMITTED: each *statement* sees what was committed when
it started, so an audit, which is dozens of statements and several model calls,
reads an index that changes under it. The worker commits page by page, batch by
batch and candidate by candidate, so it can be killed with any prefix of its work
in the store. A frontend process calls `reconcile_interrupted` when it starts,
turning builds and audits that say they are running into interrupted ones;
`remove_document` deletes a document and, by cascade, everything that refers to it,
audits' traces included, at any moment. The documentation promises one frontend
process and one ingestion worker (README, deployment envelope); a second worker is
outside it and outside the models.

Every process holds one connection that is never in autocommit: the first statement
opens a transaction, `with conn.transaction()` inside it is only a savepoint, and
locks are held until the code commits or the process ends. Model servers are called
one request at a time, and every answer is a proposal that code checks. A caller may
pass a callback that hears each phase of an ingestion, retry or audit, from inside
that operation's own thread.

### What is hard about it, and what makes it correct

* *Resumption.* A build restarts on a row that an earlier attempt left half
  written, of possibly older text. Correct: what serves holds exactly what its
  source yields, and every embedding is of the text beside it.
* *Replacement.* A build must not be seen before it is whole, nor take what
  serves out of service when it fails. Correct: one version answers, and a
  document that answers keeps answering until it is removed.
* *Partial enrichment.* Candidates whose facts a model failed to extract are owed
  and retried, with cuts anywhere. Correct: a version called ready owes nothing,
  counts never overstate.
* *Reading while it changes.* Correct: stored answer, citations, trace and crop
  grades agree with each other; what is cited was located and, for a chart, seen.
* *Two passes, bounded prompts, shared sources.* Correct: context is never shown
  without all it describes, nor over the bound, nor decides in the first pass.
* *Endings.* Exceptions, kills, reconciliation and delivery errors arrive in any
  order. Correct: an outcome that was stored stands, and work always ends.
* *Untrusted answers.* A model may fail, answer nothing, answer nonsense, or answer
  about something else. Correct: whatever is not verified is refused, nothing is
  concluded from silence, and each vector goes to its own text.
* *Generated text.* The Markdown of a page repeats, rebuilds and may invent what the
  page says. Correct: it is indexed only where it maps onto what was printed, does not
  compete with it in the direct ranking, and is nobody's neighbour.
* *Ranks.* Correct: searches that agree outrank one that is enthusiastic, and a figure
  is not read without its row.
* *Listeners.* A callback runs in the middle of a build, between two commits, and may
  raise. Correct: the work does not notice, and what was heard is how the call ended.
* *Open transactions.* A call that returns without a commit keeps its locks; a reset is
  two commits with a gap. Correct: a removal waits for nothing but a call that returned
  holding the row, and a database is whole or empty.
* *Arithmetic.* Halves, signs, units and defaults decide between supported and
  contradicted. Correct: only like quantities are compared, the unit a report
  prints does not matter, and the explanation tells the verdict's story.

`PROJECT.json` lists every such hazard at its line of the source, with the
properties that would show it going wrong, or the reason why none does yet.

## 2. The modules

| module | what it is |
|---|---|
| `ServingIndex` | the abstract specification of the index: what it promises to a query |
| `Ingest` | the worker, the version rows, retry, removal, restarts |
| `IngestProofs` | the inductive invariant of `Ingest`, what follows from it, and that `Ingest` implements `ServingIndex` |
| `Lists` | the sorts and filters of the program's lists, used by `PageUnits` and `Retrieval` |
| `PageUnits` | the evidence units of one page, and the mapping of its Markdown |
| `PageUnitsProofs` | that what is indexed was printed, names no column and stands in reading order, for every page |
| `Retrieval` | the searches, fusion and expansion of one retrieval |
| `RetrievalProofs` | that passes stand apart, agreement outranks and values bring their rows, for every index |
| `Audit` | one audit over an index that changes |
| `AuditProofs` | the inductive invariant of `Audit` and what follows from it |
| `ModelAnswers` | what is asked of a model server and made of its answer |
| `ModelAnswersProofs` | that grounding, refusals, batches and crops are right for every request and reply |
| `Comparison` | the arithmetic verdict on one claim and one fact |
| `ComparisonProofs` | what holds of it for every claim and fact, hedged and restated figures included |
| `Progress` | the events of an operation and the callback that hears them |
| `ProgressProofs` | that a callback changes nothing and hears the truth, in rising percentages, for courses of any length |
| `Sessions` | the transactions of the three processes, and the development reset |
| `SessionsProofs` | what holds of the reset for every set of documents |
| `MCIngest`, `MCPageUnits`, `MCRetrieval`, `MCAudit`, `MCModelAnswers`, `MCComparison`, `MCProgress`, `MCSessions` | the constants of the small instances |

The modules stand beside each other as the code does. `Ingest` and `Audit` are the two
long operations; each takes the parts below it as a choice among their outcomes, and
the module of the part says which outcomes those are and why: a page of `Ingest` is
what `PageUnits` stores, a ranking of `Audit` one of those `Retrieval` can produce, a
crop's status or an embedding what `ModelAnswers` returns, the outcome of a comparison
what `Comparison` decides. `Progress` and `Sessions` look at the same operations from
outside: what a listener hears of them, and which locks they leave behind.

Nothing in these modules is RECURSIVE. `Lists` states a sort by what is ahead of what,
each element's place being how many are ahead of it, and not with an operator that takes
an operator: the provers cannot instantiate those. Constants have named assumptions, which TLC
evaluates in each run and the proofs cite.

### ServingIndex

One variable: the builds that answer each document. A complete build of another
version takes over in one step; one owed candidate is extracted; the grade is
brought in line with what is owed; the document is withdrawn. Evidence that serves
is never rewritten, and no other step exists.

### Ingest

A version row is `<<document, fingerprint, attempt>>`. Per row: `status`, and per
page the text of its unit (`unit`), the text its embedding was computed from
(`vector`), both "none", "stale" (an older reading) or "current"; `leftover`, the
rows of pages and units the source no longer yields; `tableFacts`, `facts`,
`failures` and the two counts. A page stands for its units: `_ingest` writes the
units of a page in the transaction of that page. One action is one committed
transaction:

| action | code |
|---|---|
| `StartVersion(v, force)` | `upsert_document`, `start_version`: the choice of an attempt to create, resume or reopen |
| `IndexPage`, `DeleteStalePages` | the page loop, its last commit |
| `EmbedBatch` | one round of `_embed_pending` |
| `DeleteFacts`, `StoreTableFacts`, `ExtractCandidate`, `SetFactCoverage` | `_build_facts` and what it calls |
| `Verify`, `ActivateVersion`, `Report` | `_verify`, `activate_version`, the report, which may still raise |
| `RetryFailedFacts`, `RetryCandidate`, `SettleRetry` | `retry_failed_facts` |
| `WorkRaises`, `WorkFindsNoRow` | the exception handlers; a statement that finds its row removed |
| `Kill`, `ReconcileInterrupted`, `StartCli` | the process dies; the frontend or the command line starts |
| `RemoveDocument` | `remove_document`, between any two commits |

The choice of `start_version`, "the attempt that serves, else a resumable one, else
a new one", is the heart of the module and is modelled in full, its `ON CONFLICT`
clause included. `Seeds` are rows an earlier process left: half a build, or one of
older text with units the source has since lost.

### PageUnits

`page_units` from the blocks, tables, images and Markdown of one page to the list it
stores. A text is a sequence of glyphs, a box its vertical extent. `ReadBlocks`,
`ReadTables` and `ReadImages` build the units that can be cited: `TopOf` is
`normalize_bbox`, `RowUnit` and `ValueUnit` are the two kinds of table unit with the
fallbacks of their regions. Missing, unusable and inadmissible boxes, rows and images are
dropped, skipped or fatal as in the code: a cell without a box gives no region, and one
whose box cannot be converted, if anything reads it (`CellsRead`), takes its whole table
out with a warning (`IsUsable`). A key is made as the code makes it, of the id the
extraction gives a block, table or chart, 0 standing for the `"tc"` of a table without one;
nothing says that two ids differ, so keys may come twice. `SegmentsOf` splits the Markdown, refusing the
rows above the rule of a table; `StartSegment`, `PlaceAnchor`, `EndAnchors` and
`MatchCells` are `anchor_segment` literal by literal and `row_cell_sources`. `Order` is
`_in_reading_order`.

`Glyphs`, `Texts`, `Boxes` and `IsPage` say what an extraction may hold of a page; the
runs take some pages of that kind, the proofs any.

### Retrieval

`retrieve` and `expand`, one statement a step, over an index whose version may be
replaced between any two (`Publish`). A row is its id; what it scores in each search is
given, and the order, the cut to the pool *before* `_admitted`, `Score` with its
reciprocal ranks and two bonuses, the tie-break, the cut to the limit, `neighbours` with
its order and the quarter score of what is pulled in are computed. Scores are whole
numbers, fractions of `Scale`; an assumption makes every division exact. The vector
search may miss rows and orders equal distances as it likes.

### Audit

A row of evidence is `<<version, unit>>`; the units of a version are one page. The
index is what `ServingIndex` allows: `Publish`, `Enrich`, `RemoveDocument`. An audit
sees of a document which version serves it, and what its rows say, so that the promise
of one version, replaced in one step, is in the type of `serving`. The
audit's own steps follow `audit_claim` statement by statement, in program order:

    idle -> resolved -> search (3 channels) -> fuse -> expand -> locate
         -> compare -> visual (one crop at a time) -> prompt -> asked
         -> [insufficient: a second pass over mapped Markdown:
             search -> fuse -> groups -> locate -> ... -> asked]
         -> persist -> finish -> deliver -> ended

`AuditRaises` is any exception on the way (`fail_audit`), `CandidateIsGone` the
foreign key that refuses the trace of a removed document, `Kill` and
`ReconcileInterrupted` the end and the restart of the process. Locks matter in one
place: crop grades are inserted in a transaction that stays open across model
calls, and `RemoveDocument` waits for it. Rankings are not modelled: every ranking is
possible, so that a cut to a limit keeps any subset of the right size. What a model
answers, and how a fact compares, is any of the outcomes the code can produce.

Properties of an answer are stated where it is delivered (`pc = "deliver"`), after
both of its transactions; rows removed later are removed from the trace too.

### ModelAnswers

The four calls that reach a model server, one at a time, and every reply it can give:
none, no message, something that does not parse (asked for once more, `MayRetry`), or
something that parses.

| action | code |
|---|---|
| `ReceiveText`, `ReceiveSplit`, `ReturnDecomposition` | `decompose_claims` |
| `PlaceToken`, `RefuseClaim`, `AcceptClaim` | `ground_claim`, one token a step |
| `DecideGrounded`, `ReceiveChecks` | `verify_claims`, `verify_entailment` |
| `CropRegion`, `ReceiveFinding` | `crop_region` in whole pixels, `verify_visual`, `_grade` |
| `StartBatch`, `ReceiveVectors`, `EmbeddingFails` | `_embed_pending` and `embed` of both servers; rows may be lost, repeated, reordered, misnumbered or unusable |
| `UnusableReply` | `_structured` and its callers' handlers |

### Comparison

Claims and facts are records of qualifiers. A text is the set of its scope markers
and of its content tokens, a name is told apart by what contains it, and a Decimal
is a coefficient and an exponent, because rounding depends on the exponent a figure
was *written* with: `40` and `40.0` are different claims once hedged. `MergeClaim`
fills the gaps of the model's parse from the wording; one operator per qualifier
gives its note (`match`, `mismatch`, `missing`, and whether it blocks);
`CompareDetailed` is the whole comparison. `Parses` and `Wordings` stand for what a
model may return and what the regular expressions may read.

### Progress

A *course* is the list of the events an operation emits and of the commits between
them, read off `_ingest`, `retry_failed_facts` and `audit_claim`, with every number of
items, misses and passes up to a bound. The operation walks along it. At each event the
callback returns, raises an Exception (`Raises`: it is dropped, the work goes on) or
raises something else (`Interrupts`: a KeyboardInterrupt goes through); the work itself
may fail between any two steps, and then `ReportFailure` and `RecordFailure` follow. The
mark on the row may itself fail, and its exception is dropped (`_record_failure`,
`_record_audit_failure`): then the row stays as it is, and `refused` remembers why.

### Sessions

Three processes, each with a connection that is closed, idle, in a transaction or in a
failed one, the rows each has written without a commit (`draft`, which is also what it
has locked) and the schema changes it has not committed (`ddl`). The worker ingests, as
far as the document's row is concerned; the frontend lists, and removes a document as
`remove_document` does, by `get_document` and a DELETE in a savepoint of the transaction
that opened; the operator runs `reset_dev`; each may run `init_schema`. Any of them may
fail at a statement, break off between two or die (`Close`), which lets go of its locks.
Frontend and worker keep their clients from call to call (README, Python API); an
operator's command makes one.

## 3. The runs

### Runs that pass

| run | instance | distinct states | what it shows |
|---|---|---|---|
| `ingest_versions` | 4 version rows: two attempts at one build, another build of the document, another document; 1 page, no candidates, both kinds of restart | 230,036 | one version serves; service never stops before removal, whatever is forced, fails, is killed or reconciled |
| `ingest_content` | 1 document, 1 build, 2 attempts, 2 pages, 2 candidates, batches of 1, started empty or from each seed, under fairness | 397,725 | what serves is the source, no vector is of another text, grades and counts tell the truth, each phase has what the next needs, the worker implements `ServingIndex`, and every build and retry ends |
| `page_units` | 14 pages of blocks, tables and charts, with cell boxes that are there, missing and unusable and ids that are not, each with every short Markdown, rebuilt tables and, but for those without ids, two chunks | 77,400 | what is indexed of the Markdown was printed, header rows are not readings, everything is stored as often as it was built and down the page |
| `retrieval` | every way four rows may score in three searches, a page of more rows than fit, a pool cut deep; one version replaced by another | 62,321 | the passes do not compete but in the pool, agreement outranks position, a value brings its row |
| `audit_safety` | 1 document, 2 versions, a text, a chart, two Markdown segments (one of both, one of the chart alone), retrieval limit 2, prompt of 3, under fairness | 250,594 | the safety of one audit, and that it ends |
| `model_answers` | posts of up to 4 tokens, at most 2 claims, all checks of up to two and the threes that repeat one, 6 crops on 6 widths, 3 texts in batches of 2 from two servers | 71,253 | greedy grounding is complete, nothing unverified passes, unusable replies are refusals, vectors and crops are of the right thing |
| `comparison_arithmetic` | 4 figures in 3 units and all operators; subjects, periods, baselines, scopes, metrics, units and geographies that agree, disagree and are missing | 91,185 | the verdicts are of like quantities, explained by their own report, neutral to units, and rounded as documented |
| `progress` | ingest, reuse, retry and audit, phases of up to 2 items, one or two passes, a database that may refuse the mark of a failure | 95,711 | a callback does not change the work, and hears how it ended |
| `sessions` | 1 document, a frontend and a worker that live on and an operator of one call, under fairness | 143,380 | a reset leaves a database whole or empty; a removal waits for nothing but a call that returned with its document locked |

The properties, in the words of their modules:

* `OneQueryableVersion`, `ServiceUninterrupted`: the swap of versions.
* `QueryableIsCurrent`, `VectorsMatchText`, `ReadyOwesNothing`,
  `OwedCandidateHasNoFact`, `CoverageNotOverstated`: what a serving row holds.
* `WorkProgress`: what each phase relies on; the inductive part of the proofs.
* `ImplementsIndex`: the refinement of `ServingIndex`.
* `TraceMatchesAnswer`: two transactions, one story; in particular the last check of
  `_finish`, which would empty the citations of a stored trace, never fires.
* `CitationsLocated`, `CitationsVerified`: cited evidence had its regions read and,
  for a chart, its crop inspected and found to show a figure.
* `GroupsWhole`, `PromptBounded`: groups that share sources are placed whole or not
  at all, and count once.
* `CropsGradedOnce`: the second pass does not ask again about a crop.
* `OutcomeStands`: nothing rewrites a stored outcome.
* `WorkEnds`, `AuditEnds`: liveness. `AuditEnds` says that the audit ends, with removals in
  between; that a removal waiting for its grades then goes through is not modelled.
* `OnlyAReturnedCallHoldsARemoval`: liveness of a removal, as far as the code has it. An
  ingestion that finds nothing changed returns with the document's row locked, and a removal
  waits for that process to commit again or to end; nothing else keeps it.
* `MappedTextIsPrinted`, `HeadersAreNotReadings`, `StoredInReadingOrder`: what a page
  becomes, the first against a definition of "these units' own words and nothing else"
  that knows nothing of the algorithm, the last with units of equal keys among the rest.
* `PassesDoNotCompete`: with pools that are not full, a pass ranks as if the rows of the
  other did not exist. `AgreementOutranks`: what RRF_K is for. `RowTravelsWithItsValue`:
  expansion, also across a publication.
* `GroundingMatchesDefinition`: taking the first place each token fits, without looking
  back, decides whether the claim is a subsequence of the post, and blames the token at
  which it stops being one.
* `OnlyAssertedClaimsPass`, `UnusableRepliesFailClosed`: what may be audited, and what
  follows from no answer.
* `VectorsFindTheirTexts`, `CropShowsRegions`: order of rows, and pixels.
* `ListenerChangesNothing`, `EventsTellTheOutcome`, `PercentNeverDecreases`: a failed call
  leaves a row that looks as if it were running only where the database refused to mark it.
* `ResetIsAllOrNothing`.
* `DecidedOnLikeQuantities`, `ExplanationAgrees`: the qualifiers (of the scopes, that the
  markers of one text are among those of the other), the verdict and the explanation.
* `RescalingIsNeutral`: an exact or bounded claim has the same outcome in every unit
  the source could have been printed in.
* `HedgeIsHalfADigit`: the rounding, against its definition as an interval.
* `BoundSurvivesParse`: "at least" is not lost where the model did not notice it.

Each property of each passing run has a mutant in `PROJECT.json`: a plausible bug in
a definition, defined beside it, under which the same run finds it violated.

### Runs that find a disagreement

| run | what the code does | what is said |
|---|---|---|
| `retry_coverage` | a retry clears failures one by one and counts them once at the end; cut off in between, the next retry promotes to ready a version that never counted them (`ingest.py:1157`) | the counts make "degraded" "a measured state" (`schema.sql:65`) |
| `audit_references` | the references are resolved once, the searches read what serves when they run (`client.py:434`) | `index_references` "pins the exact ready `document_version_id`" that answered (README:347) |
| `hedged_conversion` | a claimed figure is converted before it is rounded to its own precision, and takes the exponent of the factor: about 21.3 m3 matches 21.34 m3 and conflicts with 21340 l (`facts.py:561`) | a hedge "is compared at the precision the claim was written to" (README:512) |

### Bounds, and why they are enough

* *Version rows.* The choice of an attempt and the swap compare at most three rows
  of one document: what serves, what is being built, and one of another build. Four
  rows give all three and another document, to show that it is left alone.
* *Pages, candidates, batches.* A cursor over two pages has a page before it, at it
  and after it; a batch of one makes every boundary between batches happen. Two
  candidates are one done and one owed.
* *Text.* Older readings of a unit are all alike: what matters is whether it is the
  current one.
* *Audit.* A second version is what can be published under an audit. Two segments
  that share a chart are the least for which placing groups can overlap, and the
  bound of three is one below what they would need. `Publish` goes in the order of
  version numbers, and stops once the audit has ended.
* *Comparison.* Two lengths of precision, a half, just below and just above it, figures
  of both signs and zero; a hedge, bounds and an equality. No comparison depends on
  another, so one claim and one fact are enough.
* *Pages.* Two rows under one header, two rows that agree in a value, a unit column, a
  deep header, ragged and blank rows; literals that contain each other and that share a
  glyph with Markdown. Every text of four glyphs is tried as a segment, because an
  overlap needs two literals and a seam. Two tables without an id are the least with equal
  keys: the same one twice, or one beside another. Heights are tenths of a page.
* *Retrieval.* RRF_K and the pool are both 3 where the code has both at 60 by default,
  and agreement outranks position because two shares from the end of the pool, each
  1/(K+pool), are worth at least one from its top, 1/(K+1), and the instance keeps the
  ratio at which that is decided. Four rows are two for each of two searches, and one
  more than the pool.
* *Model answers.* A greedy choice goes wrong only where a token occurs twice, which
  posts of three and four tokens have. Two claims, of which one or none is answered for,
  twice or out of range; three texts are a full batch and one cut short.
* *Progress.* Two items have a first, a last, a missed and a counted one. Found
  candidates are none or one, a second pass has at least the crops of the first.
* *Sessions.* Locks are per row and a process touches one document a call, so two
  documents only multiply what one shows.

The configurations of `Audit` and `Sessions` say CHECK_DEADLOCK FALSE: an audit that has
ended has nothing to do, and processes may stop calling, or refuse every statement after
a failed one until they are closed. All others are checked for deadlock.

### Fairness

`FairSpec` of `Ingest` and of `Audit` is weak fairness of the steps of the running
worker, or audit, and nothing else: its loops are over finite lists read beforehand,
every model call and every connection has a timeout (`config.py`), after which it
raises and the loop goes on or the handler runs. Nothing is assumed of exceptions, of
kills, of restarts, of removals or of anyone's calls: work ends although they may
happen at any moment or never. A kill ends the work in the sense of these
properties; whether someone restarts the process is not claimed.

`FairSpec` of `Sessions` is strong fairness of the steps of a call, and of the failure of
a statement that can only fail: a statement that waits for a lock stands in PostgreSQL's
queue, and is served although others take and release the lock in the meantime. Between
two calls a process is obliged to nothing: it need not call again, nor end. An ingestion
that finds nothing changed returns before any commit (`ingest.py:422`) and holds the row it
upserted, so a removal may then wait for as long as that process is idle; the property
names that state and excludes every other.

## 4. The proofs

TLC shows each property on its instance; the following hold for all documents,
fingerprints, attempts, pages, candidates, batch sizes and seeds, for all indexes and
searches, for all pages of any number of blocks, tables, charts and segments, for all
limits and facts of an audit, for all posts, replies, images and
batches, for all claims and facts, for operations of any number of items, or for all
sets of documents and guards and any choice of processes that live on. No proof uses
anything but the named assumptions on the constants, and three theorems a hypothesis of
their own, which is part of their statement: `AgreementPrevails`, `HedgesRound` and
`UnitsAreNeutral`.

Every safety proof has one form: an invariant `Inductive` that says what holds on the way
and not only where the property looks, a lemma for its start, one for each action, and a
step from it to the property.

### IngestProofs: safety of the index

`TypeCorrect` and `VectorsAreOfTheirText` are inductive as they stand: `IndexPage`
drops the vector whenever it changes the text (`upsert_evidence`), and `EmbedBatch`
computes it from what is stored. `AtMostOneServes` holds because `ActivateVersion`
retires what serves in the transaction that publishes, and `ServiceGoesOn` because
every other step that changes a status changes one that does not serve.

The main theorem is `ServesWhatTheSourceYields`: what serves is exactly the source.
It is not inductive, and neither is it a consequence of the checks in `_verify`,
which count rows and cannot tell an old text from a current one. What makes it true
is that the phases before the checks have overwritten everything the row started
with. The inductive invariant is

    Inductive == QueryableIsCurrent /\ WorkProgress /\ ReadyOwesNothing

over `TypeOK` and `VectorsMatchText`. `WorkProgress` says, phase by phase, what has
been brought up to date: the pages before the cursor, then all pages, then all
vectors but those still to come, then the facts. There is one lemma per action.
`PhasesHold` and `ReadyIsComplete` are its other conjuncts. TLC checks all of
them in `ingest_content` too.

`OwedLeavesNoFact` and `CoverageIsHonest` rest on a second invariant, `Coverage`. A count
is compared with a set that several commits change, so it says what the count is *about
to* be: in a build, what has succeeded and what is still to come or owed are together at
most the total (`BuildAddsUp`); in a retry, what the row says, what was done since and
what is still owed are (`RetryAddsUp`). That is why a retry cut off before `SettleRetry`
may understate the coverage (the run `retry_coverage`) but never overstate it. A build
without narrative candidates owes nothing (`NarrativeOnly`).

### IngestProofs: the index keeps its promise

`Refinement` proves `Spec => ImplementsIndex`. The mapping takes a document to the
builds of its queryable versions. The initial rows serve nothing; `ActivateVersion`
is `Publish`, complete by `Inductive`; a retried candidate is `Enrich`, the last step
of a retry `Promote`, a removal `Withdraw`; and every other step, all of a build
included, is a stutter: it only writes to rows that do not serve, or, in a retry,
nothing the mapping shows.

### ComparisonProofs: verdict and explanation

`TypeCorrect`: whatever the model returned and the wording says, the merged claim is
well formed and a rounding comes with its hedge (the validator of `ParsedClaim` does
not run on `model_copy`, so this rests on `merge_claim`). `LikeQuantities` and
`ExplanationsAgree` rest on one lemma about the notes, that what blocks does not
match and a mismatch blocks, and on one about the first blocker. `BoundsSurvive` follows
from what `merge_claim` does with an operator (`MergedComparison`), and from the
invariant that the claim compared is the one merged.

`HedgesRound` shows that rounding half up, taken with `quantize` at the claim's last
digit, is the interval of half a digit around the claimed figure: `Coarser` when the fact
has fewer digits, where both sides are counted at the claim's and nothing is rounded,
`Finer` when it has more, where a quotient lies between two bounds (`QuotientIs`) and the
signs and a claimed zero are separate cases. The claim's figure comes from one of the two
parses (`ClaimIsStated`). Its hypothesis `FiguresNear` is that the last digits of a claim
and a fact are at most 11 places apart: that a power of ten is positive is an induction,
and 10^11 is as far as the solver computes it. A report in thousands of millions against
a claim to the cent stays within it.

`UnitsAreNeutral` is about claims that are not hedged: restating a fact in another unit
of the same quantity multiplies its figure, and what the claim converts to, by the same
number. Decimals have exponents, so the proof counts all four figures in one power of ten,
`Ground`, under the last digits of both: `Like` says that of two figures so counted one is
n m-ths of the other. Converting the claim (`ClaimRescaled`), restating the fact
(`FactRescaled`), taking the sign (`LikeSigned`) and every operator of `values_agree`
(`LikeApply`) respect it, and what is reported of the qualifiers is unchanged
(`SameReport`). The quotient by a factor of a unit is exact because the factors are 1, 100
and 1000 (`QuotientExact`); one that divides no power of ten would have to be rounded. The
hypothesis, `FiguresClose`, is that the last digits are at most 8 places apart: three more
come from the units, and make the 11. It rests on `NoneAssumption`, that a missing value
is neither a number nor a unit.

`TypeCorrect` is proved and not run: its statement is about sets TLC cannot enumerate.

### RetrievalProofs: ranks

`OrderedSorts` shows that what `Lists` states is a sort: the places are a bijection
onto the first numbers, by counting. `OnlyOfList` does the same for `Only`, which keeps
the rows of a list that a set allows.

    Inductive == Searched /\ Expanded

`Searched` says that no row was found of a version that does not answer yet and that
what is ranked is what the pass admits; `Listed`, that the candidates kept come first,
nothing comes twice, and those before the cursor have their rows.

* `MarkdownTakesNoPlace`: a score is made of places in a list of admitted rows, so two
  indexes with the same admitted rows give the same scores. With a full pool that list
  would depend on the rows that were cut; the property says so.
* `AgreementPrevails` needs `Pool <= RRFK + 1`, as the defaults of 60 and 60 are: two
  shares from the last place of the pool, 2/(K+pool), are more than one from the first,
  1/(K+1), exactly then. With a pool one larger they tie, and one that is larger still
  lets one enthusiastic search win.
* `RowsTravelWhole`: a row that is expanded still answers when its neighbours are read,
  or has none; its table row, if it fits, comes first among them (`NeighboursHoldRow`).

### PageUnitsProofs: what is indexed of a page

    IInv == Typed /\ Built /\ Numbered /\ Taken
            /\ \A u \in Mapped : Traced(SegmentOf(u), u.sources)
            /\ StoredInReadingOrder

The properties look at mapped units and at what is stored; the invariant says what makes
them so. `Built`: until the first segment, the units are the page's own, in the order the
artifacts are read. `Numbered`: what was generated names a segment that there is.
`Taken`: while a segment is anchored, the spans taken are places where its text prints a
literal that exactly one key owns, and no two meet. A unit once mapped is not touched
again, hence `Traced` for each.

* `IndexedMarkdownIsPrinted`. A literal is placed only where it is `Free`, so spans stay
  apart; one with two owners ends the anchoring and is never taken. Where the residue is
  syntax, the spans are the decomposition that `WrittenBy` asks for, and the keys sorted
  by their spans, without repetition, come in the order of their first ones
  (`CoveredIsTraced`); the property lets any decomposition witness it, the proof gives the
  one the code found. By cells, `RowIsTraced`.
* `HeadersAreNotOffered`. A segment of a table is a line that `Asserts` something: where
  its run of lines has a rule, the line stands below one. `SegmentList` shows that segments
  come from nowhere else, however many chunks are put one after the other.
* `StoredInOrder`. `Order` is a sort, so a bijection: what is stored holds each unit as
  often as it was built, several units of one key included. Two units of equal height keep
  the order of the artifacts because the place breaks ties. Tops lie on the page (`TopOnPage`,
  for any box, upside down or off it) and Markdown is put beneath it. A source of a
  mapped unit can be cited, so it stands before it.

Most of the lemmas are about lists: what `At`, `FlattenSeq`, `Joined` and `Distinct` hold
and in which order. `FlattenSeq` of the community modules is a recursive function; that
it is defined, and that what it joins has an element for each place and no other, is shown
by the least number at which it would fail (`JoinsExists`, `Flattened`).

### AuditProofs: what an answer rests on

    Inductive == TypeParts /\ Lifecycle /\ LoopRows /\ CandidatesLocated /\ CitedRows
                 /\ GradedPresent /\ Stored /\ PromptHolds /\ PromptBounded

The properties look at an answer where it is delivered; the invariant follows it there.
`CandidatesLocated`: while an answer is sought, whatever is still there had its regions
read, since a row that was removed before `regions_for` saw it does not come back.
`CitedRows`: a conclusion cites candidates, and charts only when verified, from where it
is drawn to where it is stored or, by a second pass, drawn again. `GradedPresent`: a grade
in the open transaction keeps its row from being removed, the lock that `RemoveDocument`
waits for. From these, `RecordCandidates` stores what `FinishAudit` cites (`Stored`), and
removals between the two take the same rows from both; hence `AnswersMatch`, `Located`,
`ChartsVerified`. `PromptHolds` and `PromptBounded` are the loop invariant of placing
groups: with `LoopRows` they say that a group is placed with all its sources or not at
all, and that sources already placed are not counted again; hence `ContextWhole`,
`PromptFits`. `CropsOnce` and `OutcomesStand` are about steps: `LoopRows` says that the
crops still to be graded have no grade, `Lifecycle` that what has ended has no audit
running. The proofs count passages and so assume finitely many versions and units, as a
database has.

### ModelAnswersProofs: what is made of an answer

* `GreedyIsEnough`. The invariant says that the tokens placed so far are placed as early
  as *any* placement could (`Earliest`); so where the next token does not fit, none fits,
  and the token is the first at which the claim stops being a subsequence. The definition
  it is compared with does not look for places at all. Both "first place" and "first
  token" are least elements of a set of numbers; they exist by the well-foundedness of <,
  which the library states without an operator.
* `PassedIsAsserted`: all claims are grounded before the question of entailment is put,
  and every answer to it names a claim of this batch; as many as there are claims, without
  repetition, answer for all (by cardinality).
* `SilenceFailsClosed`: `Replied` says what has come of the requests at each point; a
  second one follows only on a reply that could not be read.
* `VectorsOwnTheirTexts`: whatever order the rows come in, the one stored for a text is
  the one numbered or positioned as its own; as many distinct numbers in range as texts
  leave none out (by cardinality). `Batched` says that all batches but the last are full.
* `CropsHoldRegions`: rounding the cut outwards by the padding loses no pixel, for every
  width, provided the padding comes to a pixel.

The assumption on the constants says only that lists are lists, and boxes are ordered and
lie on the page; `Proposals` names what a server may send.

### ProgressProofs: what a listener hears

Courses are concatenations of phases of any number of steps. `IngestCourse`,
`AuditCourse` and the rest are shown to have one shape (`CourseShape`): `Completed` comes
last and once, and there is a commit after which only events follow, or none is needed.
The inductive invariant walks along it: `Walking` (where the operation is), `Standing`
(the row follows the commits passed), `Reported` (the last event heard has the current
phase, none has failed while the operation goes on, and completion was heard only at the
end). Two exceptions are part of `ListenerChangesNothing` itself: an interrupt raised by
the callback, and a mark that the database refuses (`refused`), after which the row stays
as it was and looks as if it were running.

`PercentRisesToTheEnd` is proved on the course and carried over to what is heard. A part
of a course `Climbs` if its percentages rise from one start of a phase to the next and
each stands after a start in that part; parts that do can be put one after the other
(`Joined`), because a phase that is met again begins again. One pass does not: decided by
arithmetic, it ends `verifying_visuals` without a start (`DecidedClimbs`), which is
harmless only because nothing before it measures that phase. `Following` then says that
each event heard stands in the course, with every later start heard too.

### SessionsProofs: the reset

`ResetsWhole` proves `ResetIsAllOrNothing`. The property speaks of the moment a reset has
answered; the invariant says what holds on the way there:

    Inductive == CallTypes /\ HoldTypes /\ ResetInvariant

`CallTypes` gives each process its own steps, so that a worker is never in the middle of
a drop. `ResetInvariant` says that what a reset found and is still there has a row
(`doomed \subseteq document`), that an empty schema has no rows, and that a reset which
has reached `init_schema` with something left has its drop in an open transaction:
the marker query then finds no table, rolls the drop back, and the emptiness test
refuses the database that reappears. Hence a reset answers well only with nothing left.
There is one lemma per action; the property does not depend on fairness.

### What only TLC checks

* Liveness (`WorkEnds`, `AuditEnds`, `OnlyAReturnedCallHoldsARemoval`): outside this prover.
* The three properties that are violated, each by a trace of its run.

Figures further apart than `HedgesRound` and `UnitsAreNeutral` suppose are in no theorem,
nor in the instances, whose figures are at most two places apart.

Where the proofs above needed an induction over data, they use that a set of numbers
which is not empty has a least element, or count.

## 5. What is not modelled

* The text of anything: tokenization, regular expressions, wording, logging, layout,
  prompts. Where text decides, the model has the outcomes it may have: `Wordings`,
  tokens, glyphs, and what a row scores in a search.
* Table and candidate facts (`facts.py`): what a regular expression finds in a cell is
  an input of `Comparison`, a set of candidates in `Ingest`.
* Files: finding, validating and fingerprinting an extraction, and files that change
  under the worker (`ingest.py:391`). Another program writes them.
* `InvalidOperation` of `quantize`, for figures beyond 28 digits.
* Two workers at once, which the documentation excludes (`src/README.md`, supported
  envelope); under READ COMMITTED two activations of one document would miss each
  other's row (`db.py:405`).
* `health`, `model_identity` and the composition of requests in `model_client.py`; the
  remaining queries of `frontend.py`; entities, aliases and counts in `db.py`: they
  change no state, or none that another part reads.
* Configuration, command line and record types.

Met while modelling, and not the subject of a run. In the index:

* ingesting an earlier build again finds no queryable and no resumable attempt, falls
  back to attempt 1 and reopens the inactive row, which it rewrites (`db.py:362`);
  "a `ready` or `inactive` one is left exactly as it is" (README:665);
* a retried candidate's facts are attributed to the document's name (`ingest.py:1089`);
  the reporting entity is what every fact is attributed to, "not the document's
  filename" (`client.py:166`);
* with a header depth of zero in a table's grid, `or 1` reads its first row as a header
  (`source.py:488`);
* tables without a candidate id all key their rows and values with "tc"
  (`source.py:473`); `literal_anchors` counts keys, so a literal that rows of two such
  tables print is placed as if one row did, where "a literal two or more citable units
  share identifies neither of them" (`source.py:844`), and the upsert keeps one row under
  that key (`db.py:606`). The run `page_units` has such pages, and what it claims holds
  of them too;
* `_MARKDOWN_SYNTAX` takes `-` and `.` for layout (`source.py:758`), so that "-40.2" maps
  onto a unit that prints "40.2", and two literals side by side may read as a third.

In an audit:

* the second pass returns before groups are placed when nothing is usable, and a group's
  reason is never recorded (`audit.py:768`); "each of those outcomes is named in the
  trace" (README:460);
* an adjudicator that answers insufficient keeps the evidence it names (`audit.py:872`);
  "an insufficient verdict cites nothing" (`schema.sql:220`);
* a second pass that is judged starts `verifying_visuals` again at 0 % after 100 %
  (`audit.py:1036`); "percent is phase-local and never decreases within a phase"
  (README:718); `PercentNeverDecreases` claims it from one start of the phase to the next;
* `_states_value` finds 40.2 inside 140.2; of two checks of one claim the later counts
  (`decompose.py:324`);
* fusion breaks ties by position in the document so that "the order of two equally-scored
  candidates" does not depend on ingestion history (`retrieve.py:119`), but the searches
  it fuses break theirs by id, or not at all;
* the pool is cut in SQL before the pass is asked, so that Markdown may crowd rows out of
  it (`retrieve.py:229`): the condition of `PassesDoNotCompete`.

In comparison:

* where the wording hedges, `merge_claim` replaces a bound that the model did state
  by a rounding (`facts.py:373`);
* `merge_claim` fills value and unit independently, and may pair the value of one
  figure with the unit of another (`facts.py:351`);
* a bound is decided on magnitudes, so that an increase satisfies a claimed
  decrease, and by the fact's direction where the claim has none, while the
  docstring says the signed values are compared (`facts.py:619`).

Around it:

* `emit` "never raises" (`progress.py:136`), but lets a KeyboardInterrupt of the callback
  through; on the event of a failure it skips the handler that marks the row, which
  then looks as if it were running until it is reconciled; so does a row whose mark failed;
* a retry that raises emits no failed event;
* `reset_dev` on a connection that is already in a transaction drops inside it, has the
  drop rolled back by `schema_marker` and reports a mismatch; nothing is lost; the marker
  of a running application is looked at once, before the drop;
* after a failed statement a connection refuses every further one until something rolls
  back, and most of the facade does not.

## 6. Plan

Done: `ServingIndex`, `Ingest`, `Audit`, `Comparison`, `ModelAnswers`, `PageUnits`,
`Retrieval`, `Progress` and `Sessions`, their runs, a theorem for each safety property of
a passing run, and the refinement of `ServingIndex` by `Ingest`.

What would come next:

1. The readings of `facts.py` and `normalize.py` (numbers, units and periods out of
   text), which are inputs of `Comparison` now: a grammar over a small alphabet.
2. `HedgesRound` and `UnitsAreNeutral` for figures any number of places apart. The lemma
   on powers of ten is an induction on the exponent, which this prover has to be given
   instance by instance.
3. Two workers under READ COMMITTED, if the program should ever allow them
   (`db.py:405`).
