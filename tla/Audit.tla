-------------------------------- MODULE Audit --------------------------------
(***************************************************************************)
(* One claim audit, reading the index while the index changes.             *)
(*                                                                         *)
(* An audit is a long series of statements under READ COMMITTED, each with *)
(* a snapshot of its own, and of model calls in between: it resolves the   *)
(* corpus, opens its row, searches three channels, expands, compares facts,*)
(* inspects crops, asks the adjudicator, and, if that came to nothing,     *)
(* does it again over what generated Markdown maps to.  Then it records    *)
(* the candidates and, in another transaction, the answer.  Meanwhile      *)
(* versions are published, facts are added and documents are removed.      *)
(* What the index may do is what ServingIndex allows.                      *)
(*                                                                         *)
(* Data: an evidence row is <<version, unit>>; the units of a version are  *)
(* one page.  Every ranking is possible, so that a cut to a limit keeps an *)
(* arbitrary subset of the right size.                                     *)
(***************************************************************************)
EXTENDS Naturals, FiniteSets

CONSTANTS
  Docs,         \* the documents
  Version,      \* bound: the version rows <<document, n>> there may be
  Direct,       \* narrative and table units of a page
  Visual,       \* its chart units
  Markdown,     \* its mapped segments of generated Markdown
  Sources,      \* the units each segment was made from
  FactSeeds,    \* what the facts of a published build may say of the claim
  Limit,        \* candidates kept by a retrieval
  MaxPassages,  \* MAX_PASSAGES
  NoVersion

Citable == Direct \union Visual
Rows == Version \X (Citable \union Markdown)
DocOf(v) == v[1]
VersionOf(r) == r[1]
UnitOf(r) == r[2]
KindRows(kinds) == {r \in Rows : UnitOf(r) \in kinds}

\* How one fact compares with the claim (compare_detailed); "scope" is an
\* incomparable fact that only its scope rejects.
Outcomes == {"match", "conflict", "scope"}

ASSUME ConstantsAssumption ==
  /\ Version \subseteq Docs \X (Nat \ {0})
  /\ IsFiniteSet(Version) /\ IsFiniteSet(Citable \union Markdown)
  /\ Direct \intersect Visual = {} /\ Citable \intersect Markdown = {}
  /\ Sources \in [Markdown -> SUBSET Citable \ {{}}]
  /\ FactSeeds \subseteq [Direct -> SUBSET Outcomes]
  /\ Limit \in Nat \ {0} /\ MaxPassages \in Nat \ {0}
  /\ NoVersion \notin Version

VARIABLES
  \* the index
  serving,     \* the queryable version of each document
  removed,     \* documents deleted with all their rows
  facts,       \* what the facts on each direct row say of the claim
  \* the rows of the audit
  status,      \* audit_run.status; "none" where there is no row
  trace,       \* audit_candidate
  selected,    \* those with selected = true
  crops,       \* visual_verification, committed
  answer,      \* audit_run.verdict and citations
  \* the audit itself
  pc,
  scope,       \* the documents searched
  references,  \* index_references
  embedded,    \* did the claim get an embedding
  pass,        \* 1: direct evidence; 2: mapped context
  channels,    \* searches left in this retrieval
  pool,        \* rows the channels returned
  candidates,
  todo,        \* rows the current loop has left
  located,     \* rows whose regions were read
  graded,      \* visual_status: a crop that shows a figure, claimed or not, is verified
  ambiguous,   \* scope_ambiguous
  groups,      \* resolved Markdown groups
  disposition, \* group_reasons
  prompt,      \* ids in the prompt
  verdict, cited, decidedBy

index    == <<serving, removed, facts>>
record   == <<status, trace, selected, crops, answer>>
reading  == <<scope, references, embedded, pass, channels, pool, candidates, located>>
judging  == <<graded, ambiguous, groups, disposition, prompt, verdict, cited, decidedBy>>
vars     == <<index, record, pc, todo, reading, judging>>

Grades  == {"verified", "rejected"}
Verdicts == {"supported", "contradicted", "mixed", "insufficient"}
Final   == {"completed", "failed", "interrupted"}
Active  == {"resolved", "search", "fuse", "expand", "locate", "compare", "visual",
            "prompt", "asked", "groups", "persist", "finish", "deliver"}
Dispositions == {"none", "used", "missing_source", "visual_crop", "passage_cap", "decided"}

TypeOK ==
  /\ serving \in [Docs -> Version \union {NoVersion}]
  /\ removed \subseteq Docs
  /\ facts \in [KindRows(Direct) -> SUBSET Outcomes]
  /\ status \in Final \union {"none", "running"}
  /\ trace \subseteq Rows /\ selected \subseteq trace /\ crops \subseteq KindRows(Visual)
  /\ answer \in [verdict : Verdicts \union {"none"}, citations : SUBSET Rows]
  /\ pc \in Active \union {"idle", "ended", "down"}
  /\ scope \subseteq Docs /\ references \subseteq Version
  /\ embedded \in BOOLEAN /\ pass \in {1, 2} /\ channels \in 0..3
  /\ pool \subseteq Rows /\ candidates \subseteq Rows /\ todo \subseteq Rows
  /\ located \subseteq Rows
  /\ graded \in [KindRows(Visual) -> Grades \union {"unknown", "unavailable"}]
  /\ ambiguous \in BOOLEAN
  /\ groups \subseteq KindRows(Markdown)
  /\ disposition \in [KindRows(Markdown) -> Dispositions]
  /\ prompt \subseteq KindRows(Citable)
  /\ verdict \in Verdicts \union {"none"} /\ cited \subseteq KindRows(Citable)
  /\ decidedBy \in {"nobody", "comparison", "adjudicator"}

-----------------------------------------------------------------------------
(* The index, as much of ServingIndex as an audit can tell apart.           *)

Present(r) == DocOf(VersionOf(r)) \notin removed
Queryable(r) == Present(r) /\ serving[DocOf(VersionOf(r))] = VersionOf(r)

Unseen == [r \in KindRows(Visual) |-> "unknown"]
Unresolved == [m \in KindRows(Markdown) |-> "none"]

Init ==
  /\ serving = [d \in Docs |-> NoVersion] /\ removed = {}
  /\ facts = [r \in KindRows(Direct) |-> {}]
  /\ status = "none" /\ trace = {} /\ selected = {} /\ crops = {}
  /\ answer = [verdict |-> "none", citations |-> {}]
  /\ pc = "idle" /\ scope = {} /\ references = {} /\ embedded = FALSE /\ pass = 1
  /\ channels = 0 /\ pool = {} /\ candidates = {} /\ todo = {} /\ located = {}
  /\ graded = Unseen /\ ambiguous = FALSE /\ groups = {} /\ disposition = Unresolved
  /\ prompt = {} /\ verdict = "none" /\ cited = {} /\ decidedBy = "nobody"

\* The audit's locals end with it.
Ends(where) ==
  /\ pc' = where /\ scope' = {} /\ references' = {} /\ embedded' = FALSE /\ pass' = 1
  /\ channels' = 0 /\ pool' = {} /\ candidates' = {} /\ todo' = {} /\ located' = {}
  /\ graded' = Unseen /\ ambiguous' = FALSE /\ groups' = {} /\ disposition' = Unresolved
  /\ prompt' = {} /\ verdict' = "none" /\ cited' = {} /\ decidedBy' = "nobody"

\* A build of another version takes over, with its own facts.  Bounds: versions are
\* published in the order of their numbers, and not once the audit has ended.
Publish(v) ==
  /\ pc # "ended"
  /\ DocOf(v) \notin removed
  /\ serving[DocOf(v)] # NoVersion => serving[DocOf(v)][2] < v[2]
  /\ serving' = [serving EXCEPT ![DocOf(v)] = v]
  /\ \E seed \in FactSeeds :
       facts' = [r \in KindRows(Direct) |->
                   IF VersionOf(r) = v THEN seed[UnitOf(r)] ELSE facts[r]]
  /\ UNCHANGED <<removed, record, pc, todo, reading, judging>>

\* A retry of a failed candidate adds facts to the version that serves.
Enrich(r) ==
  /\ pc # "ended" /\ Queryable(r) /\ facts[r] = {}
  /\ \E outcome \in Outcomes : facts' = [facts EXCEPT ![r] = {outcome}]
  /\ UNCHANGED <<serving, removed, record, pc, todo, reading, judging>>

\* The rows a verification inserted in the open transaction refers to: the foreign
\* key holds a lock on them until the audit commits or rolls back.
Uncommitted ==
  IF pc \in Active \ {"finish", "deliver"} THEN {r \in KindRows(Visual) : graded[r] \in Grades}
  ELSE {}

\* delete_document waits for those locks; the audit's rows about it go with it.
RemoveDocument(d) ==
  /\ serving[d] # NoVersion /\ d \notin removed
  /\ \A r \in Uncommitted : DocOf(VersionOf(r)) # d
  /\ removed' = removed \union {d}
  /\ serving' = [serving EXCEPT ![d] = NoVersion]
  /\ trace' = {r \in trace : DocOf(VersionOf(r)) # d}
  /\ selected' = {r \in selected : DocOf(VersionOf(r)) # d}
  /\ crops' = {r \in crops : DocOf(VersionOf(r)) # d}
  /\ facts' = [r \in KindRows(Direct) |-> IF DocOf(VersionOf(r)) = d THEN {} ELSE facts[r]]
  /\ UNCHANGED <<status, answer, pc, todo, reading, judging>>

-----------------------------------------------------------------------------
(* Opening the audit.                                                       *)

\* _resolve_scope: every document there is, or a selection that must be ready.
ResolveScope(selection) ==
  /\ pc = "idle"
  /\ LET ready == {d \in selection : serving[d] # NoVersion}
     IN  /\ ready # {}
         /\ selection = Docs \/ ready = selection
         /\ references' = {serving[d] : d \in ready}
  /\ scope' = selection
  /\ pc' = "resolved"
  /\ UNCHANGED <<index, record, todo, embedded, pass, channels, pool, candidates, located,
                 judging>>

\* create_audit, after the claim is parsed; then the embedding, which may be
\* unavailable and takes its channel with it.
CreateAudit ==
  /\ pc = "resolved"
  /\ status' = "running"
  /\ embedded' \in BOOLEAN
  /\ channels' = IF embedded' THEN 3 ELSE 2
  /\ pc' = "search"
  /\ UNCHANGED <<index, trace, selected, crops, answer, todo, scope, references, pass, pool,
                 candidates, located, judging>>

-----------------------------------------------------------------------------
(* Retrieval, for both passes.                                              *)

Admitted(kinds) ==
  {r \in KindRows(kinds) : Queryable(r) /\ DocOf(VersionOf(r)) \in scope}

\* One channel: some of the rows that are queryable at this statement.
Search ==
  /\ pc = "search"
  /\ \E found \in SUBSET Admitted(IF pass = 1 THEN Citable ELSE Markdown) :
       pool' = pool \union found
  /\ channels' = channels - 1
  /\ pc' = IF channels = 1 THEN "fuse" ELSE "search"
  /\ UNCHANGED <<index, record, todo, scope, references, embedded, pass, candidates, located,
                 judging>>

\* n of S, or all of S if it has fewer.
Best(S, n) ==
  {T \in SUBSET S : IF Cardinality(S) <= n THEN T = S ELSE Cardinality(T) = n}

\* The fused candidates.  The direct ones are expanded next; a Markdown segment
\* is not, its groups are resolved.
Fuse ==
  /\ pc = "fuse"
  /\ \E kept \in Best(pool, Limit) :
       /\ candidates' = candidates \union kept
       /\ todo' = kept
  /\ pool' = {}
  /\ pc' = IF pass = 1 THEN "expand" ELSE "groups"
  /\ UNCHANGED <<index, record, scope, references, embedded, pass, channels, located, judging>>

\* The other citable rows of a candidate's page, if its version still serves.
Neighbours(r) == {q \in KindRows(Citable) \ {r} : Queryable(q) /\ VersionOf(q) = VersionOf(r)}

Expand ==
  /\ pc = "expand"
  /\ IF todo = {}
       THEN pc' = "locate" /\ UNCHANGED <<todo, candidates>>
       ELSE \E r \in todo :
              /\ candidates' = candidates \union Neighbours(r)
              /\ todo' = todo \ {r}
              /\ pc' = pc
  /\ UNCHANGED <<index, record, scope, references, embedded, pass, channels, pool, located,
                 judging>>

\* The regions of every candidate whose row is still there.
Locate ==
  /\ pc = "locate"
  /\ located' = {r \in candidates : Present(r)}
  /\ pc' = "compare"
  /\ UNCHANGED <<index, record, todo, scope, references, embedded, pass, channels, pool,
                 candidates, judging>>

-----------------------------------------------------------------------------
(* The verdict.                                                             *)

\* One vote per place in a document: rows of two versions can be the same place.
Place(r) == <<DocOf(VersionOf(r)), UnitOf(r)>>
CollapseDuplicates(S) ==
  {T \in SUBSET S : /\ \A q, r \in T : Place(q) = Place(r) => q = r
                    /\ {Place(r) : r \in T} = {Place(r) : r \in S}}

\* The rows whose facts compare with the claim in some way.
With(outcome) == {r \in candidates \intersect KindRows(Direct) : outcome \in facts[r]}

\* Arithmetic decides, if anything is comparable.
Deterministic(v, citations) ==
  \E matches \in CollapseDuplicates(With("match")),
     conflicts \in CollapseDuplicates(With("conflict")) :
    \/ /\ matches # {} /\ conflicts # {} /\ v = "mixed"
       /\ \E m \in Best(matches, 2), c \in Best(conflicts, 2) : citations = m \union c
    \/ matches # {} /\ conflicts = {} /\ v = "supported" /\ citations \in Best(matches, 3)
    \/ matches = {} /\ conflicts # {} /\ v = "contradicted" /\ citations \in Best(conflicts, 3)

\* A verdict is reached; only an insufficient one of the direct pass goes on to
\* the Markdown.
Conclude(v, citations, by) ==
  /\ verdict' = v /\ cited' = citations /\ decidedBy' = by
  /\ IF pass = 1 /\ v = "insufficient"
       THEN /\ pass' = 2 /\ channels' = IF embedded THEN 3 ELSE 2
            /\ pc' = "search"
       ELSE pc' = "persist" /\ UNCHANGED <<pass, channels>>
  /\ embedded' = FALSE

Compare ==
  /\ pc = "compare"
  /\ \/ /\ \E v \in Verdicts, citations \in SUBSET KindRows(Direct) :
             Deterministic(v, citations) /\ Conclude(v, citations, "comparison")
        /\ disposition' = [m \in KindRows(Markdown) |->
                             IF m \in groups THEN "decided" ELSE disposition[m]]
        /\ UNCHANGED <<todo, ambiguous>>
     \/ /\ With("match") = {} /\ With("conflict") = {}
        /\ ambiguous' = (With("scope") # {})
        /\ todo' = {r \in candidates \intersect KindRows(Visual) : graded[r] = "unknown"}
        /\ pc' = "visual"
        /\ UNCHANGED <<verdict, cited, decidedBy, embedded, pass, channels, disposition>>
  /\ UNCHANGED <<index, record, scope, references, pool, candidates, located,
                 graded, groups, prompt>>

-----------------------------------------------------------------------------
(* Crops and the adjudicator.                                               *)

\* Mutants: a crop is inspected again in the second pass; one that is not there
\* is asked for again.
CheckVisualAgain ==
  /\ pc = "visual"
  /\ \E r \in todo \union {q \in candidates \intersect KindRows(Visual) :
                             pass = 2 /\ graded[q] # "unavailable"} :
       /\ \/ Present(r) /\ \E g \in Grades : graded' = [graded EXCEPT ![r] = g]
          \/ graded' = [graded EXCEPT ![r] = "unavailable"]
       /\ todo' = todo \ {r}
  /\ UNCHANGED <<index, record, pc, reading, ambiguous, groups, disposition, prompt, verdict,
                 cited, decidedBy>>
CheckVisualUntilThere ==
  /\ pc = "visual"
  /\ \E r \in todo :
       \/ /\ Present(r) /\ \E g \in Grades : graded' = [graded EXCEPT ![r] = g]
          /\ todo' = todo \ {r}
       \/ graded' = [graded EXCEPT ![r] = "unavailable"] /\ todo' = todo
  /\ UNCHANGED <<index, record, pc, reading, ambiguous, groups, disposition, prompt, verdict,
                 cited, decidedBy>>

\* One chart not looked at before.  Its grade is inserted, not yet committed;
\* the row must still be there.  There may be no page image to crop.
CheckVisual ==
  /\ pc = "visual"
  /\ \E r \in todo :
       /\ \/ Present(r) /\ \E g \in Grades : graded' = [graded EXCEPT ![r] = g]
          \/ graded' = [graded EXCEPT ![r] = "unavailable"]
       /\ todo' = todo \ {r}
  /\ UNCHANGED <<index, record, pc, reading, ambiguous, groups, disposition, prompt, verdict,
                 cited, decidedBy>>

\* Mutant: a chart whose page image is gone is used unchecked.
UsableUnlessRejected ==
  (candidates \intersect KindRows(Direct)) \union
  {r \in candidates \intersect KindRows(Visual) :
     graded[r] \in {"verified", "unavailable"}}

\* What the adjudicator may be shown: direct rows and crops that show a figure,
\* the claimed one or another.
Usable ==
  (candidates \intersect KindRows(Direct)) \union
  {r \in candidates \intersect KindRows(Visual) : graded[r] = "verified"}

\* All crops are graded.  Nothing usable is a verdict without a model call.
StartAdjudication ==
  /\ pc = "visual" /\ todo = {}
  /\ IF Usable = {}
       THEN Conclude("insufficient", {}, "adjudicator") /\ ambiguous' = FALSE /\ todo' = todo
       ELSE /\ pc' = "prompt" /\ todo' = groups
            /\ UNCHANGED <<embedded, pass, channels, ambiguous, verdict, cited, decidedBy>>
  /\ UNCHANGED <<index, record, scope, references, pool, candidates, located,
                 graded, groups, disposition, prompt>>

SourceRows(m) == {r \in Rows : VersionOf(r) = VersionOf(m) /\ UnitOf(r) \in Sources[UnitOf(m)]}
Used == {m \in groups : disposition[m] = "used"}

\* Mutants: a group is trimmed to what is usable; its own block is not counted.
PlaceGroupTrimmed ==
  /\ pc = "prompt"
  /\ \E m \in todo :
       LET sources == SourceRows(m) \intersect Usable
           blocks == Cardinality(prompt \union sources) + Cardinality(Used) + 1
       IN  /\ IF blocks > MaxPassages
                THEN disposition' = [disposition EXCEPT ![m] = "passage_cap"] /\ prompt' = prompt
                ELSE disposition' = [disposition EXCEPT ![m] = "used"]
                     /\ prompt' = prompt \union sources
           /\ todo' = todo \ {m}
  /\ UNCHANGED <<index, record, pc, reading, graded, ambiguous, groups, verdict, cited,
                 decidedBy>>
PlaceGroupUncounted ==
  /\ pc = "prompt"
  /\ \E m \in todo :
       /\ IF ~(SourceRows(m) \subseteq Usable)
            THEN disposition' = [disposition EXCEPT ![m] = "visual_crop"] /\ prompt' = prompt
          ELSE IF Cardinality(prompt \union SourceRows(m)) > MaxPassages
            THEN disposition' = [disposition EXCEPT ![m] = "passage_cap"] /\ prompt' = prompt
          ELSE disposition' = [disposition EXCEPT ![m] = "used"]
               /\ prompt' = prompt \union SourceRows(m)
       /\ todo' = todo \ {m}
  /\ UNCHANGED <<index, record, pc, reading, graded, ambiguous, groups, verdict, cited,
                 decidedBy>>

\* One group, whole or not at all: its context block and the sources not yet in.
PlaceGroup ==
  /\ pc = "prompt"
  /\ \E m \in todo :
       LET blocks == Cardinality(prompt \union SourceRows(m)) + Cardinality(Used) + 1
       IN  /\ \/ /\ ~(SourceRows(m) \subseteq Usable)
                 /\ disposition' = [disposition EXCEPT ![m] = "visual_crop"]
                 /\ prompt' = prompt
              \/ /\ SourceRows(m) \subseteq Usable /\ blocks > MaxPassages
                 /\ disposition' = [disposition EXCEPT ![m] = "passage_cap"]
                 /\ prompt' = prompt
              \/ /\ SourceRows(m) \subseteq Usable /\ blocks <= MaxPassages
                 /\ disposition' = [disposition EXCEPT ![m] = "used"]
                 /\ prompt' = prompt \union SourceRows(m)
           /\ todo' = todo \ {m}
  /\ UNCHANGED <<index, record, pc, reading, graded, ambiguous, groups, verdict, cited,
                 decidedBy>>

\* The prompt is filled up with single passages.
FillPrompt ==
  /\ pc = "prompt" /\ todo = {}
  /\ \E more \in Best(Usable \ prompt, MaxPassages - Cardinality(prompt) - Cardinality(Used)) :
       prompt' = prompt \union more
  /\ pc' = "asked"
  /\ UNCHANGED <<index, record, todo, reading, graded, ambiguous, groups, disposition,
                 verdict, cited, decidedBy>>

\* The model answers with a verdict and the ids it rests on; ids that are not in
\* the prompt are dropped.  Without any, or against evidence of another scope,
\* the verdict is not believed.
Adjudicate ==
  /\ pc = "asked"
  /\ \E v \in Verdicts, ids \in SUBSET prompt :
       \/ /\ ambiguous /\ v = "contradicted"
          /\ Conclude("insufficient", {}, "adjudicator")
       \/ /\ ~(ambiguous /\ v = "contradicted") /\ v # "insufficient" /\ ids = {}
          /\ Conclude("insufficient", {}, "adjudicator")
       \/ /\ ~(ambiguous /\ v = "contradicted") /\ (v = "insufficient" \/ ids # {})
          /\ Conclude(v, ids, "adjudicator")
  /\ prompt' = {} /\ ambiguous' = FALSE
  /\ UNCHANGED <<index, record, todo, scope, references, pool, candidates, located,
                 graded, groups, disposition>>

-----------------------------------------------------------------------------
(* The second pass, over what generated Markdown maps to.                   *)

\* One segment: its keys are looked up among the citable rows of its version, if
\* that version is still queryable.
ResolveGroup ==
  /\ pc = "groups"
  /\ \E m \in todo :
       /\ IF Queryable(m)
            THEN groups' = groups \union {m} /\ disposition' = disposition
            ELSE disposition' = [disposition EXCEPT ![m] = "missing_source"] /\ groups' = groups
       /\ todo' = todo \ {m}
  /\ UNCHANGED <<index, record, pc, reading, graded, ambiguous, prompt, verdict, cited,
                 decidedBy>>

\* Their sources join the candidates and everything is compared again; without
\* any group the first answer stands.
AddMappedSources ==
  /\ pc = "groups" /\ todo = {}
  /\ candidates' = candidates \union UNION {SourceRows(m) : m \in groups}
  /\ pc' = IF groups = {} THEN "persist" ELSE "locate"
  /\ located' = IF groups = {} THEN located ELSE {}
  /\ UNCHANGED <<index, record, todo, scope, references, embedded, pass, channels, pool,
                 judging>>

-----------------------------------------------------------------------------
(* Recording the outcome.                                                   *)

\* Mutant: candidates that are gone are skipped.
RecordThoseLeft ==
  /\ pc = "persist"
  /\ trace' = {r \in candidates : Present(r)}
  /\ selected' = {r \in cited : Present(r)}
  /\ crops' = {r \in KindRows(Visual) : graded[r] \in Grades /\ Present(r)}
  /\ pc' = "finish"
  /\ UNCHANGED <<index, status, answer, todo, reading, judging>>

\* record_candidates.  Its commit is also that of the crops' grades.
RecordCandidates ==
  /\ pc = "persist"
  /\ \A r \in candidates : Present(r)
  /\ trace' = candidates
  /\ selected' = candidates \intersect cited
  /\ crops' = {r \in KindRows(Visual) : graded[r] \in Grades}
  /\ pc' = "finish"
  /\ UNCHANGED <<index, status, answer, todo, reading, judging>>

\* Mutant: a verified crop keeps the quality of its region.
QualityOfRegion(r) == IF UnitOf(r) \in Direct THEN "direct" ELSE "coarse"

\* The quality a citation is given on the way to the answer.
Quality(r) ==
  IF UnitOf(r) \in Direct THEN "direct"
  ELSE IF decidedBy = "adjudicator" THEN "verified" ELSE "coarse"

\* _finish, with its last check: support needs a direct or a verified citation.
FinishAudit ==
  /\ pc = "finish"
  /\ LET backed == \E r \in cited : Quality(r) \in {"direct", "verified"}
     IN  answer' = IF verdict = "supported" /\ ~backed
                     THEN [verdict |-> "insufficient", citations |-> {}]
                     ELSE [verdict |-> verdict, citations |-> cited]
  /\ status' = "completed"
  /\ pc' = "deliver"
  /\ UNCHANGED <<index, trace, selected, crops, todo, reading, judging>>

Deliver ==
  /\ pc = "deliver"
  /\ Ends("ended")
  /\ UNCHANGED <<index, record>>

-----------------------------------------------------------------------------
(* Failure.                                                                 *)

\* Mutant: whatever the audit's row says, it becomes failed.
FailAnyAudit == status' = IF status = "none" THEN status ELSE "failed"

\* _record_audit_failure: roll back, then fail_audit, which only a running audit obeys.
FailAudit == status' = IF status = "running" THEN "failed" ELSE status

\* Anything raises, the adjudicator's ModelError and a Ctrl-C included, also after
\* the answer is stored.  Recording the failure may fail as well.
AuditRaises ==
  /\ pc \in Active
  /\ FailAudit \/ UNCHANGED status
  /\ Ends("ended")
  /\ UNCHANGED <<index, trace, selected, crops, answer>>

\* A candidate's row is gone when the candidates are recorded.
CandidateIsGone ==
  /\ pc = "persist" /\ \E r \in candidates : ~Present(r)
  /\ FailAudit
  /\ Ends("ended")
  /\ UNCHANGED <<index, trace, selected, crops, answer>>

\* The process dies, and the next one reconciles.
Kill ==
  /\ pc \in Active
  /\ Ends("down")
  /\ UNCHANGED <<index, record>>

ReconcileInterrupted ==
  /\ pc = "down"
  /\ Ends("ended")
  /\ status' = IF status = "running" THEN "interrupted" ELSE status
  /\ UNCHANGED <<index, trace, selected, crops, answer>>

-----------------------------------------------------------------------------
AuditStep ==
  \/ CreateAudit \/ Search \/ Fuse \/ Expand \/ Locate \/ Compare
  \/ CheckVisual \/ StartAdjudication \/ PlaceGroup \/ FillPrompt \/ Adjudicate
  \/ ResolveGroup \/ AddMappedSources
  \/ RecordCandidates \/ CandidateIsGone \/ FinishAudit \/ Deliver

Next ==
  \/ \E v \in Version : Publish(v)
  \/ \E r \in KindRows(Direct) : Enrich(r)
  \/ \E d \in Docs : RemoveDocument(d)
  \/ \E selection \in SUBSET Docs : ResolveScope(selection)
  \/ AuditStep
  \/ AuditRaises \/ Kill \/ ReconcileInterrupted

Spec == Init /\ [][Next]_vars

\* An audit takes its next step: its loops are finite and every model call and
\* connection has a timeout.
FairSpec == Spec /\ WF_vars(AuditStep)

-----------------------------------------------------------------------------
(* Properties.                                                              *)

\* The stored answer and the stored trace tell the same story, although they are
\* two transactions with removals in between: the selected candidates are the
\* citations, and the stored crop grades those the decision used.  In particular
\* the check in _finish that would empty the citations never fires.
TraceMatchesAnswer ==
  pc = "deliver" =>
    /\ selected = {r \in answer.citations : Present(r)}
    /\ crops = {r \in KindRows(Visual) : graded[r] \in Grades /\ Present(r)}

\* Whatever was removed or replaced under the audit, each citation of a stored
\* answer still had its regions when they were read (regions_for runs after
\* retrieval; record_candidates is what refuses an audit that lost a row).
CitationsLocated ==
  pc = "deliver" => answer.citations \subseteq located

\* No chart is cited on the strength of its caption: its crop was inspected and
\* showed a figure, whichever pass inspected it (_verify_visuals).
CitationsVerified ==
  pc = "deliver" =>
    \A r \in answer.citations : UnitOf(r) \in Visual => graded[r] = "verified"

\* Context never appears beside a subset of what it describes, or beside a chart
\* that was not verified (_passages).
GroupsWhole ==
  pc \in {"prompt", "asked"} =>
    \A m \in Used : SourceRows(m) \subseteq prompt /\ SourceRows(m) \subseteq Usable

\* The prompt never exceeds MAX_PASSAGES blocks, context included, whatever the
\* order groups that share sources are placed in.
PromptBounded == Cardinality(prompt) + Cardinality(Used) <= MaxPassages

\* One crop, one grade in one audit: the second pass does not ask again.
CropsGradedOnce ==
  [][pc' \in Active =>
       \A r \in KindRows(Visual) : graded[r] # "unknown" => graded'[r] = graded[r]]_vars

\* An outcome stands: an exception after the answer is stored, a crash and the
\* reconciliation after it do not turn it into another one.
OutcomeStands ==
  [][(status \in Final) => status' = status /\ answer' = answer]_vars

\* Every audit ends, whatever is removed or replaced under it.
AuditEnds == pc \in Active ~> pc \notin Active

-----------------------------------------------------------------------------
(* What the documentation says, and the code does not do.                   *)

\* README: index_references "pins the exact ready `document_version_id` ... that
\* answered the audit".
CitationsReferenced ==
  pc = "deliver" => \A r \in answer.citations : VersionOf(r) \in references

=============================================================================
