----------------------------- MODULE AuditProofs -----------------------------
(***************************************************************************)
(* Proofs about Audit, for any documents, versions and units, any limits   *)
(* and any facts.                                                          *)
(***************************************************************************)
EXTENDS Audit, FiniteSetTheorems, TLAPS

(* The type invariant in four parts.                                       *)

IndexTypes ==
  /\ serving \in [Docs -> Version \union {NoVersion}]
  /\ removed \subseteq Docs
  /\ facts \in [KindRows(Direct) -> SUBSET Outcomes]

RecordTypes ==
  /\ status \in Final \union {"none", "running"}
  /\ trace \subseteq Rows /\ selected \subseteq trace /\ crops \subseteq KindRows(Visual)
  /\ answer \in [verdict : Verdicts \union {"none"}, citations : SUBSET Rows]

ReadingTypes ==
  /\ pc \in Active \union {"idle", "ended", "down"}
  /\ scope \subseteq Docs /\ references \subseteq Version
  /\ embedded \in BOOLEAN /\ pass \in {1, 2} /\ channels \in 0..3
  /\ pool \subseteq Rows /\ candidates \subseteq Rows /\ todo \subseteq Rows
  /\ located \subseteq Rows

JudgingTypes ==
  /\ graded \in [KindRows(Visual) -> Grades \union {"unknown", "unavailable"}]
  /\ ambiguous \in BOOLEAN
  /\ groups \subseteq KindRows(Markdown)
  /\ disposition \in [KindRows(Markdown) -> Dispositions]
  /\ prompt \subseteq KindRows(Citable)
  /\ verdict \in Verdicts \union {"none"} /\ cited \subseteq KindRows(Citable)
  /\ decidedBy \in {"nobody", "comparison", "adjudicator"}

(* What an audit knows at each point of its way.                           *)

\* Between audits there is nothing, and there is no row before it is created.
Lifecycle ==
  /\ pc \in {"idle", "resolved", "ended", "down"} =>
       /\ pass = 1 /\ pool = {} /\ candidates = {} /\ groups = {} /\ prompt = {}
       /\ cited = {} /\ verdict = "none" /\ graded = Unseen /\ disposition = Unresolved
  /\ pc \in {"idle", "resolved"} => status = "none"
  /\ pc \in Active \ {"resolved", "deliver"} => status = "running"
  /\ pc = "deliver" => status = "completed"

\* Each loop is over rows of the kind it handles, and the direct pass has no groups.
LoopRows ==
  /\ pc = "search" => channels # 0
  /\ pc \notin {"search", "fuse"} => pool = {}
  /\ pass = 2 => pool \subseteq KindRows(Markdown)
  /\ pass = 1 => groups = {}
  /\ pc = "groups" => pass = 2 /\ todo \subseteq KindRows(Markdown)
  /\ pc = "visual" => todo \subseteq {r \in KindRows(Visual) : graded[r] = "unknown"}
  /\ pc = "prompt" => todo \subseteq {m \in groups : disposition[m] # "used"}

\* While an answer is sought, whatever is still there had its regions read.
CandidatesLocated ==
  pc \in {"compare", "visual", "prompt", "asked"} =>
    \A r \in candidates : Present(r) => r \in located

\* What a conclusion rests on, from where it is drawn until it is stored or drawn
\* again: rows that were candidates and, while they were there, located; charts whose
\* crop was verified; and for support at least one that _finish accepts.
Concluded == pc \in {"search", "fuse", "expand", "groups", "persist", "finish", "deliver"}
Backed ==
  verdict = "supported" =>
    cited # {} /\ (decidedBy = "adjudicator" \/ cited \subseteq KindRows(Direct))
CitedRows ==
  Concluded =>
    /\ cited \subseteq candidates
    /\ \A r \in cited : Present(r) => r \in located
    /\ \A r \in cited : r \in KindRows(Visual) => graded[r] = "verified"
    /\ Backed

\* A grade not yet committed keeps its row from being removed.
GradedPresent ==
  pc \in Active \ {"finish", "deliver"} =>
    \A r \in KindRows(Visual) : graded[r] \in Grades => Present(r)

\* What is stored, as removals leave it.
Stored ==
  /\ pc \in {"finish", "deliver"} =>
       /\ selected = {r \in cited : Present(r)}
       /\ crops = {r \in KindRows(Visual) : graded[r] \in Grades /\ Present(r)}
       /\ cited \subseteq located
  /\ pc = "deliver" => answer.citations = cited

\* The prompt is of usable rows, and holds the sources of every group that is used.
PromptHolds ==
  /\ pc \notin {"prompt", "asked"} => prompt = {}
  /\ pc \in {"prompt", "asked"} =>
       prompt \subseteq Usable /\ \A m \in Used : SourceRows(m) \subseteq prompt
  /\ \A m \in KindRows(Markdown) : disposition[m] = "used" =>
       m \in groups /\ pc \in {"prompt", "asked", "persist", "finish", "deliver"}

TypeParts == IndexTypes /\ RecordTypes /\ ReadingTypes /\ JudgingTypes

Inductive ==
  /\ TypeParts /\ Lifecycle /\ LoopRows /\ CandidatesLocated /\ CitedRows
  /\ GradedPresent /\ Stored /\ PromptHolds /\ PromptBounded

-----------------------------------------------------------------------------
(* Rows by kind, and how many there are.                                   *)

LEMMA Kinds ==
  /\ \A kinds : KindRows(kinds) \subseteq Rows
  /\ KindRows(Citable) = KindRows(Direct) \union KindRows(Visual)
  /\ KindRows(Direct) \intersect KindRows(Visual) = {}
  BY ConstantsAssumption DEF KindRows, Citable

\* The sources of a segment are rows that can be cited.
LEMMA SourcesCitable ==
  ASSUME NEW m \in KindRows(Markdown)
  PROVE  SourceRows(m) \subseteq KindRows(Citable)
<1>1. UnitOf(m) \in Markdown
  BY DEF KindRows
<1>2. Sources[UnitOf(m)] \subseteq Citable
  BY <1>1, ConstantsAssumption
<1> QED
  BY <1>2 DEF SourceRows, KindRows

LEMMA RowsFinite ==
  ASSUME NEW S \in SUBSET Rows
  PROVE  IsFiniteSet(S) /\ Cardinality(S) \in Nat
<1>1. IsFiniteSet(Rows)
  BY ConstantsAssumption, FS_Product DEF Rows
<1> QED
  BY <1>1, FS_Subset, FS_CardinalityType

LEMMA BestBounded ==
  ASSUME NEW S \in SUBSET Rows, NEW n \in Nat, NEW T \in Best(S, n)
  PROVE  T \subseteq S /\ Cardinality(T) <= n /\ (n # 0 /\ S # {} => T # {})
<1>1. T \subseteq S /\ (IF Cardinality(S) <= n THEN T = S ELSE Cardinality(T) = n)
  BY DEF Best
<1>2. Cardinality({}) = 0 /\ Cardinality(S) \in Nat
  BY FS_EmptySet, RowsFinite
<1> QED
  BY <1>1, <1>2

\* A verdict by arithmetic cites direct candidates, and support cites something.
LEMMA DeterministicCites ==
  ASSUME candidates \subseteq Rows, NEW v, NEW citations, Deterministic(v, citations)
  PROVE  /\ citations \subseteq candidates \intersect KindRows(Direct)
         /\ v = "supported" => citations # {}
         /\ v \in {"mixed", "supported", "contradicted"}
<1>1. PICK matches \in CollapseDuplicates(With("match")),
           conflicts \in CollapseDuplicates(With("conflict")) :
        \/ /\ matches # {} /\ conflicts # {} /\ v = "mixed"
           /\ \E m \in Best(matches, 2), c \in Best(conflicts, 2) : citations = m \union c
        \/ matches # {} /\ conflicts = {} /\ v = "supported" /\ citations \in Best(matches, 3)
        \/ matches = {} /\ conflicts # {} /\ v = "contradicted" /\ citations \in Best(conflicts, 3)
  BY DEF Deterministic
<1>2. /\ matches \subseteq candidates \intersect KindRows(Direct) /\ matches \in SUBSET Rows
      /\ conflicts \subseteq candidates \intersect KindRows(Direct) /\ conflicts \in SUBSET Rows
  BY DEF CollapseDuplicates, With
<1>3. \A T : /\ T \in Best(matches, 2) \/ T \in Best(matches, 3) => T \subseteq matches
             /\ T \in Best(conflicts, 2) \/ T \in Best(conflicts, 3) => T \subseteq conflicts
             /\ T \in Best(matches, 3) /\ matches # {} => T # {}
  BY <1>2, BestBounded
<1> QED
  BY <1>1, <1>2, <1>3

\* What reaching a verdict does, in either pass.
LEMMA Concludes ==
  ASSUME TypeParts, NEW v \in Verdicts, NEW citations \in SUBSET KindRows(Citable), NEW by,
         Conclude(v, citations, by)
  PROVE  /\ verdict' = v /\ cited' = citations /\ decidedBy' = by /\ embedded' = FALSE
         /\ pass' \in {1, 2} /\ channels' \in 0..3 /\ pc' \in {"search", "persist"}
         /\ pc' = "search" => pass = 1 /\ pass' = 2 /\ channels' \in {2, 3} /\ v = "insufficient"
         /\ pc' = "persist" => pass' = pass
  BY DEF Conclude, TypeParts, ReadingTypes

LEMMA InitInductive == Init => Inductive
<1> SUFFICES ASSUME Init PROVE Inductive
  OBVIOUS
<1>1. TypeParts
  <2>1. IndexTypes /\ RecordTypes
    BY DEF Init, IndexTypes, RecordTypes
  <2>2. ReadingTypes
    <3>1. pc \in Active \union {"idle", "ended", "down"} /\ pass \in {1, 2} /\ channels \in 0..3
      BY DEF Init
    <3> QED
      BY <3>1 DEF Init, ReadingTypes
  <2>3. JudgingTypes
    BY DEF Init, JudgingTypes, Unseen, Unresolved, Dispositions
  <2> QED
    BY <2>1, <2>2, <2>3 DEF TypeParts
<1>2. Lifecycle /\ LoopRows /\ CandidatesLocated /\ CitedRows
  BY DEF Init, Lifecycle, LoopRows, CandidatesLocated, CitedRows, Concluded, Active
<1>3. GradedPresent /\ Stored
  BY DEF Init, GradedPresent, Stored, Active
<1>4. Used = {} /\ PromptHolds
  BY DEF Init, PromptHolds, Used, Unresolved
<1>5. PromptBounded
  BY <1>4, FS_EmptySet, ConstantsAssumption DEF Init, PromptBounded
<1> QED
  BY <1>1, <1>2, <1>3, <1>4, <1>5 DEF Inductive

-----------------------------------------------------------------------------
(* One lemma for each action.                                              *)

LEMMA PublishInductive ==
  ASSUME Inductive, NEW v \in Version, Publish(v)
  PROVE  Inductive'
<1>1. RecordTypes' /\ ReadingTypes' /\ JudgingTypes'
  BY DEF Inductive, TypeParts, Publish, DocOf, RecordTypes, Final, ReadingTypes, Active,
         JudgingTypes, index, record, reading, judging
<1>2. IndexTypes'
  <2>1. DocOf(v) \in Docs
    BY ConstantsAssumption DEF DocOf
  <2>2. serving' \in [Docs -> Version \union {NoVersion}] /\ removed' \subseteq Docs
    BY <2>1 DEF Inductive, TypeParts, IndexTypes, Publish
  <2>3. PICK seed \in FactSeeds :
          facts' = [r \in KindRows(Direct) |->
                      IF VersionOf(r) = v THEN seed[UnitOf(r)] ELSE facts[r]]
    BY DEF Publish
  <2>4. \A r \in KindRows(Direct) : seed[UnitOf(r)] \in SUBSET Outcomes /\ facts[r] \in SUBSET Outcomes
    BY ConstantsAssumption DEF KindRows, Inductive, TypeParts, IndexTypes
  <2>5. facts' \in [KindRows(Direct) -> SUBSET Outcomes]
    BY <2>3, <2>4
  <2> QED
    BY <2>2, <2>5 DEF IndexTypes
<1>3. Lifecycle' /\ LoopRows'
  BY DEF Inductive, TypeParts, Publish, DocOf, Lifecycle, Active, LoopRows, ReadingTypes,
         JudgingTypes, index, record, reading, judging
<1>4. CandidatesLocated' /\ CitedRows'
  BY DEF Inductive, TypeParts, Publish, DocOf, CandidatesLocated, Present, CitedRows,
         Concluded, Backed, index, record, reading, judging
<1>5. GradedPresent' /\ Stored'
  BY DEF Inductive, TypeParts, Publish, DocOf, GradedPresent, Present, Active, Stored,
         index, record, reading, judging
<1>6. PromptHolds' /\ PromptBounded'
  BY DEF Inductive, TypeParts, Publish, DocOf, PromptHolds, Usable, Used, SourceRows,
         JudgingTypes, PromptBounded, index, record, reading, judging
<1> QED
  BY <1>1, <1>2, <1>3, <1>4, <1>5, <1>6 DEF Inductive, TypeParts

LEMMA EnrichInductive ==
  ASSUME Inductive, NEW r \in KindRows(Direct), Enrich(r)
  PROVE  Inductive'
<1>1. IndexTypes' /\ RecordTypes' /\ ReadingTypes' /\ JudgingTypes'
  BY DEF Inductive, TypeParts, Enrich, IndexTypes, RecordTypes, Final, ReadingTypes,
         Active, JudgingTypes, index, record, reading, judging
<1>2. Lifecycle' /\ LoopRows'
  BY DEF Inductive, TypeParts, Enrich, Lifecycle, Active, LoopRows, ReadingTypes,
         JudgingTypes, index, record, reading, judging
<1>3. CandidatesLocated' /\ CitedRows'
  BY DEF Inductive, TypeParts, Enrich, CandidatesLocated, Present, CitedRows, Concluded,
         Backed, index, record, reading, judging
<1>4. GradedPresent' /\ Stored'
  BY DEF Inductive, TypeParts, Enrich, GradedPresent, Present, Active, Stored, index,
         record, reading, judging
<1>5. PromptHolds' /\ PromptBounded'
  BY DEF Inductive, TypeParts, Enrich, PromptHolds, Usable, Used, SourceRows,
         JudgingTypes, PromptBounded, index, record, reading, judging
<1> QED
  BY <1>1, <1>2, <1>3, <1>4, <1>5 DEF Inductive, TypeParts

LEMMA RemoveDocumentInductive ==
  ASSUME Inductive, NEW d \in Docs, RemoveDocument(d)
  PROVE  Inductive'
<1>1. IndexTypes' /\ RecordTypes' /\ ReadingTypes' /\ JudgingTypes'
  BY DEF Inductive, TypeParts, RemoveDocument, IndexTypes, RecordTypes, Final,
         ReadingTypes, Active, JudgingTypes, index, record, reading, judging
<1>2. Lifecycle' /\ LoopRows'
  BY DEF Inductive, TypeParts, RemoveDocument, Lifecycle, Active, LoopRows, ReadingTypes,
         JudgingTypes, index, record, reading, judging
<1>3. CandidatesLocated' /\ CitedRows'
  BY DEF Inductive, TypeParts, RemoveDocument, CandidatesLocated, Present, CitedRows,
         Concluded, Backed, index, record, reading, judging
<1>4. Stored'
  BY DEF Inductive, TypeParts, RemoveDocument, Stored, Present, index, record, reading,
         judging
<1>5. GradedPresent'
  <2> SUFFICES ASSUME pc \in Active \ {"finish", "deliver"}, NEW r \in KindRows(Visual), graded[r] \in Grades
               PROVE  Present(r)'
    BY DEF GradedPresent, RemoveDocument, judging
  <2>1. r \in Uncommitted /\ Present(r)
    BY DEF Uncommitted, Inductive, GradedPresent
  <2> QED
    BY <2>1 DEF RemoveDocument, Present
<1>6. PromptHolds' /\ PromptBounded'
  BY DEF Inductive, TypeParts, RemoveDocument, PromptHolds, Usable, Used, SourceRows,
         JudgingTypes, PromptBounded, index, record, reading, judging
<1> QED
  BY <1>1, <1>2, <1>3, <1>4, <1>5, <1>6 DEF Inductive, TypeParts

LEMMA ResolveScopeInductive ==
  ASSUME Inductive, NEW selection \in SUBSET Docs, ResolveScope(selection)
  PROVE  Inductive'
<1>1. IndexTypes' /\ RecordTypes' /\ ReadingTypes' /\ JudgingTypes'
  BY DEF Inductive, TypeParts, ResolveScope, IndexTypes, RecordTypes, Final,
         ReadingTypes, Active, JudgingTypes, index, record, reading, judging
<1>2. Lifecycle' /\ LoopRows'
  BY DEF Inductive, TypeParts, ResolveScope, Lifecycle, Active, LoopRows, ReadingTypes,
         JudgingTypes, index, record, reading, judging
<1>3. CandidatesLocated' /\ CitedRows'
  BY DEF Inductive, TypeParts, ResolveScope, CandidatesLocated, Present, CitedRows,
         Concluded, Backed, index, record, reading, judging
<1>4. Stored'
  BY DEF Inductive, TypeParts, ResolveScope, Stored, Present, index, record, reading,
         judging
<1>5. GradedPresent'
  BY DEF Inductive, TypeParts, ResolveScope, GradedPresent, Present, Active, index, record, reading, judging, Lifecycle, Unseen, Grades
<1>6. PromptHolds' /\ PromptBounded'
  BY DEF Inductive, TypeParts, ResolveScope, PromptHolds, Usable, Used, SourceRows,
         JudgingTypes, PromptBounded, index, record, reading, judging
<1> QED
  BY <1>1, <1>2, <1>3, <1>4, <1>5, <1>6 DEF Inductive, TypeParts

LEMMA CreateAuditInductive ==
  ASSUME Inductive, CreateAudit
  PROVE  Inductive'
<1>1. IndexTypes' /\ RecordTypes' /\ ReadingTypes' /\ JudgingTypes'
  BY DEF Inductive, TypeParts, CreateAudit, IndexTypes, RecordTypes, Final, ReadingTypes,
         Active, JudgingTypes, index, record, reading, judging
<1>2. Lifecycle' /\ LoopRows'
  BY DEF Inductive, TypeParts, CreateAudit, Lifecycle, Active, LoopRows, ReadingTypes,
         JudgingTypes, index, record, reading, judging
<1>3. CandidatesLocated'
  BY DEF Inductive, TypeParts, CreateAudit, CandidatesLocated, Present, index, record,
         reading, judging
<1>4. CitedRows'
  BY DEF Inductive, TypeParts, CreateAudit, CitedRows, Concluded, Backed, Present, index, record, reading, judging, Lifecycle
<1>5. GradedPresent' /\ Stored'
  BY DEF Inductive, TypeParts, CreateAudit, GradedPresent, Present, Active, Stored,
         index, record, reading, judging
<1>6. PromptHolds' /\ PromptBounded'
  BY DEF Inductive, TypeParts, CreateAudit, PromptHolds, Usable, Used, SourceRows,
         JudgingTypes, PromptBounded, index, record, reading, judging
<1> QED
  BY <1>1, <1>2, <1>3, <1>4, <1>5, <1>6 DEF Inductive, TypeParts

LEMMA SearchInductive ==
  ASSUME Inductive, Search
  PROVE  Inductive'
<1>1. IndexTypes' /\ RecordTypes' /\ JudgingTypes'
  BY DEF Inductive, TypeParts, Search, Admitted, IndexTypes, RecordTypes, Final,
         JudgingTypes, index, record, reading, judging
<1>2. ReadingTypes'
  BY Kinds DEF Inductive, TypeParts, Search, Admitted, ReadingTypes, Active, index, record, reading, judging, LoopRows
<1>3. Lifecycle' /\ LoopRows'
  BY DEF Inductive, TypeParts, Search, Admitted, Lifecycle, Active, LoopRows,
         ReadingTypes, JudgingTypes, index, record, reading, judging
<1>4. CandidatesLocated' /\ CitedRows'
  BY DEF Inductive, TypeParts, Search, Admitted, CandidatesLocated, Present, CitedRows,
         Concluded, Backed, index, record, reading, judging
<1>5. GradedPresent' /\ Stored'
  BY DEF Inductive, TypeParts, Search, Admitted, GradedPresent, Present, Active, Stored,
         index, record, reading, judging
<1>6. PromptHolds' /\ PromptBounded'
  BY DEF Inductive, TypeParts, Search, Admitted, PromptHolds, Usable, Used, SourceRows,
         JudgingTypes, PromptBounded, index, record, reading, judging
<1> QED
  BY <1>1, <1>2, <1>3, <1>4, <1>5, <1>6 DEF Inductive, TypeParts

LEMMA FuseInductive ==
  ASSUME Inductive, Fuse
  PROVE  Inductive'
<1>1. IndexTypes' /\ RecordTypes' /\ ReadingTypes' /\ JudgingTypes'
  BY DEF Inductive, TypeParts, Fuse, Best, IndexTypes, RecordTypes, Final, ReadingTypes,
         Active, JudgingTypes, index, record, reading, judging
<1>2. Lifecycle' /\ LoopRows'
  BY DEF Inductive, TypeParts, Fuse, Best, Lifecycle, Active, LoopRows, ReadingTypes,
         JudgingTypes, index, record, reading, judging
<1>3. CandidatesLocated' /\ CitedRows'
  BY DEF Inductive, TypeParts, Fuse, Best, CandidatesLocated, Present, CitedRows,
         Concluded, Backed, index, record, reading, judging
<1>4. GradedPresent' /\ Stored'
  BY DEF Inductive, TypeParts, Fuse, Best, GradedPresent, Present, Active, Stored, index,
         record, reading, judging
<1>5. PromptHolds' /\ PromptBounded'
  BY DEF Inductive, TypeParts, Fuse, Best, PromptHolds, Usable, Used, SourceRows,
         JudgingTypes, PromptBounded, index, record, reading, judging
<1> QED
  BY <1>1, <1>2, <1>3, <1>4, <1>5 DEF Inductive, TypeParts

LEMMA ExpandInductive ==
  ASSUME Inductive, Expand
  PROVE  Inductive'
<1>1. IndexTypes' /\ RecordTypes' /\ JudgingTypes'
  BY DEF Inductive, TypeParts, Expand, Neighbours, IndexTypes, RecordTypes, Final,
         JudgingTypes, index, record, reading, judging
<1>2. ReadingTypes'
  BY Kinds DEF Inductive, TypeParts, Expand, Neighbours, ReadingTypes, Active, index, record, reading, judging
<1>3. Lifecycle' /\ LoopRows'
  BY DEF Inductive, TypeParts, Expand, Neighbours, Lifecycle, Active, LoopRows,
         ReadingTypes, JudgingTypes, index, record, reading, judging
<1>4. CandidatesLocated' /\ CitedRows'
  BY DEF Inductive, TypeParts, Expand, Neighbours, CandidatesLocated, Present, CitedRows,
         Concluded, Backed, index, record, reading, judging
<1>5. GradedPresent' /\ Stored'
  BY DEF Inductive, TypeParts, Expand, Neighbours, GradedPresent, Present, Active,
         Stored, index, record, reading, judging
<1>6. PromptHolds' /\ PromptBounded'
  BY DEF Inductive, TypeParts, Expand, Neighbours, PromptHolds, Usable, Used, SourceRows,
         JudgingTypes, PromptBounded, index, record, reading, judging
<1> QED
  BY <1>1, <1>2, <1>3, <1>4, <1>5, <1>6 DEF Inductive, TypeParts

LEMMA LocateInductive ==
  ASSUME Inductive, Locate
  PROVE  Inductive'
<1>1. IndexTypes' /\ RecordTypes' /\ ReadingTypes' /\ JudgingTypes'
  BY DEF Inductive, TypeParts, Locate, IndexTypes, RecordTypes, Final, ReadingTypes,
         Active, JudgingTypes, index, record, reading, judging
<1>2. Lifecycle' /\ LoopRows'
  BY DEF Inductive, TypeParts, Locate, Lifecycle, Active, LoopRows, ReadingTypes,
         JudgingTypes, index, record, reading, judging
<1>3. CandidatesLocated' /\ CitedRows'
  BY DEF Inductive, TypeParts, Locate, CandidatesLocated, Present, CitedRows, Concluded,
         Backed, index, record, reading, judging
<1>4. GradedPresent' /\ Stored'
  BY DEF Inductive, TypeParts, Locate, GradedPresent, Present, Active, Stored, index,
         record, reading, judging
<1>5. PromptHolds' /\ PromptBounded'
  BY DEF Inductive, TypeParts, Locate, PromptHolds, Usable, Used, SourceRows,
         JudgingTypes, PromptBounded, index, record, reading, judging
<1> QED
  BY <1>1, <1>2, <1>3, <1>4, <1>5 DEF Inductive, TypeParts

LEMMA CompareInductive ==
  ASSUME Inductive, Compare
  PROVE  Inductive'
<1>a. \/ /\ \E v \in Verdicts, citations \in SUBSET KindRows(Direct) :
              Deterministic(v, citations) /\ Conclude(v, citations, "comparison")
         /\ disposition' = [m \in KindRows(Markdown) |->
                              IF m \in groups THEN "decided" ELSE disposition[m]]
      \/ /\ pc' = "visual"
         /\ UNCHANGED <<verdict, cited, decidedBy, embedded, pass, channels, disposition>>
  BY DEF Compare
<1>1. IndexTypes'
  BY DEF Inductive, TypeParts, Compare, Conclude, Deterministic, IndexTypes, index,
         record, reading, judging
<1>2. RecordTypes'
  BY DEF Inductive, TypeParts, Compare, Conclude, Deterministic, RecordTypes, Final,
         index, record, reading, judging
<1>3. ReadingTypes'
  BY DEF Inductive, TypeParts, Compare, Conclude, Deterministic, ReadingTypes, Active,
         index, record, reading, judging
<1>4. JudgingTypes'
  <2>1. graded' = graded /\ groups' = groups /\ prompt' = prompt /\ ambiguous' \in BOOLEAN
    BY DEF Compare, Inductive, TypeParts, JudgingTypes
  <2>2. disposition' \in [KindRows(Markdown) -> Dispositions]
    BY <1>a DEF Inductive, TypeParts, JudgingTypes, Dispositions
  <2>3. /\ verdict' \in Verdicts \union {"none"} /\ cited' \in SUBSET KindRows(Citable)
        /\ decidedBy' \in {"nobody", "comparison", "adjudicator"}
    BY <1>a, Kinds DEF Inductive, TypeParts, JudgingTypes, Conclude
  <2> QED
    BY <2>1, <2>2, <2>3 DEF Inductive, TypeParts, JudgingTypes
<1>5. Lifecycle' /\ LoopRows'
  BY DEF Inductive, TypeParts, Compare, Conclude, Deterministic, Lifecycle, Active,
         LoopRows, ReadingTypes, JudgingTypes, index, record, reading, judging
<1>6. CandidatesLocated'
  BY DEF Inductive, TypeParts, Compare, Conclude, Deterministic, CandidatesLocated,
         Present, index, record, reading, judging
<1>7. CitedRows'
  <2>1. ASSUME NEW v \in Verdicts, NEW citations \in SUBSET KindRows(Direct),
               Deterministic(v, citations), Conclude(v, citations, "comparison")
        PROVE  CitedRows'
    <3>1. candidates \subseteq Rows
      BY DEF Inductive, TypeParts, ReadingTypes
    <3>2. citations \subseteq candidates /\ (v = "supported" => citations # {})
      BY <2>1, <3>1, DeterministicCites
    <3>3. verdict' = v /\ cited' = citations /\ candidates' = candidates /\ located' = located
          /\ removed' = removed
      BY <2>1 DEF Conclude, Compare, index
    <3>4. \A r \in citations : Present(r) => r \in located
      BY <3>2 DEF Inductive, CandidatesLocated, Compare
    <3> QED
      BY <3>2, <3>3, <3>4, Kinds DEF CitedRows, Backed, Present
  <2>2. CASE pc' = "visual"
    BY <2>2 DEF CitedRows, Concluded
  <2> QED
    BY <1>a, <2>1, <2>2
<1>8. GradedPresent' /\ Stored'
  BY DEF Inductive, TypeParts, Compare, Conclude, Deterministic, GradedPresent, Present,
         Active, Stored, index, record, reading, judging
<1>9. PromptHolds'
  BY DEF Inductive, TypeParts, Compare, Conclude, Deterministic, PromptHolds, Usable,
         Used, SourceRows, JudgingTypes, index, record, reading, judging
<1>10. PromptBounded'
  <2>1. CASE disposition' = [m \in KindRows(Markdown) |->
                              IF m \in groups THEN "decided" ELSE disposition[m]]
    <3>1. prompt' = {} /\ Used' = {}
      BY <2>1 DEF Compare, Inductive, PromptHolds, Used, TypeParts, JudgingTypes
    <3> QED
      BY <3>1, FS_EmptySet, ConstantsAssumption DEF PromptBounded
  <2>2. CASE disposition' = disposition
    BY <2>2 DEF Compare, Inductive, PromptBounded, Used
  <2> QED
    BY <1>a, <2>1, <2>2
<1> QED
  BY <1>1, <1>2, <1>3, <1>4, <1>5, <1>6, <1>7, <1>8, <1>9, <1>10 DEF Inductive, TypeParts

LEMMA CheckVisualInductive ==
  ASSUME Inductive, CheckVisual
  PROVE  Inductive'
<1>1. IndexTypes' /\ RecordTypes' /\ ReadingTypes' /\ JudgingTypes'
  BY DEF Inductive, TypeParts, CheckVisual, IndexTypes, RecordTypes, Final, ReadingTypes,
         Active, JudgingTypes, index, record, reading, judging
<1>2. Lifecycle' /\ LoopRows'
  BY DEF Inductive, TypeParts, CheckVisual, Lifecycle, Active, LoopRows, ReadingTypes,
         JudgingTypes, index, record, reading, judging
<1>3. CandidatesLocated' /\ CitedRows'
  BY DEF Inductive, TypeParts, CheckVisual, CandidatesLocated, Present, CitedRows,
         Concluded, Backed, index, record, reading, judging
<1>4. Stored'
  BY DEF Inductive, TypeParts, CheckVisual, Stored, Present, index, record, reading,
         judging
<1>5. GradedPresent'
  BY DEF Inductive, TypeParts, CheckVisual, GradedPresent, Present, Active, index, record, reading, judging, JudgingTypes, Grades
<1>6. PromptHolds' /\ PromptBounded'
  BY DEF Inductive, TypeParts, CheckVisual, PromptHolds, Usable, Used, SourceRows,
         JudgingTypes, PromptBounded, index, record, reading, judging
<1> QED
  BY <1>1, <1>2, <1>3, <1>4, <1>5, <1>6 DEF Inductive, TypeParts

LEMMA StartAdjudicationInductive ==
  ASSUME Inductive, StartAdjudication
  PROVE  Inductive'
<1>a. \/ Conclude("insufficient", {}, "adjudicator") /\ UNCHANGED todo /\ ambiguous' = FALSE
      \/ /\ pc' = "prompt" /\ todo' = groups
         /\ UNCHANGED <<embedded, pass, channels, ambiguous, verdict, cited, decidedBy>>
  BY DEF StartAdjudication
<1>b. TypeParts /\ "insufficient" \in Verdicts
  BY DEF Inductive, Verdicts
<1>c. Conclude("insufficient", {}, "adjudicator") =>
        /\ verdict' = "insufficient" /\ cited' = {} /\ decidedBy' = "adjudicator"
        /\ embedded' = FALSE /\ pass' \in {1, 2} /\ channels' \in 0..3
        /\ pc' \in {"search", "persist"} /\ (pc' = "search" => channels' # 0 /\ pass' = 2)
        /\ (pc' = "persist" => pass' = pass)
  BY <1>b DEF Conclude, TypeParts, ReadingTypes
<1>1. IndexTypes' /\ RecordTypes'
  BY DEF Inductive, TypeParts, StartAdjudication, Conclude, IndexTypes, RecordTypes,
         Final, index, record, reading, judging
<1>2. ReadingTypes'
  BY <1>a, <1>c, Kinds DEF StartAdjudication, Inductive, TypeParts, ReadingTypes, JudgingTypes, Active
<1>3. JudgingTypes'
  BY <1>a, <1>c DEF StartAdjudication, Inductive, TypeParts, JudgingTypes, Verdicts
<1>4. Lifecycle'
  BY DEF Inductive, TypeParts, StartAdjudication, Conclude, Lifecycle, Active, index,
         record, reading, judging
<1>5. LoopRows'
  BY <1>a, <1>c DEF StartAdjudication, Inductive, LoopRows, TypeParts, JudgingTypes, PromptHolds
<1>6. CandidatesLocated' /\ CitedRows'
  BY DEF Inductive, TypeParts, StartAdjudication, Conclude, CandidatesLocated, Present,
         CitedRows, Concluded, Backed, index, record, reading, judging
<1>7. GradedPresent' /\ Stored'
  BY DEF Inductive, TypeParts, StartAdjudication, Conclude, GradedPresent, Present,
         Active, Stored, index, record, reading, judging
<1>8. PromptHolds' /\ PromptBounded'
  BY DEF Inductive, TypeParts, StartAdjudication, Conclude, PromptHolds, Usable, Used,
         SourceRows, JudgingTypes, PromptBounded, index, record, reading, judging
<1> QED
  BY <1>1, <1>2, <1>3, <1>4, <1>5, <1>6, <1>7, <1>8 DEF Inductive, TypeParts

LEMMA PlaceGroupInductive ==
  ASSUME Inductive, PlaceGroup
  PROVE  Inductive'
<1>a. PICK m \in todo :
        /\ \/ /\ disposition' = [disposition EXCEPT ![m] = "visual_crop"]
              /\ prompt' = prompt
           \/ /\ disposition' = [disposition EXCEPT ![m] = "passage_cap"]
              /\ prompt' = prompt
           \/ /\ SourceRows(m) \subseteq Usable
              /\ Cardinality(prompt \union SourceRows(m)) + Cardinality(Used) + 1 <= MaxPassages
              /\ disposition' = [disposition EXCEPT ![m] = "used"]
              /\ prompt' = prompt \union SourceRows(m)
        /\ todo' = todo \ {m}
  BY DEF PlaceGroup
<1>b. /\ m \in groups /\ m \in KindRows(Markdown) /\ disposition[m] # "used" /\ m \notin Used
      /\ groups \subseteq KindRows(Markdown)
      /\ disposition \in [KindRows(Markdown) -> Dispositions]
      /\ groups' = groups /\ pc = "prompt" /\ pc' = pc
  BY DEF PlaceGroup, Inductive, LoopRows, TypeParts, JudgingTypes, Used
<1>c. Usable' = Usable
  BY DEF PlaceGroup, Usable, reading
<1>d. \/ prompt' = prompt /\ Used' = Used
      \/ /\ SourceRows(m) \subseteq Usable
         /\ Cardinality(prompt \union SourceRows(m)) + Cardinality(Used) + 1 <= MaxPassages
         /\ prompt' = prompt \union SourceRows(m) /\ Used' = Used \union {m}
  BY <1>a, <1>b DEF Used
<1>1. IndexTypes' /\ RecordTypes' /\ ReadingTypes'
  BY DEF Inductive, TypeParts, PlaceGroup, IndexTypes, RecordTypes, Final, ReadingTypes,
         Active, index, record, reading, judging
<1>2. JudgingTypes'
  BY <1>a, <1>b, SourcesCitable DEF PlaceGroup, Inductive, TypeParts, JudgingTypes, Dispositions
<1>3. Lifecycle' /\ LoopRows'
  BY DEF Inductive, TypeParts, PlaceGroup, Lifecycle, Active, LoopRows, ReadingTypes,
         JudgingTypes, index, record, reading, judging
<1>4. CandidatesLocated' /\ CitedRows'
  BY DEF Inductive, TypeParts, PlaceGroup, CandidatesLocated, Present, CitedRows,
         Concluded, Backed, index, record, reading, judging
<1>5. GradedPresent' /\ Stored'
  BY DEF Inductive, TypeParts, PlaceGroup, GradedPresent, Present, Active, Stored, index,
         record, reading, judging
<1>6. PromptHolds'
  <2>1. prompt' \subseteq Usable' /\ \A q \in Used' : SourceRows(q) \subseteq prompt'
    BY <1>b, <1>c, <1>d DEF Inductive, PromptHolds
  <2>2. \A q \in KindRows(Markdown) : disposition'[q] = "used" => q \in groups'
    BY <1>a, <1>b DEF Inductive, PromptHolds
  <2> QED
    BY <1>b, <2>1, <2>2 DEF PromptHolds, SourceRows
<1>7. PromptBounded'
  <2>1. Used \in SUBSET Rows
    BY <1>b, Kinds DEF Used
  <2>2. Cardinality(Used \union {m}) = Cardinality(Used) + 1 /\ Cardinality(Used) \in Nat
    BY <1>b, <2>1, RowsFinite, FS_AddElement
  <2>3. prompt \union SourceRows(m) \in SUBSET Rows
    BY <1>b, Kinds, SourcesCitable DEF Inductive, TypeParts, JudgingTypes
  <2>4. Cardinality(prompt \union SourceRows(m)) \in Nat
    BY <2>3, RowsFinite
  <2> QED
    <3>1. CASE prompt' = prompt /\ Used' = Used
      BY <3>1 DEF Inductive, PromptBounded
    <3>2. CASE /\ Cardinality(prompt \union SourceRows(m)) + Cardinality(Used) + 1 <= MaxPassages
               /\ prompt' = prompt \union SourceRows(m) /\ Used' = Used \union {m}
      BY <3>2, <2>2, <2>4, ConstantsAssumption DEF PromptBounded
    <3> QED
      BY <1>d, <3>1, <3>2
<1> QED
  BY <1>1, <1>2, <1>3, <1>4, <1>5, <1>6, <1>7 DEF Inductive, TypeParts

LEMMA FillPromptInductive ==
  ASSUME Inductive, FillPrompt
  PROVE  Inductive'
<1>a. PICK more \in Best(Usable \ prompt, MaxPassages - Cardinality(prompt) - Cardinality(Used)) :
        prompt' = prompt \union more
  BY DEF FillPrompt
<1>b. Usable \in SUBSET KindRows(Citable)
  BY Kinds DEF Usable
<1>c. prompt \in SUBSET Rows /\ Used \in SUBSET Rows /\ Usable \ prompt \in SUBSET Rows
  BY <1>b, Kinds DEF Used, Inductive, TypeParts, JudgingTypes
<1>d. MaxPassages - Cardinality(prompt) - Cardinality(Used) \in Nat
  BY <1>c, RowsFinite, ConstantsAssumption DEF Inductive, PromptBounded
<1>e. more \subseteq Usable \ prompt
      /\ Cardinality(more) <= MaxPassages - Cardinality(prompt) - Cardinality(Used)
  BY <1>c, <1>d, BestBounded
<1>1. IndexTypes' /\ RecordTypes' /\ ReadingTypes'
  BY DEF Inductive, TypeParts, FillPrompt, Best, IndexTypes, RecordTypes, Final,
         ReadingTypes, Active, index, record, reading, judging
<1>2. JudgingTypes'
  BY <1>a, <1>b, <1>e DEF FillPrompt, Inductive, TypeParts, JudgingTypes
<1>3. Lifecycle' /\ LoopRows'
  BY DEF Inductive, TypeParts, FillPrompt, Best, Lifecycle, Active, LoopRows,
         ReadingTypes, JudgingTypes, index, record, reading, judging
<1>4. CandidatesLocated' /\ CitedRows'
  BY DEF Inductive, TypeParts, FillPrompt, Best, CandidatesLocated, Present, CitedRows,
         Concluded, Backed, index, record, reading, judging
<1>5. GradedPresent' /\ Stored'
  BY DEF Inductive, TypeParts, FillPrompt, Best, GradedPresent, Present, Active, Stored,
         index, record, reading, judging
<1>6. PromptHolds'
  BY DEF Inductive, TypeParts, FillPrompt, Best, PromptHolds, Usable, Used, SourceRows,
         JudgingTypes, index, record, reading, judging
<1>7. PromptBounded'
  <2>1. /\ IsFiniteSet(prompt) /\ Cardinality(prompt) \in Nat /\ Cardinality(Used) \in Nat
        /\ IsFiniteSet(more) /\ Cardinality(more) \in Nat
        /\ IsFiniteSet(prompt \intersect more) /\ Cardinality(prompt \intersect more) \in Nat
    <3>1. more \in SUBSET Rows /\ prompt \intersect more \in SUBSET Rows
      BY <1>c, <1>e
    <3> QED
      BY <1>c, <3>1, RowsFinite
  <2>2. Cardinality(prompt \union more)
          = Cardinality(prompt) + Cardinality(more) - Cardinality(prompt \intersect more)
    BY <2>1, FS_Union
  <2>3. Used' = Used
    BY DEF FillPrompt, Used
  <2> QED
    BY <1>a, <1>d, <1>e, <2>1, <2>2, <2>3, ConstantsAssumption DEF PromptBounded
<1> QED
  BY <1>1, <1>2, <1>3, <1>4, <1>5, <1>6, <1>7 DEF Inductive, TypeParts

LEMMA AdjudicateInductive ==
  ASSUME Inductive, Adjudicate
  PROVE  Inductive'
<1>a. PICK v \in Verdicts, ids \in SUBSET prompt :
        \/ Conclude("insufficient", {}, "adjudicator")
        \/ Conclude(v, ids, "adjudicator") /\ (v = "insufficient" \/ ids # {})
  BY DEF Adjudicate
<1>b. TypeParts /\ "insufficient" \in Verdicts /\ ids \in SUBSET KindRows(Citable)
  BY DEF Inductive, TypeParts, JudgingTypes, Verdicts
<1>c. /\ verdict' \in Verdicts /\ cited' \subseteq prompt /\ decidedBy' = "adjudicator"
      /\ verdict' = "insufficient" \/ cited' # {}
      /\ embedded' = FALSE /\ pass' \in {1, 2} /\ channels' \in 0..3
      /\ pc' \in {"search", "persist"} /\ (pc' = "search" => pass = 1)
  <2>1. CASE Conclude("insufficient", {}, "adjudicator")
    BY <2>1, <1>b DEF Conclude, TypeParts, ReadingTypes
  <2>2. CASE Conclude(v, ids, "adjudicator") /\ (v = "insufficient" \/ ids # {})
    BY <2>2, <1>b DEF Conclude, TypeParts, ReadingTypes
  <2> QED
    BY <1>a, <2>1, <2>2
<1>1. IndexTypes' /\ RecordTypes'
  BY DEF Inductive, TypeParts, Adjudicate, Conclude, IndexTypes, RecordTypes, Final,
         index, record, reading, judging
<1>2. ReadingTypes'
  BY <1>c DEF Adjudicate, Inductive, TypeParts, ReadingTypes, Active
<1>3. JudgingTypes'
  BY <1>c DEF Adjudicate, Inductive, TypeParts, JudgingTypes
<1>4. Lifecycle' /\ LoopRows'
  BY DEF Inductive, TypeParts, Adjudicate, Conclude, Lifecycle, Active, LoopRows,
         ReadingTypes, JudgingTypes, index, record, reading, judging
<1>5. CandidatesLocated'
  BY DEF Inductive, TypeParts, Adjudicate, Conclude, CandidatesLocated, Present, index,
         record, reading, judging
<1>6. CitedRows'
  <2>1. \A r \in cited' : r \in candidates /\ (r \in KindRows(Visual) => graded[r] = "verified")
    BY <1>c, Kinds DEF Adjudicate, Inductive, PromptHolds, Usable
  <2>2. \A r \in candidates : Present(r) => r \in located
    BY DEF Adjudicate, Inductive, CandidatesLocated
  <2>3. Backed'
    BY <1>c DEF Backed
  <2> QED
    BY <2>1, <2>2, <2>3 DEF CitedRows, Adjudicate, index, Present
<1>7. GradedPresent' /\ Stored'
  BY DEF Inductive, TypeParts, Adjudicate, Conclude, GradedPresent, Present, Active,
         Stored, index, record, reading, judging
<1>8. PromptHolds'
  <2>1. /\ prompt' = {} /\ groups' = groups /\ disposition' = disposition
        /\ pass = 1 => groups = {}
        /\ \A m \in KindRows(Markdown) : disposition[m] = "used" => m \in groups
    BY DEF Adjudicate, Inductive, LoopRows, PromptHolds
  <2> QED
    BY <1>c, <2>1 DEF PromptHolds
<1>9. PromptBounded'
  <2>1. prompt' = {} /\ Used' = Used
    BY DEF Adjudicate, Used
  <2>2. prompt \in SUBSET Rows /\ Used \in SUBSET Rows
    BY Kinds DEF Used, Inductive, TypeParts, JudgingTypes
  <2>3. Cardinality(prompt) \in Nat /\ Cardinality(Used) \in Nat /\ Cardinality({}) = 0
    BY <2>2, RowsFinite, FS_EmptySet
  <2> QED
    BY <2>1, <2>3, ConstantsAssumption DEF Inductive, PromptBounded
<1> QED
  BY <1>1, <1>2, <1>3, <1>4, <1>5, <1>6, <1>7, <1>8, <1>9 DEF Inductive, TypeParts

LEMMA ResolveGroupInductive ==
  ASSUME Inductive, ResolveGroup
  PROVE  Inductive'
<1>a. PICK m \in todo :
        /\ \/ groups' = groups \union {m} /\ disposition' = disposition
           \/ disposition' = [disposition EXCEPT ![m] = "missing_source"] /\ groups' = groups
        /\ todo' = todo \ {m}
  BY DEF ResolveGroup
<1>b. m \in KindRows(Markdown)
  BY DEF ResolveGroup, Inductive, LoopRows
<1>1. IndexTypes' /\ RecordTypes' /\ ReadingTypes'
  BY DEF Inductive, TypeParts, ResolveGroup, IndexTypes, RecordTypes, Final,
         ReadingTypes, Active, index, record, reading, judging
<1>2. JudgingTypes'
  BY <1>a, <1>b DEF ResolveGroup, Inductive, TypeParts, JudgingTypes, Dispositions
<1>3. Lifecycle' /\ LoopRows'
  BY DEF Inductive, TypeParts, ResolveGroup, Lifecycle, Active, LoopRows, ReadingTypes,
         JudgingTypes, index, record, reading, judging
<1>4. CandidatesLocated' /\ CitedRows'
  BY DEF Inductive, TypeParts, ResolveGroup, CandidatesLocated, Present, CitedRows,
         Concluded, Backed, index, record, reading, judging
<1>5. GradedPresent' /\ Stored'
  BY DEF Inductive, TypeParts, ResolveGroup, GradedPresent, Present, Active, Stored,
         index, record, reading, judging
<1>6. PromptHolds'
  BY <1>a, <1>b DEF ResolveGroup, Inductive, TypeParts, JudgingTypes, PromptHolds
<1>7. PromptBounded'
  <2>1. prompt' = {} /\ \A q \in KindRows(Markdown) : disposition[q] # "used"
    BY DEF ResolveGroup, Inductive, PromptHolds
  <2>2. Used' = {}
    BY <1>a, <1>b, <2>1 DEF Used, Inductive, TypeParts, JudgingTypes
  <2> QED
    BY <2>1, <2>2, FS_EmptySet, ConstantsAssumption DEF PromptBounded
<1> QED
  BY <1>1, <1>2, <1>3, <1>4, <1>5, <1>6, <1>7 DEF Inductive, TypeParts

LEMMA AddMappedSourcesInductive ==
  ASSUME Inductive, AddMappedSources
  PROVE  Inductive'
<1>1. IndexTypes' /\ RecordTypes' /\ ReadingTypes' /\ JudgingTypes'
  BY DEF Inductive, TypeParts, AddMappedSources, SourceRows, IndexTypes, RecordTypes,
         Final, ReadingTypes, Active, JudgingTypes, index, record, reading, judging
<1>2. Lifecycle' /\ LoopRows'
  BY DEF Inductive, TypeParts, AddMappedSources, SourceRows, Lifecycle, Active, LoopRows,
         ReadingTypes, JudgingTypes, index, record, reading, judging
<1>3. CandidatesLocated' /\ CitedRows'
  BY DEF Inductive, TypeParts, AddMappedSources, SourceRows, CandidatesLocated, Present,
         CitedRows, Concluded, Backed, index, record, reading, judging
<1>4. GradedPresent' /\ Stored'
  BY DEF Inductive, TypeParts, AddMappedSources, SourceRows, GradedPresent, Present,
         Active, Stored, index, record, reading, judging
<1>5. PromptHolds' /\ PromptBounded'
  BY DEF Inductive, TypeParts, AddMappedSources, SourceRows, PromptHolds, Usable, Used,
         JudgingTypes, PromptBounded, index, record, reading, judging
<1> QED
  BY <1>1, <1>2, <1>3, <1>4, <1>5 DEF Inductive, TypeParts

LEMMA RecordCandidatesInductive ==
  ASSUME Inductive, RecordCandidates
  PROVE  Inductive'
<1>1. IndexTypes' /\ RecordTypes' /\ ReadingTypes' /\ JudgingTypes'
  BY DEF Inductive, TypeParts, RecordCandidates, IndexTypes, RecordTypes, Final,
         ReadingTypes, Active, JudgingTypes, index, record, reading, judging
<1>2. Lifecycle' /\ LoopRows'
  BY DEF Inductive, TypeParts, RecordCandidates, Lifecycle, Active, LoopRows,
         ReadingTypes, JudgingTypes, index, record, reading, judging
<1>3. CandidatesLocated' /\ CitedRows'
  BY DEF Inductive, TypeParts, RecordCandidates, CandidatesLocated, Present, CitedRows,
         Concluded, Backed, index, record, reading, judging
<1>4. GradedPresent'
  BY DEF Inductive, TypeParts, RecordCandidates, GradedPresent, Present, Active, index,
         record, reading, judging
<1>5. Stored'
  <2>1. /\ cited \subseteq candidates /\ cited \subseteq located
        /\ \A r \in KindRows(Visual) : graded[r] \in Grades => Present(r)
    BY DEF RecordCandidates, Inductive, CitedRows, Concluded, GradedPresent, Active
  <2> QED
    BY <2>1 DEF Stored, RecordCandidates, judging, index, reading, Present
<1>6. PromptHolds' /\ PromptBounded'
  BY DEF Inductive, TypeParts, RecordCandidates, PromptHolds, Usable, Used, SourceRows,
         JudgingTypes, PromptBounded, index, record, reading, judging
<1> QED
  BY <1>1, <1>2, <1>3, <1>4, <1>5, <1>6 DEF Inductive, TypeParts

LEMMA FinishAuditInductive ==
  ASSUME Inductive, FinishAudit
  PROVE  Inductive'
<1>a. verdict = "supported" => \E r \in cited : Quality(r) \in {"direct", "verified"}
  BY DEF FinishAudit, Inductive, CitedRows, Concluded, Backed, Quality, KindRows
<1>b. answer' = [verdict |-> verdict, citations |-> cited]
  BY <1>a DEF FinishAudit
<1>1. IndexTypes' /\ ReadingTypes' /\ JudgingTypes'
  BY DEF Inductive, TypeParts, FinishAudit, Quality, IndexTypes, ReadingTypes, Active,
         JudgingTypes, index, record, reading, judging
<1>2. RecordTypes'
  BY <1>b, Kinds DEF FinishAudit, Inductive, TypeParts, RecordTypes, JudgingTypes, Final
<1>3. Lifecycle' /\ LoopRows'
  BY DEF Inductive, TypeParts, FinishAudit, Quality, Lifecycle, Active, LoopRows,
         ReadingTypes, JudgingTypes, index, record, reading, judging
<1>4. CandidatesLocated' /\ CitedRows'
  BY DEF Inductive, TypeParts, FinishAudit, Quality, CandidatesLocated, Present,
         CitedRows, Concluded, Backed, index, record, reading, judging
<1>5. GradedPresent'
  BY DEF Inductive, TypeParts, FinishAudit, Quality, GradedPresent, Present, Active,
         index, record, reading, judging
<1>6. Stored'
  BY <1>b DEF FinishAudit, Inductive, Stored, judging, index, reading, Present
<1>7. PromptHolds' /\ PromptBounded'
  BY DEF Inductive, TypeParts, FinishAudit, Quality, PromptHolds, Usable, Used,
         SourceRows, JudgingTypes, PromptBounded, index, record, reading, judging
<1> QED
  BY <1>1, <1>2, <1>3, <1>4, <1>5, <1>6, <1>7 DEF Inductive, TypeParts

\* The end of an audit, however it comes.
LEMMA EndsInductive ==
  ASSUME Inductive, NEW where \in {"ended", "down"}, Ends(where),
         UNCHANGED <<index, trace, selected, crops, answer>>,
         status' \in Final \union {"none", "running"}
  PROVE  Inductive'
<1>1. IndexTypes' /\ RecordTypes'
  BY DEF Inductive, TypeParts, IndexTypes, RecordTypes, index
<1>2. ReadingTypes'
  <2>1. pc' \in Active \union {"idle", "ended", "down"} /\ pass' \in {1, 2} /\ channels' \in 0..3
    BY DEF Ends
  <2> QED
    BY <2>1 DEF Ends, ReadingTypes
<1>3. JudgingTypes'
  BY DEF Ends, JudgingTypes, Unseen, Unresolved, Dispositions
<1>4. Lifecycle' /\ LoopRows' /\ CandidatesLocated' /\ CitedRows'
  BY DEF Ends, Lifecycle, LoopRows, CandidatesLocated, CitedRows, Concluded, Active, Unseen, Unresolved
<1>5. GradedPresent' /\ Stored'
  BY DEF Ends, GradedPresent, Stored, Active
<1>6. prompt' = {} /\ Used' = {} /\ PromptHolds'
  BY DEF Ends, Used, PromptHolds, Unresolved
<1>7. PromptBounded'
  BY <1>6, FS_EmptySet, ConstantsAssumption DEF PromptBounded
<1> QED
  BY <1>1, <1>2, <1>3, <1>4, <1>5, <1>6, <1>7 DEF Inductive, TypeParts

LEMMA EndingsInductive ==
  ASSUME Inductive, Deliver \/ AuditRaises \/ CandidateIsGone \/ Kill \/ ReconcileInterrupted
  PROVE  Inductive'
<1>1. status' \in Final \union {"none", "running"}
  BY DEF Deliver, AuditRaises, CandidateIsGone, Kill, ReconcileInterrupted, FailAudit, record,
     Inductive, TypeParts, RecordTypes, Final
<1>2. UNCHANGED <<index, trace, selected, crops, answer>> /\ (Ends("ended") \/ Ends("down"))
  BY DEF Deliver, AuditRaises, CandidateIsGone, Kill, ReconcileInterrupted, record
<1> QED
  BY <1>1, <1>2, EndsInductive

LEMMA NextInductive == Inductive /\ [Next]_vars => Inductive'
<1> SUFFICES ASSUME Inductive, [Next]_vars PROVE Inductive'
  OBVIOUS
<1>1. CASE UNCHANGED vars
  <2>1. UNCHANGED <<serving, removed, facts, status, trace, selected, crops, answer, pc, todo>>
        /\ UNCHANGED <<scope, references, embedded, pass, channels, pool, candidates, located>>
        /\ UNCHANGED <<graded, ambiguous, groups, disposition, prompt, verdict, cited, decidedBy>>
    BY <1>1 DEF vars, index, record, reading, judging
  <2>2. TypeParts'
    BY <2>1 DEF Inductive, TypeParts, IndexTypes, RecordTypes, ReadingTypes, JudgingTypes
  <2>3. Lifecycle' /\ LoopRows' /\ CandidatesLocated'
    BY <2>1 DEF Inductive, Lifecycle, LoopRows, CandidatesLocated, Present
  <2>4. CitedRows' /\ GradedPresent' /\ Stored'
    BY <2>1 DEF Inductive, CitedRows, Concluded, Backed, GradedPresent, Stored, Present
  <2>5. PromptHolds' /\ PromptBounded'
    BY <2>1 DEF Inductive, PromptHolds, PromptBounded, Usable, Used, SourceRows
  <2> QED
    BY <2>2, <2>3, <2>4, <2>5 DEF Inductive
<1>2. CASE AuditStep
  BY <1>2, CreateAuditInductive, SearchInductive, FuseInductive, ExpandInductive,
     LocateInductive, CompareInductive, CheckVisualInductive, StartAdjudicationInductive,
     PlaceGroupInductive, FillPromptInductive, AdjudicateInductive, ResolveGroupInductive,
     AddMappedSourcesInductive, RecordCandidatesInductive, FinishAuditInductive,
     EndingsInductive DEF AuditStep
<1>3. CASE AuditRaises \/ Kill \/ ReconcileInterrupted
  BY <1>3, EndingsInductive
<1>4. CASE \/ \E v \in Version : Publish(v)
           \/ \E r \in KindRows(Direct) : Enrich(r)
           \/ \E d \in Docs : RemoveDocument(d)
           \/ \E selection \in SUBSET Docs : ResolveScope(selection)
  BY <1>4, PublishInductive, EnrichInductive, RemoveDocumentInductive, ResolveScopeInductive
<1> QED
  BY <1>1, <1>2, <1>3, <1>4 DEF Next

LEMMA Invariance == Spec => []Inductive
  BY InitInductive, NextInductive, PTL DEF Spec

-----------------------------------------------------------------------------

\* Every variable of an audit and of the index keeps its type, whatever the limits
\* and the facts.
THEOREM TypeCorrect == Spec => []TypeOK
<1>1. Inductive => TypeOK
  BY DEF Inductive, TypeParts, IndexTypes, RecordTypes, ReadingTypes, JudgingTypes, TypeOK
<1> QED
  BY <1>1, Invariance, PTL

\* The stored candidates and crop grades are those of the stored answer, although
\* record_candidates and finish_audit commit apart and documents may be removed
\* between them; so _finish never empties the citations.
THEOREM AnswersMatch == Spec => []TraceMatchesAnswer
<1>1. Inductive => TraceMatchesAnswer
  BY DEF Inductive, Stored, TraceMatchesAnswer
<1> QED
  BY <1>1, Invariance, PTL

\* A stored answer cites only rows whose regions were read: a row removed before
\* regions_for saw it makes record_candidates refuse the audit.
THEOREM Located == Spec => []CitationsLocated
<1>1. Inductive => CitationsLocated
  BY DEF Inductive, Stored, CitationsLocated
<1> QED
  BY <1>1, Invariance, PTL

\* A stored answer cites a chart only if its crop was inspected and showed a figure,
\* in whichever pass (_verify_visuals, _passages).
THEOREM ChartsVerified == Spec => []CitationsVerified
<1>1. Inductive => CitationsVerified
  <2> SUFFICES ASSUME Inductive, pc = "deliver", NEW r \in answer.citations, UnitOf(r) \in Visual
               PROVE  graded[r] = "verified"
    BY DEF CitationsVerified
  <2>1. r \in cited /\ r \in Rows
    BY Kinds DEF Inductive, Stored, TypeParts, JudgingTypes
  <2> QED
    BY <2>1 DEF Inductive, CitedRows, Concluded, KindRows
<1> QED
  BY <1>1, Invariance, PTL

\* A context block is in the prompt with all the sources it was made from, each of
\* them usable (_passages).
THEOREM ContextWhole == Spec => []GroupsWhole
<1>1. Inductive => GroupsWhole
  BY DEF Inductive, PromptHolds, GroupsWhole
<1> QED
  BY <1>1, Invariance, PTL

\* Context blocks and passages together never exceed MAX_PASSAGES, however the
\* sources of the groups overlap (_passages).
THEOREM PromptFits == Spec => []PromptBounded
<1>1. Inductive => PromptBounded
  BY DEF Inductive
<1> QED
  BY <1>1, Invariance, PTL

\* A crop that has its grade keeps it to the end of the audit: the second pass
\* does not ask again (_verify_visuals).
THEOREM CropsOnce == Spec => CropsGradedOnce
<1> DEFINE Keeps == pc' \in Active =>
              \A r \in KindRows(Visual) : graded[r] # "unknown" => graded'[r] = graded[r]
<1>1. ASSUME Inductive, Next, pc' \in Active PROVE Keeps
  <2>1. CASE CheckVisual
    BY <2>1, <1>1 DEF CheckVisual, Inductive, LoopRows, TypeParts, JudgingTypes
  <2>2. graded' = graded \/ CheckVisual \/ pc' \notin Active
    BY <1>1 DEF Next, AuditStep, Publish, Enrich, RemoveDocument, ResolveScope, CreateAudit,
       Search, Fuse, Expand, Locate, Compare, StartAdjudication, PlaceGroup, FillPrompt,
       Adjudicate, ResolveGroup, AddMappedSources, RecordCandidates, CandidateIsGone,
       FinishAudit, Deliver, AuditRaises, Kill, ReconcileInterrupted, Ends, judging, Active
  <2> QED
    BY <1>1, <2>1, <2>2
<1>2. ASSUME UNCHANGED vars PROVE Keeps
  BY <1>2 DEF vars, judging
<1>3. Inductive /\ [Next]_vars => [Keeps]_vars
  BY <1>1, <1>2
<1> QED
  BY <1>3, Invariance, PTL DEF Spec, CropsGradedOnce

\* An outcome, once stored, is never turned into another: not by an exception after
\* it, a crash or the reconciliation that follows (fail_audit, reconcile_interrupted).
THEOREM OutcomesStand == Spec => OutcomeStands
<1> DEFINE Stands == (status \in Final) => status' = status /\ answer' = answer
<1>1. ASSUME Inductive, Next, status \in Final PROVE status' = status /\ answer' = answer
  <2>1. pc \notin {"idle", "resolved"} /\ pc \notin Active \ {"deliver"}
    BY <1>1 DEF Inductive, Lifecycle, Final, Active
  <2>2. UNCHANGED <<status, answer>> \/ AuditRaises \/ ReconcileInterrupted
    BY <1>1, <2>1 DEF Next, AuditStep, Publish, Enrich, RemoveDocument, ResolveScope, CreateAudit,
       Search, Fuse, Expand, Locate, Compare, CheckVisual, StartAdjudication, PlaceGroup,
       FillPrompt, Adjudicate, ResolveGroup, AddMappedSources, RecordCandidates,
       CandidateIsGone, FinishAudit, Deliver, Kill, record, Active
  <2> QED
    BY <1>1, <2>2 DEF AuditRaises, ReconcileInterrupted, FailAudit, Final
<1>2. ASSUME UNCHANGED vars PROVE Stands
  BY <1>2 DEF vars, record
<1>3. Inductive /\ [Next]_vars => [Stands]_vars
  BY <1>1, <1>2
<1> QED
  BY <1>3, Invariance, PTL DEF Spec, OutcomeStands
=============================================================================
