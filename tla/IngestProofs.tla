---------------------------- MODULE IngestProofs ----------------------------
(***************************************************************************)
(* Proofs about Ingest, for every set of documents, builds, version rows,  *)
(* pages, candidates, batch size and seeds the assumption on the constants *)
(* allows.                                                                 *)
(***************************************************************************)
EXTENDS Ingest, FiniteSetTheorems, TLAPS

-----------------------------------------------------------------------------
(* The pages and the candidates are finitely many, so coverage is a number. *)

LEMMA ClaimPagesFinite == IsFiniteSet(ClaimPages) /\ Cardinality(ClaimPages) \in Nat
<1>1. IsFiniteSet(1..NPages)
  BY FS_Interval, ConstantsAssumption
<1>2. IsFiniteSet(ClaimPages)
  BY <1>1, FS_Subset, ConstantsAssumption DEF Pages
<1> QED
  BY <1>2, FS_CardinalityType

(* The values the type invariant ranges over, as facts the provers can cite. *)
LEMMA NoneOf ==
  /\ NoUnits \in [Pages -> Texts]
  /\ NoFacts \in [ClaimPages -> FactSources]
  BY DEF NoUnits, NoFacts, Texts, FactSources

-----------------------------------------------------------------------------
(* Types.                                                                   *)

LEMMA InitTypeOK == Init => TypeOK
<1> SUFFICES ASSUME Init PROVE TypeOK
  OBVIOUS
<1>1. /\ total \in [Version -> Nat] /\ succeeded \in [Version -> Nat]
      /\ pc = "idle" /\ cur = NoVersion /\ page \in 1..(NPages + 1)
      /\ todo \in SUBSET (Pages \union {Ghost}) /\ done \in Nat
  BY ConstantsAssumption DEF Init
<1>2. CASE status = [v \in Version |-> "absent"]
        /\ unit = [v \in Version |-> NoUnits] /\ vector = [v \in Version |-> NoUnits]
        /\ leftover = [v \in Version |-> {}] /\ tableFacts = [v \in Version |-> "none"]
        /\ facts = [v \in Version |-> NoFacts] /\ failures = [v \in Version |-> {}]
  BY <1>1, <1>2, NoneOf DEF TypeOK, Statuses, Texts, Working, Building
<1>3. ASSUME NEW v \in Version, NEW s \in Seeds,
        status = [w \in Version |-> IF w = v THEN s.status ELSE "absent"],
        unit = [w \in Version |-> IF w = v THEN s.text ELSE NoUnits],
        vector = [w \in Version |-> [p \in Pages |->
                    IF w = v /\ p \in s.embedded THEN s.text[p] ELSE "none"]],
        leftover = [w \in Version |-> IF w = v THEN s.leftover ELSE {}],
        tableFacts = [w \in Version |-> IF w = v THEN s.facts ELSE "none"],
        facts = [w \in Version |-> [c \in ClaimPages |-> IF w = v THEN s.facts ELSE "none"]],
        failures = [w \in Version |-> IF w = v THEN s.failures ELSE {}]
      PROVE TypeOK
  <2>1. /\ s.status \in Statuses /\ s.text \in [Pages -> Texts]
        /\ s.leftover \in SUBSET (Pages \union {Ghost})
        /\ s.facts \in Texts /\ s.facts \in FactSources
        /\ s.failures \in SUBSET (ClaimPages \union {Ghost})
    BY ConstantsAssumption DEF Seed, Statuses, Texts, FactSources
  <2>2. vector \in [Version -> [Pages -> Texts]]
    BY <1>3, <2>1 DEF Texts
  <2>3. facts \in [Version -> [ClaimPages -> FactSources]]
    BY <1>3, <2>1 DEF FactSources
  <2>4. /\ status \in [Version -> Statuses] /\ unit \in [Version -> [Pages -> Texts]]
        /\ leftover \in [Version -> SUBSET (Pages \union {Ghost})]
        /\ tableFacts \in [Version -> Texts]
        /\ failures \in [Version -> SUBSET (ClaimPages \union {Ghost})]
    BY <1>3, <2>1, NoneOf DEF Statuses, Texts
  <2> QED
    BY <1>1, <2>2, <2>3, <2>4 DEF TypeOK, Working, Building
<1> QED
  BY <1>2, <1>3 DEF Init

(* A candidate, whether its model call succeeds or fails. *)
LEMMA CandidateTypes ==
  ASSUME TypeOK, cur \in Version, NEW c \in ClaimPages, NEW subject \in FactSources,
         CandidateSucceeds(c, subject) \/ CandidateFails(c)
  PROVE  /\ facts' \in [Version -> [ClaimPages -> FactSources]]
         /\ failures' \in [Version -> SUBSET (ClaimPages \union {Ghost})]
         /\ done' \in Nat
<1>1. CASE CandidateFails(c)
  BY <1>1 DEF TypeOK, CandidateFails
<1>2. CASE CandidateSucceeds(c, subject)
  <2>1. PICK kept \in BOOLEAN :
          facts' = [facts EXCEPT ![cur][c] = IF kept THEN subject ELSE @]
    BY <1>2 DEF CandidateSucceeds
  <2>2. facts' \in [Version -> [ClaimPages -> FactSources]]
    BY <2>1 DEF TypeOK
  <2> QED
    BY <1>2, <2>2 DEF TypeOK, CandidateSucceeds
<1> QED
  BY <1>1, <1>2

LEMMA StepTypeOK == TypeOK /\ [Next]_vars => TypeOK'
<1> SUFFICES ASSUME TypeOK, [Next]_vars PROVE TypeOK'
  OBVIOUS
<1> USE ConstantsAssumption
<1>1. ASSUME NEW v \in Version, NEW force \in BOOLEAN, StartVersion(v, force) PROVE TypeOK'
  BY <1>1 DEF TypeOK, StartVersion, evidence, enrichment, Statuses, Queryable, Working, Building
<1>2. ASSUME NEW d \in Docs, RetryFailedFacts(d) PROVE TypeOK'
  BY <1>2 DEF TypeOK, RetryFailedFacts, rows, evidence, enrichment, Working, Building
<1>3. ASSUME NEW d \in Docs, RemoveDocument(d) PROVE TypeOK'
  BY <1>3, NoneOf DEF TypeOK, RemoveDocument, worker, Statuses, Texts
<1>4. CASE IndexPage
  BY <1>4 DEF TypeOK, IndexPage, UpsertEvidence, enrichment, Working, Building, Texts, Pages
<1>5. CASE DeleteStalePages
  BY <1>5 DEF TypeOK, DeleteStalePages, UnitsMissingEmbeddings, enrichment, Working, Building
<1>6. CASE EmbedBatch
  BY <1>6 DEF TypeOK, EmbedBatch, enrichment, Working, Building
<1>7. CASE DeleteFacts
  <2>1. /\ tableFacts' \in [Version -> Texts]
        /\ facts' \in [Version -> [ClaimPages -> FactSources]]
    BY <1>7, NoneOf DEF TypeOK, DeleteFacts, Texts
  <2> QED
    BY <1>7, <2>1 DEF TypeOK, DeleteFacts, evidence, Working, Building
<1>8. CASE StoreTableFacts
  <2>1. tableFacts' \in [Version -> Texts]
    BY <1>8 DEF TypeOK, StoreTableFacts, Texts
  <2>2. /\ pc' \in Working /\ cur' \in Version
        /\ todo' \in SUBSET (Pages \union {Ghost}) /\ done' \in Nat
    BY <1>8 DEF TypeOK, StoreTableFacts, Working, Building
  <2> QED
    BY <1>8, <2>1, <2>2 DEF TypeOK, StoreTableFacts, evidence
<1>9. CASE ExtractCandidate
  <2>1. PICK c \in todo : CandidateSucceeds(c, "entity") \/ CandidateFails(c)
    BY <1>9 DEF ExtractCandidate
  <2>2. cur \in Version /\ c \in ClaimPages
    BY <1>9 DEF TypeOK, ExtractCandidate, Working, Building
  <2>3. /\ facts' \in [Version -> [ClaimPages -> FactSources]]
        /\ failures' \in [Version -> SUBSET (ClaimPages \union {Ghost})]
        /\ done' \in Nat
    BY <2>1, <2>2, CandidateTypes DEF FactSources
  <2> QED
    BY <1>9, <2>3 DEF TypeOK, ExtractCandidate, evidence
<1>10. CASE SetFactCoverage
  BY <1>10, ClaimPagesFinite DEF TypeOK, SetFactCoverage, evidence, Working, Building
<1>11. CASE Verify
  BY <1>11 DEF TypeOK, Verify, MarkVersionFailed, Ends, evidence, enrichment,
               Working, Building, Statuses
<1>12. CASE ActivateVersion
  BY <1>12 DEF TypeOK, ActivateVersion, Activate, GradeOf, evidence, enrichment,
               Working, Building, Statuses, Queryable
<1>13. CASE Report
  BY <1>13 DEF TypeOK, Report, Ends, rows, evidence, enrichment, Working, Building
<1>14. CASE RetryCandidate
  <2>1. PICK c \in todo :
          \/ /\ failures' = [failures EXCEPT ![cur] = @ \ {c}]
             /\ UNCHANGED <<facts, done>>
          \/ c \in ClaimPages /\ (CandidateSucceeds(c, "filename") \/ CandidateFails(c))
    BY <1>14 DEF RetryCandidate
  <2>2. cur \in Version
    BY <1>14 DEF TypeOK, RetryCandidate, Working
  <2>3. /\ facts' \in [Version -> [ClaimPages -> FactSources]]
        /\ failures' \in [Version -> SUBSET (ClaimPages \union {Ghost})]
        /\ done' \in Nat
    <3>1. CASE failures' = [failures EXCEPT ![cur] = @ \ {c}] /\ UNCHANGED <<facts, done>>
      BY <3>1 DEF TypeOK
    <3>2. CASE c \in ClaimPages /\ (CandidateSucceeds(c, "filename") \/ CandidateFails(c))
      BY <2>2, <3>2, CandidateTypes DEF FactSources
    <3> QED
      BY <2>1, <3>1, <3>2
  <2> QED
    BY <1>14, <2>3 DEF TypeOK, RetryCandidate, evidence
<1>15. CASE SettleRetry
  BY <1>15 DEF TypeOK, SettleRetry, Activate, GradeOf, Ends, evidence,
               Working, Building, Statuses, Queryable
<1>16. CASE WorkFindsNoRow
  BY <1>16 DEF TypeOK, WorkFindsNoRow, Ends, rows, evidence, enrichment, Working, Building
<1>17. CASE WorkRaises
  BY <1>17 DEF TypeOK, WorkRaises, MarkVersionFailed, Ends, evidence, enrichment,
               Working, Building, Statuses
<1>18. CASE Kill
  BY <1>18 DEF TypeOK, Kill, Ends, rows, evidence, enrichment, Working, Building
<1>19. CASE ReconcileInterrupted
  BY <1>19 DEF TypeOK, ReconcileInterrupted, Ends, evidence, enrichment,
               Working, Building, Statuses
<1>20. CASE StartCli
  BY <1>20 DEF TypeOK, StartCli, Ends, rows, evidence, enrichment, Working, Building
<1>21. CASE UNCHANGED vars
  BY <1>21 DEF TypeOK, vars, rows, worker, evidence, enrichment
<1> QED
  BY <1>1, <1>2, <1>3, <1>4, <1>5, <1>6, <1>7, <1>8, <1>9, <1>10, <1>11, <1>12,
     <1>13, <1>14, <1>15, <1>16, <1>17, <1>18, <1>19, <1>20, <1>21 DEF Next, WorkerStep

\* Every column and every local of the worker keeps its type.
THEOREM TypeCorrect == Spec => []TypeOK
  BY InitTypeOK, StepTypeOK, PTL DEF Spec

-----------------------------------------------------------------------------
(* Which actions write what.                                                *)

LEMMA EvidenceWriters ==
  [Next]_vars => \/ UNCHANGED <<unit, vector>>
                 \/ IndexPage \/ EmbedBatch \/ \E d \in Docs : RemoveDocument(d)
  BY DEF Next, WorkerStep, vars, rows, evidence, StartVersion, RetryFailedFacts,
         DeleteStalePages, DeleteFacts, StoreTableFacts, ExtractCandidate, SetFactCoverage,
         Verify, ActivateVersion, Report, RetryCandidate, SettleRetry, WorkFindsNoRow,
         WorkRaises, Kill, ReconcileInterrupted, StartCli

LEMMA StatusWriters ==
  [Next]_vars => \/ UNCHANGED status
                 \/ \E v \in Version, force \in BOOLEAN : StartVersion(v, force)
                 \/ \E d \in Docs : RemoveDocument(d)
                 \/ Verify \/ ActivateVersion \/ SettleRetry \/ WorkRaises
                 \/ ReconcileInterrupted
  BY DEF Next, WorkerStep, vars, rows, RetryFailedFacts, IndexPage, EmbedBatch,
         DeleteStalePages, DeleteFacts, StoreTableFacts, ExtractCandidate, SetFactCoverage,
         Report, RetryCandidate, WorkFindsNoRow, Kill, StartCli

-----------------------------------------------------------------------------
(* Embeddings.                                                              *)

LEMMA StepVectorsMatchText ==
  ASSUME TypeOK, VectorsMatchText, [Next]_vars
  PROVE  VectorsMatchText'
<1>1. CASE UNCHANGED <<unit, vector>>
  BY <1>1 DEF VectorsMatchText
<1>2. CASE IndexPage
  BY <1>2 DEF TypeOK, VectorsMatchText, IndexPage, UpsertEvidence, Texts
<1>3. CASE EmbedBatch
  BY <1>3 DEF TypeOK, VectorsMatchText, EmbedBatch
<1>4. ASSUME NEW d \in Docs, RemoveDocument(d) PROVE VectorsMatchText'
  BY <1>4 DEF TypeOK, VectorsMatchText, RemoveDocument, NoUnits
<1> QED
  BY <1>1, <1>2, <1>3, <1>4, EvidenceWriters

\* An embedding is always of the text its unit holds.
THEOREM VectorsAreOfTheirText == Spec => []VectorsMatchText
<1>1. Init => VectorsMatchText
  <2> SUFFICES ASSUME Init, NEW v \in Version, NEW p \in Pages
               PROVE  vector[v][p] \in {"none", unit[v][p]}
    BY DEF VectorsMatchText
  <2>1. CASE unit = [w \in Version |-> NoUnits] /\ vector = [w \in Version |-> NoUnits]
    BY <2>1 DEF NoUnits
  <2>2. ASSUME NEW w \in Version, NEW s \in Seeds,
          unit = [x \in Version |-> IF x = w THEN s.text ELSE NoUnits],
          vector = [x \in Version |-> [q \in Pages |->
                      IF x = w /\ q \in s.embedded THEN s.text[q] ELSE "none"]]
        PROVE vector[v][p] \in {"none", unit[v][p]}
    BY <2>2 DEF NoUnits
  <2> QED
    BY <2>1, <2>2 DEF Init
<1> QED
  BY <1>1, StepVectorsMatchText, TypeCorrect, PTL DEF Spec

-----------------------------------------------------------------------------
(* Activation.                                                              *)

LEMMA ActivateKeepsOne ==
  ASSUME TypeOK, OneQueryableVersion, NEW v \in Version, NEW st \in Statuses, Activate(v, st)
  PROVE  OneQueryableVersion'
  BY DEF TypeOK, OneQueryableVersion, Activate, Queryable

LEMMA StepOneQueryableVersion ==
  ASSUME TypeOK, OneQueryableVersion, [Next]_vars
  PROVE  OneQueryableVersion'
<1>1. CASE UNCHANGED status
  BY <1>1 DEF OneQueryableVersion
<1>2. ASSUME NEW v \in Version, NEW force \in BOOLEAN, StartVersion(v, force)
      PROVE  OneQueryableVersion'
  BY <1>2 DEF TypeOK, OneQueryableVersion, StartVersion, Queryable
<1>3. ASSUME NEW d \in Docs, RemoveDocument(d) PROVE OneQueryableVersion'
  BY <1>3 DEF TypeOK, OneQueryableVersion, RemoveDocument, Queryable
<1>4. CASE ActivateVersion
  BY <1>4, ActivateKeepsOne
  DEF TypeOK, ActivateVersion, GradeOf, Statuses, Queryable, Working, Building
<1>5. CASE SettleRetry
  BY <1>5, ActivateKeepsOne DEF TypeOK, SettleRetry, GradeOf, Statuses, Queryable, Working
<1>6. CASE Verify
  BY <1>6 DEF TypeOK, OneQueryableVersion, Verify, MarkVersionFailed, Queryable
<1>7. CASE WorkRaises
  BY <1>7 DEF TypeOK, OneQueryableVersion, WorkRaises, MarkVersionFailed, Queryable
<1>8. CASE ReconcileInterrupted
  BY <1>8 DEF TypeOK, OneQueryableVersion, ReconcileInterrupted, Queryable
<1> QED
  BY <1>1, <1>2, <1>3, <1>4, <1>5, <1>6, <1>7, <1>8, StatusWriters

\* No document is ever answered from two versions.
THEOREM AtMostOneServes == Spec => []OneQueryableVersion
<1>1. Init => OneQueryableVersion
  BY ConstantsAssumption DEF Init, OneQueryableVersion, Queryable, Seed
<1> QED
  BY <1>1, StepOneQueryableVersion, TypeCorrect, PTL DEF Spec

(* The attempt to build is never one that serves: a forced build opens a row   *)
(* that is not there, any other only when nothing of its build serves.         *)
LEMMA OpensNothingServing ==
  ASSUME NEW v \in Version, NextAttempt(v) \/ ~HasQueryable(v)
  PROVE  status[v] \notin Queryable
<1>1. AttemptOf(v) \in Nat
  BY ConstantsAssumption DEF AttemptOf
<1>2. CASE NextAttempt(v)
  <2>1. v \notin AttemptsIn(v, Existing)
    BY <1>1, <1>2 DEF NextAttempt
  <2> QED
    BY <2>1 DEF AttemptsIn, Existing, Statuses, Queryable
<1>3. CASE ~HasQueryable(v)
  BY <1>3 DEF HasQueryable, AttemptsIn
<1> QED
  BY <1>2, <1>3

\* A document that answers queries keeps answering them until it is removed.
THEOREM ServiceGoesOn == Spec => ServiceUninterrupted
<1>1. ASSUME TypeOK, [Next]_vars, NEW d \in Docs, Serving(d) # {}
      PROVE  Serving(d)' # {} \/ Removed(d)'
  <2> PICK s \in Version : DocOf(s) = d /\ status[s] \in Queryable
    BY <1>1 DEF Serving
  <2>1. ASSUME NEW w \in Version, DocOf(w) = d, status'[w] \in Queryable
        PROVE  Serving(d)' # {}
    BY <2>1 DEF Serving
  <2>2. CASE UNCHANGED status
    BY <2>1, <2>2
  <2>3. ASSUME NEW v \in Version, NEW force \in BOOLEAN, StartVersion(v, force)
        PROVE  Serving(d)' # {}
    <3>1. status[v] \notin Queryable
      BY <2>3, OpensNothingServing DEF StartVersion
    <3> QED
      BY <2>1, <2>3, <3>1, <1>1 DEF TypeOK, StartVersion
  <2>4. ASSUME NEW r \in Docs, RemoveDocument(r) PROVE Serving(d)' # {} \/ Removed(d)'
    <3>1. CASE r = d
      BY <2>4, <3>1 DEF RemoveDocument, Removed
    <3>2. CASE r # d
      BY <2>1, <2>4, <3>2 DEF RemoveDocument
    <3> QED
      BY <3>1, <3>2
  <2>5. ASSUME NEW v \in Version, NEW st \in Queryable, Activate(v, st) PROVE Serving(d)' # {}
    <3>1. CASE DocOf(v) = d
      BY <2>1, <2>5, <3>1 DEF Activate
    <3>2. CASE DocOf(v) # d
      BY <2>1, <2>5, <3>2 DEF Activate
    <3> QED
      BY <3>1, <3>2
  <2>6. CASE ActivateVersion
    BY <1>1, <2>5, <2>6 DEF TypeOK, ActivateVersion, GradeOf, Queryable, Working, Building
  <2>7. CASE SettleRetry
    BY <1>1, <2>5, <2>7 DEF TypeOK, SettleRetry, GradeOf, Queryable, Working
  <2>8. CASE \E v \in Version : MarkVersionFailed(v)
    BY <1>1, <2>1, <2>8 DEF TypeOK, MarkVersionFailed, Queryable
  <2>9. CASE Verify
    BY <1>1, <2>2, <2>8, <2>9 DEF TypeOK, Verify, Working, Building
  <2>10. CASE WorkRaises
    BY <1>1, <2>2, <2>8, <2>10 DEF TypeOK, WorkRaises, Working
  <2>11. CASE ReconcileInterrupted
    BY <1>1, <2>1, <2>11 DEF TypeOK, ReconcileInterrupted, Queryable
  <2> QED
    BY <1>1, <2>2, <2>3, <2>4, <2>6, <2>7, <2>9, <2>10, <2>11, StatusWriters
<1>2. TypeOK /\ [Next]_vars =>
        [\A d \in Docs : Serving(d) # {} => Serving(d)' # {} \/ Removed(d)']_vars
  BY <1>1
<1> QED
  BY <1>2, TypeCorrect, PTL DEF Spec, ServiceUninterrupted

-----------------------------------------------------------------------------
(* What serves is what the source yields.  QueryableIsCurrent is not inductive *)
(* alone: it takes WorkProgress to know what an activation activates.          *)

Inductive == QueryableIsCurrent /\ WorkProgress /\ ReadyOwesNothing

LEMMA InitInductive == Init => Inductive
<1> SUFFICES ASSUME Init PROVE Inductive
  OBVIOUS
<1>1. \A v \in Version : status[v] \notin Queryable
  BY ConstantsAssumption DEF Init, Queryable, Seed
<1> QED
  BY <1>1 DEF Inductive, QueryableIsCurrent, WorkProgress, ReadyOwesNothing, Init,
              Queryable, Building

(* A page that is current stays so; a step of the build on its own row.      *)
LEMMA BuildsOnlyItsRow ==
  ASSUME TypeOK, WorkProgress, pc \in Building, status[cur] # "absent"
  PROVE  cur \in Version /\ status[cur] = "building" /\ status[cur] \notin Queryable
  BY DEF TypeOK, WorkProgress, Working, Building, Queryable

LEMMA StepStart ==
  ASSUME TypeOK, Inductive, NEW v \in Version, NEW force \in BOOLEAN, StartVersion(v, force)
  PROVE  Inductive'
<1>1. QueryableIsCurrent'
  BY DEF TypeOK, Inductive, QueryableIsCurrent, HoldsSource, StartVersion, evidence, enrichment,
         Queryable
<1>2. WorkProgress'
  BY DEF TypeOK, WorkProgress, StartVersion, Building, Pages
<1>3. ReadyOwesNothing'
  BY DEF TypeOK, Inductive, ReadyOwesNothing, StartVersion, enrichment
<1> QED
  BY <1>1, <1>2, <1>3 DEF Inductive

LEMMA StepPages ==
  ASSUME TypeOK, VectorsMatchText, Inductive, IndexPage \/ DeleteStalePages
  PROVE  Inductive'
<1>1. cur \in Version /\ status[cur] = "building" /\ status[cur] \notin Queryable
  BY BuildsOnlyItsRow DEF Inductive, IndexPage, DeleteStalePages, Building
<1>2. \A v \in Version : v # cur =>
        unit'[v] = unit[v] /\ vector'[v] = vector[v] /\ leftover'[v] = leftover[v]
  BY <1>1 DEF TypeOK, IndexPage, UpsertEvidence, DeleteStalePages
<1>3. QueryableIsCurrent'
  BY <1>1, <1>2 DEF Inductive, QueryableIsCurrent, HoldsSource, IndexPage, DeleteStalePages,
                    enrichment
<1>4. ReadyOwesNothing'
  BY DEF Inductive, ReadyOwesNothing, IndexPage, DeleteStalePages, enrichment
<1>5. CASE IndexPage
  <2>1. \A p \in Pages : p < page \/ p = page => PageCurrent(p)'
    BY <1>1, <1>5
    DEF TypeOK, Inductive, WorkProgress, VectorsMatchText, PageCurrent, IndexPage, UpsertEvidence,
        Building, Texts
  <2>2. \A p \in Pages : p < page' => p < page \/ p = page
    BY <1>5 DEF TypeOK, IndexPage, Pages
  <2>3. WorkProgress'
    BY <1>1, <1>5, <2>1, <2>2 DEF WorkProgress, IndexPage, Building
  <2> QED
    BY <1>3, <1>4, <2>3 DEF Inductive
<1>6. CASE DeleteStalePages
  <2>1. \A p \in Pages : PageCurrent(p) /\ PageCurrent(p)'
    BY <1>1, <1>6, ConstantsAssumption
    DEF TypeOK, Inductive, WorkProgress, PageCurrent, DeleteStalePages, Building, Pages
  <2>2. {p \in Pages : vector'[cur][p] = "none"} \subseteq todo'
    BY <1>6, <2>1 DEF DeleteStalePages, UnitsMissingEmbeddings, PageCurrent
  <2>3. Ghost \notin leftover'[cur]
    BY <1>1, <1>6 DEF TypeOK, DeleteStalePages
  <2>4. WorkProgress'
    BY <1>1, <1>6, <2>1, <2>2, <2>3 DEF WorkProgress, DeleteStalePages, Building
  <2> QED
    BY <1>3, <1>4, <2>4 DEF Inductive
<1> QED
  BY <1>5, <1>6

LEMMA StepEmbed ==
  ASSUME TypeOK, Inductive, EmbedBatch \/ DeleteFacts \/ StoreTableFacts
  PROVE  Inductive'
<1>1. cur \in Version /\ status[cur] = "building" /\ status[cur] \notin Queryable
  BY BuildsOnlyItsRow DEF Inductive, EmbedBatch, DeleteFacts, StoreTableFacts, Building
<1>2. \A v \in Version : v # cur =>
        vector'[v] = vector[v] /\ tableFacts'[v] = tableFacts[v] /\ facts'[v] = facts[v]
  BY <1>1 DEF TypeOK, EmbedBatch, DeleteFacts, StoreTableFacts, evidence, enrichment
<1>3. QueryableIsCurrent'
  BY <1>1, <1>2 DEF Inductive, QueryableIsCurrent, HoldsSource, EmbedBatch, DeleteFacts,
                    StoreTableFacts, evidence, enrichment
<1>4. ReadyOwesNothing'
  BY DEF Inductive, ReadyOwesNothing, EmbedBatch, DeleteFacts, StoreTableFacts, enrichment
<1>5. CASE EmbedBatch
  <2>1. \A p \in Pages : vector'[cur][p] = IF p \in NextBatch THEN unit[cur][p] ELSE vector[cur][p]
    BY <1>1, <1>5 DEF TypeOK, EmbedBatch
  <2>2. \A p \in Pages : PageCurrent(p)'
    BY <1>1, <1>5, <2>1 DEF Inductive, WorkProgress, PageCurrent, EmbedBatch, Building
  <2>3. {p \in Pages : vector'[cur][p] = "none"} \subseteq todo'
    BY <1>1, <1>5, <2>1 DEF Inductive, WorkProgress, PageCurrent, EmbedBatch, Building
  <2>4. WorkProgress'
    BY <1>1, <1>5, <2>2, <2>3 DEF Inductive, WorkProgress, EmbedBatch, Building
  <2> QED
    BY <1>3, <1>4, <2>4 DEF Inductive
<1>6. CASE DeleteFacts
  <2>1. \A p \in Pages : PageCurrent(p) /\ PageCurrent(p)' /\ vector'[cur][p] = "current"
    BY <1>1, <1>6 DEF Inductive, WorkProgress, PageCurrent, DeleteFacts, evidence, Building
  <2>2. \A c \in ClaimPages : facts'[cur][c] # "stale"
    BY <1>1, <1>6 DEF TypeOK, DeleteFacts, NoFacts
  <2>3. WorkProgress'
    BY <1>1, <1>6, <2>1, <2>2 DEF Inductive, WorkProgress, DeleteFacts, evidence, Building
  <2> QED
    BY <1>3, <1>4, <2>3 DEF Inductive
<1>7. CASE StoreTableFacts
  <2>1. \A p \in Pages : PageCurrent(p)'
    BY <1>1, <1>7 DEF Inductive, WorkProgress, PageCurrent, StoreTableFacts, evidence, Building
  <2>2. tableFacts'[cur] = "current" /\ facts' = facts /\ vector' = vector /\ leftover' = leftover
    BY <1>1, <1>7 DEF TypeOK, StoreTableFacts, evidence
  <2>3. pc' \in {"narrative", "verify"} /\ cur' = cur /\ status' = status
    BY <1>7 DEF StoreTableFacts
  <2>4. WorkProgress'
    BY <1>1, <1>7, <2>1, <2>2, <2>3 DEF Inductive, WorkProgress, StoreTableFacts, Building
  <2> QED
    BY <1>3, <1>4, <2>4 DEF Inductive
<1> QED
  BY <1>5, <1>6, <1>7

LEMMA StepNarrative ==
  ASSUME TypeOK, Inductive, ExtractCandidate \/ SetFactCoverage
  PROVE  Inductive'
<1>1. cur \in Version /\ status[cur] = "building" /\ status[cur] \notin Queryable
  BY BuildsOnlyItsRow DEF Inductive, ExtractCandidate, SetFactCoverage, Building
<1>2. \A v \in Version : v # cur => facts'[v] = facts[v] /\ failures'[v] = failures[v]
  BY <1>1 DEF TypeOK, ExtractCandidate, SetFactCoverage, CandidateSucceeds, CandidateFails
<1>3. \A c \in ClaimPages : facts[cur][c] # "stale" => facts'[cur][c] # "stale"
  <2>1. CASE facts' = facts
    BY <2>1
  <2>2. ASSUME NEW c \in todo, CandidateSucceeds(c, "entity")
        PROVE  \A e \in ClaimPages : facts[cur][e] # "stale" => facts'[cur][e] # "stale"
    BY <1>1, <2>2 DEF TypeOK, CandidateSucceeds
  <2> QED
    BY <2>1, <2>2 DEF ExtractCandidate, CandidateFails, SetFactCoverage
<1>4. QueryableIsCurrent'
  BY <1>1, <1>2 DEF Inductive, QueryableIsCurrent, HoldsSource, ExtractCandidate,
                    SetFactCoverage, evidence
<1>5. WorkProgress'
  BY <1>1, <1>3 DEF Inductive, WorkProgress, PageCurrent, ExtractCandidate, SetFactCoverage,
                    evidence, Building
<1>6. ReadyOwesNothing'
  BY <1>1, <1>2 DEF Inductive, ReadyOwesNothing, ExtractCandidate, SetFactCoverage, Queryable
<1> QED
  BY <1>4, <1>5, <1>6 DEF Inductive

(* A step that leaves the rows alone, but for a status that stops being        *)
(* building, and ends the work or the build's checks.                          *)
LEMMA StepEnds ==
  ASSUME TypeOK, Inductive, UNCHANGED <<evidence, enrichment>>,
         pc' \notin Working,
         \A v \in Version : status'[v] \in Queryable => status'[v] = status[v]
  PROVE  Inductive'
<1>1. QueryableIsCurrent'
  BY DEF Inductive, QueryableIsCurrent, HoldsSource, evidence, enrichment
<1>2. WorkProgress'
  BY DEF WorkProgress, Working, Building
<1>3. ReadyOwesNothing'
  BY DEF Inductive, ReadyOwesNothing, enrichment, Queryable
<1> QED
  BY <1>1, <1>2, <1>3 DEF Inductive

LEMMA MarkFailedServesNothing ==
  ASSUME TypeOK, NEW v \in Version, MarkVersionFailed(v)
  PROVE  \A w \in Version : status'[w] \in Queryable => status'[w] = status[w]
  BY DEF TypeOK, MarkVersionFailed, Queryable

LEMMA StepInterrupted ==
  ASSUME TypeOK, Inductive,
         WorkRaises \/ Report \/ WorkFindsNoRow \/ Kill \/ ReconcileInterrupted \/ StartCli
  PROVE  Inductive'
<1>1. pc' \notin Working /\ UNCHANGED <<evidence, enrichment>>
  BY DEF WorkRaises, Report, WorkFindsNoRow, Kill, ReconcileInterrupted, StartCli, Ends, rows,
         Working, Building
<1>2. \A v \in Version : status'[v] \in Queryable => status'[v] = status[v]
  <2>1. CASE WorkRaises
    <3>1. cur \in Version
      BY <2>1 DEF TypeOK, WorkRaises
    <3> QED
      BY <2>1, <3>1, MarkFailedServesNothing DEF WorkRaises
  <2>2. CASE ReconcileInterrupted
    BY <2>2 DEF TypeOK, ReconcileInterrupted, Queryable
  <2> QED
    BY <2>1, <2>2 DEF Report, WorkFindsNoRow, Kill, StartCli, rows
<1> QED
  BY <1>1, <1>2, StepEnds

LEMMA StepVerify ==
  ASSUME TypeOK, Inductive, Verify
  PROVE  Inductive'
<1>1. cur \in Version
  BY DEF TypeOK, Verify, Working, Building
<1>2. CASE pc' = "activate" /\ UNCHANGED <<status, cur, page, todo, done>>
  BY <1>2 DEF Inductive, QueryableIsCurrent, HoldsSource, WorkProgress, PageCurrent,
              ReadyOwesNothing, Verify, evidence, enrichment, Building
<1>3. CASE MarkVersionFailed(cur) /\ Ends("idle")
  <2>1. pc' \notin Working
    BY <1>3 DEF Ends, Working, Building
  <2> QED
    BY <1>1, <1>3, <2>1, StepEnds, MarkFailedServesNothing DEF Verify
<1> QED
  BY <1>2, <1>3 DEF Verify

(* What an activation must know of the row it activates.                       *)
LEMMA ActivateServesCurrent ==
  ASSUME TypeOK, Inductive, NEW v \in Version, HoldsSource(v), Activate(v, GradeOf(v)),
         UNCHANGED <<unit, vector, leftover, tableFacts, facts, failures>>
  PROVE  QueryableIsCurrent' /\ ReadyOwesNothing'
<1>1. \A w \in Version : w # v => status'[w] \in {"inactive", status[w]}
  BY DEF Activate
<1>2. status'[v] = GradeOf(v)
  BY DEF TypeOK, Activate
<1> QED
  BY <1>1, <1>2 DEF Inductive, QueryableIsCurrent, HoldsSource, ReadyOwesNothing, GradeOf, Queryable

LEMMA StepActivate ==
  ASSUME TypeOK, Inductive, ActivateVersion
  PROVE  Inductive'
<1>1. cur \in Version /\ status[cur] = "building"
  BY BuildsOnlyItsRow DEF Inductive, ActivateVersion, Building
<1>2. HoldsSource(cur)
  <2>1. \A p \in Pages : PageCurrent(p)
    BY <1>1 DEF Inductive, WorkProgress, ActivateVersion, Building
  <2>2. leftover[cur] = {}
    BY <1>1, <2>1 DEF TypeOK, Inductive, WorkProgress, PageCurrent, ActivateVersion, Building
  <2> QED
    BY <1>1, <2>1, <2>2 DEF Inductive, WorkProgress, PageCurrent, HoldsSource, ActivateVersion, Building
<1>3. QueryableIsCurrent' /\ ReadyOwesNothing'
  BY <1>1, <1>2, ActivateServesCurrent DEF ActivateVersion, evidence, enrichment
<1>4. WorkProgress'
  BY <1>1 DEF TypeOK, WorkProgress, ActivateVersion, Activate, GradeOf, Building, Queryable
<1> QED
  BY <1>3, <1>4 DEF Inductive

LEMMA StepRetry ==
  ASSUME TypeOK, Inductive, NEW d \in Docs, RetryFailedFacts(d)
  PROVE  Inductive'
  BY DEF TypeOK, Inductive, QueryableIsCurrent, HoldsSource, WorkProgress, ReadyOwesNothing,
         RetryFailedFacts, rows, evidence, enrichment, Building

LEMMA StepRetryCandidate ==
  ASSUME TypeOK, Inductive, RetryCandidate
  PROVE  Inductive'
<1>1. cur \in Version /\ status[cur] = "degraded"
  BY DEF TypeOK, Inductive, WorkProgress, ReadyOwesNothing, RetryCandidate, Working, Queryable
<1>2. \A v \in Version, c \in ClaimPages : facts[v][c] # "stale" => facts'[v][c] # "stale"
  <2>1. CASE facts' = facts
    BY <2>1
  <2>2. ASSUME NEW c \in ClaimPages, CandidateSucceeds(c, "filename")
        PROVE  \A v \in Version, e \in ClaimPages :
                 facts[v][e] # "stale" => facts'[v][e] # "stale"
    BY <1>1, <2>2 DEF TypeOK, CandidateSucceeds
  <2> QED
    BY <2>1, <2>2 DEF RetryCandidate, CandidateFails
<1>3. \A v \in Version : v # cur => failures'[v] = failures[v]
  BY <1>1 DEF TypeOK, RetryCandidate, CandidateSucceeds, CandidateFails
<1>4. QueryableIsCurrent'
  BY <1>2 DEF Inductive, QueryableIsCurrent, HoldsSource, RetryCandidate, evidence
<1>5. todo' \subseteq failures'[cur]
  <2>1. PICK c \in todo :
          /\ todo' = todo \ {c}
          /\ \/ failures' = [failures EXCEPT ![cur] = @ \ {c}]
             \/ failures' = [failures EXCEPT ![cur] = @ \union {c}]
    BY DEF RetryCandidate, CandidateSucceeds, CandidateFails
  <2>2. todo \subseteq failures[cur]
    BY <1>1 DEF Inductive, WorkProgress, RetryCandidate
  <2> QED
    BY <1>1, <2>1, <2>2 DEF TypeOK
<1>6. WorkProgress'
  BY <1>1, <1>5 DEF WorkProgress, RetryCandidate, Building, Queryable
<1>7. ReadyOwesNothing'
  BY <1>1, <1>3 DEF Inductive, ReadyOwesNothing, RetryCandidate
<1> QED
  BY <1>4, <1>6, <1>7 DEF Inductive

LEMMA StepSettle ==
  ASSUME TypeOK, Inductive, SettleRetry
  PROVE  Inductive'
<1>1. cur \in Version /\ status[cur] \in Queryable
  BY DEF TypeOK, Inductive, WorkProgress, SettleRetry, Working
<1>2. HoldsSource(cur)
  BY <1>1 DEF Inductive, QueryableIsCurrent
<1>3. QueryableIsCurrent' /\ ReadyOwesNothing'
  BY <1>1, <1>2, ActivateServesCurrent DEF SettleRetry, evidence
<1>4. WorkProgress'
  BY DEF WorkProgress, SettleRetry, Ends, Building
<1> QED
  BY <1>3, <1>4 DEF Inductive

LEMMA StepRemove ==
  ASSUME TypeOK, Inductive, NEW d \in Docs, RemoveDocument(d)
  PROVE  Inductive'
<1>1. \A v \in Version :
        \/ status'[v] = "absent"
        \/ /\ status'[v] = status[v] /\ unit'[v] = unit[v] /\ vector'[v] = vector[v]
           /\ leftover'[v] = leftover[v] /\ tableFacts'[v] = tableFacts[v]
           /\ facts'[v] = facts[v] /\ failures'[v] = failures[v]
  BY DEF RemoveDocument
<1>2. QueryableIsCurrent'
  BY <1>1 DEF Inductive, QueryableIsCurrent, HoldsSource, Queryable
<1>3. WorkProgress'
  <2>1. UNCHANGED <<pc, cur, page, todo>> /\ (pc \in Working => cur \in Version)
    BY DEF TypeOK, RemoveDocument, worker
  <2> QED
    BY <1>1, <2>1 DEF Inductive, WorkProgress, PageCurrent, Working, Building
<1>4. ReadyOwesNothing'
  BY <1>1 DEF Inductive, ReadyOwesNothing
<1> QED
  BY <1>2, <1>3, <1>4 DEF Inductive

LEMMA StepInductive ==
  ASSUME TypeOK, VectorsMatchText, Inductive, [Next]_vars
  PROVE  Inductive'
<1>1. CASE UNCHANGED vars
  BY <1>1 DEF Inductive, QueryableIsCurrent, HoldsSource, WorkProgress, PageCurrent,
              ReadyOwesNothing, vars, rows, worker, evidence, enrichment
<1> QED
  BY <1>1, StepStart, StepPages, StepEmbed, StepNarrative, StepVerify, StepActivate, StepRetry,
     StepRetryCandidate, StepSettle, StepRemove, StepInterrupted DEF Next, WorkerStep

LEMMA AlwaysInductive == Spec => []Inductive
  BY InitInductive, StepInductive, TypeCorrect, VectorsAreOfTheirText, PTL DEF Spec

\* A version that answers queries holds exactly what its source yields, whatever
\* earlier attempts, kills and failures left in its rows.
THEOREM ServesWhatTheSourceYields == Spec => []QueryableIsCurrent
  BY AlwaysInductive, PTL DEF Inductive

\* Each phase of the build, and of a retry, has what the next one relies on; the
\* checks never reject what a resumed attempt started from.
THEOREM PhasesHold == Spec => []WorkProgress
  BY AlwaysInductive, PTL DEF Inductive

\* A version reported ready owes no candidate.
THEOREM ReadyIsComplete == Spec => []ReadyOwesNothing
  BY AlwaysInductive, PTL DEF Inductive

-----------------------------------------------------------------------------
(* The coverage.  What is owed is counted while it is asked for: in a build    *)
(* the candidates still to ask or failed, with the answers so far, are no more *)
(* than there are; in a retry what is owed, with what was answered before and  *)
(* in this retry, is no more than the stored total.                            *)

OwedBy(v) == failures[v] \cap ClaimPages
Unanswered == (todo \union failures[cur]) \cap ClaimPages
Silent(S, v) == \A c \in S : facts[v][c] = "none"

\* A build without narrative facts owes and counts nothing.
NarrativeOnly ==
  /\ \A v \in Version : FpOf(v) \notin NarrativeFps =>
       failures[v] = {} /\ succeeded[v] = 0 /\ total[v] = 0
  /\ pc = "narrative" => FpOf(cur) \in NarrativeFps

\* What is not answered has no fact, and adds up.
BuildAddsUp ==
  pc \in {"tables", "narrative", "verify", "activate"} /\ status[cur] # "absent" =>
    /\ pc = "tables" => Silent(ClaimPages, cur)
    /\ pc = "narrative" =>
         Silent(Unanswered, cur) /\ done + Cardinality(Unanswered) <= Cardinality(ClaimPages)
    /\ pc \in {"verify", "activate"} =>
         Silent(OwedBy(cur), cur) /\ succeeded[cur] + Cardinality(OwedBy(cur)) <= total[cur]

RetryAddsUp ==
  pc = "retry" /\ status[cur] # "absent" =>
    succeeded[cur] + done + Cardinality(OwedBy(cur)) <= total[cur]

Coverage ==
  NarrativeOnly /\ BuildAddsUp /\ RetryAddsUp /\ OwedCandidateHasNoFact /\ CoverageNotOverstated

LEMMA ClaimSubsets ==
  ASSUME NEW S \in SUBSET ClaimPages
  PROVE  /\ Cardinality(S) \in Nat /\ Cardinality(S) <= Cardinality(ClaimPages)
         /\ \A c \in S : Cardinality(S \ {c}) = Cardinality(S) - 1
<1>1. IsFiniteSet(S)
  BY ClaimPagesFinite, FS_Subset
<1>2. Cardinality(S) <= Cardinality(ClaimPages)
  BY ClaimPagesFinite, FS_Subset
<1> QED
  BY <1>1, <1>2, FS_RemoveElement, FS_CardinalityType

LEMMA InitCoverage == Init => Coverage
<1> SUFFICES ASSUME Init PROVE Coverage
  OBVIOUS
<1>1. \A v \in Version : status[v] \notin Queryable
  BY ConstantsAssumption DEF Init, Queryable, Seed
<1>2. NarrativeOnly
  <2>1. pc = "idle" /\ succeeded = [v \in Version |-> 0] /\ total = [v \in Version |-> 0]
    BY DEF Init
  <2>2. \A v \in Version : FpOf(v) \notin NarrativeFps => failures[v] = {}
    BY DEF Init
  <2> QED
    BY <2>1, <2>2 DEF NarrativeOnly
<1>3. BuildAddsUp /\ RetryAddsUp
  BY DEF Init, BuildAddsUp, RetryAddsUp
<1> QED
  BY <1>1, <1>2, <1>3 DEF Coverage, OwedCandidateHasNoFact, CoverageNotOverstated

(* A step that touches neither facts nor counts, takes nothing into service     *)
(* and does not lead into the phases that count.                                *)
LEMMA StepUncounted ==
  ASSUME Coverage, UNCHANGED <<facts, failures, total, succeeded>>,
         \A v \in Version : status'[v] \in Queryable => status[v] \in Queryable,
         pc' \notin {"tables", "narrative", "verify", "activate", "retry"}
  PROVE  Coverage'
  BY DEF Coverage, NarrativeOnly, BuildAddsUp, RetryAddsUp, OwedCandidateHasNoFact,
         CoverageNotOverstated

LEMMA StepElsewhere ==
  ASSUME TypeOK, Coverage,
         \/ \E v \in Version, force \in BOOLEAN : StartVersion(v, force)
         \/ IndexPage \/ DeleteStalePages \/ EmbedBatch
         \/ WorkRaises \/ Report \/ WorkFindsNoRow \/ Kill \/ ReconcileInterrupted \/ StartCli
  PROVE  Coverage'
<1>1. UNCHANGED <<facts, failures, total, succeeded>>
  BY DEF StartVersion, IndexPage, DeleteStalePages, EmbedBatch, WorkRaises, Report, WorkFindsNoRow,
         Kill, ReconcileInterrupted, StartCli, rows, enrichment
<1>2. pc' \notin {"tables", "narrative", "verify", "activate", "retry"}
  BY DEF StartVersion, IndexPage, DeleteStalePages, EmbedBatch, WorkRaises, Report, WorkFindsNoRow,
         Kill, ReconcileInterrupted, StartCli, Ends
<1>3. \A v \in Version : status'[v] \in Queryable => status[v] \in Queryable
  <2>1. CASE UNCHANGED status
    BY <2>1
  <2>2. ASSUME NEW v \in Version, NEW force \in BOOLEAN, StartVersion(v, force)
        PROVE  \A w \in Version : status'[w] \in Queryable => status[w] \in Queryable
    BY <2>2 DEF TypeOK, StartVersion, Queryable
  <2>3. CASE WorkRaises
    BY <2>3 DEF TypeOK, WorkRaises, MarkVersionFailed, Queryable
  <2>4. CASE ReconcileInterrupted
    BY <2>4 DEF ReconcileInterrupted, Queryable
  <2> QED
    BY <2>1, <2>2, <2>3, <2>4 DEF IndexPage, DeleteStalePages, EmbedBatch, Report, WorkFindsNoRow,
       Kill, StartCli, rows
<1> QED
  BY <1>1, <1>2, <1>3, StepUncounted

LEMMA StepFacts ==
  ASSUME TypeOK, WorkProgress, Coverage, DeleteFacts \/ StoreTableFacts
  PROVE  Coverage'
<1>1. /\ cur \in Version /\ status[cur] = "building" /\ status[cur] \notin Queryable
      /\ cur' = cur /\ UNCHANGED <<status, failures, total, succeeded>>
  BY BuildsOnlyItsRow DEF DeleteFacts, StoreTableFacts, Building
<1>2. /\ \A v \in Version : v # cur => facts'[v] = facts[v]
      /\ Silent(ClaimPages, cur)'
  <2>1. CASE DeleteFacts
    BY <1>1, <2>1 DEF TypeOK, DeleteFacts, NoFacts, Silent
  <2>2. CASE StoreTableFacts
    BY <1>1, <2>2 DEF StoreTableFacts, Coverage, BuildAddsUp, Silent
  <2> QED
    BY <2>1, <2>2
<1>3. OwedCandidateHasNoFact' /\ CoverageNotOverstated'
  BY <1>1, <1>2 DEF Coverage, OwedCandidateHasNoFact, CoverageNotOverstated
<1>4. NarrativeOnly' /\ RetryAddsUp'
  BY <1>1 DEF DeleteFacts, StoreTableFacts, Coverage, NarrativeOnly, RetryAddsUp
<1>5. BuildAddsUp'
  <2>1. CASE pc' = "tables"
    BY <1>2, <2>1 DEF BuildAddsUp
  <2>2. CASE pc' = "narrative"
    <3>1. /\ todo' = ClaimPages /\ done' = 0
      BY <2>2 DEF DeleteFacts, StoreTableFacts
    <3>2. Unanswered' = ClaimPages
      BY <3>1 DEF Unanswered
    <3> QED
      BY <1>2, <2>2, <3>1, <3>2, ClaimPagesFinite DEF BuildAddsUp
  <2>3. CASE pc' = "verify"
    <3>1. FpOf(cur) \notin NarrativeFps
      BY <2>3 DEF DeleteFacts, StoreTableFacts
    <3>2. OwedBy(cur)' = {} /\ succeeded'[cur'] = 0 /\ total'[cur'] = 0
      BY <1>1, <3>1 DEF Coverage, NarrativeOnly, OwedBy
    <3> QED
      BY <1>1, <2>3, <3>2, FS_EmptySet DEF BuildAddsUp, Silent
  <2> QED
    BY <2>1, <2>2, <2>3 DEF DeleteFacts, StoreTableFacts
<1> QED
  BY <1>3, <1>4, <1>5 DEF Coverage

(* What is left after one candidate, in a build or in a retry.                 *)
LEMMA CandidateSettled ==
  ASSUME TypeOK, cur \in Version, NEW c \in ClaimPages, NEW subject,
         CandidateSucceeds(c, subject) \/ CandidateFails(c)
  PROVE  /\ \A v \in Version : v # cur => facts'[v] = facts[v] /\ failures'[v] = failures[v]
         /\ \A e \in ClaimPages : e # c => facts'[cur][e] = facts[cur][e]
         /\ \/ failures'[cur] = failures[cur] \ {c} /\ done' = done + 1
            \/ /\ failures'[cur] = failures[cur] \union {c} /\ done' = done
               /\ facts' = facts
<1>1. CASE CandidateFails(c)
  BY <1>1 DEF TypeOK, CandidateFails
<1>2. CASE CandidateSucceeds(c, subject)
  <2>1. PICK kept \in BOOLEAN :
          facts' = [facts EXCEPT ![cur][c] = IF kept THEN subject ELSE @]
    BY <1>2 DEF CandidateSucceeds
  <2> QED
    BY <1>2, <2>1 DEF TypeOK, CandidateSucceeds
<1> QED
  BY <1>1, <1>2

LEMMA StepExtract ==
  ASSUME TypeOK, WorkProgress, Coverage, ExtractCandidate
  PROVE  Coverage'
<1>1. /\ cur \in Version /\ status[cur] = "building" /\ status[cur] \notin Queryable
      /\ UNCHANGED <<cur, pc, status, total, succeeded>> /\ pc = "narrative"
  BY BuildsOnlyItsRow DEF ExtractCandidate, Building
<1>2. PICK c \in todo : (CandidateSucceeds(c, "entity") \/ CandidateFails(c)) /\ todo' = todo \ {c}
  BY DEF ExtractCandidate
<1>3. c \in ClaimPages /\ todo \subseteq ClaimPages /\ done \in Nat
  BY <1>1 DEF TypeOK
<1>4. /\ \A v \in Version : v # cur => facts'[v] = facts[v] /\ failures'[v] = failures[v]
      /\ \A e \in ClaimPages : e # c => facts'[cur][e] = facts[cur][e]
      /\ \/ failures'[cur] = failures[cur] \ {c} /\ done' = done + 1
         \/ failures'[cur] = failures[cur] \union {c} /\ done' = done /\ facts' = facts
  BY <1>1, <1>2, <1>3, CandidateSettled
<1>5. Unanswered \in SUBSET ClaimPages /\ c \in Unanswered
  BY <1>3 DEF Unanswered
<1>6. \/ Unanswered' = Unanswered \ {c} /\ done' = done + 1
      \/ Unanswered' = Unanswered /\ done' = done /\ facts' = facts
  BY <1>1, <1>2, <1>3, <1>4 DEF Unanswered
<1>7. BuildAddsUp'
  <2>1. Silent(Unanswered, cur) /\ done + Cardinality(Unanswered) <= Cardinality(ClaimPages)
    BY <1>1 DEF Coverage, BuildAddsUp
  <2>2. Silent(Unanswered, cur)'
    BY <1>1, <1>4, <1>5, <1>6, <2>1 DEF Silent
  <2>3. done' + Cardinality(Unanswered') <= Cardinality(ClaimPages)
    BY <1>3, <1>5, <1>6, <2>1, ClaimSubsets, ClaimPagesFinite
  <2> QED
    BY <1>1, <2>2, <2>3 DEF BuildAddsUp
<1>8. OwedCandidateHasNoFact' /\ CoverageNotOverstated'
  BY <1>1, <1>4 DEF Coverage, OwedCandidateHasNoFact, CoverageNotOverstated
<1>9. NarrativeOnly' /\ RetryAddsUp'
  BY <1>1, <1>4 DEF Coverage, NarrativeOnly, RetryAddsUp
<1> QED
  BY <1>7, <1>8, <1>9 DEF Coverage

LEMMA StepSetCoverage ==
  ASSUME TypeOK, WorkProgress, Coverage, SetFactCoverage
  PROVE  Coverage'
<1>1. /\ cur \in Version /\ status[cur] = "building" /\ status[cur] \notin Queryable
      /\ UNCHANGED <<cur, status, facts, failures>> /\ pc = "narrative" /\ pc' = "verify" /\ todo = {}
  BY BuildsOnlyItsRow DEF SetFactCoverage, Building
<1>2. /\ \A v \in Version : v # cur => total'[v] = total[v] /\ succeeded'[v] = succeeded[v]
      /\ total'[cur] = Cardinality(ClaimPages) /\ succeeded'[cur] = done
  BY <1>1 DEF TypeOK, SetFactCoverage
<1>3. Unanswered = OwedBy(cur)
  BY <1>1 DEF Unanswered, OwedBy
<1>4. BuildAddsUp'
  BY <1>1, <1>2, <1>3 DEF Coverage, BuildAddsUp, OwedBy, Silent
<1>5. NarrativeOnly' /\ RetryAddsUp'
  BY <1>1, <1>2 DEF Coverage, NarrativeOnly, RetryAddsUp
<1>6. OwedCandidateHasNoFact' /\ CoverageNotOverstated'
  BY <1>1, <1>2 DEF Coverage, OwedCandidateHasNoFact, CoverageNotOverstated
<1> QED
  BY <1>4, <1>5, <1>6 DEF Coverage

LEMMA StepVerifyCoverage ==
  ASSUME TypeOK, Coverage, Verify
  PROVE  Coverage'
<1>1. CASE pc' = "activate" /\ UNCHANGED <<status, cur, page, todo, done>>
  BY <1>1 DEF Coverage, NarrativeOnly, BuildAddsUp, RetryAddsUp, OwedCandidateHasNoFact,
              CoverageNotOverstated, OwedBy, Silent, Verify, enrichment
<1>2. CASE MarkVersionFailed(cur) /\ Ends("idle")
  <2>1. \A v \in Version : status'[v] \in Queryable => status[v] \in Queryable
    BY <1>2 DEF TypeOK, MarkVersionFailed, Queryable
  <2> QED
    BY <1>2, <2>1, StepUncounted DEF Verify, Ends, enrichment
<1> QED
  BY <1>1, <1>2 DEF Verify

(* What an activation must know of the coverage it puts into service.          *)
LEMMA ActivateServesCounted ==
  ASSUME TypeOK, Coverage, NEW v \in Version, NEW st, Activate(v, st),
         UNCHANGED <<facts, failures, total>>,
         \A w \in Version : w # v => succeeded'[w] = succeeded[w],
         Silent(OwedBy(v), v), succeeded'[v] + Cardinality(OwedBy(v)) <= total[v]
  PROVE  OwedCandidateHasNoFact' /\ CoverageNotOverstated'
<1>1. \A w \in Version : w # v => status'[w] \in {"inactive", status[w]}
  BY DEF Activate
<1> QED
  BY <1>1 DEF Coverage, OwedCandidateHasNoFact, CoverageNotOverstated, OwedBy, Silent, Queryable

LEMMA StepActivateCoverage ==
  ASSUME TypeOK, WorkProgress, Coverage, ActivateVersion
  PROVE  Coverage'
<1>1. cur \in Version
  BY BuildsOnlyItsRow DEF ActivateVersion, Building
<1>2. Silent(OwedBy(cur), cur) /\ succeeded[cur] + Cardinality(OwedBy(cur)) <= total[cur]
  BY DEF ActivateVersion, Coverage, BuildAddsUp
<1>3. OwedCandidateHasNoFact' /\ CoverageNotOverstated'
  BY <1>1, <1>2, ActivateServesCounted DEF ActivateVersion, enrichment
<1>4. NarrativeOnly' /\ BuildAddsUp' /\ RetryAddsUp'
  BY DEF ActivateVersion, enrichment, Coverage, NarrativeOnly, BuildAddsUp, RetryAddsUp
<1> QED
  BY <1>3, <1>4 DEF Coverage

LEMMA StepRetryCoverage ==
  ASSUME TypeOK, Coverage, NEW d \in Docs, RetryFailedFacts(d)
  PROVE  Coverage'
<1>1. PICK v \in Version : status[v] \in Queryable /\ cur' = v
  BY DEF RetryFailedFacts
<1>2. succeeded[v] \in Nat
  BY DEF TypeOK
<1>3. RetryAddsUp'
  BY <1>1, <1>2 DEF RetryFailedFacts, rows, enrichment, Coverage, CoverageNotOverstated, RetryAddsUp, OwedBy
<1> QED
  BY <1>3 DEF RetryFailedFacts, rows, enrichment, Coverage, NarrativeOnly, BuildAddsUp,
     OwedCandidateHasNoFact, CoverageNotOverstated

LEMMA StepRetryCandidateCoverage ==
  ASSUME TypeOK, WorkProgress, Coverage, RetryCandidate
  PROVE  Coverage'
<1>1. /\ cur \in Version /\ status[cur] \in Queryable /\ todo \subseteq failures[cur]
      /\ UNCHANGED <<cur, pc, status, total, succeeded>> /\ pc = "retry" /\ status[cur] # "absent"
  BY DEF TypeOK, WorkProgress, RetryCandidate, Working
<1>2. PICK c \in todo :
        \/ /\ c \notin ClaimPages /\ failures' = [failures EXCEPT ![cur] = @ \ {c}]
           /\ UNCHANGED <<facts, done>>
        \/ c \in ClaimPages /\ (CandidateSucceeds(c, "filename") \/ CandidateFails(c))
  BY DEF RetryCandidate
<1>3. /\ \A v \in Version : v # cur => facts'[v] = facts[v] /\ failures'[v] = failures[v]
      /\ \/ OwedBy(cur)' = OwedBy(cur) /\ done' = done /\ facts' = facts
         \/ /\ c \in OwedBy(cur) /\ OwedBy(cur)' = OwedBy(cur) \ {c} /\ done' = done + 1
            /\ \A e \in ClaimPages : e # c => facts'[cur][e] = facts[cur][e]
      /\ failures'[cur] \subseteq failures[cur]
  <2>1. CASE c \notin ClaimPages /\ failures' = [failures EXCEPT ![cur] = @ \ {c}] /\ UNCHANGED <<facts, done>>
    BY <1>1, <2>1 DEF TypeOK, OwedBy
  <2>2. CASE c \in ClaimPages /\ (CandidateSucceeds(c, "filename") \/ CandidateFails(c))
    <3>1. /\ \A v \in Version : v # cur => facts'[v] = facts[v] /\ failures'[v] = failures[v]
          /\ \A e \in ClaimPages : e # c => facts'[cur][e] = facts[cur][e]
          /\ \/ failures'[cur] = failures[cur] \ {c} /\ done' = done + 1
             \/ failures'[cur] = failures[cur] \union {c} /\ done' = done /\ facts' = facts
      BY <1>1, <2>2, CandidateSettled
    <3> QED
      BY <1>1, <2>2, <3>1 DEF OwedBy
  <2> QED
    BY <1>2, <2>1, <2>2
<1>4. OwedBy(cur) \in SUBSET ClaimPages /\ succeeded[cur] \in Nat /\ total[cur] \in Nat /\ done \in Nat
  BY <1>1 DEF TypeOK, OwedBy
<1>5. succeeded[cur] + done + Cardinality(OwedBy(cur)) <= total[cur]
  BY <1>1 DEF Coverage, RetryAddsUp
<1>6. succeeded[cur] + done' + Cardinality(OwedBy(cur)') <= total[cur] /\ done' \in Nat
  BY <1>3, <1>4, <1>5, ClaimSubsets
<1>7. RetryAddsUp' /\ BuildAddsUp'
  BY <1>1, <1>6 DEF RetryAddsUp, BuildAddsUp
<1>8. OwedCandidateHasNoFact'
  BY <1>1, <1>3 DEF Coverage, OwedCandidateHasNoFact, OwedBy
<1>9. CoverageNotOverstated'
  <2>1. succeeded[cur] + Cardinality(OwedBy(cur)') <= total[cur]
    <3>1. Cardinality(OwedBy(cur)') \in Nat
      BY <1>3, <1>4, ClaimSubsets
    <3> QED
      BY <1>4, <1>6, <3>1
  <2> QED
    BY <1>1, <1>3, <2>1 DEF Coverage, CoverageNotOverstated, OwedBy
<1>10. NarrativeOnly'
  BY <1>1, <1>3 DEF Coverage, NarrativeOnly
<1> QED
  BY <1>7, <1>8, <1>9, <1>10 DEF Coverage

LEMMA StepSettleCoverage ==
  ASSUME TypeOK, WorkProgress, Coverage, SettleRetry
  PROVE  Coverage'
<1>1. /\ cur \in Version /\ status[cur] \in Queryable /\ pc = "retry" /\ status[cur] # "absent"
  BY DEF TypeOK, WorkProgress, SettleRetry, Working
<1>2. /\ \A w \in Version : w # cur => succeeded'[w] = succeeded[w]
      /\ succeeded'[cur] = succeeded[cur] + done
  BY <1>1 DEF TypeOK, SettleRetry
<1>3. Silent(OwedBy(cur), cur) /\ succeeded'[cur] + Cardinality(OwedBy(cur)) <= total[cur]
  BY <1>1, <1>2 DEF Coverage, OwedCandidateHasNoFact, RetryAddsUp, OwedBy, Silent
<1>4. OwedCandidateHasNoFact' /\ CoverageNotOverstated'
  BY <1>1, <1>2, <1>3, ActivateServesCounted DEF SettleRetry
<1>5. BuildAddsUp' /\ RetryAddsUp'
  BY DEF SettleRetry, Ends, BuildAddsUp, RetryAddsUp
<1>6. NarrativeOnly'
  <2>1. FpOf(cur) \notin NarrativeFps => succeeded'[cur] = 0
    <3> SUFFICES ASSUME FpOf(cur) \notin NarrativeFps PROVE succeeded'[cur] = 0
      OBVIOUS
    <3>1. succeeded[cur] = 0 /\ total[cur] = 0 /\ OwedBy(cur) = {}
      BY <1>1 DEF Coverage, NarrativeOnly, OwedBy
    <3>2. done \in Nat /\ 0 + done + 0 <= 0
      BY <1>1, <3>1, FS_EmptySet DEF TypeOK, Coverage, RetryAddsUp
    <3> QED
      BY <1>2, <3>1, <3>2
  <2> QED
    BY <1>2, <2>1 DEF Coverage, NarrativeOnly, SettleRetry, Ends
<1> QED
  BY <1>4, <1>5, <1>6 DEF Coverage

LEMMA StepRemoveCoverage ==
  ASSUME TypeOK, Coverage, NEW d \in Docs, RemoveDocument(d)
  PROVE  Coverage'
<1>1. \A v \in Version :
        \/ status'[v] = "absent" /\ failures'[v] = {} /\ total'[v] = 0 /\ succeeded'[v] = 0
        \/ /\ status'[v] = status[v] /\ facts'[v] = facts[v] /\ failures'[v] = failures[v]
           /\ total'[v] = total[v] /\ succeeded'[v] = succeeded[v]
  BY DEF RemoveDocument
<1>2. UNCHANGED <<pc, cur, todo, done>> /\ (pc \in Working => cur \in Version)
  BY DEF TypeOK, RemoveDocument, worker
<1>3. NarrativeOnly'
  BY <1>1, <1>2 DEF Coverage, NarrativeOnly
<1>4. BuildAddsUp' /\ RetryAddsUp'
  BY <1>1, <1>2 DEF Coverage, BuildAddsUp, RetryAddsUp, OwedBy, Unanswered, Silent, Working, Building
<1>5. OwedCandidateHasNoFact' /\ CoverageNotOverstated'
  BY <1>1 DEF Coverage, OwedCandidateHasNoFact, CoverageNotOverstated, Queryable
<1> QED
  BY <1>3, <1>4, <1>5 DEF Coverage

LEMMA StepCoverage ==
  ASSUME TypeOK, WorkProgress, Coverage, [Next]_vars
  PROVE  Coverage'
<1>1. CASE UNCHANGED vars
  BY <1>1 DEF Coverage, NarrativeOnly, BuildAddsUp, RetryAddsUp, OwedCandidateHasNoFact,
              CoverageNotOverstated, OwedBy, Unanswered, Silent, vars, rows, worker, enrichment
<1> QED
  BY <1>1, StepElsewhere, StepFacts, StepExtract, StepSetCoverage, StepVerifyCoverage,
     StepActivateCoverage, StepRetryCoverage, StepRetryCandidateCoverage, StepSettleCoverage,
     StepRemoveCoverage DEF Next, WorkerStep

LEMMA AlwaysCoverage == Spec => []Coverage
  BY InitCoverage, StepCoverage, TypeCorrect, PhasesHold, PTL DEF Spec

\* A candidate that is owed has left no fact behind, in any version that serves:
\* however builds are resumed and retries cut off, its facts and the end of its
\* failure are one commit (_store_narrative_candidate, retry_failed_facts).
THEOREM OwedLeavesNoFact == Spec => []OwedCandidateHasNoFact
  BY AlwaysCoverage, PTL DEF Coverage

\* The coverage a serving version reports never counts a candidate that is still
\* owed (set_fact_coverage, settle_fact_coverage).
THEOREM CoverageIsHonest == Spec => []CoverageNotOverstated
  BY AlwaysCoverage, PTL DEF Coverage

-----------------------------------------------------------------------------
(* The worker implements the abstract index: every step of Ingest is a step *)
(* of ServingIndex or leaves what serves as it was.                         *)

Served == [d \in Docs |-> ServedBuilds(d)]

(* What a build shows of a row, and of a row whose content is complete.     *)
SameRow(v) ==
  /\ status'[v] = status[v] /\ failures'[v] = failures[v]
  /\ unit'[v] = unit[v] /\ vector'[v] = vector[v]
  /\ leftover'[v] = leftover[v] /\ tableFacts'[v] = tableFacts[v]

LEMMA DocOfVersion == \A v \in Version : DocOf(v) \in Docs
  BY ConstantsAssumption DEF DocOf

LEMMA SameRowSameBuild ==
  ASSUME NEW v \in Version, SameRow(v)
  PROVE  BuildOf(v)' = BuildOf(v)
  BY DEF SameRow, BuildOf, ContentOf

(* Nothing that serves, before or after, is touched.                        *)
LEMMA ServesTheSame ==
  ASSUME NEW d \in Docs,
         \A v \in Version : DocOf(v) = d /\ (status[v] \in Queryable \/ status'[v] \in Queryable)
                              => SameRow(v)
  PROVE  ServedBuilds(d)' = ServedBuilds(d)
<1>1. Serving(d)' = Serving(d)
  BY DEF Serving, SameRow
<1>2. \A v \in Serving(d) : BuildOf(v)' = BuildOf(v)
  BY SameRowSameBuild DEF Serving
<1> QED
  BY <1>1, <1>2 DEF ServedBuilds

(* With one queryable version, what serves its document is that version.    *)
LEMMA ServedByOne ==
  ASSUME OneQueryableVersion, NEW v \in Version, status[v] \in Queryable
  PROVE  ServedBuilds(DocOf(v)) = {BuildOf(v)}
<1>1. Serving(DocOf(v)) = {v}
  BY DEF OneQueryableVersion, Serving
<1> QED
  BY <1>1 DEF ServedBuilds

(* A step that concerns the version serving one document after it.          *)
LEMMA OneDocumentChanges ==
  ASSUME OneQueryableVersion', NEW v \in Version, status'[v] \in Queryable,
         \A w \in Version : DocOf(w) # DocOf(v) => SameRow(w)
  PROVE  Served' = [Served EXCEPT ![DocOf(v)] = {BuildOf(v)'}]
<1>1. Serving(DocOf(v))' = {v}
  BY DEF OneQueryableVersion, Serving
<1>2. ServedBuilds(DocOf(v))' = {BuildOf(v)'}
  BY <1>1 DEF ServedBuilds
<1>3. \A d \in Docs : d # DocOf(v) => ServedBuilds(d)' = ServedBuilds(d)
  BY ServesTheSame
<1> QED
  BY <1>2, <1>3, DocOfVersion DEF Served

-----------------------------------------------------------------------------
(* One lemma for each kind of step that concerns what serves.               *)

LEMMA ActivationPublishes ==
  ASSUME TypeOK, TypeOK', Inductive, Inductive', OneQueryableVersion',
         NEW v \in Version, cur = v, ActivateVersion
  PROVE  Index!Publish(DocOf(v))
<1>1. status[v] = "building"
  BY BuildsOnlyItsRow DEF Inductive, ActivateVersion, Building
<1>2. status'[v] = GradeOf(v) /\ GradeOf(v) \in Queryable
  BY DEF TypeOK, ActivateVersion, Activate, GradeOf, Queryable
<1>3. HoldsSource(v)'
  BY <1>2 DEF Inductive, QueryableIsCurrent
<1> DEFINE b == [version |-> v, content |-> CompleteContent, owed |-> failures[v],
                 grade |-> GradeOf(v)]
<1>4. BuildOf(v)' = b
  <2>1. unit'[v] = [p \in Pages |-> "current"]
    BY <1>3 DEF TypeOK, HoldsSource
  <2>2. vector'[v] = [p \in Pages |-> "current"]
    BY <1>3 DEF TypeOK, HoldsSource
  <2>3. ContentOf(v)' = CompleteContent
    BY <1>3, <2>1, <2>2 DEF ContentOf, CompleteContent, HoldsSource
  <2> QED
    BY <1>2, <2>3 DEF BuildOf, ActivateVersion, enrichment
<1>5. \A w \in Version : DocOf(w) # DocOf(v) => SameRow(w)
  BY DEF ActivateVersion, Activate, SameRow, evidence, enrichment
<1>6. Served' = [Served EXCEPT ![DocOf(v)] = {b}]
  BY <1>2, <1>4, <1>5, OneDocumentChanges
<1>7. b \in Index!Build /\ (b.grade = "ready" <=> b.owed = {})
  BY DEF TypeOK, Index!Build, Index!Grades, GradeOf
<1>8. \A old \in ServedBuilds(DocOf(v)) : old.version # b.version
  BY <1>1 DEF ServedBuilds, Serving, BuildOf, Queryable
<1>9. b \in Served'[DocOf(v)] /\ Served[DocOf(v)] = ServedBuilds(DocOf(v))
  BY <1>6, DocOfVersion DEF Served
<1> QED
  BY <1>6, <1>7, <1>8, <1>9 DEF Index!Publish, Served

LEMMA RetryEnriches ==
  ASSUME TypeOK, Inductive, OneQueryableVersion, OneQueryableVersion',
         NEW v \in Version, cur = v, RetryCandidate
  PROVE  Index!Enrich(DocOf(v)) \/ Served' = Served
<1>1. status[v] \in Queryable /\ todo \subseteq failures[v] /\ status' = status
  BY DEF Inductive, WorkProgress, RetryCandidate
<1>2. Served[DocOf(v)] = {BuildOf(v)}
  BY <1>1, ServedByOne, DocOfVersion DEF Served
<1>3. \A w \in Version : w # v => SameRow(w)
  BY DEF TypeOK, RetryCandidate, CandidateSucceeds, CandidateFails, SameRow, evidence
<1>4. Served' = [Served EXCEPT ![DocOf(v)] = {BuildOf(v)'}]
  BY <1>1, <1>3, OneDocumentChanges
<1>5. PICK c \in todo : failures'[v] = failures[v] \ {c} \/ failures'[v] = failures[v] \union {c}
  BY DEF TypeOK, RetryCandidate, CandidateSucceeds, CandidateFails
<1>6. BuildOf(v)' = [BuildOf(v) EXCEPT !.owed = failures'[v]]
  BY <1>1 DEF BuildOf, ContentOf, RetryCandidate, evidence
<1>7. CASE failures'[v] = failures[v] \ {c}
  <2>1. BuildOf(v).owed = failures[v]
    BY DEF BuildOf
  <2>2. BuildOf(v)' = [BuildOf(v) EXCEPT !.owed = @ \ {c}]
    BY <1>6, <1>7, <2>1
  <2>3. BuildOf(v) \in Served[DocOf(v)] /\ c \in BuildOf(v).owed
    BY <1>1, <1>2, <2>1
  <2>4. Served' = [Served EXCEPT ![DocOf(v)] = {[BuildOf(v) EXCEPT !.owed = BuildOf(v).owed \ {c}]}]
    BY <1>4, <2>2
  <2> HIDE DEF BuildOf
  <2> QED
    BY <2>3, <2>4 DEF Index!Enrich, Served
<1>8. CASE failures'[v] = failures[v] \union {c}
  <2>1. BuildOf(v)' = BuildOf(v)
    BY <1>1, <1>6, <1>8 DEF BuildOf
  <2> QED
    BY <1>2, <1>4, <2>1, DocOfVersion DEF Served
<1> QED
  BY <1>5, <1>7, <1>8

LEMMA SettlingPromotes ==
  ASSUME TypeOK, Inductive, OneQueryableVersion, OneQueryableVersion',
         NEW v \in Version, cur = v, SettleRetry
  PROVE  Index!Promote(DocOf(v)) \/ Served' = Served
<1>1. status[v] \in Queryable
  BY DEF Inductive, WorkProgress, SettleRetry
<1>2. status'[v] = GradeOf(v) /\ GradeOf(v) \in Queryable
  BY DEF TypeOK, SettleRetry, Activate, GradeOf, Queryable
<1>3. Served[DocOf(v)] = {BuildOf(v)}
  BY <1>1, ServedByOne, DocOfVersion DEF Served
<1>4. \A w \in Version : DocOf(w) # DocOf(v) => SameRow(w)
  BY DEF SettleRetry, Activate, SameRow, evidence
<1>5. Served' = [Served EXCEPT ![DocOf(v)] = {BuildOf(v)'}]
  BY <1>2, <1>4, OneDocumentChanges
<1>6. BuildOf(v)' = [BuildOf(v) EXCEPT !.grade = GradeOf(v)]
  BY <1>2 DEF BuildOf, ContentOf, SettleRetry, evidence
<1>7. CASE status[v] = GradeOf(v)
  <2>1. BuildOf(v)' = BuildOf(v)
    BY <1>6, <1>7 DEF BuildOf
  <2> QED
    BY <1>3, <1>5, <2>1, DocOfVersion DEF Served
<1>8. CASE status[v] # GradeOf(v)
  <2>1. status[v] = "degraded" /\ failures[v] = {} /\ GradeOf(v) = "ready"
    BY <1>1, <1>8 DEF Inductive, ReadyOwesNothing, GradeOf, Queryable
  <2>2. BuildOf(v).grade = "degraded" /\ BuildOf(v).owed = {}
    BY <2>1 DEF BuildOf
  <2> QED
    BY <1>3, <1>5, <1>6, <2>1, <2>2 DEF Index!Promote, Served
<1> QED
  BY <1>7, <1>8

LEMMA RemovalWithdraws ==
  ASSUME NEW d \in Docs, RemoveDocument(d)
  PROVE  Index!Withdraw(d) \/ Served' = Served
<1>1. Serving(d)' = {}
  BY DEF Serving, RemoveDocument, Queryable
<1>2. ServedBuilds(d)' = {}
  BY <1>1 DEF ServedBuilds
<1>3. \A v \in Version : DocOf(v) # d => SameRow(v)
  BY DEF RemoveDocument, SameRow
<1>4. \A e \in Docs : e # d => ServedBuilds(e)' = ServedBuilds(e)
  BY <1>3, ServesTheSame
<1>5. Served' = [Served EXCEPT ![d] = {}]
  BY <1>2, <1>4 DEF Served
<1> QED
  BY <1>5 DEF Index!Withdraw, Served

-----------------------------------------------------------------------------
(* Every other step leaves alone the rows that serve.                       *)

LEMMA ServesTheSameEverywhere ==
  ASSUME \A v \in Version : status[v] \in Queryable \/ status'[v] \in Queryable => SameRow(v)
  PROVE  Served' = Served
<1>1. \A d \in Docs : ServedBuilds(d)' = ServedBuilds(d)
  BY ServesTheSame
<1> QED
  BY <1>1 DEF Served

LEMMA StartServesTheSame ==
  ASSUME TypeOK, NEW v \in Version, NEW force \in BOOLEAN, StartVersion(v, force)
  PROVE  Served' = Served
<1>1. status[v] \notin Queryable
  BY OpensNothingServing DEF StartVersion
<1> QED
  BY <1>1, ServesTheSameEverywhere
  DEF TypeOK, StartVersion, SameRow, Queryable, evidence, enrichment

LEMMA BuildServesTheSame ==
  ASSUME TypeOK, Inductive,
         \/ IndexPage \/ DeleteStalePages \/ EmbedBatch \/ DeleteFacts \/ StoreTableFacts
         \/ ExtractCandidate \/ SetFactCoverage \/ Verify
  PROVE  Served' = Served
<1>1. pc \in Building /\ status[cur] # "absent"
  BY DEF IndexPage, DeleteStalePages, EmbedBatch, DeleteFacts, StoreTableFacts,
         ExtractCandidate, SetFactCoverage, Verify, Building
<1>2. cur \in Version /\ status[cur] = "building" /\ status[cur] \notin Queryable
  BY <1>1, BuildsOnlyItsRow DEF Inductive
<1>3. \A v \in Version : v # cur => SameRow(v)
  BY <1>2
  DEF TypeOK, SameRow, IndexPage, UpsertEvidence, DeleteStalePages, EmbedBatch, DeleteFacts,
      StoreTableFacts, ExtractCandidate, CandidateSucceeds, CandidateFails, SetFactCoverage,
      Verify, MarkVersionFailed, evidence, enrichment
<1>4. status'[cur] \notin Queryable
  BY <1>2 DEF TypeOK, IndexPage, DeleteStalePages, EmbedBatch, DeleteFacts, StoreTableFacts,
              ExtractCandidate, SetFactCoverage, Verify, MarkVersionFailed, Queryable
<1> QED
  BY <1>2, <1>3, <1>4, ServesTheSameEverywhere

LEMMA InterruptionServesTheSame ==
  ASSUME TypeOK,
         \/ WorkRaises \/ Report \/ WorkFindsNoRow \/ Kill \/ ReconcileInterrupted \/ StartCli
         \/ \E d \in Docs : RetryFailedFacts(d)
         \/ UNCHANGED vars
  PROVE  Served' = Served
<1>1. \A v \in Version : status[v] \in Queryable \/ status'[v] \in Queryable
                           => status'[v] = status[v]
  <2>1. CASE WorkRaises
    BY <2>1 DEF TypeOK, WorkRaises, MarkVersionFailed, Queryable
  <2>2. CASE ReconcileInterrupted
    BY <2>2 DEF TypeOK, ReconcileInterrupted, Queryable
  <2> QED
    BY <2>1, <2>2 DEF Report, WorkFindsNoRow, Kill, StartCli, RetryFailedFacts, rows, vars
<1>2. UNCHANGED <<evidence, enrichment>>
  BY DEF WorkRaises, Report, WorkFindsNoRow, Kill, ReconcileInterrupted, StartCli,
         RetryFailedFacts, rows, vars
<1> QED
  BY <1>1, <1>2, ServesTheSameEverywhere DEF SameRow, evidence, enrichment

-----------------------------------------------------------------------------
LEMMA StepRefines ==
  ASSUME TypeOK, TypeOK', Inductive, Inductive', OneQueryableVersion, OneQueryableVersion',
         [Next]_vars
  PROVE  (\E d \in Docs : \/ Index!Publish(d) \/ Index!Enrich(d)
                          \/ Index!Promote(d) \/ Index!Withdraw(d))
         \/ Served' = Served
<1>1. pc \in Working => cur \in Version /\ DocOf(cur) \in Docs
  BY DocOfVersion DEF TypeOK
<1>2. CASE ActivateVersion
  BY <1>1, <1>2, ActivationPublishes DEF ActivateVersion, Working, Building
<1>3. CASE RetryCandidate
  BY <1>1, <1>3, RetryEnriches DEF RetryCandidate, Working
<1>4. CASE SettleRetry
  BY <1>1, <1>4, SettlingPromotes DEF SettleRetry, Working
<1> QED
  BY <1>2, <1>3, <1>4, RemovalWithdraws, StartServesTheSame, BuildServesTheSame,
     InterruptionServesTheSame DEF Next, WorkerStep

\* The worker implements the abstract index: a document is answered from nothing
\* or from one complete build, which appears in one step and is never rewritten.
THEOREM Refinement == Spec => ImplementsIndex
<1>1. Init => Index!Init
  <2> SUFFICES ASSUME Init, NEW d \in Docs PROVE ServedBuilds(d) = {}
    BY DEF Index!Init
  <2>1. \A v \in Version : status[v] \notin Queryable
    BY ConstantsAssumption DEF Init, Queryable, Seed
  <2> QED
    BY <2>1 DEF ServedBuilds, Serving
<1>2. ASSUME TypeOK, TypeOK', Inductive, Inductive', OneQueryableVersion, OneQueryableVersion',
             [Next]_vars
      PROVE  [Index!Next]_([d \in Docs |-> ServedBuilds(d)])
  BY <1>2, StepRefines DEF Index!Next, Served
<1> QED
  BY <1>1, <1>2, TypeCorrect, AlwaysInductive, AtMostOneServes, PTL
  DEF Spec, ImplementsIndex, Index!Spec

=============================================================================
