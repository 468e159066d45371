--------------------------- MODULE SessionsProofs ---------------------------
(***************************************************************************)
(* Proofs about Sessions, for every set of documents and of guards, and    *)
(* whichever processes make more than one call.                            *)
(***************************************************************************)
EXTENDS Sessions, TLAPS

WorkerSteps   == {"upsert", "find", "start", "build"}
FrontendSteps == {"list", "get", "delete", "commit"}
OperatorSteps == {"guards", "drop"}
SharedSteps   == {"ready", "returned", "marker", "empty", "install", "commit_install"}
Drafts  == {"none", "upserted", "deleted"}
DdlStates == {"none", "dropped", "installed"}
Answered == {"none", "error", "indexed", "unchanged", "listed", "not_found", "removed",
             "mismatch", "initialized", "refused"}

\* Who takes which steps.
CallTypes ==
  /\ pc \in [Processes -> WorkerSteps \union FrontendSteps \union OperatorSteps \union SharedSteps]
  /\ answer \in [Processes -> Answered]
  /\ doc \in [Processes -> Docs]
  /\ \A p \in Processes : /\ pc[p] \in WorkerSteps => p = Worker
                          /\ pc[p] \in FrontendSteps => p = Frontend
                          /\ pc[p] \in OperatorSteps => p = Operator

\* What each holds in its transaction; only the worker drafts a row.
HoldTypes ==
  /\ tx \in [Processes -> {"closed", "idle", "open", "failed"}]
  /\ draft \in [Processes -> [Docs -> Drafts]]
  /\ ddl \in [Processes -> DdlStates]
  /\ \A p \in Processes \ {Worker} : \A d \in Docs : draft[p][d] # "upserted"

\* What a reset found and is still there has its row, so that a reset meets an empty
\* database only where nothing of it is left; and one that goes on to init_schema
\* with something left has its drop in an open transaction.
ResetInvariant ==
  /\ schema \in {"current", "empty"}
  /\ schema = "empty" => serves = {} /\ document = {}
  /\ doomed \subseteq document
  /\ pc[Operator] \in {"install", "commit_install"} => doomed = {}
  /\ pc[Operator] = "marker" => doomed = {} \/ ddl[Operator] = "dropped"
  /\ pc[Operator] = "returned" /\ answer[Operator] \in {"initialized", "unchanged"} => doomed = {}

Inductive == CallTypes /\ HoldTypes /\ ResetInvariant

-----------------------------------------------------------------------------

LEMMA ProcessesDiffer ==
  /\ Worker \in Processes /\ Frontend \in Processes /\ Operator \in Processes
  /\ Worker # Frontend /\ Worker # Operator /\ Frontend # Operator
  BY DEF Processes, Worker, Frontend, Operator

LEMMA InitInductive == Init => Inductive
<1> SUFFICES ASSUME Init PROVE Inductive
  OBVIOUS
<1>1. /\ tx \in [Processes -> {"closed", "idle", "open", "failed"}]
      /\ ddl \in [Processes -> DdlStates] /\ answer \in [Processes -> Answered]
      /\ doc \in [Processes -> Docs]
  BY DEF Init, DdlStates, Answered
<1>2. draft \in [Processes -> [Docs -> Drafts]] /\ \A p \in Processes : draft[p] = NoDraft
  BY DEF Init, NoDraft, Drafts
<1>3. \A p \in Processes : pc[p] = "ready"
  BY DEF Init
<1>4. pc \in [Processes -> WorkerSteps \union FrontendSteps \union OperatorSteps \union SharedSteps]
  BY DEF Init, SharedSteps
<1>5. \A p \in Processes : \A d \in Docs : draft[p][d] = "none"
  BY <1>2 DEF NoDraft
<1>6. CallTypes /\ HoldTypes
  BY <1>1, <1>2, <1>3, <1>4, <1>5 DEF CallTypes, HoldTypes, WorkerSteps, FrontendSteps, OperatorSteps
<1>7. ResetInvariant
  BY <1>3, ProcessesDiffer DEF Init, ResetInvariant
<1> QED
  BY <1>6, <1>7 DEF Inductive

LEMMA AnswersTyped ==
  ASSUME CallTypes, NEW p \in Processes, NEW what \in Answered, Answers(p, what), UNCHANGED doc
  PROVE  CallTypes'
  BY DEF CallTypes, Answers, WorkerSteps, FrontendSteps, OperatorSteps, SharedSteps

LEMMA RollsBackTyped ==
  ASSUME HoldTypes, NEW p \in Processes, RollsBack(p)
  PROVE  HoldTypes'
  BY DEF HoldTypes, RollsBack, NoDraft, Drafts, DdlStates

-----------------------------------------------------------------------------
(* One lemma for each action.                                              *)

LEMMA OpenInductive ==
  ASSUME Inductive, NEW p \in Processes, Open(p)
  PROVE  Inductive'
<1>1. CallTypes'
  BY ProcessesDiffer DEF Inductive, Open, store, Answered, CallTypes, WorkerSteps, FrontendSteps, OperatorSteps, SharedSteps
<1>2. HoldTypes'
  BY ProcessesDiffer DEF Inductive, Open, store, CallTypes, HoldTypes, Drafts, DdlStates, WorkerSteps, FrontendSteps
<1>3. ResetInvariant'
  BY ProcessesDiffer DEF Inductive, Open, store, ResetInvariant, CallTypes, WorkerSteps, FrontendSteps, OperatorSteps, SharedSteps, HoldTypes, Drafts, DdlStates, Answered
<1> QED
  BY <1>1, <1>2, <1>3 DEF Inductive

LEMMA CloseInductive ==
  ASSUME Inductive, NEW p \in Processes, Close(p)
  PROVE  Inductive'
<1>1. CallTypes'
  BY ProcessesDiffer DEF Inductive, Close, NoDraft, store, Answered, CallTypes, WorkerSteps, FrontendSteps, OperatorSteps, SharedSteps
<1>2. HoldTypes'
  BY ProcessesDiffer DEF Inductive, Close, NoDraft, store, CallTypes, HoldTypes, Drafts, DdlStates, WorkerSteps, FrontendSteps
<1>3. ResetInvariant'
  BY ProcessesDiffer DEF Inductive, Close, NoDraft, store, ResetInvariant, CallTypes, WorkerSteps, FrontendSteps, OperatorSteps, SharedSteps, HoldTypes, Drafts, DdlStates, Answered
<1> QED
  BY <1>1, <1>2, <1>3 DEF Inductive

LEMMA UpsertInductive ==
  ASSUME Inductive, NEW p \in Processes, Upsert(p)
  PROVE  Inductive'
<1>1. CallTypes'
  BY ProcessesDiffer DEF Inductive, Upsert, Runs, store, Goes, Answered, CallTypes, WorkerSteps, FrontendSteps, OperatorSteps, SharedSteps
<1>2. HoldTypes'
  BY ProcessesDiffer DEF Inductive, Upsert, Runs, store, Goes, CallTypes, HoldTypes, Drafts, DdlStates, WorkerSteps, FrontendSteps
<1>3. ResetInvariant'
  BY ProcessesDiffer DEF Inductive, Upsert, Runs, store, Goes, ResetInvariant, CallTypes, WorkerSteps, FrontendSteps, OperatorSteps, SharedSteps, HoldTypes, Drafts, DdlStates, Answered
<1> QED
  BY <1>1, <1>2, <1>3 DEF Inductive

LEMMA FindVersionInductive ==
  ASSUME Inductive, NEW p \in Processes, FindVersion(p)
  PROVE  Inductive'
<1>1. CallTypes'
  BY ProcessesDiffer, AnswersTyped DEF Inductive, FindVersion, Runs, store, Goes, Answered, CallTypes, WorkerSteps, FrontendSteps, OperatorSteps, SharedSteps
<1>2. HoldTypes'
  BY ProcessesDiffer DEF Inductive, FindVersion, Runs, store, Goes, Answers, CallTypes, HoldTypes, Drafts, DdlStates, WorkerSteps, FrontendSteps
<1>3. ResetInvariant'
  BY ProcessesDiffer DEF Inductive, FindVersion, Runs, store, Goes, Answers, ResetInvariant, CallTypes, WorkerSteps, FrontendSteps, OperatorSteps, SharedSteps, HoldTypes, Drafts, DdlStates, Answered
<1> QED
  BY <1>1, <1>2, <1>3 DEF Inductive

LEMMA StartVersionInductive ==
  ASSUME Inductive, NEW p \in Processes, StartVersion(p)
  PROVE  Inductive'
<1>1. CallTypes'
  BY ProcessesDiffer DEF Inductive, StartVersion, Commits, Goes, NoDraft, store, Answered, CallTypes, WorkerSteps, FrontendSteps, OperatorSteps, SharedSteps
<1>2. HoldTypes'
  BY ProcessesDiffer DEF Inductive, StartVersion, Commits, Goes, NoDraft, store, CallTypes, HoldTypes, Drafts, DdlStates, WorkerSteps, FrontendSteps
<1>3. ResetInvariant'
  BY ProcessesDiffer DEF Inductive, StartVersion, Commits, Goes, NoDraft, store, ResetInvariant, CallTypes, WorkerSteps, FrontendSteps, OperatorSteps, SharedSteps, HoldTypes, Drafts, DdlStates, Answered
<1> QED
  BY <1>1, <1>2, <1>3 DEF Inductive

LEMMA BuildInductive ==
  ASSUME Inductive, NEW p \in Processes, Build(p)
  PROVE  Inductive'
<1>1. CallTypes'
  BY ProcessesDiffer, AnswersTyped DEF Inductive, Build, store, Answered, CallTypes, WorkerSteps, FrontendSteps, OperatorSteps, SharedSteps
<1>2. HoldTypes'
  BY ProcessesDiffer DEF Inductive, Build, store, Answers, CallTypes, HoldTypes, Drafts, DdlStates, WorkerSteps, FrontendSteps
<1>3. ResetInvariant'
  BY ProcessesDiffer DEF Inductive, Build, store, Answers, ResetInvariant, CallTypes, WorkerSteps, FrontendSteps, OperatorSteps, SharedSteps, HoldTypes, Drafts, DdlStates, Answered
<1> QED
  BY <1>1, <1>2, <1>3 DEF Inductive

LEMMA ListInductive ==
  ASSUME Inductive, NEW p \in Processes, List(p)
  PROVE  Inductive'
<1>1. CallTypes'
  BY ProcessesDiffer, AnswersTyped DEF Inductive, List, Runs, store, Answered, CallTypes, WorkerSteps, FrontendSteps, OperatorSteps, SharedSteps
<1>2. HoldTypes'
  BY ProcessesDiffer DEF Inductive, List, Runs, store, Answers, CallTypes, HoldTypes, Drafts, DdlStates, WorkerSteps, FrontendSteps
<1>3. ResetInvariant'
  BY ProcessesDiffer DEF Inductive, List, Runs, store, Answers, ResetInvariant, CallTypes, WorkerSteps, FrontendSteps, OperatorSteps, SharedSteps, HoldTypes, Drafts, DdlStates, Answered
<1> QED
  BY <1>1, <1>2, <1>3 DEF Inductive

LEMMA GetDocumentInductive ==
  ASSUME Inductive, NEW p \in Processes, GetDocument(p)
  PROVE  Inductive'
<1>1. CallTypes'
  BY ProcessesDiffer, AnswersTyped DEF Inductive, GetDocument, Runs, store, Goes, Answered, CallTypes, WorkerSteps, FrontendSteps, OperatorSteps, SharedSteps
<1>2. HoldTypes'
  BY ProcessesDiffer DEF Inductive, GetDocument, Runs, store, Goes, Answers, CallTypes, HoldTypes, Drafts, DdlStates, WorkerSteps, FrontendSteps
<1>3. ResetInvariant'
  BY ProcessesDiffer DEF Inductive, GetDocument, Runs, store, Goes, Answers, ResetInvariant, CallTypes, WorkerSteps, FrontendSteps, OperatorSteps, SharedSteps, HoldTypes, Drafts, DdlStates, Answered
<1> QED
  BY <1>1, <1>2, <1>3 DEF Inductive

LEMMA DeleteDocumentInductive ==
  ASSUME Inductive, NEW p \in Processes, DeleteDocument(p)
  PROVE  Inductive'
<1>1. CallTypes'
  BY ProcessesDiffer DEF Inductive, DeleteDocument, Runs, store, Goes, Answered, CallTypes, WorkerSteps, FrontendSteps, OperatorSteps, SharedSteps
<1>2. HoldTypes'
  BY ProcessesDiffer DEF Inductive, DeleteDocument, Runs, store, Goes, CallTypes, HoldTypes, Drafts, DdlStates, WorkerSteps, FrontendSteps
<1>3. ResetInvariant'
  BY ProcessesDiffer DEF Inductive, DeleteDocument, Runs, store, Goes, ResetInvariant, CallTypes, WorkerSteps, FrontendSteps, OperatorSteps, SharedSteps, HoldTypes, Drafts, DdlStates, Answered
<1> QED
  BY <1>1, <1>2, <1>3 DEF Inductive

LEMMA CommitRemovalInductive ==
  ASSUME Inductive, NEW p \in Processes, CommitRemoval(p)
  PROVE  Inductive'
<1>1. CallTypes'
  BY ProcessesDiffer, AnswersTyped DEF Inductive, CommitRemoval, Commits, NoDraft, store, Answered, CallTypes, WorkerSteps, FrontendSteps, OperatorSteps, SharedSteps
<1>2. HoldTypes'
  BY ProcessesDiffer DEF Inductive, CommitRemoval, Commits, NoDraft, store, Answers, CallTypes, HoldTypes, Drafts, DdlStates, WorkerSteps, FrontendSteps
<1>3. ResetInvariant'
  BY ProcessesDiffer DEF Inductive, CommitRemoval, Commits, NoDraft, store, Answers, ResetInvariant, CallTypes, WorkerSteps, FrontendSteps, OperatorSteps, SharedSteps, HoldTypes, Drafts, DdlStates, Answered
<1> QED
  BY <1>1, <1>2, <1>3 DEF Inductive

LEMMA MarkerInductive ==
  ASSUME Inductive, NEW p \in Processes, Marker(p)
  PROVE  Inductive'
<1>1. CallTypes'
  BY ProcessesDiffer, AnswersTyped DEF Inductive, Marker, store, Goes, Answered, CallTypes, WorkerSteps, FrontendSteps, OperatorSteps, SharedSteps
<1>2. HoldTypes'
  BY ProcessesDiffer, RollsBackTyped DEF Inductive, Marker, store, Goes, Answers, CallTypes, HoldTypes, Drafts, DdlStates, WorkerSteps, FrontendSteps
<1>3. ResetInvariant'
  BY ProcessesDiffer DEF Inductive, Marker, store, Goes, Answers, RollsBack, ResetInvariant, CallTypes, WorkerSteps, FrontendSteps, OperatorSteps, SharedSteps, HoldTypes, Drafts, DdlStates, Answered
<1> QED
  BY <1>1, <1>2, <1>3 DEF Inductive

LEMMA IsEmptyInductive ==
  ASSUME Inductive, NEW p \in Processes, IsEmpty(p)
  PROVE  Inductive'
<1>1. CallTypes'
  BY ProcessesDiffer, AnswersTyped DEF Inductive, IsEmpty, store, Goes, Answered, CallTypes, WorkerSteps, FrontendSteps, OperatorSteps, SharedSteps
<1>2. HoldTypes'
  BY ProcessesDiffer DEF Inductive, IsEmpty, store, Goes, Answers, CallTypes, HoldTypes, Drafts, DdlStates, WorkerSteps, FrontendSteps
<1>3. ResetInvariant'
  BY ProcessesDiffer DEF Inductive, IsEmpty, store, Goes, Answers, ResetInvariant, CallTypes, WorkerSteps, FrontendSteps, OperatorSteps, SharedSteps, HoldTypes, Drafts, DdlStates, Answered
<1> QED
  BY <1>1, <1>2, <1>3 DEF Inductive

LEMMA InstallInductive ==
  ASSUME Inductive, NEW p \in Processes, Install(p)
  PROVE  Inductive'
<1>1. CallTypes'
  BY ProcessesDiffer DEF Inductive, Install, store, Goes, Answered, CallTypes, WorkerSteps, FrontendSteps, OperatorSteps, SharedSteps
<1>2. HoldTypes'
  BY ProcessesDiffer DEF Inductive, Install, store, Goes, CallTypes, HoldTypes, Drafts, DdlStates, WorkerSteps, FrontendSteps
<1>3. ResetInvariant'
  BY ProcessesDiffer DEF Inductive, Install, store, Goes, ResetInvariant, CallTypes, WorkerSteps, FrontendSteps, OperatorSteps, SharedSteps, HoldTypes, Drafts, DdlStates, Answered
<1> QED
  BY <1>1, <1>2, <1>3 DEF Inductive

LEMMA CommitInstallInductive ==
  ASSUME Inductive, NEW p \in Processes, CommitInstall(p)
  PROVE  Inductive'
<1>1. CallTypes'
  BY ProcessesDiffer, AnswersTyped DEF Inductive, CommitInstall, store, Answered, CallTypes, WorkerSteps, FrontendSteps, OperatorSteps, SharedSteps
<1>2. HoldTypes'
  BY ProcessesDiffer DEF Inductive, CommitInstall, store, Answers, CallTypes, HoldTypes, Drafts, DdlStates, WorkerSteps, FrontendSteps
<1>3. ResetInvariant'
  BY ProcessesDiffer DEF Inductive, CommitInstall, store, Answers, ResetInvariant, CallTypes, WorkerSteps, FrontendSteps, OperatorSteps, SharedSteps, HoldTypes, Drafts, DdlStates, Answered
<1> QED
  BY <1>1, <1>2, <1>3 DEF Inductive

LEMMA GuardInductive ==
  ASSUME Inductive, NEW p \in Processes, Guard(p)
  PROVE  Inductive'
<1>1. CallTypes'
  BY ProcessesDiffer, AnswersTyped DEF Inductive, Guard, Goes, store, Answered, CallTypes, WorkerSteps, FrontendSteps, OperatorSteps, SharedSteps
<1>2. HoldTypes'
  BY ProcessesDiffer DEF Inductive, Guard, Goes, store, Answers, CallTypes, HoldTypes, Drafts, DdlStates, WorkerSteps, FrontendSteps
<1>3. ResetInvariant'
  BY ProcessesDiffer DEF Inductive, Guard, Goes, store, Answers, ResetInvariant, CallTypes, WorkerSteps, FrontendSteps, OperatorSteps, SharedSteps, HoldTypes, Drafts, DdlStates, Answered
<1> QED
  BY <1>1, <1>2, <1>3 DEF Inductive

LEMMA DropInductive ==
  ASSUME Inductive, NEW p \in Processes, Drop(p)
  PROVE  Inductive'
<1>1. CallTypes'
  BY ProcessesDiffer DEF Inductive, Drop, store, Goes, Answered, CallTypes, WorkerSteps, FrontendSteps, OperatorSteps, SharedSteps
<1>2. HoldTypes'
  BY ProcessesDiffer DEF Inductive, Drop, store, Goes, CallTypes, HoldTypes, Drafts, DdlStates, WorkerSteps, FrontendSteps
<1>3. ResetInvariant'
  BY ProcessesDiffer DEF Inductive, Drop, store, Goes, ResetInvariant, CallTypes, WorkerSteps, FrontendSteps, OperatorSteps, SharedSteps, HoldTypes, Drafts, DdlStates, Answered
<1> QED
  BY <1>1, <1>2, <1>3 DEF Inductive

LEMMA BreaksOffInductive ==
  ASSUME Inductive, NEW p \in Processes, BreaksOff(p)
  PROVE  Inductive'
<1>1. CallTypes'
  BY ProcessesDiffer, AnswersTyped DEF Inductive, BreaksOff, store, Answered, CallTypes, WorkerSteps, FrontendSteps, OperatorSteps, SharedSteps
<1>2. HoldTypes'
  BY ProcessesDiffer DEF Inductive, BreaksOff, store, Answers, CallTypes, HoldTypes, Drafts, DdlStates, WorkerSteps, FrontendSteps
<1>3. ResetInvariant'
  BY ProcessesDiffer DEF Inductive, BreaksOff, store, Answers, ResetInvariant, CallTypes, WorkerSteps, FrontendSteps, OperatorSteps, SharedSteps, HoldTypes, Drafts, DdlStates, Answered
<1> QED
  BY <1>1, <1>2, <1>3 DEF Inductive

LEMMA StatementFailsInductive ==
  ASSUME Inductive, NEW p \in Processes, StatementFails(p)
  PROVE  Inductive'
<1>1. CallTypes'
  BY ProcessesDiffer, AnswersTyped DEF Inductive, StatementFails, store, NoDraft, Statements, Answered, CallTypes, WorkerSteps, FrontendSteps, OperatorSteps, SharedSteps
<1>2. HoldTypes'
  <2>1. CASE pc[p] = "build"
    BY <2>1, RollsBackTyped DEF Inductive, StatementFails
  <2>2. CASE pc[p] \in {"delete", "drop"}
    BY <2>2 DEF Inductive, StatementFails, HoldTypes
  <2>3. CASE pc[p] \notin {"build", "delete", "drop"}
    <3>1. /\ tx' = [tx EXCEPT ![p] = "failed"] /\ draft' = [draft EXCEPT ![p] = NoDraft]
          /\ ddl' = [ddl EXCEPT ![p] = "none"]
      BY <2>3 DEF StatementFails
    <3> QED
      BY <3>1 DEF Inductive, HoldTypes, NoDraft, Drafts, DdlStates
  <2> QED
    BY <2>1, <2>2, <2>3
<1>3. ResetInvariant'
  BY ProcessesDiffer DEF Inductive, StatementFails, store, NoDraft, Statements, Answers, RollsBack, ResetInvariant, CallTypes, WorkerSteps, FrontendSteps, OperatorSteps, SharedSteps, HoldTypes, Drafts, DdlStates, Answered
<1> QED
  BY <1>1, <1>2, <1>3 DEF Inductive

LEMMA CallInductive ==
  ASSUME Inductive, NEW p \in Processes, Starts(p)
  PROVE  Inductive'
<1>1. PICK first \in {"marker", "upsert", "list", "get", "guards"} :
        /\ Call(p, first)
        /\ first = "upsert" => p = Worker
        /\ first \in {"list", "get"} => p = Frontend
        /\ first = "guards" => p = Operator
  BY DEF Starts
<1>2. CallTypes'
  BY <1>1, ProcessesDiffer DEF Inductive, Call, Answered, CallTypes, WorkerSteps, FrontendSteps, OperatorSteps, SharedSteps
<1>3. HoldTypes'
  BY <1>1 DEF Inductive, Call, HoldTypes
<1>4. ResetInvariant'
  BY <1>1, ProcessesDiffer DEF Inductive, Call, ResetInvariant, CallTypes
<1> QED
  BY <1>2, <1>3, <1>4 DEF Inductive

LEMMA StepInductive ==
  ASSUME Inductive, NEW p \in Processes, Steps(p)
  PROVE  Inductive'
  BY UpsertInductive, FindVersionInductive, StartVersionInductive, BuildInductive,
     ListInductive, GetDocumentInductive, DeleteDocumentInductive, CommitRemovalInductive,
     MarkerInductive, IsEmptyInductive, InstallInductive, CommitInstallInductive,
     GuardInductive, DropInductive DEF Steps

LEMMA NextInductive == Inductive /\ [Next]_vars => Inductive'
<1> SUFFICES ASSUME Inductive, [Next]_vars PROVE Inductive'
  OBVIOUS
<1>1. CASE UNCHANGED vars
  BY <1>1 DEF vars, Inductive, CallTypes, HoldTypes, ResetInvariant
<1>2. ASSUME NEW p \in Processes,
             Open(p) \/ Close(p) \/ Starts(p) \/ Steps(p) \/ StatementFails(p) \/ BreaksOff(p)
      PROVE  Inductive'
  BY <1>2, OpenInductive, CloseInductive, CallInductive, StepInductive,
     StatementFailsInductive, BreaksOffInductive
<1> QED
  BY <1>1, <1>2 DEF Next

-----------------------------------------------------------------------------

\* Whatever the processes do, and wherever they fail, break off or die: the database
\* is whole or empty, an empty one has no rows, and a reset that answered has left
\* nothing of what it found (reset.reset_dev, db.init_schema).
THEOREM ResetsWhole == Spec => []ResetIsAllOrNothing
<1>1. Inductive => ResetIsAllOrNothing
  BY DEF Inductive, ResetInvariant, ResetIsAllOrNothing
<1> QED
  BY <1>1, InitInductive, NextInductive, PTL DEF Spec
=============================================================================
