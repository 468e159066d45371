------------------------------- MODULE Sessions -------------------------------
(***************************************************************************)
(* The database as its processes share it: the frontend, the ingestion     *)
(* worker, and an operator who resets a development database.  Each has    *)
(* one connection that is never in autocommit, so a statement opens a      *)
(* transaction that lives until the code, or the end of the process, ends  *)
(* it, and a `with conn.transaction()` inside it is only a savepoint.      *)
(*                                                                         *)
(* Data: of a document whether it has a row, and whether a version of it   *)
(* serves; of the schema, whether its tables are there with their marker.  *)
(***************************************************************************)
EXTENDS Naturals, FiniteSets

CONSTANTS
  Docs,
  Guards,     \* what reset_dev asks of a request, --execute included
  LongLived   \* processes that make more than one call

Frontend == "frontend"
Worker   == "worker"
Operator == "operator"
Processes == {Frontend, Worker, Operator}

ASSUME ConstantsAssumption == LongLived \subseteq Processes

VARIABLES
  \* committed
  schema,    \* "current", "empty", or "unmarked": tables and no marker
  document,  \* documents with a row
  serves,    \* documents with a queryable version
  \* of each process
  tx,        \* "closed", "idle", "open" or "failed"
  draft,     \* rows it "upserted" or "deleted" without a commit: it holds them locked
  ddl,       \* "dropped" or "installed" if it has not committed that
  pc, doc, answer,
  doomed     \* documents the running reset found that are still there

vars == <<schema, document, serves, tx, draft, ddl, pc, doc, answer, doomed>>
store == <<schema, document, serves, doomed>>

NoDraft == [d \in Docs |-> "none"]

Init ==
  /\ schema \in {"current", "empty"}
  /\ document = {} /\ serves = {}
  /\ tx = [p \in Processes |-> "closed"]
  /\ draft = [p \in Processes |-> NoDraft]
  /\ ddl = [p \in Processes |-> "none"]
  /\ pc = [p \in Processes |-> "ready"]
  /\ doc \in [Processes -> Docs]
  /\ answer = [p \in Processes |-> "none"]
  /\ doomed = {}

-----------------------------------------------------------------------------
(* Connections.                                                            *)

RowLocked(p, d) == \E q \in Processes \ {p} : draft[q][d] # "none"
TablesLocked(p) == \E q \in Processes \ {p} : ddl[q] # "none"
TablesUsed(p)   == \E q \in Processes \ {p} : tx[q] = "open"

\* A statement on the tables that neither waits nor fails; it opens a transaction.
Runs(p) ==
  /\ tx[p] \in {"idle", "open"} /\ schema = "current" /\ ~TablesLocked(p)
  /\ tx' = [tx EXCEPT ![p] = "open"]
  /\ UNCHANGED <<store, ddl, doc>>

Goes(p, next) == pc' = [pc EXCEPT ![p] = next] /\ UNCHANGED answer
Answers(p, what) ==
  /\ pc' = [pc EXCEPT ![p] = "returned"]
  /\ answer' = [answer EXCEPT ![p] = what]

\* What p drafted becomes the row.
Commits(p) ==
  /\ document' = {d \in Docs : \/ draft[p][d] = "upserted"
                               \/ draft[p][d] = "none" /\ d \in document}
  /\ serves' = serves \intersect document'
  /\ doomed' = doomed \intersect document'
  /\ draft' = [draft EXCEPT ![p] = NoDraft]
  /\ tx' = [tx EXCEPT ![p] = "idle"]

RollsBack(p) ==
  /\ draft' = [draft EXCEPT ![p] = NoDraft]
  /\ ddl' = [ddl EXCEPT ![p] = "none"]
  /\ tx' = [tx EXCEPT ![p] = "idle"]

\* connect leaves the connection idle; a caller of reset_dev may bring one it has
\* read on.
Open(p) ==
  /\ tx[p] = "closed"
  /\ \E begun \in {"idle"} \union (IF p = Operator /\ schema = "current" THEN {"open"} ELSE {}) :
       tx' = [tx EXCEPT ![p] = begun]
  /\ UNCHANGED <<store, draft, ddl, pc, doc, answer>>

\* Mutant: the process goes and its transaction stays.
LeavesTransaction(p) ==
  /\ tx[p] # "closed"
  /\ tx' = [tx EXCEPT ![p] = "closed"]
  /\ pc' = [pc EXCEPT ![p] = "ready"]
  /\ UNCHANGED <<store, draft, ddl, doc, answer>>
\* The process ends, by itself or not: close without a commit.
Close(p) ==
  /\ tx[p] # "closed"
  /\ tx' = [tx EXCEPT ![p] = "closed"]
  /\ draft' = [draft EXCEPT ![p] = NoDraft]
  /\ ddl' = [ddl EXCEPT ![p] = "none"]
  /\ pc' = [pc EXCEPT ![p] = "ready"]
  /\ UNCHANGED <<store, doc, answer>>

Call(p, first) ==
  /\ tx[p] # "closed"
  /\ pc[p] = "ready" \/ (pc[p] = "returned" /\ p \in LongLived)
  /\ pc' = [pc EXCEPT ![p] = first]
  /\ \E d \in Docs : doc' = [doc EXCEPT ![p] = d]
  /\ answer' = [answer EXCEPT ![p] = "none"]
  /\ doomed' = IF p = Operator THEN {} ELSE doomed
  /\ UNCHANGED <<schema, document, serves, tx, draft, ddl>>

\* A statement fails, or finds its transaction failed.  The database lets go of the
\* locks, and the connection refuses every statement until a rollback; the code has
\* one only where a build has its version, and around a savepoint.
Statements == {"list", "get", "delete", "upsert", "find", "start", "build",
               "marker", "empty", "install", "drop"}
StatementFails(p) ==
  /\ pc[p] \in Statements
  /\ Answers(p, "error")
  /\ CASE pc[p] = "build" -> RollsBack(p)
       [] pc[p] \in {"delete", "drop"} -> UNCHANGED <<tx, draft, ddl>>
       [] OTHER -> /\ tx' = [tx EXCEPT ![p] = "failed"]
                   /\ draft' = [draft EXCEPT ![p] = NoDraft]
                   /\ ddl' = [ddl EXCEPT ![p] = "none"]
  /\ UNCHANGED <<store, doc>>

\* An exception that is not the database's: what is open stays open.
BreaksOff(p) ==
  /\ pc[p] \in {"find", "start", "delete", "commit"}
  /\ Answers(p, "error")
  /\ UNCHANGED <<store, tx, draft, ddl, doc>>

-----------------------------------------------------------------------------
(* ingest_document, as far as it shares the document's row.                *)

Upsert(p) ==
  /\ pc[p] = "upsert" /\ ~RowLocked(p, doc[p])
  /\ Runs(p)
  /\ draft' = [draft EXCEPT ![p][doc[p]] = "upserted"]
  /\ Goes(p, "find")

\* find_version: what serves is reused, and the call returns with no commit.
FindVersion(p) ==
  /\ pc[p] = "find"
  /\ Runs(p)
  /\ IF doc[p] \in serves THEN Answers(p, "unchanged") ELSE Goes(p, "start")
  /\ UNCHANGED draft

StartVersion(p) ==
  /\ pc[p] = "start" /\ tx[p] = "open" /\ schema = "current"
  /\ Commits(p)
  /\ Goes(p, "build")
  /\ UNCHANGED <<schema, ddl, doc>>

\* The build ends with its activation, unless its rows are gone.
Build(p) ==
  /\ pc[p] = "build" /\ tx[p] \in {"idle", "open"} /\ schema = "current" /\ ~TablesLocked(p)
  /\ doc[p] \in document /\ ~RowLocked(p, doc[p])
  /\ serves' = serves \union {doc[p]}
  /\ tx' = [tx EXCEPT ![p] = "idle"]
  /\ Answers(p, "indexed")
  /\ UNCHANGED <<schema, document, doomed, draft, ddl, doc>>

-----------------------------------------------------------------------------
(* The frontend's reads and its removal of a document.                     *)

List(p) == pc[p] = "list" /\ Runs(p) /\ Answers(p, "listed") /\ UNCHANGED draft

GetDocument(p) ==
  /\ pc[p] = "get"
  /\ Runs(p)
  /\ IF doc[p] \in document THEN Goes(p, "delete") ELSE Answers(p, "not_found")
  /\ UNCHANGED draft

\* In a savepoint of the transaction get_document opened.
DeleteDocument(p) ==
  /\ pc[p] = "delete" /\ ~RowLocked(p, doc[p])
  /\ Runs(p)
  /\ draft' = [draft EXCEPT ![p][doc[p]] = "deleted"]
  /\ Goes(p, "commit")

CommitRemoval(p) ==
  /\ pc[p] = "commit"
  /\ Commits(p)
  /\ Answers(p, "removed")
  /\ UNCHANGED <<schema, ddl, doc>>

-----------------------------------------------------------------------------
(* init_schema.                                                            *)

\* schema_marker rolls back when its table is not there.
Marker(p) ==
  /\ pc[p] = "marker" /\ tx[p] \in {"idle", "open"} /\ ~TablesLocked(p)
  /\ IF schema = "current" /\ ddl[p] = "none"
       THEN /\ tx' = [tx EXCEPT ![p] = "open"]
            /\ Answers(p, "unchanged")
            /\ UNCHANGED <<draft, ddl>>
       ELSE RollsBack(p) /\ Goes(p, "empty")
  /\ UNCHANGED <<store, doc>>

\* Tables without a marker are refused: SchemaMismatchError.
IsEmpty(p) ==
  /\ pc[p] = "empty" /\ ~TablesLocked(p)
  /\ tx' = [tx EXCEPT ![p] = "open"]
  /\ IF schema = "empty" THEN Goes(p, "install") ELSE Answers(p, "mismatch")
  /\ UNCHANGED <<store, draft, ddl, doc>>

\* Mutant: the tables are committed before their marker.
InstallInTwo(p) ==
  /\ pc[p] = "install" /\ ~TablesLocked(p)
  /\ schema' = IF schema = "empty" THEN "unmarked" ELSE schema
  /\ ddl' = [ddl EXCEPT ![p] = "installed"]
  /\ Goes(p, "commit_install")
  /\ UNCHANGED <<document, serves, doomed, tx, draft, doc>>
\* schema.sql, every statement IF NOT EXISTS, and the marker.
Install(p) ==
  /\ pc[p] = "install" /\ ~TablesLocked(p)
  /\ ddl' = [ddl EXCEPT ![p] = "installed"]
  /\ Goes(p, "commit_install")
  /\ UNCHANGED <<store, tx, draft, doc>>

CommitInstall(p) ==
  /\ pc[p] = "commit_install"
  /\ schema' = "current"
  /\ ddl' = [ddl EXCEPT ![p] = "none"]
  /\ tx' = [tx EXCEPT ![p] = "idle"]
  /\ Answers(p, "initialized")
  /\ UNCHANGED <<document, serves, doomed, draft, doc>>

-----------------------------------------------------------------------------
(* reset_dev.                                                              *)

\* The guards, in one go: none of them touches the database.  The marker file says
\* whether the application is running.
Guard(p) ==
  /\ pc[p] = "guards"
  /\ \E met \in SUBSET Guards :
       IF met = Guards /\ tx[Frontend] = "closed"
         THEN /\ Goes(p, "drop")
              /\ doomed' = document
         ELSE Answers(p, "refused") /\ doomed' = {}
  /\ UNCHANGED <<schema, document, serves, tx, draft, ddl, doc>>

\* DROP and CREATE SCHEMA, for which every other transaction must be over.  On an
\* idle connection they are a transaction, else part of the one that is open.
Drop(p) ==
  /\ pc[p] = "drop" /\ tx[p] \in {"idle", "open"} /\ ~TablesUsed(p) /\ ~TablesLocked(p)
  /\ IF tx[p] = "idle"
       THEN /\ schema' = "empty" /\ document' = {} /\ serves' = {} /\ doomed' = {}
            /\ UNCHANGED ddl
       ELSE /\ ddl' = [ddl EXCEPT ![p] = "dropped"]
            /\ UNCHANGED store
  /\ Goes(p, "marker")
  /\ UNCHANGED <<tx, draft, doc>>

-----------------------------------------------------------------------------

Starts(p) ==
  \/ Call(p, "marker")
  \/ p = Worker /\ Call(p, "upsert")
  \/ p = Frontend /\ (Call(p, "list") \/ Call(p, "get"))
  \/ p = Operator /\ Call(p, "guards")

\* What a call does next, when nothing goes wrong.
Steps(p) ==
  \/ Upsert(p) \/ FindVersion(p) \/ StartVersion(p) \/ Build(p)
  \/ List(p) \/ GetDocument(p) \/ DeleteDocument(p) \/ CommitRemoval(p)
  \/ Marker(p) \/ IsEmpty(p) \/ Install(p) \/ CommitInstall(p)
  \/ Guard(p) \/ Drop(p)

Next == \E p \in Processes :
  Open(p) \/ Close(p) \/ Starts(p) \/ Steps(p) \/ StatementFails(p) \/ BreaksOff(p)

Spec == Init /\ [][Next]_vars

\* Where a statement cannot but fail: nothing waits for ever on a table that is gone.
Hopeless(p) == ~TablesLocked(p) /\ (tx[p] = "failed" \/ schema # "current" \/ doc[p] \notin document)

\* Every call takes its next step, and waiting statements are served in their order,
\* so one that can run again and again does run.  Between two calls a process is
\* obliged to nothing: it need not call again, end or crash, and none need start.
FairSpec ==
  /\ Spec
  /\ \A p \in Processes :
       /\ SF_vars(Steps(p))
       /\ SF_vars(StatementFails(p) /\ Hopeless(p))

-----------------------------------------------------------------------------
(* Properties.                                                             *)

\* A removal waits for whoever holds the document's row, and an ingestion that found
\* nothing changed, or broke off before its version, returns holding it.  That is all
\* that can keep a removal: no call in progress, failed statement, reset or process
\* that ended does (client.remove_document, ingest._ingest, client.close).
Removing == pc[Frontend] \in {"get", "delete", "commit"}
HeldBetweenCalls ==
  \E p \in Processes \ {Frontend} : pc[p] = "returned" /\ draft[p][doc[Frontend]] # "none"
OnlyAReturnedCallHoldsARemoval == Removing ~> ~Removing \/ HeldBetweenCalls

\* A reset is two commits with a gap, beside processes that come and go and may
\* install the schema first.  At every moment a database is whole or empty, so
\* init_schema can always be run again; a refused reset has destroyed nothing, and
\* a reset that answered has left nothing of what it found (reset.reset_dev).
ResetIsAllOrNothing ==
  /\ schema # "unmarked"
  /\ schema = "empty" => serves = {} /\ document = {}
  /\ pc[Operator] = "returned" /\ answer[Operator] \in {"initialized", "unchanged"} => doomed = {}
=============================================================================
