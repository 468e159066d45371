---------------------------- MODULE ServingIndex ----------------------------
(***************************************************************************)
(* What a document's index promises to the queries that read it: at every  *)
(* moment a document is answered from nothing or from one complete build   *)
(* of it, whose evidence never changes while it serves.  Only the optional *)
(* narrative enrichment of a serving build may improve in place.           *)
(***************************************************************************)
CONSTANTS Docs, Versions, Complete, Candidates

VARIABLE served  \* the builds answering each document's queries

Grades == {"ready", "degraded"}

\* A build: which version, what it holds, and the candidates it still owes.
Build == [version : Versions, content : {Complete}, owed : SUBSET Candidates, grade : Grades]

Init == served = [d \in Docs |-> {}]

\* A complete build, of another version, takes over from whatever served before,
\* in one step.
Publish(d) ==
  \E b \in served'[d] :
    /\ b \in Build
    /\ b.grade = "ready" <=> b.owed = {}
    /\ \A old \in served[d] : old.version # b.version
    /\ served' = [served EXCEPT ![d] = {b}]

\* One owed candidate is extracted.
Enrich(d) ==
  \E b \in served[d] : \E c \in b.owed :
    served' = [served EXCEPT ![d] = {[b EXCEPT !.owed = @ \ {c}]}]

\* The grade is brought in line with what is owed.
Promote(d) ==
  \E b \in served[d] :
    /\ b.grade = "degraded" /\ b.owed = {}
    /\ served' = [served EXCEPT ![d] = {[b EXCEPT !.grade = "ready"]}]

\* The document is removed.
Withdraw(d) ==
  /\ served[d] # {}
  /\ served' = [served EXCEPT ![d] = {}]

Next == \E d \in Docs : Publish(d) \/ Enrich(d) \/ Promote(d) \/ Withdraw(d)

Spec == Init /\ [][Next]_served

=============================================================================
