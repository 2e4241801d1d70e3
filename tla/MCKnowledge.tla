----------------------------- MODULE MCKnowledge -----------------------------
(***************************************************************************)
(* Knowledge, its lifecycle and its import on a small instance.  Two users *)
(* and two processes; the constraint splits the behaviours into three      *)
(* independent topics, evaluations, graph and import, each explored whole. *)
(***************************************************************************)
EXTENDS KnowledgeImport

CONSTANTS u1, u2, k1, k2, e1, e2, e3, e4, b1, b2, b3, f1, f2, f3, root

MCEventOf ==
    LET event(u, ok, status, type) ==
            [user |-> u, admitted |-> ok, status |-> status, type |-> type,
             text |-> "text", reference |-> "ref"]
    IN [e \in {e1, e2, e3, e4} |->
          CASE e = e1 -> event(u1, TRUE, "success", "manual_config")
            [] e = e2 -> event(u1, TRUE, "completed", "tool_result")
            [] e = e3 -> event(u1, TRUE, "failed", "tool_result")
            [] e = e4 -> event(u2, FALSE, "success", "manual_config")]

Fact    == [type |-> "fact", confidence |-> 2]
Failure == [type |-> "failure_experience", confidence |-> 1]
MCInputs == {Fact, Failure}

Promoting ==
    [promoteAge |-> 0, promoteAccess |-> 1, promoteConfidence |-> 1,
     promoteTier |-> "tool_execution_result", demoteIdle |-> 0,
     demoteAccess |-> 0, demoteConfidence |-> 0, expireAge |-> 9,
     archiveAge |-> 1]
Ageing == [Promoting EXCEPT !.promoteAccess = 9, !.expireAge = 1, !.archiveAge = 0]
MCConfigs == {Promoting, Ageing}

MCScopeOf == [p \in {root} |-> {u1}]

\* b3 names one event twice and is refused as a whole.
Candidate(e) == [event |-> e, text |-> "text", reference |-> "ref", pending |-> TRUE]
MCCandidatesOf ==
    [b \in {b1, b2, b3} |->
       CASE b = b1 -> <<Candidate(e1)>>
         [] b = b2 -> <<Candidate(e3)>>
         [] b = b3 -> <<Candidate(e1), Candidate(e1)>>]

Record(data, u, key, e, input) ==
    [data |-> data, user |-> u, key |-> key, event |-> e, input |-> input,
     wellFormed |-> TRUE, type |-> MCEventOf[e].type,
     status |-> MCEventOf[e].status, reference |-> "ref"]

\* f1 is made from the batch b1, and also holds a malformed line; f2 reuses a
\* key for another request, names a data record twice and reaches outside the
\* scope; f3 is made from a batch whose event cannot be bound.
MCFileOf ==
    [f \in {f1, f2, f3} |->
       CASE f = f1 -> << Record("d1", u1, "key1", e1, Fact),
                         [Record("d2", u1, "key2", e1, Fact) EXCEPT !.wellFormed = FALSE] >>
         [] f = f2 -> << Record("d1", u1, "key1", e1, Failure),
                         Record("d1", u1, "key3", e1, Fact),
                         Record("d4", u1, "key4", e3, Failure),
                         Record("d6", u2, "key6", e4, Fact) >>
         [] f = f3 -> << Record("d5", u1, "key5", e3, Fact) >>]
MCBatchOf == [f \in {f1, f2, f3} |-> CASE f = f1 -> b1 [] f = f3 -> b2 [] OTHER -> None]

Evaluating == /\ receipts = {}
              /\ \A p \in Processes : doing[p] = None
              /\ \A key \in DOMAIN entries : entries[key].access = None
Importing  == /\ told = {} /\ bound = {} /\ DOMAIN registry = {}
              /\ \A p \in Processes : importing[p] = None
              /\ \A b \in Batches : progress[b] = 0
Linking    == /\ DOMAIN conflicts = {}
              /\ Cardinality(relations) = Cardinality(DOMAIN entries)

Topics == {n \in 1 .. 3 : ~(<<Evaluating, Importing, Linking>>[n])}

Revisions(n) == \A key \in DOMAIN entries : entries[key].revision <= n

Rows(P(_)) == \A key \in DOMAIN entries : P(entries[key])
Plain(row) == row.input = Fact /\ row.status = "candidate"
AliveOrGone(row) == row.status \in {"candidate", "removed"}
Ageable(row) == /\ row.input = Fact /\ row.created = 0
                /\ row.status \notin {"superseded", "deprecated"}
                /\ row.revision = 2 => row.status = "active"

OneTopic ==
    /\ Cardinality(Topics) <= 1 /\ e4 \notin sources
    /\ 1 \in Topics => Cardinality(DOMAIN entries) = 1 /\ sources = {e1} /\ Rows(Ageable)
    /\ 1 \notin Topics => now = 0 /\ Revisions(2)
    /\ 2 \in Topics => sources \subseteq {e1, e3} /\ Rows(AliveOrGone) /\
                       \A key \in DOMAIN entries :
                           \E a \in DOMAIN registry : registry[a].id = key[2]
    /\ Topics = {} => Cardinality(DOMAIN entries) <= 1 \/ Rows(Plain)
    /\ 3 \in Topics => Revisions(1) /\ BagCardinality(outbox) <= 4 /\ Rows(Plain) /\
                       \A key \in DOMAIN conflicts :
                           conflicts[key].status \in {"detected", "resolved_auto"}

Symmetry == Permutations(Processes)
=============================================================================
