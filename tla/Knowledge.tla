------------------------------ MODULE Knowledge ------------------------------
(***************************************************************************)
(* Knowledge rows, the graph of relations and conflicts over them, and the *)
(* lifecycle evaluations that age them (db/repositories.py 1926-2240 and   *)
(* service/lifecycle_worker.py).                                           *)
(*                                                                         *)
(* Writers live in several operating-system processes.  The driver opens   *)
(* its transaction at the first write, so what an evaluation reads first   *)
(* is read outside it, and only the revision in the UPDATE's WHERE clause  *)
(* and the unique indexes protect the write: an evaluation is two steps.   *)
(***************************************************************************)
EXTENDS KnowledgePolicies, FiniteSets, Bags

CONSTANTS
    Users, Ids,         \* users, knowledge ids
    Processes,          \* processes that evaluate and import
    Events, EventOf,    \* source events and their rows
    Inputs,             \* [type, confidence, body] of a knowledge row
    RelationIds, ConflictIds,
    Evaluations,        \* evaluation ids a scheduler hands out
    Configs,            \* lifecycle configurations
    MaxNow, MaxRevision \* bounds: clock, revisions of a row

ASSUME ConfigsAreValid == \A c \in Configs : IsConfig(c)
ASSUME NoneIsNoWord == None \notin MemoryType \cup DecisionAction

VARIABLES
    now,        \* the clock
    sources,    \* the source events persisted
    entries,    \* <<user, id>> -> row of memory_entries
    relations,  \* rows of memory_relation
    conflicts,  \* <<user, conflict id>> -> row of memory_conflict
    receipts,   \* rows of memory_lifecycle_receipt
    outbox,     \* bag of the events queued
    doing       \* process -> the evaluation between its read and its write

knowledgeVars == << now, sources, entries, relations, conflicts, receipts,
                    outbox, doing >>

KnowledgeTypes == {i.type : i \in Inputs}

Exists(u, k) == <<u, k>> \in DOMAIN entries

Put(table, key, row) ==
    [x \in DOMAIN table \cup {key} |-> IF x = key THEN row ELSE table[x]]

\* _d8d_outbox: structural metadata only, in the caller's transaction.
Queue(event, about) == outbox (+) SetToBag({<<event, about>>})

Queued(event, about) ==
    IF BagIn(<<event, about>>, outbox) THEN outbox[<<event, about>>] ELSE 0

-----------------------------------------------------------------------------
(* Knowledge and relations                                                 *)

\* Only an admitted event of the same user supports knowledge, and a failed
\* one only the memory of its failure.
MayPersist(u, e, input) ==
    /\ e \in sources
    /\ EventOf[e].user = u /\ EventOf[e].admitted
    /\ EventOf[e].status = "failed" => input.type = "failure_experience"
    /\ EventOf[e].status \notin {"partial", "cancelled", "timeout", "ignored"}

\* The tier an event can vouch for, None where nothing is known of it.
TierOf(e) ==
    LET proved == EventOf[e].status \in {"success", "completed"} IN
    Decision(<< Rule(proved /\ EventOf[e].type = "manual_config", Tiers[1]),
                Rule(proved /\ EventOf[e].type = "tool_result", Tiers[3]),
                Rule(TRUE, None) >>)

PrimaryEdges(u, k) ==
    {r \in relations : r.user = u /\ r.type = "evidence" /\ r.primary /\ r.left = k}

\* insert_knowledge_entry on an id that exists: the same input again is a
\* replay, anything else is refused.
Replays(u, k, e, input) ==
    /\ Exists(u, k)
    /\ \E r \in PrimaryEdges(u, k) : r.right = e
    /\ entries[<<u, k>>].input = input

Edge(u, id, type, left, right, primary) ==
    [user |-> u, id |-> id, type |-> type, left |-> left, right |-> right,
     primary |-> primary]

\* insert_relation: both ends exist and belong to the user, in the direction
\* the type allows.
EndpointsHold(r) ==
    /\ Exists(r.user, r.left)
    /\ IF r.type = "evidence"
       THEN r.right \in sources /\ EventOf[r.right].user = r.user
       ELSE r.left # r.right /\ r.right \in Ids /\ Exists(r.user, r.right)

\* Mutant: without the index that keeps the primary evidence single.
MutRelationFits(r) ==
    \A q \in {x \in relations : x.user = r.user} : q.id # r.id

\* The unique indexes of memory_relation.
RelationFits(r) ==
    \A q \in {x \in relations : x.user = r.user} :
        /\ q.id # r.id
        /\ q.left = r.left /\ q.type = r.type =>
             /\ r.type # "version"
             /\ r.type = "evidence" =>
                  q.right # r.right /\ ~(q.primary /\ r.primary)

\* ck_memory_relation_primary_kind
PrimaryKind(r) == r.primary => r.type = "evidence"

NewRow(e, input) ==
    [input |-> input, tier |-> TierOf(e), eligible |-> TierOf(e) # None,
     status |-> "candidate", type |-> "short_term", deleted |-> FALSE,
     revision |-> 1, created |-> now, updated |-> now,
     access |-> None, last |-> None]

\* The three rows insert_knowledge_entry writes in one transaction.
Persist(u, k, e, input) ==
    /\ entries' = Put(entries, <<u, k>>, NewRow(e, input))
    /\ relations' = relations \cup {Edge(u, <<k, e>>, "evidence", k, e, TRUE)}
    /\ outbox' = Queue("relation.changed", <<u, k>>)

\* insert_knowledge_entry called directly.
InsertKnowledge(u, k, e, input) ==
    /\ MayPersist(u, e, input)
    /\ ~Exists(u, k)
    /\ Persist(u, k, e, input)
    /\ UNCHANGED << now, sources, conflicts, receipts, doing >>

AddRelation(u, id, type, left, right, primary) ==
    LET r == Edge(u, id, type, left, right, primary) IN
    /\ EndpointsHold(r) /\ RelationFits(r) /\ PrimaryKind(r)
    /\ relations' = relations \cup {r}
    /\ outbox' = Queue("relation.changed", <<u, left>>)
    /\ UNCHANGED << now, sources, entries, conflicts, receipts, doing >>

-----------------------------------------------------------------------------
(* Conflicts                                                               *)

ResolutionStatus == {"detected", "analyzing", "resolved_auto",
                     "resolved_manual", "deferred", "unresolvable"}

Closed == {"resolved_auto", "resolved_manual"}

\* _validate_conflict_decision: a winner exactly for the side that is kept.
DecisionHolds(action, winner, left, right) ==
    winner = CASE action = "keep_left"  -> left
               [] action = "keep_right" -> right
               [] OTHER                 -> None

\* insert_conflict: the members are the two sides and whoever else is involved.
InsertConflict(u, id, left, right, involved) ==
    /\ <<u, id>> \notin DOMAIN conflicts
    /\ left # right
    /\ \A k \in {left, right} \cup involved : Exists(u, k)
    /\ conflicts' = Put(conflicts, <<u, id>>,
                        [left |-> left, right |-> right,
                         members |-> {left, right} \cup involved,
                         status |-> "detected", action |-> None,
                         winner |-> None])
    /\ outbox' = Queue("conflict.changed", <<u, id>>)
    /\ UNCHANGED << now, sources, entries, relations, receipts, doing >>

\* update_conflict_resolution: any status may follow any other.
ResolveConflict(u, id, status, action, winner) ==
    /\ <<u, id>> \in DOMAIN conflicts
    /\ LET c == conflicts[<<u, id>>] IN
       /\ DecisionHolds(action, winner, c.left, c.right)
       /\ conflicts' = [conflicts EXCEPT ![<<u, id>>].status = status,
                                         ![<<u, id>>].action = action,
                                         ![<<u, id>>].winner = winner]
    /\ outbox' = Queue("conflict.changed", <<u, id>>)
    /\ UNCHANGED << now, sources, entries, relations, receipts, doing >>

\* resolve_conflict_state: what a reader is told of a row's conflicts.
ConflictState(u, k) ==
    IF ~Exists(u, k) \/ ~entries[<<u, k>>].eligible THEN "none"
    ELSE IF \E key \in DOMAIN conflicts :
              /\ key[1] = u /\ k \in conflicts[key].members
              /\ conflicts[key].status \notin Closed
         THEN "unresolved" ELSE "resolved"

-----------------------------------------------------------------------------
(* Direct writers of a row                                                 *)

\* A row after a write that holds its revision.
Touch(row) == [row EXCEPT !.revision = @ + 1, !.updated = now]

\* update_lifecycle_memory with a status: a terminal row does not become
\* active, and only the removed status marks the row deleted.
WithStatus(row, status) ==
    [Touch(row) EXCEPT !.status = status, !.deleted = @ \/ status = "removed"]

SetStatus(u, k, status) ==
    /\ Exists(u, k) /\ entries[<<u, k>>].eligible
    /\ entries[<<u, k>>].revision < MaxRevision
    /\ status = "active" => entries[<<u, k>>].status \notin {"removed", "expired"}
    /\ entries' = [entries EXCEPT ![<<u, k>>] = WithStatus(@, status)]
    /\ UNCHANGED << now, sources, relations, conflicts, receipts, outbox, doing >>

\* soft_delete_memory_entry, as the forgetting plan calls it.
Forget(u, k) ==
    /\ Exists(u, k) /\ ~entries[<<u, k>>].deleted
    /\ entries[<<u, k>>].revision < MaxRevision
    /\ entries' = [entries EXCEPT ![<<u, k>>] = WithStatus(@, "removed")]
    /\ UNCHANGED << now, sources, relations, conflicts, receipts, outbox, doing >>

\* The usage statistics: no code of the repository writes them, the columns
\* and the tests leave them to a later component.
CountAccess(u, k) ==
    /\ Exists(u, k) /\ entries[<<u, k>>].access = None
    /\ entries' = [entries EXCEPT ![<<u, k>>].access = 1, ![<<u, k>>].last = now]
    /\ UNCHANGED << now, sources, relations, conflicts, receipts, outbox, doing >>

-----------------------------------------------------------------------------
(* Evaluations                                                             *)

\* The receipt of an evaluation id, and the durable archive request for a
\* reason (_archive_receipt; a knowledge row stays at its first version).
ReceiptsOf(u, v) == {r \in receipts : r.user = u /\ r.evaluation = v}

Archived(u, k, reason) ==
    {r \in receipts : /\ r.user = u /\ r.id = k
                      /\ r.verdict.action = "archive_request"
                      /\ r.verdict.reason = reason}

Snapshot(row) ==
    [status |-> row.status, type |-> row.type, tier |-> row.tier,
     confidence |-> row.input.confidence, access |-> row.access,
     last |-> row.last, created |-> row.created, updated |-> row.updated]

\* evaluate_lifecycle up to the point where it writes.  A known evaluation is
\* answered from its receipt, or refused when its inputs differ, and an archive
\* request already made is answered from that one: none of these writes.
Evaluate(p, u, k, v, config) ==
    LET row     == entries[<<u, k>>]
        verdict == Decide(Snapshot(row), now, config)
    IN
    /\ doing[p] = None
    /\ ReceiptsOf(u, v) = {}
    /\ Exists(u, k) /\ row.eligible /\ row.revision < MaxRevision
    /\ verdict.action = "archive_request" => Archived(u, k, verdict.reason) = {}
    /\ doing' = [doing EXCEPT ![p] =
           [user |-> u, evaluation |-> v, id |-> k,
            revision |-> row.revision, verdict |-> verdict]]
    /\ UNCHANGED << now, sources, entries, relations, conflicts, receipts, outbox >>

Mutates(verdict) == verdict.action \in {"promote", "demote", "expire"}

\* What the decision does to the row.
Applied(row, verdict) ==
    IF verdict.action = "expire" THEN WithStatus(row, "expired")
    ELSE [Touch(row) EXCEPT !.type = verdict.type]

\* The unique indexes of memory_lifecycle_receipt.
ReceiptFits(r) ==
    /\ ReceiptsOf(r.user, r.evaluation) = {}
    /\ r.verdict.action = "archive_request" =>
         Archived(r.user, r.id, r.verdict.reason) = {}

\* Mutant: the UPDATE does not ask for the revision.
MutUnmoved(task) == TRUE

\* The compare-and-set of the row: the revision read is still there.
Unmoved(task) == entries[<<task.user, task.id>>].revision = task.revision

\* The rows one evaluation commits together.
Commit(task) ==
    LET u == task.user
        k == task.id
        verdict == task.verdict
        event == IF Mutates(verdict) THEN "lifecycle.changed" ELSE "lifecycle.archive"
    IN
    /\ entries' = IF Mutates(verdict)
                  THEN [entries EXCEPT ![<<u, k>>] = Applied(@, verdict)]
                  ELSE entries
    /\ receipts' = receipts \cup {task}
    /\ outbox' = IF verdict.action = "hold" THEN outbox ELSE Queue(event, <<u, k>>)

\* The rest of evaluate_lifecycle.  A lost compare-and-set, an evaluation id
\* another process used meanwhile and a lost race for the archive request
\* leave nothing behind.
FinishEvaluation(p) ==
    LET task == doing[p] IN
    /\ task # None
    /\ doing' = [doing EXCEPT ![p] = None]
    /\ IF (Mutates(task.verdict) => Unmoved(task)) /\ ReceiptFits(task)
       THEN Commit(task)
       ELSE UNCHANGED << entries, receipts, outbox >>
    /\ UNCHANGED << now, sources, relations, conflicts >>

-----------------------------------------------------------------------------
(* The specification                                                       *)

\* An event is persisted by ingestion, with the admission it was given.
IngestSource(e) ==
    /\ e \notin sources
    /\ sources' = sources \cup {e}
    /\ UNCHANGED << now, entries, relations, conflicts, receipts, outbox, doing >>

Tick ==
    /\ now < MaxNow
    /\ now' = now + 1
    /\ UNCHANGED << sources, entries, relations, conflicts, receipts, outbox, doing >>

KnowledgeInit ==
    /\ now = 0 /\ sources = {} /\ entries = [x \in {} |-> x]
    /\ relations = {} /\ conflicts = [x \in {} |-> x]
    /\ receipts = {} /\ outbox = EmptyBag
    /\ doing = [p \in Processes |-> None]

GraphStep(u, k) ==
    /\ Exists(u, k)
    /\ \/ \E id \in RelationIds, right \in Ids \cup Events, primary \in BOOLEAN,
             type \in {"version", "derived", "evidence"} :
             AddRelation(u, id, type, k, right, primary)
       \/ \E id \in ConflictIds, right \in Ids, involved \in SUBSET Ids :
             InsertConflict(u, id, k, right, involved)

ConflictStep(key) ==
    \E status \in ResolutionStatus, winner \in Ids \cup {None},
       action \in DecisionAction \cup {None} :
       ResolveConflict(key[1], key[2], status, action, winner)

LifecycleStep(u, k) ==
    \/ \E p \in Processes, v \in Evaluations, c \in Configs :
          Evaluate(p, u, k, v, c)
    \/ \E status \in MemoryStatus : SetStatus(u, k, status)
    \/ Forget(u, k)
    \/ CountAccess(u, k)

KnowledgeNext ==
    \/ Tick
    \/ \E e \in Events : IngestSource(e)
    \/ \E p \in Processes : FinishEvaluation(p)
    \/ \E key \in DOMAIN conflicts : ConflictStep(key)
    \/ \E u \in Users, k \in Ids :
          \/ \E e \in Events, i \in Inputs : InsertKnowledge(u, k, e, i)
          \/ GraphStep(u, k)
          \/ LifecycleStep(u, k)

-----------------------------------------------------------------------------
(* Types                                                                   *)

Row ==
    [input : Inputs, tier : {TierOf(e) : e \in Events}, eligible : BOOLEAN,
     status : MemoryStatus, type : MemoryType, deleted : BOOLEAN,
     revision : Nat, created : Nat, updated : Nat,
     access : Nat \cup {None}, last : Nat \cup {None}]

Relation ==
    [user : Users, id : RelationIds \cup (Ids \X Events),
     type : {"version", "derived", "evidence"}, left : Ids,
     right : Ids \cup Events, primary : BOOLEAN]

Conflict ==
    [left : Ids, right : Ids, members : SUBSET Ids, status : ResolutionStatus,
     action : DecisionAction \cup {None}, winner : Ids \cup {None}]

\* A verdict of Decide: a row that moves has somewhere to go.
Verdicts ==
    {v \in [action : LifecycleAction, reason : LifecycleReason,
           type : MemoryType \cup {None}] :
        v.action \in {"promote", "demote"} => v.type # None}

Task ==
    [user : Users, evaluation : Evaluations, id : Ids, revision : Nat,
     verdict : Verdicts]

KnowledgeTypeOK ==
    /\ now \in Nat /\ sources \subseteq Events
    /\ DOMAIN entries \subseteq Users \X Ids
    /\ \A key \in DOMAIN entries : entries[key] \in Row
    /\ relations \subseteq Relation
    /\ DOMAIN conflicts \subseteq Users \X ConflictIds
    /\ \A key \in DOMAIN conflicts : conflicts[key] \in Conflict
    /\ receipts \subseteq Task /\ IsFiniteSet(receipts)
    /\ IsABag(outbox)
    /\ doing \in [Processes -> Task \cup {None}]

-----------------------------------------------------------------------------
(* Properties                                                              *)

\* Every knowledge row rests on exactly one primary evidence edge, to an
\* admitted event of its user that is no weaker than the row claims, whatever
\* relations are added later; no edge or conflict points at nothing, and an open
\* conflict shows on everyone involved in it.
TrustedEvidence ==
    /\ \A key \in DOMAIN entries :
          LET edges == PrimaryEdges(key[1], key[2]) IN
          /\ Cardinality(edges) = 1
          /\ \A r \in edges : /\ MayPersist(key[1], r.right, entries[key].input)
                              /\ entries[key].tier = TierOf(r.right)
    /\ \A r \in relations : EndpointsHold(r)
    /\ \A key \in DOMAIN conflicts :
          /\ \A k \in conflicts[key].members :
                /\ Exists(key[1], k)
                /\ conflicts[key].status \notin Closed /\ entries[<<key[1], k>>].eligible
                     => ConflictState(key[1], k) = "unresolved"
          /\ conflicts[key].winner # None =>
               conflicts[key].action =
                 (IF conflicts[key].winner = conflicts[key].left
                  THEN "keep_left" ELSE "keep_right")

Changing == {r \in receipts : Mutates(r.verdict)}
Archiving == {r \in receipts : r.verdict.action = "archive_request"}

\* However the evaluations of several processes interleave, each revision of
\* a row is changed by at most one of them, an evaluation has one receipt, a
\* row is sent to the archive once for a reason, and exactly the receipts
\* that changed or archived something have an event in the outbox.
ReceiptsAccount ==
    /\ \A r, q \in Changing :
          r.user = q.user /\ r.id = q.id /\ r.revision = q.revision => r = q
    /\ \A r, q \in receipts :
          r.user = q.user /\ r.evaluation = q.evaluation => r = q
    /\ \A r, q \in Archiving :
          r.user = q.user /\ r.id = q.id /\ r.verdict = q.verdict => r = q
    /\ \A u \in Users, k \in Ids :
          LET of(set) == Cardinality({r \in set : r.user = u /\ r.id = k}) IN
          /\ Queued("lifecycle.changed", <<u, k>>) = of(Changing)
          /\ Queued("lifecycle.archive", <<u, k>>) = of(Archiving)

\* What the two rest on: the sides of a conflict differ, a row that an evaluation
\* is about stays, and a receipt that changed a row is of a revision it has left.
ConflictsHaveSides ==
    \A key \in DOMAIN conflicts :
       /\ conflicts[key].left # conflicts[key].right
       /\ DecisionHolds(conflicts[key].action, conflicts[key].winner,
                        conflicts[key].left, conflicts[key].right)

RevisionsPassed ==
    /\ \A p \in Processes :
          doing[p] # None => Exists(doing[p].user, doing[p].id)
    /\ \A r \in receipts : Exists(r.user, r.id)
    /\ \A r \in Changing : r.revision < entries[<<r.user, r.id>>].revision

KnowledgeInv ==
    /\ KnowledgeTypeOK
    /\ TrustedEvidence
    /\ ConflictsHaveSides
    /\ ReceiptsAccount
    /\ RevisionsPassed
=============================================================================
