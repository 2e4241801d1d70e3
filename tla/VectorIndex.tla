------------------------------- MODULE VectorIndex -------------------------------
(***************************************************************************)
(* The vector index of one user: the SQLite ledger of generations, entries *)
(* and receipts, the external collections it describes, and the three      *)
(* writers: the consumers of memory.upserted and forget.executed, which    *)
(* the outbox worker runs one at a time, and the rebuild.                  *)
(*                                                                         *)
(* A collection is written outside of any transaction, so a crash or a     *)
(* failure may leave it ahead of the ledger or behind it.  An outbox event *)
(* is tried until its consumer succeeds or its retries are used up, in no  *)
(* particular order (module Delivery); the entry behind it may change in   *)
(* the meantime.                                                           *)
(***************************************************************************)
EXTENDS Integers, FiniteSets

CONSTANTS
  Entries,           \* rows of memory_entries of the user
  Generations,       \* index generations
  Default,           \* index_generation of the consumers
  Streams,           \* streams of watermarks: the consumers' and those of rebuilds
  RebuildWatermarks, \* what a caller of rebuild may give as its source watermark
  MaxRetries         \* outbox_max_retries

Watermark == [stream : Streams, value : Nat]
NoWatermark == [stream |-> "none", value |-> 0]

ASSUME IndexAssumption ==
  /\ Default \in Generations
  /\ {"memory_upserted", "forget_executed"} \subseteq Streams
  /\ "none" \notin Streams
  /\ RebuildWatermarks \subseteq Watermark
  /\ MaxRetries \in Nat

VARIABLES
  source,       \* memory_entries: absent, live, deleted
  events,       \* the outbox events of every entry
  emitted,      \* number of upsert events emitted
  generations,  \* vector_index_generations
  ledger,       \* vector_index_entries: the active ones, by generation
  collection,   \* the external collections, by generation
  receipts,     \* vector_index_receipts of the consumers
  worker,       \* the event the worker is busy with, and how far it got
  rebuild       \* the rebuild under way

indexVars == <<generations, ledger, collection, receipts>>
vars == <<source, events, emitted, indexVars, worker, rebuild>>

-------------------------------------------------------------------------------
Operations == {"upsert", "delete"}

Generation == [status : {"none", "building", "ready", "failed"}, serving : BOOLEAN,
               watermark : Watermark \cup {NoWatermark}]
NoGeneration == [status |-> "none", serving |-> FALSE, watermark |-> NoWatermark]

Event == [state : {"none", "pending", "acked", "dead"}, watermark : Watermark \cup {NoWatermark},
          tries : 0..MaxRetries + 1]
NoEvent == [state |-> "none", watermark |-> NoWatermark, tries |-> 0]

Work == [stage : {"insert", "commit", "done"}, op : Operations, entry : Entries]
Idle == [stage |-> "idle", op |-> "none", entry |-> "none"]

Rebuild == [stage : {"write", "activate"}, target : Generations, records : SUBSET Entries]
NoRebuild == [stage |-> "idle", target |-> "none", records |-> {}]

\* Watermark.compare: another stream is an error, an older value is stale.
AtLeast(w, current) ==
  \/ current = NoWatermark
  \/ /\ w.stream = current.stream
     /\ w.value >= current.value

Serving == {g \in Generations : generations[g].serving}

\* What a search sees: the collection of the serving generation.
Served == UNION {collection[g] : g \in Serving}

\* get_index_state, asked with or without a watermark that should be reached:
\* the status of the serving generation, stale when it is behind.
IndexState(required) ==
  IF Serving = {} THEN "empty"
  ELSE LET g == CHOOSE h \in Serving : TRUE IN
       IF required = NoWatermark THEN generations[g].status
       ELSE IF required.stream # generations[g].watermark.stream THEN "invalid_argument"
       ELSE IF generations[g].watermark.value < required.value THEN "stale"
       ELSE generations[g].status

-------------------------------------------------------------------------------
(* The source of truth and its events *)

\* The producer numbers its events.
UpsertWatermark(n) == [stream |-> "memory_upserted", value |-> n]

\* The event of an execution carries no number, so the consumer takes 0.
DeleteWatermark == [stream |-> "forget_executed", value |-> 0]

\* A memory is stored and announced.
Remember(e) ==
  /\ source[e] = "absent"
  /\ source' = [source EXCEPT ![e] = "live"]
  /\ emitted' = emitted + 1
  /\ events' = [events EXCEPT ![<<"upsert", e>>] =
                  [state |-> "pending", watermark |-> UpsertWatermark(emitted + 1), tries |-> 0]]
  /\ UNCHANGED <<indexVars, worker, rebuild>>

\* forget.execute of a plan that names the entry (module ForgetPlan).
ForgetExecute(e) ==
  /\ source[e] = "live"
  /\ source' = [source EXCEPT ![e] = "deleted"]
  /\ events' = [events EXCEPT ![<<"delete", e>>] =
                  [state |-> "pending", watermark |-> DeleteWatermark, tries |-> 0]]
  /\ UNCHANGED <<emitted, indexVars, worker, rebuild>>

-------------------------------------------------------------------------------
(* VectorCliClient: every call is a process of its own, outside of any transaction *)

\* create_collection
Created == {}

\* insert: vectors and metadata under the ids of the entries, again when they
\* are there.
Inserted(vectors, E) == vectors \cup E

\* delete: at most the pairs of the request.
Deleted(vectors, E) == vectors \ E

\* drop_collection: one that is not there is dropped already.
Dropped == {}

\* _run: a call that ran into its deadline, or whose process died or answered
\* with an error, has happened or has not.
Interrupted(before, after) == {before, after}

-------------------------------------------------------------------------------
(* The outbox worker, as far as the index sees it *)

Takes(op, e) == worker = Idle /\ events[<<op, e>>].state = "pending"

\* The consumer raised: the event backs off, or becomes a dead letter.
Raised(op, e) ==
  /\ events' = [events EXCEPT ![<<op, e>>].tries = @ + 1,
                              ![<<op, e>>].state = IF events[<<op, e>>].tries >= MaxRetries
                                                   THEN "dead" ELSE "pending"]
  /\ worker' = Idle

\* The consumer returned and its event is deleted from the outbox.
Acknowledge ==
  /\ worker.stage = "done"
  /\ events' = [events EXCEPT ![<<worker.op, worker.entry>>].state = "acked"]
  /\ worker' = Idle
  /\ UNCHANGED <<source, emitted, indexVars, rebuild>>

\* Anything outside fails before a provider is asked: the deadline, the cache
\* invalidation, the creation of the collection.
FailsEarly(op, e) ==
  /\ Takes(op, e)
  /\ Raised(op, e)
  /\ UNCHANGED <<source, emitted, indexVars, rebuild>>

-------------------------------------------------------------------------------
(* SqliteVectorProvider.upsert *)

\* build_index_consumer: what the consumer of memory.upserted asks for.  The
\* producer names no generation, and one key stands for one version.
IndexRequest(e) ==
  [key |-> <<"upsert", e>>, generation |-> Default, watermark |-> events[<<"upsert", e>>].watermark]

\* The first upsert of a generation registers it, ready and serving, and takes
\* every other generation of the user out of service.
RegisterGeneration(q) ==
  [g \in Generations |->
     IF g = q.generation
     THEN [status |-> "ready", serving |-> TRUE, watermark |-> q.watermark]
     ELSE [generations[g] EXCEPT !.serving = FALSE]]

\* Receipt, generation, status and watermark are looked at.
UpsertBegins(e) ==
  LET q == IndexRequest(e) IN
  /\ Takes("upsert", e)
  /\ q.key \notin receipts
  /\ \/ /\ generations[q.generation].status = "none"
        /\ generations' = RegisterGeneration(q)
     \/ /\ generations[q.generation].status = "ready"
        /\ AtLeast(q.watermark, generations[q.generation].watermark)
        /\ UNCHANGED generations
  /\ worker' = [stage |-> "insert", op |-> "upsert", entry |-> e]
  /\ UNCHANGED <<source, events, emitted, ledger, collection, receipts, rebuild>>

\* The generation is not ready, or has seen a later or another watermark.
UpsertRefused(e) ==
  LET q == IndexRequest(e) IN
  /\ Takes("upsert", e)
  /\ q.key \notin receipts
  /\ generations[q.generation].status # "none"
  /\ \/ generations[q.generation].status # "ready"
     \/ ~AtLeast(q.watermark, generations[q.generation].watermark)
  /\ Raised("upsert", e)
  /\ UNCHANGED <<source, emitted, indexVars, rebuild>>

\* The vector is written to the collection.
UpsertInserts ==
  /\ worker.stage = "insert"
  /\ collection' = [collection EXCEPT ![Default] = Inserted(@, {worker.entry})]
  /\ worker' = [worker EXCEPT !.stage = "commit"]
  /\ UNCHANGED <<source, events, emitted, generations, ledger, receipts, rebuild>>

\* Mutant: the failure of the client is swallowed.
MutUpsertInsertFails ==
  /\ worker.stage = "insert"
  /\ worker' = [worker EXCEPT !.stage = "commit"]
  /\ UNCHANGED <<source, events, emitted, indexVars, rebuild>>

\* The client reports a failure, with or without the vector written; a failure
\* of the transaction that follows leaves the same traces.
UpsertInsertFails ==
  /\ worker.stage = "insert"
  /\ \E left \in Interrupted(collection[Default],
                             Inserted(collection[Default], {worker.entry})) :
       collection' = [collection EXCEPT ![Default] = left]
  /\ Raised("upsert", worker.entry)
  /\ UNCHANGED <<source, emitted, generations, ledger, receipts, rebuild>>

\* Mutant: the ledger is left to the next event.
MutUpsertCommits ==
  /\ worker.stage = "commit"
  /\ receipts' = receipts \cup {<<"upsert", worker.entry>>}
  /\ worker' = [worker EXCEPT !.stage = "done"]
  /\ UNCHANGED <<source, events, emitted, generations, ledger, collection, rebuild>>

\* Ledger, watermark and receipt, in one transaction.
UpsertCommits ==
  /\ worker.stage = "commit"
  /\ ledger' = [ledger EXCEPT ![Default] = @ \cup {worker.entry}]
  /\ generations' = [generations EXCEPT ![Default].watermark =
                       events[<<"upsert", worker.entry>>].watermark]
  /\ receipts' = receipts \cup {<<"upsert", worker.entry>>}
  /\ worker' = [worker EXCEPT !.stage = "done"]
  /\ UNCHANGED <<source, events, emitted, collection, rebuild>>

\* A redelivered event is answered from its receipt.
Replay(op, e) ==
  /\ Takes(op, e)
  /\ <<op, e>> \in receipts
  /\ worker' = [stage |-> "done", op |-> op, entry |-> e]
  /\ UNCHANGED <<source, events, emitted, indexVars, rebuild>>

-------------------------------------------------------------------------------
(* SqliteVectorProvider.delete *)

DeleteAccepted(e) ==
  /\ Takes("delete", e)
  /\ <<"delete", e>> \notin receipts
  /\ generations[Default].status = "ready"
  /\ AtLeast(events[<<"delete", e>>].watermark, generations[Default].watermark)

\* Only what the ledger knows is deleted; anything else is a no_op.
Matched(e) == {e} \cap ledger[Default]

\* One transaction, with the deletion from the collection inside.
Delete(e) ==
  /\ DeleteAccepted(e)
  /\ collection' = [collection EXCEPT ![Default] = Deleted(@, Matched(e))]
  /\ ledger' = [ledger EXCEPT ![Default] = @ \ Matched(e)]
  /\ generations' = [generations EXCEPT ![Default].watermark = events[<<"delete", e>>].watermark]
  /\ receipts' = receipts \cup {<<"delete", e>>}
  /\ worker' = [stage |-> "done", op |-> "delete", entry |-> e]
  /\ UNCHANGED <<source, events, emitted, rebuild>>

\* The client reports a failure, the transaction cannot be committed, or the
\* process dies before it is; the vector may be gone.
DeleteFails(e) ==
  /\ DeleteAccepted(e)
  /\ \E left \in Interrupted(collection[Default],
                             Deleted(collection[Default], Matched(e))) :
       collection' = [collection EXCEPT ![Default] = left]
  /\ \/ Raised("delete", e)
     \/ UNCHANGED <<events, worker>>
  /\ UNCHANGED <<source, emitted, generations, ledger, receipts, rebuild>>

DeleteRefused(e) ==
  /\ Takes("delete", e)
  /\ <<"delete", e>> \notin receipts
  /\ ~DeleteAccepted(e)
  /\ Raised("delete", e)
  /\ UNCHANGED <<source, emitted, indexVars, rebuild>>

-------------------------------------------------------------------------------
(* SqliteVectorProvider.rebuild *)

\* SqliteVectorSnapshotReader.read: every live entry of the user.  An entry that
\* cannot be indexed, or a preference that would be left out, stops the rebuild.
Snapshot == {e \in Entries : source[e] = "live"}

\* The snapshot is read and the target registered in one transaction; a target
\* that exists already, in whatever status, is a conflict.
RebuildBegins(g, watermark) ==
  /\ rebuild = NoRebuild
  /\ generations[g].status = "none"
  /\ generations' = [generations EXCEPT ![g] =
                       [status |-> "building", serving |-> FALSE, watermark |-> watermark]]
  /\ rebuild' = [stage |-> "write", target |-> g, records |-> Snapshot]
  /\ UNCHANGED <<source, events, emitted, ledger, collection, receipts, worker>>

\* Embedding, creation and filling of the collection.
RebuildWrites ==
  /\ rebuild.stage = "write"
  /\ collection' = [collection EXCEPT ![rebuild.target] = Inserted(Created, rebuild.records)]
  /\ rebuild' = [rebuild EXCEPT !.stage = "activate"]
  /\ UNCHANGED <<source, events, emitted, generations, ledger, receipts, worker>>

\* The collection is dropped, if that works, and the target has failed.
RebuildFails ==
  /\ rebuild.stage = "write"
  /\ \E left \in Interrupted(Inserted(Created, rebuild.records), Dropped) :
       collection' = [collection EXCEPT ![rebuild.target] = left]
  /\ generations' = [generations EXCEPT ![rebuild.target].status = "failed"]
  /\ rebuild' = NoRebuild
  /\ UNCHANGED <<source, events, emitted, ledger, receipts, worker>>

\* Mutant: the generation in service before is not taken out.
MutActivated(g) == [generations EXCEPT ![g].status = "ready", ![g].serving = TRUE]

Activated(g) ==
  [h \in Generations |->
     IF h = g THEN [generations[g] EXCEPT !.status = "ready", !.serving = TRUE]
     ELSE [generations[h] EXCEPT !.serving = FALSE]]

\* The route is switched and the ledger written, in one transaction.
RebuildActivates ==
  /\ rebuild.stage = "activate"
  /\ generations' = Activated(rebuild.target)
  /\ ledger' = [ledger EXCEPT ![rebuild.target] = @ \cup rebuild.records]
  /\ rebuild' = NoRebuild
  /\ UNCHANGED <<source, events, emitted, collection, receipts, worker>>

-------------------------------------------------------------------------------
(* A process dies; what it wrote stays. *)

WorkerDies ==
  /\ worker # Idle
  /\ worker' = Idle
  /\ UNCHANGED <<source, events, emitted, indexVars, rebuild>>

\* The target stays registered, in the status it had.
RebuildDies ==
  /\ rebuild # NoRebuild
  /\ rebuild' = NoRebuild
  /\ UNCHANGED <<source, events, emitted, indexVars, worker>>

Init ==
  /\ source = [e \in Entries |-> "absent"]
  /\ events = [key \in Operations \X Entries |-> NoEvent]
  /\ emitted = 0
  /\ generations = [g \in Generations |-> NoGeneration]
  /\ ledger = [g \in Generations |-> {}]
  /\ collection = [g \in Generations |-> {}]
  /\ receipts = {}
  /\ worker = Idle
  /\ rebuild = NoRebuild

Next ==
  \/ \E e \in Entries :
       \/ Remember(e) \/ ForgetExecute(e)
       \/ UpsertBegins(e) \/ UpsertRefused(e)
       \/ Delete(e) \/ DeleteFails(e) \/ DeleteRefused(e)
       \/ \E op \in Operations : FailsEarly(op, e) \/ Replay(op, e)
  \/ UpsertInserts \/ UpsertInsertFails \/ UpsertCommits
  \/ Acknowledge
  \/ \E g \in Generations, watermark \in RebuildWatermarks : RebuildBegins(g, watermark)
  \/ RebuildWrites \/ RebuildFails \/ RebuildActivates
  \/ WorkerDies \/ RebuildDies

Spec == Init /\ [][Next]_vars

-------------------------------------------------------------------------------
(* Properties *)

\* Types of the tables and of the progress of the writers.
TypeOK ==
  /\ source \in [Entries -> {"absent", "live", "deleted"}]
  /\ events \in [Operations \X Entries -> Event]
  /\ emitted \in Nat
  /\ generations \in [Generations -> Generation]
  /\ ledger \in [Generations -> SUBSET Entries]
  /\ collection \in [Generations -> SUBSET Entries]
  /\ receipts \subseteq Operations \X Entries
  /\ worker \in Work \cup {Idle}
  /\ rebuild \in Rebuild \cup {NoRebuild}

\* However upserts, rebuilds, failures and crashes interleave, at most one
\* generation is served, and never one that is being built or has failed.  The
\* statements of the switches see to it by themselves: the unique index on
\* is_serving, which the module leaves out, never has one to refuse.
OneServing ==
  /\ \A g, h \in Generations :
       generations[g].serving /\ generations[h].serving => g = h
  /\ \A g \in Generations : generations[g].serving => generations[g].status = "ready"

\* The ledger does not promise what the collection lacks: an active entry
\* without its vector has a deletion under way that is not acknowledged.
LedgerCovered ==
  \A g \in Generations : \A e \in ledger[g] \ collection[g] :
    g = Default /\ events[<<"delete", e>>].state \in {"pending", "dead"}

\* An acknowledged event has left its mark, whatever failed or was repeated
\* before: the vector and its ledger entry are there, unless it is being
\* deleted again; and an acknowledged forget event means that the vector is gone
\* from the generation it was addressed to, and that no late upsert brings it
\* back.
AckedHasEffect ==
  \A e \in Entries :
    /\ events[<<"upsert", e>>].state = "acked" =>
         \/ e \in ledger[Default] \cap collection[Default]
         \/ events[<<"delete", e>>].state # "none"
    /\ events[<<"delete", e>>].state = "acked" => e \notin collection[Default]

\* When the vector of a forgotten entry could not be deleted, the index says
\* so: whoever asks for its state is not told that it is ready while a search
\* still finds the vector.
FailedDeleteShows ==
  \A e \in Served :
    events[<<"delete", e>>].state = "dead" => IndexState(NoWatermark) # "ready"

-------------------------------------------------------------------------------
(* The inductive invariant *)

\* A rebuild owns its target: nobody serves it or writes to it.
RebuildStands ==
  rebuild # NoRebuild =>
    /\ generations[rebuild.target].status = "building"
    /\ rebuild.stage = "activate" => collection[rebuild.target] = rebuild.records

\* A generation has a watermark from its registration on, a collection not
\* before, and no ledger before it is ready.
UnbuiltIsEmpty ==
  \A g \in Generations :
    /\ generations[g].status = "none" => collection[g] = {}
    /\ generations[g].status # "none" => generations[g].watermark # NoWatermark
    /\ generations[g].status # "ready" => ledger[g] = {}

\* An event that is worked on is pending, an upsert that was accepted has put
\* the default generation on its stream, and a consumer that returns has left
\* its receipt.
WorkerStands ==
  worker # Idle =>
    /\ events[<<worker.op, worker.entry>>].state = "pending"
    /\ worker.stage \in {"insert", "commit"} =>
         /\ worker.op = "upsert"
         /\ generations[Default].status = "ready"
         /\ generations[Default].watermark.stream = "memory_upserted"
    /\ worker.stage = "commit" => worker.entry \in collection[Default]
    /\ worker.stage = "done" => <<worker.op, worker.entry>> \in receipts

\* Watermark and retries of an event, and the receipt of an acknowledged one.
EventStands(op, e) ==
  LET event == events[<<op, e>>] IN
  /\ event.state = "acked" => <<op, e>> \in receipts
  /\ event.state = "pending" =>
       /\ event.tries <= MaxRetries
       /\ op = "upsert" => event.watermark.stream = "memory_upserted"
       /\ op = "delete" => event.watermark = DeleteWatermark

EventsStand == \A op \in Operations, e \in Entries : EventStands(op, e)

\* The default generation has been put on the stream of one of the two consumers.
On(stream) ==
  generations[Default].status = "ready" /\ generations[Default].watermark.stream = stream

\* The receipt of an upsert stands for a vector and its ledger entry, that of a
\* delete for their absence, and each for a default generation that accepts
\* nothing of the other kind any more.
ReceiptsStand ==
  \A e \in Entries :
    /\ <<"upsert", e>> \in receipts =>
         On("memory_upserted") /\ e \in ledger[Default] \cap collection[Default]
    /\ <<"delete", e>> \in receipts =>
         On("forget_executed") /\ e \notin ledger[Default] \cup collection[Default]

\* On the stream of the deletes the ledger knows every vector: only a rebuild has
\* written there.
DeletesFindAll == On("forget_executed") => collection[Default] \subseteq ledger[Default]

IInv ==
  /\ TypeOK
  /\ OneServing
  /\ RebuildStands
  /\ UnbuiltIsEmpty
  /\ WorkerStands
  /\ EventsStand
  /\ ReceiptsStand
  /\ DeletesFindAll
  /\ LedgerCovered

===============================================================================
