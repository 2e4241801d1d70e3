------------------------- MODULE VectorIndexProofs -------------------------
(***************************************************************************)
(* For every set of entries and generations, every stream a rebuild may    *)
(* be on and every number of retries: one generation is served, the ledger *)
(* promises nothing the collection lacks, an acknowledged event has left   *)
(* its mark, and no generation an upsert has written takes a delete.  And  *)
(* for every content of two indexes: hits that may not be shown get no     *)
(* score and no place in what a retrieval answers, and its context holds   *)
(* current rows of the user only, each memory once and within the limits.  *)
(***************************************************************************)
EXTENDS VectorIndex, Retrieval, FiniteSetTheorems, SequenceTheorems,
        WellFoundedInduction, TLAPS

USE IndexAssumption

-----------------------------------------------------------------------------
(* Events and watermarks *)

\* The consumers' streams are streams.
LEMMA OwnStreams ==
  /\ DeleteWatermark \in Watermark
  /\ \A n \in Nat : UpsertWatermark(n) \in Watermark
BY DEF DeleteWatermark, UpsertWatermark, Watermark

\* A consumer that raised leaves its event pending with one more try, or dead.
LEMMA RaisedFacts ==
  ASSUME IInv, NEW op \in Operations, NEW e \in Entries,
         events[<<op, e>>].state = "pending", Raised(op, e)
  PROVE  /\ worker' = Idle
         /\ events' \in [Operations \X Entries -> Event]
         /\ events'[<<op, e>>].state \in {"pending", "dead"}
         /\ events'[<<op, e>>].state = "pending" => events'[<<op, e>>].tries <= MaxRetries
         /\ events'[<<op, e>>].watermark = events[<<op, e>>].watermark
         /\ \A o \in Operations, d \in Entries :
              <<o, d>> # <<op, e>> => events'[<<o, d>>] = events[<<o, d>>]
<1> DEFINE old == events[<<op, e>>]
           new == [old EXCEPT !.tries = old.tries + 1,
                              !.state = IF old.tries >= MaxRetries THEN "dead" ELSE "pending"]
<1>1. old \in Event /\ old.tries <= MaxRetries /\ old.tries \in Nat
  BY DEF IInv, TypeOK, EventsStand, EventStands, Event
<1>2. old.tries + 1 \in 0..MaxRetries + 1
  BY <1>1
<1>3. /\ new \in Event /\ new.watermark = old.watermark
      /\ new.state = (IF old.tries >= MaxRetries THEN "dead" ELSE "pending")
      /\ new.tries = old.tries + 1
  BY <1>1, <1>2, Zenon DEF Event
<1>4. events' = [events EXCEPT ![<<op, e>>] = new]
  BY DEF Raised, IInv, TypeOK
<1> HIDE DEF new
<1>5. events' \in [Operations \X Entries -> Event] /\ events'[<<op, e>>] = new
      /\ \A o \in Operations, d \in Entries :
           <<o, d>> # <<op, e>> => events'[<<o, d>>] = events[<<o, d>>]
  BY <1>3, <1>4 DEF IInv, TypeOK
<1>6. new.state \in {"pending", "dead"} /\ (new.state = "pending" => new.tries <= MaxRetries)
  BY <1>1, <1>3
<1>7. QED
  BY <1>3, <1>5, <1>6 DEF Raised

\* It stands as it did before.
LEMMA RaisedStands ==
  ASSUME IInv, NEW op \in Operations, NEW e \in Entries,
         events[<<op, e>>].state = "pending", Raised(op, e), UNCHANGED receipts
  PROVE  EventsStand'
<1> SUFFICES ASSUME NEW o \in Operations, NEW d \in Entries
             PROVE  EventStands(o, d)'
  BY DEF EventsStand
<1>1. EventStands(o, d) /\ EventStands(op, e)
  BY DEF IInv, EventsStand
<1>2. CASE <<o, d>> = <<op, e>>
  BY <1>1, <1>2, RaisedFacts DEF EventStands
<1>3. CASE <<o, d>> # <<op, e>>
  <2>1. events'[<<o, d>>] = events[<<o, d>>]
    BY <1>3, RaisedFacts
  <2>2. QED
    BY <1>1, <2>1 DEF EventStands
<1>4. QED
  BY <1>2, <1>3

\* A delete is accepted by a generation on the stream of the deletes only.
LEMMA DeleteNeedsItsStream ==
  ASSUME IInv, NEW e \in Entries, DeleteAccepted(e)
  PROVE  /\ On("forget_executed")
         /\ events[<<"delete", e>>].state = "pending"
         /\ events[<<"delete", e>>].watermark = DeleteWatermark
<1>1. /\ events[<<"delete", e>>].state = "pending"
      /\ events[<<"delete", e>>].watermark = DeleteWatermark
      /\ generations[Default].status = "ready"
      /\ generations[Default].watermark # NoWatermark
  BY DEF DeleteAccepted, Takes, IInv, EventsStand, EventStands, UnbuiltIsEmpty, Operations
<1>2. generations[Default].watermark.stream = "forget_executed"
  BY <1>1 DEF DeleteAccepted, AtLeast, DeleteWatermark
<1>3. QED
  BY <1>1, <1>2 DEF On

-----------------------------------------------------------------------------
(* Steps of the source and of the worker *)

\* The invariant holds of an empty database.
LEMMA InitEstablishes == Init => IInv
<1> SUFFICES ASSUME Init PROVE IInv
  OBVIOUS
<1> USE DEF Init
<1>1. TypeOK
  <2>1. NoEvent \in Event /\ NoGeneration \in Generation
    BY DEF Event, NoEvent, Generation, NoGeneration
  <2>2. QED
    BY <2>1 DEF TypeOK
<1>2. OneServing /\ RebuildStands /\ UnbuiltIsEmpty
  BY DEF OneServing, RebuildStands, UnbuiltIsEmpty, NoGeneration
<1>3. WorkerStands /\ ReceiptsStand /\ DeletesFindAll /\ LedgerCovered
  BY DEF WorkerStands, ReceiptsStand, On, DeletesFindAll, LedgerCovered, NoGeneration
<1>4. EventsStand
  <2>1. \A op \in Operations, e \in Entries : events[<<op, e>>].state = "none"
    BY DEF NoEvent
  <2>2. QED
    BY <2>1 DEF EventsStand, EventStands
<1>5. QED
  BY <1>1, <1>2, <1>3, <1>4 DEF IInv

\* A new event of an entry is pending and carries the watermark of its kind.
LEMMA NewEventPreserves ==
  ASSUME IInv, NEW e \in Entries, Remember(e) \/ ForgetExecute(e)
  PROVE  IInv'
<1>1. UNCHANGED <<generations, ledger, collection, receipts, worker, rebuild>>
  BY DEF Remember, ForgetExecute, indexVars
<1>2. PICK op \in Operations :
        /\ events' \in [Operations \X Entries -> Event]
        /\ events'[<<op, e>>].state = "pending" /\ events'[<<op, e>>].tries = 0
        /\ op = "upsert" => events'[<<op, e>>].watermark.stream = "memory_upserted"
        /\ op = "delete" => events'[<<op, e>>].watermark = DeleteWatermark
        /\ \A o \in Operations, d \in Entries :
             <<o, d>> # <<op, e>> => events'[<<o, d>>] = events[<<o, d>>]
  <2>1. CASE Remember(e)
    <3>1. [state |-> "pending", watermark |-> UpsertWatermark(emitted + 1), tries |-> 0] \in Event
      BY OwnStreams DEF Event, IInv, TypeOK
    <3>2. events' = [events EXCEPT ![<<"upsert", e>>] =
             [state |-> "pending", watermark |-> UpsertWatermark(emitted + 1), tries |-> 0]]
      BY <2>1 DEF Remember
    <3>3. "upsert" \in Operations
      BY DEF Operations
    <3>4. QED
      BY <3>1, <3>2, <3>3 DEF IInv, TypeOK, UpsertWatermark, Operations
  <2>2. CASE ForgetExecute(e)
    <3>1. [state |-> "pending", watermark |-> DeleteWatermark, tries |-> 0] \in Event
      BY OwnStreams DEF Event
    <3>2. events' = [events EXCEPT ![<<"delete", e>>] =
             [state |-> "pending", watermark |-> DeleteWatermark, tries |-> 0]]
      BY <2>2 DEF ForgetExecute
    <3>3. "delete" \in Operations
      BY DEF Operations
    <3>4. QED
      BY <3>1, <3>2, <3>3 DEF IInv, TypeOK, Operations
  <2>3. QED
    BY <2>1, <2>2
<1>3. TypeOK'
  BY <1>1, <1>2 DEF Remember, ForgetExecute, IInv, TypeOK
<1>4. OneServing' /\ RebuildStands' /\ UnbuiltIsEmpty' /\ DeletesFindAll'
  BY <1>1 DEF IInv, OneServing, RebuildStands, UnbuiltIsEmpty, DeletesFindAll, On
<1>5. WorkerStands'
  BY <1>1, <1>2 DEF IInv, TypeOK, WorkerStands, Work
<1>6. EventsStand'
  <2> SUFFICES ASSUME NEW o \in Operations, NEW d \in Entries
               PROVE  EventStands(o, d)'
    BY DEF EventsStand
  <2>1. EventStands(o, d)
    BY DEF IInv, EventsStand
  <2>2. CASE <<o, d>> = <<op, e>>
    BY <1>2, <2>2 DEF EventStands
  <2>3. CASE <<o, d>> # <<op, e>>
    <3>1. events'[<<o, d>>] = events[<<o, d>>]
      BY <1>2, <2>3
    <3>2. QED
      BY <1>1, <2>1, <3>1 DEF EventStands
  <2>4. QED
    BY <2>2, <2>3
<1>7. ReceiptsStand' /\ LedgerCovered'
  <2>1. ASSUME NEW d \in Entries
        PROVE  /\ events[<<"delete", d>>].state # "none" => events'[<<"delete", d>>].state # "none"
               /\ events[<<"delete", d>>].state \in {"pending", "dead"} =>
                    events'[<<"delete", d>>].state \in {"pending", "dead"}
    BY <1>2 DEF Operations
  <2>2. ledger \in [Generations -> SUBSET Entries]
    BY DEF IInv, TypeOK
  <2>3. QED
    BY <1>1, <2>1, <2>2 DEF IInv, ReceiptsStand, On, LedgerCovered
<1>8. QED
  BY <1>3, <1>4, <1>5, <1>6, <1>7 DEF IInv

\* A consumer that raised has at most written a vector: an upsert, to a
\* generation on the stream of the upserts.
LEMMA RaisedPreserves ==
  ASSUME IInv, NEW op \in Operations, NEW e \in Entries,
         events[<<op, e>>].state = "pending", Raised(op, e),
         UNCHANGED <<source, emitted, generations, ledger, receipts, rebuild>>,
         \/ UNCHANGED collection
         \/ /\ collection' = [collection EXCEPT ![Default] = @ \cup {e}]
            /\ generations[Default].status = "ready"
            /\ generations[Default].watermark.stream = "memory_upserted"
  PROVE  IInv'
<1>1. /\ worker' = Idle
      /\ events' \in [Operations \X Entries -> Event]
      /\ events'[<<op, e>>].state \in {"pending", "dead"}
      /\ events'[<<op, e>>].state = "pending" => events'[<<op, e>>].tries <= MaxRetries
      /\ events'[<<op, e>>].watermark = events[<<op, e>>].watermark
      /\ \A o \in Operations, d \in Entries :
           <<o, d>> # <<op, e>> => events'[<<o, d>>] = events[<<o, d>>]
  BY RaisedFacts
<1>2. /\ collection' \in [Generations -> SUBSET Entries]
      /\ \A g \in Generations : collection[g] \subseteq collection'[g]
      /\ \A g \in Generations : collection'[g] # collection[g] =>
           /\ g = Default
           /\ generations[g].status = "ready"
           /\ generations[g].watermark.stream = "memory_upserted"
  BY DEF IInv, TypeOK
<1>3. TypeOK' /\ OneServing'
  BY <1>1, <1>2 DEF IInv, TypeOK, OneServing
<1>4. RebuildStands' /\ UnbuiltIsEmpty'
  BY <1>2 DEF IInv, TypeOK, RebuildStands, UnbuiltIsEmpty, Rebuild
<1>5. WorkerStands'
  BY <1>1 DEF WorkerStands
<1>6. EventsStand'
  BY RaisedStands
<1>7. ReceiptsStand' /\ LedgerCovered'
  <2>1. ASSUME NEW d \in Entries
        PROVE  /\ events[<<"delete", d>>].state # "none" => events'[<<"delete", d>>].state # "none"
               /\ events[<<"delete", d>>].state \in {"pending", "dead"} =>
                    events'[<<"delete", d>>].state \in {"pending", "dead"}
    BY <1>1 DEF Operations
  <2>2. ledger \in [Generations -> SUBSET Entries]
    BY DEF IInv, TypeOK
  <2>3. QED
    BY <1>2, <2>1, <2>2 DEF IInv, ReceiptsStand, On, LedgerCovered
<1>8. DeletesFindAll'
  BY <1>2 DEF IInv, DeletesFindAll, On
<1>9. QED
  BY <1>3, <1>4, <1>5, <1>6, <1>7, <1>8 DEF IInv

\* A consumer begins with a pending event, or answers it from its receipt.
LEMMA UpsertBeginsPreserves ==
  ASSUME IInv, NEW e \in Entries, UpsertBegins(e)
  PROVE  IInv'
<1> DEFINE w == events[<<"upsert", e>>].watermark
<1>1. /\ UNCHANGED <<source, events, emitted, ledger, collection, receipts, rebuild>>
      /\ worker' = [stage |-> "insert", op |-> "upsert", entry |-> e]
      /\ events[<<"upsert", e>>].state = "pending"
  BY DEF UpsertBegins, Takes
<1>2. w \in Watermark /\ w.stream = "memory_upserted"
  BY <1>1 DEF IInv, TypeOK, EventsStand, EventStands, Operations, Event, NoWatermark
<1>3. /\ generations' \in [Generations -> Generation]
      /\ generations'[Default].status = "ready"
      /\ generations'[Default].watermark.stream = "memory_upserted"
      /\ \A g \in Generations \ {Default} :
           /\ generations'[g].status = generations[g].status
           /\ generations'[g].watermark = generations[g].watermark
           /\ generations'[g].serving => generations[g].serving
      /\ generations'[Default].serving # generations[Default].serving =>
           \A g \in Generations \ {Default} : ~generations'[g].serving
      /\ generations[Default].status = "none" \/ UNCHANGED generations
  <2>1. CASE /\ generations[Default].status = "none"
             /\ generations' = RegisterGeneration(IndexRequest(e))
    <3>1. /\ generations'[Default] = [status |-> "ready", serving |-> TRUE, watermark |-> w]
          /\ \A g \in Generations \ {Default} :
               generations'[g] = [generations[g] EXCEPT !.serving = FALSE]
          /\ DOMAIN generations' = Generations
          /\ generations' = [g \in Generations |-> generations'[g]]
      BY <2>1 DEF RegisterGeneration, IndexRequest
    <3>2. generations'[Default] \in Generation
      BY <3>1, <1>2 DEF Generation
    <3>3. ASSUME NEW g \in Generations \ {Default}
          PROVE  /\ generations'[g] \in Generation
                 /\ generations'[g].status = generations[g].status
                 /\ generations'[g].watermark = generations[g].watermark
                 /\ generations'[g].serving = FALSE
      <4>1. generations[g] \in Generation
        BY DEF IInv, TypeOK
      <4>2. QED
        BY <3>1, <4>1, Zenon DEF Generation
    <3> HIDE DEF w
    <3>4. \A g \in Generations : generations'[g] \in Generation
      BY <3>2, <3>3
    <3>5. generations' \in [Generations -> Generation]
      BY <3>1, <3>4
    <3>6. /\ generations'[Default].status = "ready"
          /\ generations'[Default].watermark = w
      BY <3>1
    <3>7. QED
      BY <1>2, <2>1, <3>3, <3>5, <3>6
  <2>2. CASE /\ generations[Default].status = "ready"
             /\ AtLeast(w, generations[Default].watermark)
             /\ UNCHANGED generations
    <3>1. generations[Default].watermark # NoWatermark
      BY <2>2 DEF IInv, UnbuiltIsEmpty
    <3>2. QED
      BY <1>2, <2>2, <3>1 DEF AtLeast, IInv, TypeOK
  <2>3. QED
    BY <2>1, <2>2 DEF UpsertBegins, IndexRequest
<1>4. TypeOK' /\ EventsStand' /\ LedgerCovered'
  BY <1>1, <1>3 DEF IInv, TypeOK, EventsStand, EventStands, LedgerCovered, Work,
                    Operations
<1>5. OneServing'
  BY <1>3 DEF IInv, OneServing
<1>6. RebuildStands' /\ UnbuiltIsEmpty'
  <2>1. generations'[Default].watermark # NoWatermark
    BY <1>3 DEF NoWatermark
  <2>2. rebuild # NoRebuild =>
          rebuild.target \in Generations /\ (rebuild.target = Default => UNCHANGED generations)
    BY <1>3 DEF IInv, TypeOK, Rebuild, RebuildStands
  <2>3. QED
    BY <1>1, <1>3, <2>1, <2>2 DEF IInv, RebuildStands, UnbuiltIsEmpty
<1>7. WorkerStands'
  BY <1>1, <1>3 DEF WorkerStands
<1>8. ReceiptsStand' /\ DeletesFindAll'
  BY <1>1, <1>3 DEF IInv, ReceiptsStand, DeletesFindAll, On
<1>9. QED
  BY <1>4, <1>5, <1>6, <1>7, <1>8 DEF IInv

\* The vector is in the collection of the default generation from here on.
LEMMA UpsertInsertsPreserves == IInv /\ UpsertInserts => IInv'
<1> SUFFICES ASSUME IInv, UpsertInserts PROVE IInv'
  OBVIOUS
<1>1. /\ UNCHANGED <<source, events, emitted, generations, ledger, receipts, rebuild>>
      /\ worker \in Work /\ worker.stage = "insert"
      /\ worker' = [worker EXCEPT !.stage = "commit"]
      /\ collection' = [collection EXCEPT ![Default] = collection[Default] \cup {worker.entry}]
  BY DEF UpsertInserts, Inserted, IInv, TypeOK, Idle
<1>2. /\ worker' \in Work /\ worker'.stage = "commit"
      /\ worker'.op = worker.op /\ worker'.entry = worker.entry
  BY <1>1, Zenon DEF Work
<1>3. /\ collection' \in [Generations -> SUBSET Entries]
      /\ \A g \in Generations : collection[g] \subseteq collection'[g]
      /\ \A g \in Generations \ {Default} : collection'[g] = collection[g]
      /\ worker.entry \in collection'[Default]
  BY <1>1 DEF IInv, TypeOK, Work
<1>4. worker # Idle
  BY <1>1 DEF Idle
<1>5. /\ generations[Default].status = "ready"
      /\ generations[Default].watermark.stream = "memory_upserted"
      /\ worker.op = "upsert"
      /\ events[<<worker.op, worker.entry>>].state = "pending"
  BY <1>1, <1>4 DEF IInv, WorkerStands
<1>6. TypeOK' /\ OneServing' /\ EventsStand'
  BY <1>1, <1>2, <1>3 DEF IInv, TypeOK, OneServing, EventsStand, EventStands
<1>7. RebuildStands' /\ UnbuiltIsEmpty'
  BY <1>1, <1>3, <1>5 DEF IInv, TypeOK, RebuildStands, UnbuiltIsEmpty, Rebuild
<1>8. WorkerStands'
  BY <1>1, <1>2, <1>3, <1>5 DEF WorkerStands
<1>9. ReceiptsStand' /\ DeletesFindAll'
  BY <1>1, <1>3, <1>5 DEF IInv, ReceiptsStand, DeletesFindAll, On
<1>10. LedgerCovered'
  BY <1>1, <1>3 DEF IInv, TypeOK, LedgerCovered
<1>11. QED
  BY <1>6, <1>7, <1>8, <1>9, <1>10 DEF IInv

\* The transaction of an upsert promises a vector that is there.
LEMMA UpsertCommitsPreserves == IInv /\ UpsertCommits => IInv'
<1> SUFFICES ASSUME IInv, UpsertCommits PROVE IInv'
  OBVIOUS
<1> DEFINE e == worker.entry
           w == events[<<"upsert", e>>].watermark
<1>1. /\ UNCHANGED <<source, events, emitted, collection, rebuild>>
      /\ worker \in Work /\ worker.stage = "commit"
      /\ worker' = [worker EXCEPT !.stage = "done"]
      /\ receipts' = receipts \cup {<<"upsert", e>>}
      /\ ledger' = [ledger EXCEPT ![Default] = ledger[Default] \cup {e}]
      /\ generations' = [generations EXCEPT ![Default] =
                           [generations[Default] EXCEPT !.watermark = w]]
      /\ worker # Idle
  BY DEF UpsertCommits, IInv, TypeOK, Idle
<1>2. /\ worker' \in Work /\ worker'.stage = "done"
      /\ worker'.op = worker.op /\ worker'.entry = worker.entry
  BY <1>1, Zenon DEF Work
<1>3. /\ e \in Entries /\ worker.op = "upsert"
      /\ generations[Default].status = "ready"
      /\ generations[Default].watermark.stream = "memory_upserted"
      /\ events[<<"upsert", e>>].state = "pending"
      /\ e \in collection[Default]
  BY <1>1 DEF IInv, WorkerStands, Work
<1>4. w \in Watermark /\ w.stream = "memory_upserted"
  BY <1>3 DEF IInv, TypeOK, EventsStand, EventStands, Operations, Event, NoWatermark
<1> HIDE DEF e, w
<1>5. /\ [generations[Default] EXCEPT !.watermark = w] \in Generation
      /\ [generations[Default] EXCEPT !.watermark = w].status = generations[Default].status
      /\ [generations[Default] EXCEPT !.watermark = w].serving = generations[Default].serving
      /\ [generations[Default] EXCEPT !.watermark = w].watermark = w
  <2>1. generations[Default] \in Generation
    BY DEF IInv, TypeOK
  <2>2. QED
    BY <2>1, <1>4, Zenon DEF Generation
<1>6. /\ generations' \in [Generations -> Generation]
      /\ generations'[Default].status = "ready"
      /\ generations'[Default].serving = generations[Default].serving
      /\ generations'[Default].watermark = w
      /\ \A g \in Generations \ {Default} : generations'[g] = generations[g]
  BY <1>1, <1>3, <1>5 DEF IInv, TypeOK
<1>7. /\ ledger' \in [Generations -> SUBSET Entries]
      /\ \A g \in Generations : ledger[g] \subseteq ledger'[g]
      /\ \A g \in Generations \ {Default} : ledger'[g] = ledger[g]
      /\ \A d \in ledger'[Default] : d = e \/ d \in ledger[Default]
      /\ e \in ledger'[Default]
  BY <1>1, <1>3 DEF IInv, TypeOK
<1>8. TypeOK'
  BY <1>1, <1>2, <1>3, <1>6, <1>7 DEF IInv, TypeOK, Operations
<1>9. OneServing'
  BY <1>3, <1>6 DEF IInv, OneServing
<1>10. RebuildStands' /\ UnbuiltIsEmpty'
  BY <1>1, <1>3, <1>4, <1>6, <1>7
     DEF IInv, TypeOK, RebuildStands, UnbuiltIsEmpty, Rebuild, NoWatermark
<1>11. WorkerStands'
  BY <1>1, <1>2, <1>3 DEF WorkerStands, e
<1>12. EventsStand'
  BY <1>1 DEF IInv, EventsStand, EventStands
<1>13. ReceiptsStand' /\ DeletesFindAll'
  BY <1>1, <1>3, <1>4, <1>6, <1>7 DEF IInv, ReceiptsStand, DeletesFindAll, On
<1>14. LedgerCovered'
  BY <1>1, <1>3, <1>7 DEF IInv, LedgerCovered
<1>15. QED
  BY <1>8, <1>9, <1>10, <1>11, <1>12, <1>13, <1>14 DEF IInv

\* A delete leaves its receipt, and what it matched is gone.
LEMMA DeletePreserves ==
  ASSUME IInv, NEW e \in Entries, Delete(e)
  PROVE  IInv'
<1> DEFINE new == [generations[Default] EXCEPT !.watermark = DeleteWatermark]
<1>1. /\ On("forget_executed")
      /\ events[<<"delete", e>>].state = "pending"
      /\ events[<<"delete", e>>].watermark = DeleteWatermark
  BY DeleteNeedsItsStream DEF Delete
<1>2. /\ UNCHANGED <<source, events, emitted, rebuild>>
      /\ generations' = [generations EXCEPT ![Default] = new]
      /\ collection' = [collection EXCEPT ![Default] = collection[Default] \ Matched(e)]
      /\ ledger' = [ledger EXCEPT ![Default] = ledger[Default] \ Matched(e)]
      /\ receipts' = receipts \cup {<<"delete", e>>}
      /\ worker' = [stage |-> "done", op |-> "delete", entry |-> e]
  BY <1>1 DEF Delete, Deleted, IInv, TypeOK
<1>3. /\ new \in Generation /\ new.watermark = DeleteWatermark
      /\ new.status = generations[Default].status
      /\ new.serving = generations[Default].serving
  <2>1. generations[Default] \in Generation /\ DeleteWatermark \in Watermark
    BY OwnStreams DEF IInv, TypeOK
  <2>2. QED
    BY <2>1, Zenon DEF Generation
<1> HIDE DEF new
<1>4. /\ generations' \in [Generations -> Generation]
      /\ generations'[Default] = new
      /\ \A g \in Generations \ {Default} : generations'[g] = generations[g]
  BY <1>2, <1>3 DEF IInv, TypeOK
<1>5. /\ ledger' \in [Generations -> SUBSET Entries]
      /\ collection' \in [Generations -> SUBSET Entries]
      /\ ledger'[Default] = ledger[Default] \ {e}
      /\ collection'[Default] = collection[Default] \ {e}
      /\ \A g \in Generations \ {Default} :
           ledger'[g] = ledger[g] /\ collection'[g] = collection[g]
  <2>1. collection[Default] \subseteq ledger[Default]
    BY <1>1 DEF IInv, DeletesFindAll, On
  <2>2. /\ ledger[Default] \ Matched(e) = ledger[Default] \ {e}
        /\ collection[Default] \ Matched(e) = collection[Default] \ {e}
    BY <2>1 DEF Matched
  <2>3. QED
    BY <1>2, <2>2 DEF IInv, TypeOK
<1>6. /\ generations'[Default].status = "ready"
      /\ generations'[Default].watermark.stream = "forget_executed"
      /\ generations'[Default].watermark # NoWatermark
  BY <1>1, <1>3, <1>4 DEF On, DeleteWatermark, NoWatermark
<1>7. TypeOK' /\ UnbuiltIsEmpty'
  BY <1>1, <1>2, <1>4, <1>5, <1>6 DEF IInv, TypeOK, UnbuiltIsEmpty, Work, Operations, On
<1>8. OneServing'
  BY <1>1, <1>3, <1>4 DEF IInv, OneServing, On
<1>9. RebuildStands'
  BY <1>1, <1>2, <1>4, <1>5 DEF IInv, TypeOK, RebuildStands, Rebuild, On
<1>10. WorkerStands'
  BY <1>1, <1>2 DEF WorkerStands
<1>11. EventsStand'
  BY <1>2 DEF IInv, EventsStand, EventStands
<1>12. ReceiptsStand' /\ DeletesFindAll'
  BY <1>1, <1>2, <1>5, <1>6 DEF IInv, ReceiptsStand, DeletesFindAll, On
<1>13. LedgerCovered'
  BY <1>2, <1>5 DEF IInv, TypeOK, LedgerCovered
<1>14. QED
  BY <1>7, <1>8, <1>9, <1>10, <1>11, <1>12, <1>13 DEF IInv

\* A delete that failed may have emptied the collection before the ledger.
LEMMA DeleteFailsPreserves ==
  ASSUME IInv, NEW e \in Entries, DeleteFails(e)
  PROVE  IInv'
<1>1. /\ On("forget_executed")
      /\ events[<<"delete", e>>].state = "pending"
      /\ e \in Entries /\ <<"delete", e>> \in Operations \X Entries
  BY DeleteNeedsItsStream DEF DeleteFails, Operations
<1>2. /\ UNCHANGED <<source, emitted, generations, ledger, receipts, rebuild>>
      /\ collection' \in [Generations -> SUBSET Entries]
      /\ \A g \in Generations : collection'[g] \subseteq collection[g]
      /\ \A g \in Generations : \A d \in collection[g] \ collection'[g] : g = Default /\ d = e
  BY DEF DeleteFails, Interrupted, Deleted, IInv, TypeOK, Matched
<1>3. /\ events' \in [Operations \X Entries -> Event]
      /\ worker' = Idle \/ (worker' = worker /\ events' = events)
      /\ events'[<<"delete", e>>].state \in {"pending", "dead"}
      /\ \A d \in Entries : events[<<"delete", d>>].state \in {"pending", "dead"} =>
                              events'[<<"delete", d>>].state \in {"pending", "dead"}
  <2>1. CASE Raised("delete", e)
    <3>1. "delete" \in Operations
      BY DEF Operations
    <3>2. /\ worker' = Idle
          /\ events' \in [Operations \X Entries -> Event]
          /\ events'[<<"delete", e>>].state \in {"pending", "dead"}
          /\ \A d \in Entries : <<"delete", d>> # <<"delete", e>> =>
               events'[<<"delete", d>>] = events[<<"delete", d>>]
      BY <1>1, <2>1, <3>1, RaisedFacts
    <3>3. QED
      BY <3>2
  <2>2. CASE UNCHANGED <<events, worker>>
    BY <1>1, <2>2 DEF IInv, TypeOK
  <2>3. QED
    BY <2>1, <2>2 DEF DeleteFails
<1>4. EventsStand'
  <2>1. CASE Raised("delete", e)
    <3>1. "delete" \in Operations
      BY DEF Operations
    <3>2. QED
      BY <1>1, <1>2, <2>1, <3>1, RaisedStands
  <2>2. CASE UNCHANGED <<events, worker>>
    BY <1>2, <2>2 DEF IInv, EventsStand, EventStands
  <2>3. QED
    BY <2>1, <2>2 DEF DeleteFails
<1>5. TypeOK' /\ OneServing'
  BY <1>2, <1>3 DEF IInv, TypeOK, OneServing
<1>6. UnbuiltIsEmpty'
  BY <1>2 DEF IInv, UnbuiltIsEmpty
<1>7. RebuildStands'
  <2>1. rebuild # NoRebuild => rebuild.target \in Generations \ {Default}
    BY <1>1 DEF IInv, TypeOK, RebuildStands, Rebuild, On
  <2>2. \A g \in Generations \ {Default} : collection'[g] = collection[g]
    BY <1>2
  <2>3. QED
    BY <1>2, <2>1, <2>2 DEF IInv, RebuildStands
<1>8. WorkerStands'
  BY <1>1, <1>2, <1>3 DEF IInv, WorkerStands, On
<1>9. ReceiptsStand' /\ DeletesFindAll'
  BY <1>1, <1>2 DEF IInv, ReceiptsStand, DeletesFindAll, On
<1>10. LedgerCovered'
  <2> SUFFICES ASSUME NEW g \in Generations, NEW d \in ledger[g] \ collection'[g]
               PROVE  g = Default /\ events'[<<"delete", d>>].state \in {"pending", "dead"}
    BY <1>2 DEF LedgerCovered
  <2>1. CASE d \in collection[g]
    BY <1>2, <1>3, <2>1
  <2>2. CASE d \notin collection[g]
    <3>1. /\ g = Default /\ d \in Entries
          /\ events[<<"delete", d>>].state \in {"pending", "dead"}
      BY <2>2 DEF IInv, LedgerCovered, TypeOK
    <3>2. QED
      BY <1>3, <3>1
  <2>3. QED
    BY <2>1, <2>2
<1>11. QED
  BY <1>4, <1>5, <1>6, <1>7, <1>8, <1>9, <1>10 DEF IInv

\* What a step that touches nothing but the worker, and leaves it idle or with
\* a receipt in its hands, preserves.
LEMMA WorkerOnlyPreserves ==
  ASSUME IInv, UNCHANGED <<source, events, emitted, indexVars, rebuild>>,
         \/ worker' = worker \/ worker' = Idle
         \/ /\ worker' \in Work /\ worker'.stage = "done"
            /\ events[<<worker'.op, worker'.entry>>].state = "pending"
            /\ <<worker'.op, worker'.entry>> \in receipts
  PROVE  IInv'
<1>1. TypeOK' /\ OneServing' /\ RebuildStands' /\ UnbuiltIsEmpty'
  BY DEF IInv, TypeOK, OneServing, RebuildStands, UnbuiltIsEmpty, indexVars
<1>2. WorkerStands'
  BY DEF IInv, WorkerStands, indexVars
<1>3. EventsStand' /\ ReceiptsStand' /\ DeletesFindAll' /\ LedgerCovered'
  BY DEF IInv, EventsStand, EventStands, ReceiptsStand, On, DeletesFindAll, LedgerCovered, indexVars
<1>4. QED
  BY <1>1, <1>2, <1>3 DEF IInv

\* The event of a consumer that returned is taken out of the outbox.
LEMMA AcknowledgePreserves == IInv /\ Acknowledge => IInv'
<1> SUFFICES ASSUME IInv, Acknowledge PROVE IInv'
  OBVIOUS
<1> DEFINE key == <<worker.op, worker.entry>>
<1>1. /\ UNCHANGED <<source, emitted, generations, ledger, collection, receipts, rebuild>>
      /\ worker' = Idle
      /\ worker \in Work /\ worker # Idle /\ worker.stage = "done"
      /\ events' = [events EXCEPT ![key] = [events[key] EXCEPT !.state = "acked"]]
  BY DEF Acknowledge, indexVars, IInv, TypeOK, Idle
<1>2. key \in receipts /\ key \in Operations \X Entries
  BY <1>1 DEF IInv, TypeOK, WorkerStands, Work
<1>3. /\ [events[key] EXCEPT !.state = "acked"] \in Event
      /\ [events[key] EXCEPT !.state = "acked"].state = "acked"
  <2>1. events[key] \in Event
    BY <1>2 DEF IInv, TypeOK
  <2>2. QED
    BY <2>1, Zenon DEF Event
<1> HIDE DEF key
<1>4. /\ events' \in [Operations \X Entries -> Event]
      /\ events'[key].state = "acked"
      /\ \A k \in Operations \X Entries : k # key => events'[k] = events[k]
  BY <1>1, <1>2, <1>3 DEF IInv, TypeOK
<1>5. TypeOK' /\ OneServing' /\ RebuildStands' /\ UnbuiltIsEmpty'
  BY <1>1, <1>4 DEF IInv, TypeOK, OneServing, RebuildStands, UnbuiltIsEmpty
<1>6. WorkerStands'
  BY <1>1 DEF WorkerStands
<1>7. EventsStand'
  <2> SUFFICES ASSUME NEW o \in Operations, NEW d \in Entries
               PROVE  EventStands(o, d)'
    BY DEF EventsStand
  <2>1. EventStands(o, d) /\ <<o, d>> \in Operations \X Entries
    BY DEF IInv, EventsStand
  <2>2. CASE <<o, d>> = key
    BY <1>1, <1>2, <1>4, <2>2 DEF EventStands
  <2>3. CASE <<o, d>> # key
    <3>1. events'[<<o, d>>] = events[<<o, d>>]
      BY <1>4, <2>1, <2>3
    <3>2. QED
      BY <1>1, <2>1, <3>1 DEF EventStands
  <2>4. QED
    BY <2>2, <2>3
<1>8. ASSUME NEW d \in Entries
      PROVE  /\ <<"delete", d>> = key => <<"delete", d>> \in receipts
             /\ <<"delete", d>> # key => events'[<<"delete", d>>] = events[<<"delete", d>>]
             /\ <<"delete", d>> = key => events'[<<"delete", d>>].state = "acked"
  BY <1>2, <1>4 DEF Operations
<1>9. ReceiptsStand'
  BY <1>1, <1>8 DEF IInv, ReceiptsStand, On
<1>10. DeletesFindAll'
  BY <1>1 DEF IInv, DeletesFindAll, On
<1>11. LedgerCovered'
  <2> SUFFICES ASSUME NEW g \in Generations, NEW d \in ledger[g] \ collection[g]
               PROVE  g = Default /\ events'[<<"delete", d>>].state \in {"pending", "dead"}
    BY <1>1 DEF LedgerCovered
  <2>1. /\ g = Default /\ d \in Entries
        /\ events[<<"delete", d>>].state \in {"pending", "dead"}
    BY DEF IInv, LedgerCovered, TypeOK
  <2>2. <<"delete", d>> \notin receipts
    BY <2>1 DEF IInv, ReceiptsStand, On, DeletesFindAll
  <2>3. QED
    BY <1>8, <2>1, <2>2
<1>12. QED
  BY <1>5, <1>6, <1>7, <1>9, <1>10, <1>11 DEF IInv

-----------------------------------------------------------------------------
(* Steps of the rebuild *)

\* The generation a rebuild takes was registered by nobody.
LEMMA RebuildBeginsPreserves ==
  ASSUME IInv, NEW g \in Generations, NEW w \in RebuildWatermarks, RebuildBegins(g, w)
  PROVE  IInv'
<1> DEFINE live == Snapshot
<1>1. /\ UNCHANGED <<source, events, emitted, ledger, collection, receipts, worker>>
      /\ generations[g].status = "none"
      /\ generations' = [generations EXCEPT ![g] =
                           [status |-> "building", serving |-> FALSE, watermark |-> w]]
      /\ rebuild' = [stage |-> "write", target |-> g, records |-> live]
  BY DEF RebuildBegins
<1>2. w \in Watermark /\ w # NoWatermark
  BY DEF Watermark, NoWatermark
<1> HIDE DEF live
<1>3. /\ [status |-> "building", serving |-> FALSE, watermark |-> w] \in Generation
      /\ rebuild' \in Rebuild
  <2>1. live \in SUBSET Entries
    BY DEF live, Snapshot
  <2>2. QED
    BY <1>1, <1>2, <2>1 DEF Generation, Rebuild
<1>4. /\ generations' \in [Generations -> Generation]
      /\ generations'[g] = [status |-> "building", serving |-> FALSE, watermark |-> w]
      /\ \A h \in Generations \ {g} : generations'[h] = generations[h]
  BY <1>1, <1>3 DEF IInv, TypeOK
<1>5. TypeOK' /\ EventsStand' /\ LedgerCovered'
  BY <1>1, <1>3, <1>4 DEF IInv, TypeOK, EventsStand, EventStands, LedgerCovered
<1>6. OneServing' /\ UnbuiltIsEmpty'
  BY <1>1, <1>2, <1>4 DEF IInv, OneServing, UnbuiltIsEmpty
<1>7. RebuildStands'
  BY <1>1, <1>2, <1>4 DEF RebuildStands
<1>8. WorkerStands'
  BY <1>1, <1>4 DEF IInv, WorkerStands
<1>9. ReceiptsStand' /\ DeletesFindAll'
  BY <1>1, <1>4 DEF IInv, ReceiptsStand, On, DeletesFindAll
<1>10. QED
  BY <1>5, <1>6, <1>7, <1>8, <1>9 DEF IInv

\* A rebuild writes to its target only, of which the ledger says nothing yet.
LEMMA RebuildWritesPreserves == IInv /\ (RebuildWrites \/ RebuildFails) => IInv'
<1> SUFFICES ASSUME IInv, RebuildWrites \/ RebuildFails PROVE IInv'
  OBVIOUS
<1> DEFINE g == rebuild.target
<1>1. /\ UNCHANGED <<source, events, emitted, ledger, receipts, worker>>
      /\ rebuild \in Rebuild /\ rebuild # NoRebuild /\ g \in Generations
  BY DEF RebuildWrites, RebuildFails, IInv, TypeOK, NoRebuild, Rebuild
<1>2. /\ generations[g].status = "building" /\ generations[g] \in Generation
      /\ ledger[g] = {} /\ ~generations[g].serving
      /\ generations[g].watermark # NoWatermark
  BY <1>1 DEF IInv, TypeOK, RebuildStands, UnbuiltIsEmpty, OneServing
<1>3. PICK left \in SUBSET Entries :
        /\ collection' = [collection EXCEPT ![g] = left]
        /\ RebuildWrites => left = rebuild.records
  BY <1>1 DEF RebuildWrites, RebuildFails, Rebuild, Interrupted, Inserted, Created, Dropped
<1>4. /\ generations' \in [Generations -> Generation]
      /\ generations'[g].status \in {"building", "failed"}
      /\ ~generations'[g].serving
      /\ generations'[g].watermark = generations[g].watermark
      /\ \A h \in Generations \ {g} : generations'[h] = generations[h]
      /\ RebuildWrites => generations'[g].status = "building"
  <2>1. CASE RebuildWrites
    BY <1>1, <1>2, <2>1 DEF RebuildWrites, IInv, TypeOK
  <2>2. CASE RebuildFails
    <3>1. generations' = [generations EXCEPT ![g] = [generations[g] EXCEPT !.status = "failed"]]
      BY <2>2, <1>1 DEF RebuildFails, IInv, TypeOK
    <3>2. [generations[g] EXCEPT !.status = "failed"] \in Generation
      BY <1>2, Zenon DEF Generation
    <3>3. /\ [generations[g] EXCEPT !.status = "failed"].status = "failed"
          /\ [generations[g] EXCEPT !.status = "failed"].serving = generations[g].serving
          /\ [generations[g] EXCEPT !.status = "failed"].watermark = generations[g].watermark
      BY <1>2, Zenon DEF Generation
    <3>4. ~RebuildWrites
      BY <2>2, <1>1 DEF RebuildFails, RebuildWrites, NoRebuild, Rebuild
    <3>5. QED
      BY <1>1, <1>2, <3>1, <3>2, <3>3, <3>4 DEF IInv, TypeOK
  <2>3. QED
    BY <2>1, <2>2
<1>5. /\ collection' \in [Generations -> SUBSET Entries]
      /\ collection'[g] = left
      /\ \A h \in Generations \ {g} : collection'[h] = collection[h]
  BY <1>1, <1>3 DEF IInv, TypeOK
<1>6. \/ /\ RebuildWrites /\ rebuild' \in Rebuild /\ rebuild'.stage = "activate"
         /\ rebuild'.target = g /\ rebuild'.records = rebuild.records
      \/ rebuild' = NoRebuild
  <2>1. CASE RebuildWrites
    BY <1>1, <2>1, Zenon DEF RebuildWrites, Rebuild
  <2>2. QED
    BY <2>1 DEF RebuildFails
<1> HIDE DEF g
<1>7. TypeOK' /\ EventsStand'
  BY <1>1, <1>4, <1>5, <1>6 DEF IInv, TypeOK, EventsStand, EventStands
<1>8. OneServing' /\ UnbuiltIsEmpty'
  BY <1>1, <1>2, <1>4, <1>5 DEF IInv, OneServing, UnbuiltIsEmpty
<1>9. RebuildStands'
  BY <1>2, <1>3, <1>4, <1>5, <1>6 DEF RebuildStands
<1>10. WorkerStands'
  BY <1>1, <1>2, <1>4, <1>5 DEF IInv, WorkerStands
<1>11. ReceiptsStand' /\ DeletesFindAll'
  BY <1>1, <1>2, <1>4, <1>5 DEF IInv, ReceiptsStand, On, DeletesFindAll
<1>12. LedgerCovered'
  BY <1>1, <1>2, <1>5 DEF IInv, TypeOK, LedgerCovered
<1>13. QED
  BY <1>7, <1>8, <1>9, <1>10, <1>11, <1>12 DEF IInv

\* The switch promises what the rebuild has written.
LEMMA RebuildActivatesPreserves == IInv /\ RebuildActivates => IInv'
<1> SUFFICES ASSUME IInv, RebuildActivates PROVE IInv'
  OBVIOUS
<1> DEFINE g == rebuild.target
<1>1. /\ UNCHANGED <<source, events, emitted, collection, receipts, worker>>
      /\ rebuild' = NoRebuild
      /\ rebuild \in Rebuild /\ rebuild # NoRebuild
      /\ g \in Generations /\ rebuild.records \in SUBSET Entries
      /\ ledger' = [ledger EXCEPT ![g] = ledger[g] \cup rebuild.records]
      /\ generations' = Activated(g)
  BY DEF RebuildActivates, IInv, TypeOK, NoRebuild, Rebuild
<1>2. /\ generations[g].status = "building" /\ ledger[g] = {}
      /\ collection[g] = rebuild.records
      /\ generations[g].watermark # NoWatermark
  BY <1>1 DEF RebuildActivates, IInv, RebuildStands, UnbuiltIsEmpty
<1> HIDE DEF g
<1>3. ASSUME NEW h \in Generations
      PROVE  /\ generations'[h] \in Generation
             /\ generations'[h].watermark = generations[h].watermark
             /\ generations'[h].serving = (h = g)
             /\ generations'[h].status = IF h = g THEN "ready" ELSE generations[h].status
  <2>1. generations[h] \in Generation /\ DOMAIN generations[h] = {"status", "serving", "watermark"}
    BY DEF IInv, TypeOK, Generation
  <2>2. CASE h = g
    <3>1. generations'[h] = [generations[h] EXCEPT !.status = "ready", !.serving = TRUE]
      BY <1>1, <2>2 DEF Activated
    <3>2. QED
      BY <2>1, <2>2, <3>1, Zenon DEF Generation
  <2>3. CASE h # g
    <3>1. generations'[h] = [generations[h] EXCEPT !.serving = FALSE]
      BY <1>1, <2>3 DEF Activated
    <3>2. QED
      BY <2>1, <2>3, <3>1, Zenon DEF Generation
  <2>4. QED
    BY <2>2, <2>3
<1>4. generations' \in [Generations -> Generation]
  BY <1>1, <1>3 DEF Activated
<1>5. /\ ledger' \in [Generations -> SUBSET Entries]
      /\ ledger'[g] = rebuild.records
      /\ \A h \in Generations \ {g} : ledger'[h] = ledger[h]
  BY <1>1, <1>2 DEF IInv, TypeOK
<1>6. TypeOK' /\ EventsStand' /\ RebuildStands'
  BY <1>1, <1>4, <1>5 DEF IInv, TypeOK, EventsStand, EventStands, RebuildStands
<1>7. OneServing'
  BY <1>3 DEF OneServing
<1>8. UnbuiltIsEmpty'
  BY <1>1, <1>2, <1>3, <1>5 DEF IInv, UnbuiltIsEmpty
<1>9. WorkerStands'
  BY <1>1, <1>2, <1>3 DEF IInv, WorkerStands
<1>10. ReceiptsStand'
  BY <1>1, <1>2, <1>3, <1>5 DEF IInv, ReceiptsStand, On
<1>11. DeletesFindAll'
  BY <1>1, <1>2, <1>3, <1>5 DEF IInv, DeletesFindAll, On
<1>12. LedgerCovered'
  BY <1>1, <1>2, <1>5 DEF IInv, LedgerCovered
<1>13. QED
  BY <1>6, <1>7, <1>8, <1>9, <1>10, <1>11, <1>12 DEF IInv

\* The target of a rebuild that died stays as it is, and nobody writes to it.
LEMMA RebuildDiesPreserves == IInv /\ RebuildDies => IInv'
<1> SUFFICES ASSUME IInv, RebuildDies PROVE IInv'
  OBVIOUS
<1>1. TypeOK' /\ OneServing' /\ RebuildStands' /\ UnbuiltIsEmpty'
  BY DEF RebuildDies, indexVars, IInv, TypeOK, OneServing, RebuildStands,
         UnbuiltIsEmpty
<1>2. WorkerStands' /\ EventsStand'
  BY DEF RebuildDies, indexVars, IInv, WorkerStands, EventsStand, EventStands
<1>3. ReceiptsStand' /\ DeletesFindAll' /\ LedgerCovered'
  BY DEF RebuildDies, indexVars, IInv, ReceiptsStand, On, DeletesFindAll, LedgerCovered
<1>4. QED
  BY <1>1, <1>2, <1>3 DEF IInv

-----------------------------------------------------------------------------
(* The theorems *)

\* Every step preserves the invariant.
LEMMA StepPreserves == IInv /\ [Next]_vars => IInv'
<1> SUFFICES ASSUME IInv, [Next]_vars PROVE IInv'
  OBVIOUS
<1>1. ASSUME NEW e \in Entries,
             UpsertRefused(e) \/ DeleteRefused(e) \/ \E op \in Operations : FailsEarly(op, e)
      PROVE  IInv'
  <2>1. PICK op \in Operations :
          /\ Raised(op, e) /\ events[<<op, e>>].state = "pending"
          /\ UNCHANGED <<source, emitted, indexVars, rebuild>>
    BY <1>1 DEF UpsertRefused, DeleteRefused, FailsEarly, Takes, Operations
  <2>2. QED
    BY <2>1, RaisedPreserves DEF indexVars
<1>2. CASE UpsertInsertFails
  <2>1. /\ worker \in Work /\ worker # Idle /\ worker.stage = "insert"
        /\ worker.entry \in Entries /\ worker.op = "upsert"
        /\ events[<<"upsert", worker.entry>>].state = "pending"
        /\ generations[Default].status = "ready"
        /\ generations[Default].watermark.stream = "memory_upserted"
    BY <1>2 DEF UpsertInsertFails, IInv, TypeOK, WorkerStands, Work, Idle
  <2>2. /\ Raised("upsert", worker.entry)
        /\ UNCHANGED <<source, emitted, generations, ledger, receipts, rebuild>>
        /\ \/ UNCHANGED collection
           \/ collection' = [collection EXCEPT ![Default] = @ \cup {worker.entry}]
    BY <1>2 DEF UpsertInsertFails, Interrupted, Inserted, IInv, TypeOK
  <2>3. "upsert" \in Operations
    BY DEF Operations
  <2>4. QED
    BY <2>1, <2>2, <2>3, RaisedPreserves
<1>3. ASSUME NEW op \in Operations, NEW e \in Entries, Replay(op, e)
      PROVE  IInv'
  <2>1. /\ worker' = [stage |-> "done", op |-> op, entry |-> e]
        /\ events[<<op, e>>].state = "pending" /\ <<op, e>> \in receipts
        /\ UNCHANGED <<source, events, emitted, indexVars, rebuild>>
    BY <1>3 DEF Replay, Takes
  <2>2. worker' \in Work /\ worker'.stage = "done" /\ worker'.op = op /\ worker'.entry = e
    BY <2>1 DEF Work
  <2>3. QED
    BY <2>1, <2>2, WorkerOnlyPreserves
<1>4. CASE WorkerDies
  BY <1>4, WorkerOnlyPreserves DEF WorkerDies
<1>5. CASE UNCHANGED vars
  BY <1>5, WorkerOnlyPreserves DEF vars
<1>6. QED
  BY <1>1, <1>2, <1>3, <1>4, <1>5, NewEventPreserves, UpsertBeginsPreserves,
     UpsertInsertsPreserves, UpsertCommitsPreserves, DeletePreserves, DeleteFailsPreserves,
     AcknowledgePreserves,
     RebuildBeginsPreserves, RebuildWritesPreserves, RebuildActivatesPreserves,
     RebuildDiesPreserves DEF Next

\* The inductive invariant of the vector index.
THEOREM Invariance == Spec => []IInv
<1>1. QED
  BY InitEstablishes, StepPreserves, PTL DEF Spec

\* The tables keep their types.
THEOREM TypeCorrect == Spec => []TypeOK
<1>1. IInv => TypeOK
  BY DEF IInv
<1>2. QED
  BY <1>1, Invariance, PTL

\* Upserts, rebuilds, failures and crashes in any order leave at most one
\* generation in service, and that one is ready.
THEOREM ServesOne == Spec => []OneServing
<1>1. IInv => OneServing
  BY DEF IInv
<1>2. QED
  BY <1>1, Invariance, PTL

\* The ledger promises no vector the collection lacks, but for one whose
\* deletion is under way.
THEOREM Covered == Spec => []LedgerCovered
<1>1. IInv => LedgerCovered
  BY DEF IInv
<1>2. QED
  BY <1>1, Invariance, PTL

\* An event is acknowledged only with its receipt, and what the receipt stands
\* for is still there.
THEOREM Acknowledged == Spec => []AckedHasEffect
<1>1. IInv => AckedHasEffect
  <2> SUFFICES ASSUME IInv, NEW e \in Entries
               PROVE  /\ events[<<"upsert", e>>].state = "acked" =>
                           \/ e \in ledger[Default] \cap collection[Default]
                           \/ events[<<"delete", e>>].state # "none"
                      /\ events[<<"delete", e>>].state = "acked" => e \notin collection[Default]
    BY DEF AckedHasEffect
  <2>1. \A op \in Operations : events[<<op, e>>].state = "acked" => <<op, e>> \in receipts
    BY DEF IInv, EventsStand, EventStands
  <2>2. QED
    BY <2>1 DEF IInv, ReceiptsStand, On, DeletesFindAll, Operations
<1>2. QED
  BY <1>1, Invariance, PTL

\* A default generation that has taken an upsert never takes a delete again, nor
\* the other way round: the two consumers are on streams that do not compare,
\* and only a rebuild has put a generation on the stream of the deletes.
THEOREM DeletesNeedRebuild ==
  Spec => [][\A e \in Entries :
               Delete(e) => \A d \in Entries : <<"upsert", d>> \notin receipts]_vars
<1>1. IInv /\ [Next]_vars =>
        [\A e \in Entries : Delete(e) => \A d \in Entries : <<"upsert", d>> \notin receipts]_vars
  <2> SUFFICES ASSUME IInv, NEW e \in Entries, Delete(e), NEW d \in Entries
               PROVE  <<"upsert", d>> \notin receipts
    OBVIOUS
  <2>1. On("forget_executed")
    BY DeleteNeedsItsStream DEF Delete
  <2>2. QED
    BY <2>1 DEF IInv, ReceiptsStand, On
<1>2. QED
  BY <1>1, Invariance, PTL DEF Spec

-----------------------------------------------------------------------------
(* Fractions, orders and counting                                           *)

\* Comparing fractions with whole numbers.
LEMMA Cancel ==
    ASSUME NEW d \in Nat \ {0}, NEW x \in Nat, NEW y \in Nat, d * x > d * y
    PROVE  x > y
BY SMT

LEMMA Scale ==
    ASSUME NEW d \in Nat \ {0}, NEW x \in Nat, NEW y \in Nat
    PROVE  /\ x > y => d * x > d * y
           /\ x >= y => d * x >= d * y
BY SMT

LEMMA Swap ==
    ASSUME NEW x \in Nat, NEW y \in Nat, NEW z \in Nat
    PROVE  /\ x * (y * z) = y * (x * z) /\ x * (y * z) = z * (y * x)
           /\ x * y \in Nat
BY SMT

\* The order of fractions is transitive, and strict when one of two steps is.
LEMMA FractionsAreOrdered ==
    ASSUME NEW a \in Nat, NEW b \in Nat \ {0}, NEW c \in Nat, NEW d \in Nat \ {0},
           NEW e \in Nat, NEW f \in Nat \ {0}
    PROVE  /\ a * d >= c * b /\ c * f >= e * d => a * f >= e * b
           /\ a * d > c * b /\ c * f >= e * d => a * f > e * b
           /\ a * d >= c * b /\ c * f > e * d => a * f > e * b
<1>1. /\ a * d > c * b => f * (a * d) > f * (c * b)
      /\ a * d >= c * b => f * (a * d) >= f * (c * b)
  BY Scale, Swap
<1>2. /\ c * f > e * d => b * (c * f) > b * (e * d)
      /\ c * f >= e * d => b * (c * f) >= b * (e * d)
  BY Scale, Swap
<1>3. f * (a * d) = d * (a * f) /\ f * (c * b) = b * (c * f) /\ b * (e * d) = d * (e * b)
  BY Swap
<1>4. d * (a * f) > d * (e * b) => a * f > e * b
  BY Cancel, Swap
<1>5. a * f < e * b => d * (a * f) < d * (e * b)
  BY Scale, Swap
<1>6. /\ a * f \in Nat /\ e * b \in Nat /\ a * d \in Nat /\ c * b \in Nat /\ c * f \in Nat /\ e * d \in Nat
      /\ f * (a * d) \in Nat /\ f * (c * b) \in Nat /\ b * (c * f) \in Nat /\ b * (e * d) \in Nat
      /\ d * (a * f) \in Nat /\ d * (e * b) \in Nat
  BY Swap
<1>7. QED
  BY <1>1, <1>2, <1>3, <1>4, <1>5, <1>6

\* As many places as members, no two on the same: every place is taken.
LEMMA PlacesAreTaken ==
    ASSUME NEW S, IsFiniteSet(S), NEW p \in [S -> 1..Cardinality(S)],
           \A a \in S, b \in S : p[a] = p[b] => a = b
    PROVE  \A i \in 1..Cardinality(S) : \E a \in S : p[a] = i
<1> SUFFICES ASSUME NEW i \in 1..Cardinality(S), \A a \in S : p[a] # i PROVE FALSE
  OBVIOUS
<1> DEFINE n == Cardinality(S)
           T == (1..n) \ {i}
<1>1. n \in Nat
  BY FS_CardinalityType
<1>2. IsFiniteSet(1..n) /\ Cardinality(1..n) = n
  BY <1>1, FS_Interval
<1>3. IsFiniteSet(T) /\ Cardinality(T) = n - 1
  BY <1>2, FS_RemoveElement
<1>4. p \in [S -> T]
  OBVIOUS
<1>5. \E a, b \in S : a # b /\ p[a] = p[b]
  BY <1>1, <1>3, <1>4, FS_PigeonHole
<1>6. QED
  BY <1>5

\* A strict order of all members of a set.
OrdersAll(R, S) ==
    /\ \A a \in S : <<a, a>> \notin R
    /\ \A a, b, c \in S : <<a, b>> \in R /\ <<b, c>> \in R => <<a, c>> \in R
    /\ \A a, b \in S : a = b \/ <<a, b>> \in R \/ <<b, a>> \in R

\* Counting those before it gives every member of a finite ordered set a place of
\* its own.
LEMMA OrdersHavePlaces ==
    ASSUME NEW S, IsFiniteSet(S), NEW R, OrdersAll(R, S), NEW p,
           p = [m \in S |-> 1 + Cardinality({n \in S : <<n, m>> \in R})]
    PROVE  \A i \in 1..Cardinality(S) : \E a \in S : p[a] = i /\ \A b \in S : p[b] = i => a = b
<1> DEFINE Below(m) == {n \in S : <<n, m>> \in R}
<1> USE DEF OrdersAll
<1>1. ASSUME NEW m \in S
      PROVE  /\ IsFiniteSet(Below(m)) /\ Cardinality(Below(m)) \in Nat
             /\ Cardinality(Below(m)) < Cardinality(S)
  <2>1. IsFiniteSet(S \ {m}) /\ Cardinality(S \ {m}) = Cardinality(S) - 1
    BY FS_RemoveElement
  <2>2. Below(m) \subseteq S \ {m}
    OBVIOUS
  <2>3. IsFiniteSet(Below(m)) /\ Cardinality(Below(m)) <= Cardinality(S \ {m})
    BY <2>1, <2>2, FS_Subset
  <2>4. Cardinality(S) \in Nat /\ Cardinality(Below(m)) \in Nat
    BY <2>3, FS_CardinalityType
  <2>5. QED
    BY <2>1, <2>3, <2>4
<1>2. ASSUME NEW a \in S, NEW b \in S, <<a, b>> \in R
      PROVE  Cardinality(Below(a)) < Cardinality(Below(b))
  <2>1. a \in Below(b)
    BY <1>2
  <2>2. IsFiniteSet(Below(b) \ {a}) /\ Cardinality(Below(b) \ {a}) = Cardinality(Below(b)) - 1
    BY <1>1, <2>1, FS_RemoveElement
  <2>3. Below(a) \subseteq Below(b) \ {a}
    BY <1>2
  <2>4. Cardinality(Below(a)) <= Cardinality(Below(b) \ {a})
    BY <2>2, <2>3, FS_Subset
  <2>5. Cardinality(Below(a)) \in Nat /\ Cardinality(Below(b)) \in Nat
    BY <1>1
  <2>6. QED
    BY <2>2, <2>4, <2>5
<1>0. p = [m \in S |-> 1 + Cardinality(Below(m))]
  OBVIOUS
<1> HIDE DEF Below
<1>3. \A a, b \in S : p[a] = p[b] => a = b
  <2> SUFFICES ASSUME NEW a \in S, NEW b \in S, p[a] = p[b], a # b PROVE FALSE
    OBVIOUS
  <2>1. Cardinality(Below(a)) = Cardinality(Below(b))
    <3>1. p[a] = 1 + Cardinality(Below(a)) /\ p[b] = 1 + Cardinality(Below(b))
      BY <1>0
    <3>2. Cardinality(Below(a)) \in Nat /\ Cardinality(Below(b)) \in Nat
      BY <1>1
    <3>3. QED
      BY <3>1, <3>2
  <2>2. <<a, b>> \in R \/ <<b, a>> \in R
    OBVIOUS
  <2>3. Cardinality(Below(a)) \in Nat /\ Cardinality(Below(b)) \in Nat
    BY <1>1
  <2>4. QED
    BY <1>2, <2>1, <2>2, <2>3
<1>4. Cardinality(S) \in Nat
  BY FS_CardinalityType
<1>5. p \in [S -> 1..Cardinality(S)]
  BY <1>0, <1>1, <1>4
<1>6. \A i \in 1..Cardinality(S) : \E a \in S : p[a] = i
  BY <1>3, <1>5, PlacesAreTaken
<1> HIDE DEF OrdersAll
<1>7. ASSUME NEW i \in 1..Cardinality(S)
      PROVE  \E a \in S : p[a] = i /\ \A b \in S : p[b] = i => a = b
  <2>1. PICK a \in S : p[a] = i
    BY <1>6
  <2>2. \A b \in S : p[b] = i => a = b
    BY <1>3, <2>1
  <2>3. QED
    BY <2>1, <2>2
<1>8. QED
  BY <1>7

\* A set of natural numbers that is not empty has a least member.
LEMMA LeastExists ==
    ASSUME NEW S \in SUBSET Nat, S # {}
    PROVE  \E m \in S : \A n \in S : m <= n
<1> DEFINE LT == {ss \in Nat \X Nat : ss[1] < ss[2]}
<1>1. IsWellFoundedOn(LT, Nat)
  BY NatLessThanWellFounded DEF OpToRel
<1>2. \A x, y \in Nat : y < x => <<y, x>> \in LT
  OBVIOUS
<1> HIDE DEF LT
<1>3. PICK m \in S : \A n \in S : <<n, m>> \notin LT
  BY <1>1, WFMin
<1>4. \A n \in S : n \in Nat /\ m \in Nat /\ ~(n < m)
  BY <1>2, <1>3
<1>5. \A n \in S : m <= n
  BY <1>4, SMT
<1>6. QED
  BY <1>3, <1>5


\* Counting from 0 reaches every number.
LEMMA CountingReachesAll ==
    ASSUME NEW G, 0 \in G, \A n \in Nat : n \in G => n + 1 \in G
    PROVE  Nat \subseteq G
<1> SUFFICES ASSUME Nat \ G # {} PROVE FALSE
  OBVIOUS
<1>1. PICK n \in Nat \ G : \A m \in Nat \ G : n <= m
  BY LeastExists
<1>2. n # 0 /\ n - 1 \in Nat
  OBVIOUS
<1>3. n - 1 \in G
  BY <1>1, <1>2
<1>4. QED
  BY <1>2, <1>3

\* A chain of rules decides by the first one that applies, if any does.
Decides(rules, m, i) ==
    /\ i \in 1 .. m /\ rules[i].when /\ Decision(rules) = rules[i].then
    /\ \A j \in 1 .. m : j < i => ~rules[j].when

\* A chain of which some rule applies decides, by the first that does.
LEMMA DecisionIs ==
    ASSUME NEW rules, NEW m \in Nat, DOMAIN rules = 1 .. m,
           NEW n \in 1 .. m, rules[n].when
    PROVE  \E i : Decides(rules, m, i)
<1> DEFINE S == {i \in 1 .. m : rules[i].when}
           First(i) == i \in DOMAIN rules /\ rules[i].when /\ \A j \in 1 .. i - 1 : ~rules[j].when
<1>1. PICK i \in S : \A j \in S : i <= j
  <2>1. S \in SUBSET Nat /\ n \in S
    OBVIOUS
  <2> HIDE DEF S
  <2>2. QED
    BY <2>1, LeastExists
<1>2. First(i)
  BY <1>1
<1>3. Decision(rules) = rules[CHOOSE x : First(x)].then
  BY DEF Decision
<1>4. First(CHOOSE x : First(x))
  BY <1>2
<1> DEFINE x == CHOOSE x : First(x)
<1>5. x \in 1 .. m /\ rules[x].when /\ \A j \in 1 .. x - 1 : ~rules[j].when
  BY <1>4
<1> HIDE DEF First
<1>6. \A j \in 1 .. m : j < x => ~rules[j].when
  BY <1>5
<1>7. QED
  BY <1>3, <1>5, <1>6 DEF Decides

-----------------------------------------------------------------------------
(* Ranking                                                                   *)

\* The order of candidates: by score, then by channels, best rank and number.
OrderedByKeys(R, S, num, den, cnt, best) ==
    \A a, b \in S : <<a, b>> \in R <=>
       IF num[a] * den[b] > num[b] * den[a] THEN TRUE
       ELSE IF num[b] * den[a] > num[a] * den[b] THEN FALSE
       ELSE IF cnt[a] # cnt[b] THEN cnt[a] > cnt[b]
       ELSE IF best[a] # best[b] THEN best[a] < best[b] ELSE a < b

\* The order of candidates is strict, transitive, and puts any two in order.
LEMMA KeysAreOrdered ==
    ASSUME NEW S, S \subseteq Nat, NEW num, NEW den, NEW cnt, NEW best,
           num \in [S -> Nat], den \in [S -> Nat \ {0}], cnt \in [S -> Nat], best \in [S -> Nat],
           NEW R, OrderedByKeys(R, S, num, den, cnt, best)
    PROVE  OrdersAll(R, S)
<1> DEFINE More(a, b) == num[a] * den[b] > num[b] * den[a]
           Least(a, b) == IF cnt[a] # cnt[b] THEN cnt[a] > cnt[b]
                          ELSE IF best[a] # best[b] THEN best[a] < best[b] ELSE a < b
<1>1. \A a \in S : /\ num[a] \in Nat /\ den[a] \in Nat \ {0} /\ cnt[a] \in Nat
                   /\ best[a] \in Nat /\ a \in Nat
  OBVIOUS
<1>2. \A a, b \in S : num[a] * den[b] \in Nat
  BY <1>1, Swap
<1>3. \A a, b \in S : <<a, b>> \in R <=> More(a, b) \/ (~More(b, a) /\ Least(a, b))
  BY DEF OrderedByKeys
<1>4. \A a, b \in S : ~(More(a, b) /\ More(b, a)) /\ ~More(a, a)
  BY <1>2
<1>5. \A a, b, c \in S : /\ More(a, b) /\ ~More(c, b) => More(a, c)
                         /\ ~More(b, a) /\ More(b, c) => More(a, c)
                         /\ ~More(b, a) /\ ~More(c, b) => ~More(c, a)
  <2> SUFFICES ASSUME NEW a \in S, NEW b \in S, NEW c \in S
               PROVE  /\ More(a, b) /\ ~More(c, b) => More(a, c)
                      /\ ~More(b, a) /\ More(b, c) => More(a, c)
                      /\ ~More(b, a) /\ ~More(c, b) => ~More(c, a)
    OBVIOUS
  <2>1. /\ num[a] * den[b] >= num[b] * den[a] /\ num[b] * den[c] >= num[c] * den[b]
              => num[a] * den[c] >= num[c] * den[a]
        /\ num[a] * den[b] > num[b] * den[a] /\ num[b] * den[c] >= num[c] * den[b]
              => num[a] * den[c] > num[c] * den[a]
        /\ num[a] * den[b] >= num[b] * den[a] /\ num[b] * den[c] > num[c] * den[b]
              => num[a] * den[c] > num[c] * den[a]
    BY <1>1, FractionsAreOrdered
  <2>2. /\ num[a] * den[b] \in Nat /\ num[b] * den[a] \in Nat /\ num[b] * den[c] \in Nat
        /\ num[c] * den[b] \in Nat /\ num[a] * den[c] \in Nat /\ num[c] * den[a] \in Nat
    BY <1>2
  <2>3. QED
    BY <2>1, <2>2
<1> HIDE DEF More
<1>6. \A a, b, c \in S : /\ ~Least(a, a)
                         /\ Least(a, b) /\ Least(b, c) => Least(a, c)
                         /\ a = b \/ Least(a, b) \/ Least(b, a)
  BY <1>1
<1> HIDE DEF Least
<1>7. \A a \in S : <<a, a>> \notin R
  BY <1>3, <1>4, <1>6
<1>8. \A a, b, c \in S : <<a, b>> \in R /\ <<b, c>> \in R => <<a, c>> \in R
  <2> SUFFICES ASSUME NEW a \in S, NEW b \in S, NEW c \in S, <<a, b>> \in R, <<b, c>> \in R
               PROVE  <<a, c>> \in R
    OBVIOUS
  <2>1. More(a, b) \/ (~More(b, a) /\ Least(a, b))
    BY <1>3
  <2>2. More(b, c) \/ (~More(c, b) /\ Least(b, c))
    BY <1>3
  <2>3. More(a, c) \/ (~More(c, a) /\ Least(a, c))
    BY <1>4, <1>5, <1>6, <2>1, <2>2
  <2>4. QED
    BY <1>3, <2>3
<1>9. \A a, b \in S : a = b \/ <<a, b>> \in R \/ <<b, a>> \in R
  BY <1>3, <1>4, <1>6
<1>10. QED
  BY <1>7, <1>8, <1>9 DEF OrdersAll

\* Hits as the channels number them.
HitsAreRanked(hits) ==
    /\ IsFiniteSet(hits)
    /\ \A h \in hits : h.channel \in Channel /\ h.rank \in Nat \ {0} /\ h.memory \in Nat

\* Min of the source's ranks is the least of them.
LEMMA MinIs ==
    ASSUME NEW T \in SUBSET Nat, T # {}
    PROVE  Min(T) \in T /\ \A y \in T : Min(T) <= y
<1>1. \E x \in T : \A y \in T : x <= y
  BY LeastExists
<1>2. QED
  BY <1>1 DEF Min

\* The key by which a memory is sorted.
LEMMA KeyIs ==
    ASSUME NEW hits, HitsAreRanked(hits), NEW options, OptionsAreValid(options),
           NEW m \in {h.memory : h \in hits}
    PROVE  LET r == RanksOf(hits, m) IN
           /\ Score(r, options)[1] \in Nat /\ Score(r, options)[2] \in Nat \ {0}
           /\ Cardinality(DOMAIN r) \in Nat
           /\ BestRank(r) \in Nat
           /\ m \in Nat
<1> DEFINE own == {h \in hits : h.memory = m}
           r == RanksOf(hits, m)
<1>1. DOMAIN r = {h.channel : h \in own} /\ own # {}
      /\ \A c \in DOMAIN r : r[c] = Min({h.rank : h \in {g \in own : g.channel = c}})
  BY DEF RanksOf
<1>2. DOMAIN r \subseteq Channel /\ DOMAIN r # {} /\ m \in Nat
  BY <1>1 DEF HitsAreRanked
<1>3. \A c \in DOMAIN r : r[c] \in Nat \ {0}
  <2> SUFFICES ASSUME NEW c \in DOMAIN r PROVE r[c] \in Nat \ {0}
    OBVIOUS
  <2> DEFINE T == {h.rank : h \in {g \in own : g.channel = c}}
  <2>1. T \in SUBSET (Nat \ {0}) /\ T # {}
    BY <1>1 DEF HitsAreRanked
  <2>2. Min(T) \in T
    BY <2>1, MinIs
  <2>3. QED
    BY <1>1, <2>1, <2>2
<1> HIDE DEF r
<1>4. Cardinality(DOMAIN r) \in Nat
  <2>1. IsFiniteSet(Channel)
    <3>1. IsFiniteSet({"fts5"}) /\ Channel = {"fts5"} \cup {"vector"}
      BY FS_Singleton DEF Channel
    <3>2. QED
      BY <3>1, FS_AddElement
  <2>2. QED
    BY <1>2, <2>1, FS_Subset, FS_CardinalityType
<1>5. BestRank(r) \in Nat
  <2> DEFINE T == {r[c] : c \in DOMAIN r}
  <2>1. T \in SUBSET Nat /\ T # {}
    BY <1>2, <1>3
  <2>2. Min(T) \in T
    BY <2>1, MinIs
  <2>3. QED
    BY <2>1, <2>2 DEF BestRank
<1>6. Score(r, options)[1] \in Nat /\ Score(r, options)[2] \in Nat \ {0}
  <2> DEFINE Num(c) == IF c \in DOMAIN r THEN Weight(options.policy, c) ELSE 0
             Den(c) == IF c \in DOMAIN r THEN options.k + r[c] ELSE 1
  <2>1. \A c \in Channel : Num(c) \in Nat
    BY DEF Weight, OptionsAreValid, PolicyIsBuilt
  <2>2. \A c \in Channel : Den(c) \in Nat \ {0}
    BY <1>3 DEF OptionsAreValid
  <2>3. Score(r, options) = <<Num("fts5") * Den("vector") + Num("vector") * Den("fts5"),
                              Den("fts5") * Den("vector")>>
    BY DEF Score
  <2>4. "fts5" \in Channel /\ "vector" \in Channel
    BY DEF Channel
  <2> HIDE DEF Num, Den
  <2>5. /\ Num("fts5") * Den("vector") \in Nat /\ Num("vector") * Den("fts5") \in Nat
        /\ Den("fts5") * Den("vector") \in Nat \ {0}
    BY <2>1, <2>2, <2>4
  <2>6. QED
    BY <2>3, <2>5
<1>7. QED
  BY <1>2, <1>4, <1>5, <1>6 DEF r

\* Which of two candidates comes first, decided by their keys.
LEMMA BeforeIs ==
    ASSUME NEW hits, NEW options, NEW a, NEW b
    PROVE  LET ra == RanksOf(hits, a)  rb == RanksOf(hits, b)
               sa == Score(ra, options)  sb == Score(rb, options)
               na == Cardinality(DOMAIN ra)  nb == Cardinality(DOMAIN rb)
           IN Before(hits, options, a, b) <=>
              IF sa[1] * sb[2] > sb[1] * sa[2] THEN TRUE
              ELSE IF sb[1] * sa[2] > sa[1] * sb[2] THEN FALSE
              ELSE IF na # nb THEN na > nb
              ELSE IF BestRank(ra) # BestRank(rb) THEN BestRank(ra) < BestRank(rb) ELSE a < b
<1> DEFINE ra == RanksOf(hits, a)
           rb == RanksOf(hits, b)
           sa == Score(ra, options)
           sb == Score(rb, options)
           na == Cardinality(DOMAIN ra)
           nb == Cardinality(DOMAIN rb)
           ba == BestRank(ra)
           bb == BestRank(rb)
<1> HIDE DEF ra, rb, sa, sb, na, nb, ba, bb
<1> DEFINE rules == <<Rule(Higher(sa, sb), TRUE), Rule(Higher(sb, sa), FALSE),
                      Rule(na # nb, na > nb), Rule(ba # bb, ba < bb), Rule(TRUE, a < b)>>
<1>1. Before(hits, options, a, b) = Decision(rules)
  BY DEF Before, ra, rb, sa, sb, na, nb, ba, bb
<1>2. /\ DOMAIN rules = 1 .. 5
      /\ rules[1].when <=> Higher(sa, sb)
      /\ rules[2].when <=> Higher(sb, sa)
      /\ rules[3].when <=> na # nb
      /\ rules[4].when <=> ba # bb
      /\ rules[5].when
  <2>1. /\ DOMAIN rules = 1 .. 5
        /\ rules[1].when = Higher(sa, sb)
        /\ rules[2].when = Higher(sb, sa)
        /\ rules[3].when = (na # nb)
        /\ rules[4].when = (ba # bb)
        /\ rules[5].when = TRUE
    BY DEF Rule
  <2> HIDE DEF rules
  <2>2. QED
    BY <2>1
<1>7. rules[1].then = TRUE /\ rules[2].then = FALSE
  BY DEF Rule
<1>8. rules[3].then = (na > nb)
  BY DEF Rule
<1>9. rules[4].then = (ba < bb)
  BY DEF Rule
<1>10. rules[5].then = (a < b)
  BY DEF Rule
<1> HIDE DEF rules
<1>3. PICK i : Decides(rules, 5, i)
  <2>1. 5 \in Nat /\ 5 \in 1 .. 5 /\ rules[5].when
    BY <1>2
  <2>2. QED
    BY <1>2, <2>1, DecisionIs
<1>4. /\ i \in 1 .. 5 /\ rules[i].when /\ Decision(rules) = rules[i].then
      /\ \A j \in 1 .. 5 : j < i => ~rules[j].when
  BY <1>3 DEF Decides
<1>5. Decision(rules) <=>
        IF Higher(sa, sb) THEN TRUE ELSE IF Higher(sb, sa) THEN FALSE
        ELSE IF na # nb THEN na > nb ELSE IF ba # bb THEN ba < bb ELSE a < b
  <2>1. CASE i = 1
    BY <1>2, <1>4, <1>7, <1>8, <1>9, <1>10, <2>1
  <2>2. CASE i = 2
    <3>1. ~Higher(sa, sb) /\ Higher(sb, sa)
      BY <1>2, <1>4, <1>7, <1>8, <1>9, <1>10, <2>2
    <3>2. Decision(rules) = FALSE
      BY <1>2, <1>4, <1>7, <1>8, <1>9, <1>10, <2>2
    <3>3. QED
      BY <3>1, <3>2
  <2>3. CASE i = 3
    <3>1. ~Higher(sa, sb) /\ ~Higher(sb, sa) /\ na # nb
      BY <1>2, <1>4, <1>7, <1>8, <1>9, <1>10, <2>3
    <3>2. Decision(rules) = (na > nb)
      BY <1>2, <1>4, <1>7, <1>8, <1>9, <1>10, <2>3
    <3>3. QED
      BY <3>1, <3>2
  <2>4. CASE i = 4
    <3>1. ~Higher(sa, sb) /\ ~Higher(sb, sa) /\ na = nb /\ ba # bb
      BY <1>2, <1>4, <1>7, <1>8, <1>9, <1>10, <2>4
    <3>2. Decision(rules) = (ba < bb)
      BY <1>2, <1>4, <1>7, <1>8, <1>9, <1>10, <2>4
    <3>3. QED
      BY <3>1, <3>2
  <2>5. CASE i = 5
    <3>1. ~Higher(sa, sb) /\ ~Higher(sb, sa) /\ na = nb /\ ba = bb
      BY <1>2, <1>4, <1>7, <1>8, <1>9, <1>10, <2>5
    <3>2. Decision(rules) = (a < b)
      BY <1>2, <1>4, <1>7, <1>8, <1>9, <1>10, <2>5
    <3>3. QED
      BY <3>1, <3>2
  <2>6. QED
    BY <1>4, <2>1, <2>2, <2>3, <2>4, <2>5
<1>6. QED
  BY <1>1, <1>5 DEF Higher, ra, rb, sa, sb, na, nb, ba, bb

\* The ranking holds every memory that was hit, and each of them once.
LEMMA RankedIs ==
    ASSUME NEW hits, HitsAreRanked(hits), NEW options, OptionsAreValid(options)
    PROVE  LET memories == {h.memory : h \in hits}
               order == Ranked(hits, options)
           IN /\ Cardinality(memories) \in Nat
              /\ order \in [1..Cardinality(memories) -> memories]
              /\ \A i, j \in 1..Cardinality(memories) : order[i] = order[j] => i = j
              /\ \A i, j \in 1..Cardinality(memories) :
                    i < j => Before(hits, options, order[i], order[j])
<1> DEFINE S == {h.memory : h \in hits}
           Key(m) == RanksOf(hits, m)
           num == [m \in S |-> Score(Key(m), options)[1]]
           den == [m \in S |-> Score(Key(m), options)[2]]
           cnt == [m \in S |-> Cardinality(DOMAIN Key(m))]
           best == [m \in S |-> BestRank(Key(m))]
           R == {q \in S \X S : Before(hits, options, q[1], q[2])}
           place == [m \in S |-> 1 + Cardinality({n \in S : Before(hits, options, n, m)})]
           order == Ranked(hits, options)
<1>1. IsFiniteSet(S)
  <2> DEFINE f == [h \in hits |-> h.memory]
  <2>1. f \in Surjection(hits, S)
    BY DEF Surjection
  <2>2. QED
    BY <2>1, FS_Surjection DEF HitsAreRanked
<1>2. S \subseteq Nat
  BY DEF HitsAreRanked
<1>3. num \in [S -> Nat] /\ den \in [S -> Nat \ {0}] /\ cnt \in [S -> Nat] /\ best \in [S -> Nat]
  BY KeyIs
<1>4. OrderedByKeys(R, S, num, den, cnt, best)
  BY BeforeIs DEF OrderedByKeys
<1>5. \A a, b \in S : <<a, b>> \in R <=> Before(hits, options, a, b)
  OBVIOUS
<1> HIDE DEF S, num, den, cnt, best, R
<1>6. OrdersAll(R, S)
  BY <1>2, <1>3, <1>4, KeysAreOrdered
<1>7. place = [m \in S |-> 1 + Cardinality({n \in S : <<n, m>> \in R})]
  <2>1. \A m \in S : {n \in S : Before(hits, options, n, m)} = {n \in S : <<n, m>> \in R}
    BY <1>5
  <2>2. QED
    BY <2>1
<1> HIDE DEF place
<1>8. \A i \in 1..Cardinality(S) : \E a \in S : place[a] = i /\ \A b \in S : place[b] = i => a = b
  BY <1>1, <1>6, <1>7, OrdersHavePlaces
<1>9. Cardinality(S) \in Nat
  BY <1>1, FS_CardinalityType
<1>10. order = [i \in 1..Cardinality(S) |-> CHOOSE m \in S : place[m] = i]
  BY DEF Ranked, S, place
<1> HIDE DEF order
<1>11. \A i \in 1..Cardinality(S) : order[i] \in S /\ place[order[i]] = i
  BY <1>8, <1>10
<1>12. order \in [1..Cardinality(S) -> S]
  BY <1>10, <1>11
<1>13. \A i, j \in 1..Cardinality(S) : order[i] = order[j] => i = j
  BY <1>11
<1>14. ASSUME NEW i \in 1..Cardinality(S), NEW j \in 1..Cardinality(S), i < j
       PROVE  Before(hits, options, order[i], order[j])
  <2>1. order[i] \in S /\ order[j] \in S /\ order[i] # order[j]
    BY <1>11, <1>13, <1>14, <1>9
  <2>2. CASE <<order[j], order[i]>> \in R
    <3> DEFINE Below(m) == {n \in S : <<n, m>> \in R}
    <3>1. Below(order[j]) \subseteq Below(order[i])
      BY <1>6, <2>1, <2>2 DEF OrdersAll
    <3>2. \A m \in S : IsFiniteSet(Below(m))
      BY <1>1, FS_Subset
    <3>3. Cardinality(Below(order[j])) <= Cardinality(Below(order[i]))
      BY <2>1, <3>1, <3>2, FS_Subset
    <3>4. \A m \in S : place[m] = 1 + Cardinality(Below(m)) /\ Cardinality(Below(m)) \in Nat
      BY <1>7, <3>2, FS_CardinalityType
    <3> HIDE DEF Below
    <3>5. place[order[j]] <= place[order[i]]
      BY <2>1, <3>3, <3>4
    <3>6. QED
      BY <1>11, <1>14, <3>5
  <2>3. QED
    BY <1>5, <1>6, <2>1, <2>2 DEF OrdersAll
<1>15. QED
  BY <1>9, <1>12, <1>13, <1>14 DEF S, order
-----------------------------------------------------------------------------
(* Selection                                                                 *)

\* The selection takes one candidate after the other.
Runs(sel, options, cand, n) ==
    sel = [i \in 0..n |-> IF i = 0 THEN Nothing ELSE Take(options, sel[i - 1], cand[i])]

\* A run of the selection, one step for each candidate, exists for any number.
LEMMA RunExists ==
    ASSUME NEW options, NEW cand, NEW n \in Nat
    PROVE  \E sel : Runs(sel, options, cand, n)
<1> DEFINE G == {m \in Nat : \E sel : Runs(sel, options, cand, m)}
<1>1. 0 \in G
  <2>1. Runs([i \in 0..0 |-> Nothing], options, cand, 0)
    BY DEF Runs
  <2>2. QED
    BY <2>1
<1>2. \A m \in Nat : m \in G => m + 1 \in G
  <2> SUFFICES ASSUME NEW m \in Nat, NEW f, Runs(f, options, cand, m)
               PROVE  \E sel : Runs(sel, options, cand, m + 1)
    OBVIOUS
  <2> DEFINE g == [i \in 0..m + 1 |-> IF i = m + 1 THEN Take(options, f[m], cand[m + 1]) ELSE f[i]]
  <2>1. \A i \in 0..m : g[i] = f[i]
    OBVIOUS
  <2>2. g[m + 1] = Take(options, g[m], cand[m + 1])
    BY <2>1
  <2>3. \A i \in 0..m : f[i] = IF i = 0 THEN Nothing ELSE Take(options, f[i - 1], cand[i])
    BY DEF Runs
  <2>4. \A i \in 0..m + 1 : g[i] = IF i = 0 THEN Nothing ELSE Take(options, g[i - 1], cand[i])
    <3> SUFFICES ASSUME NEW i \in 0..m + 1
                 PROVE  g[i] = IF i = 0 THEN Nothing ELSE Take(options, g[i - 1], cand[i])
      OBVIOUS
    <3> HIDE DEF g
    <3>1. CASE i = m + 1
      BY <2>2, <3>1
    <3>2. CASE i = 0
      BY <2>1, <2>3, <3>2
    <3>3. CASE i \in 1..m
      BY <2>1, <2>3, <3>3
    <3>4. QED
      BY <3>1, <3>2, <3>3
  <2>5. g = [i \in 0..m + 1 |-> g[i]]
    OBVIOUS
  <2> HIDE DEF g
  <2>6. g = [i \in 0..m + 1 |-> IF i = 0 THEN Nothing ELSE Take(options, g[i - 1], cand[i])]
    BY <2>4, <2>5
  <2>7. QED
    BY <2>6 DEF Runs
<1> HIDE DEF G
<1>3. Nat \subseteq G
  BY <1>1, <1>2, CountingReachesAll
<1>4. QED
  BY <1>3 DEF G

\* A candidate is taken while there is room in the list and in the budget.
LEMMA TakeIs ==
    ASSUME NEW options, NEW sel, NEW c
    PROVE  \/ Take(options, sel, c) = sel
           \/ Take(options, sel, c) = [sel EXCEPT !.skipped = @ + 1]
           \/ /\ Take(options, sel, c)
                   = [sel EXCEPT !.out = Append(@, c), !.used = sel.used + c.tokens]
              /\ ~(options.top # None /\ Len(sel.out) >= options.top)
              /\ ~(options.budget # None /\ sel.used + c.tokens > options.budget)
<1> DEFINE used == sel.used + c.tokens
           full == options.top # None /\ Len(sel.out) >= options.top
           dear == options.budget # None /\ used > options.budget
           skips == [sel EXCEPT !.skipped = @ + 1]
           takes == [sel EXCEPT !.out = Append(@, c), !.used = used]
<1> HIDE DEF full, dear, skips, takes
<1> DEFINE rules == <<Rule(full, sel), Rule(dear, skips), Rule(TRUE, takes)>>
<1>1. Take(options, sel, c) = Decision(rules)
  BY DEF Take, full, dear, skips, takes
<1>2. /\ DOMAIN rules = 1 .. 3 /\ rules[3].when
      /\ rules[1].when = full /\ rules[2].when = dear
      /\ rules[1].then = sel /\ rules[2].then = skips /\ rules[3].then = takes
  BY DEF Rule
<1> HIDE DEF rules
<1>3. PICK i : Decides(rules, 3, i)
  <2>1. 3 \in Nat /\ 3 \in 1 .. 3
    OBVIOUS
  <2>2. QED
    BY <1>2, <2>1, DecisionIs
<1>4. /\ i \in 1 .. 3 /\ Decision(rules) = rules[i].then
      /\ \A j \in 1 .. 3 : j < i => ~rules[j].when
  BY <1>3 DEF Decides
<1>5. i \in {1, 2} => Decision(rules) \in {sel, skips}
  BY <1>2, <1>4
<1>6. i = 3 => ~rules[1].when /\ ~rules[2].when
  BY <1>4
<1>7. i = 3 => Decision(rules) = takes /\ ~full /\ ~dear
  BY <1>2, <1>4, <1>6
<1>8. i \in {1, 2} \/ i = 3
  BY <1>4
<1>9. QED
  BY <1>1, <1>5, <1>7, <1>8 DEF full, dear, skips, takes

\* What has been taken of the first k candidates.
Selection(sel, options, cand, k) ==
    /\ DOMAIN sel = {"out", "used", "skipped"}
    /\ Len(sel.out) \in Nat /\ DOMAIN sel.out = 1..Len(sel.out)
    /\ sel.out \in Seq({cand[i] : i \in 1..k})
    /\ \A i, j \in 1..Len(sel.out) : sel.out[i].memory = sel.out[j].memory => i = j
    /\ sel.used \in Nat
    /\ options.top # None => Len(sel.out) <= options.top
    /\ options.budget # None => sel.used <= options.budget

\* One more candidate: what is selected still comes from the order, each memory
\* once, and within the limits.
LEMMA SelectionGrows ==
    ASSUME NEW options, OptionsAreValid(options), NEW cand, NEW k \in Nat, NEW sel,
           Selection(sel, options, cand, k),
           \A i \in 1..k + 1 : cand[i].tokens \in Nat,
           \A i, j \in 1..k + 1 : cand[i].memory = cand[j].memory => i = j
    PROVE  Selection(Take(options, sel, cand[k + 1]), options, cand, k + 1)
<1> DEFINE c == cand[k + 1]
           next == Take(options, sel, c)
           C == {cand[i] : i \in 1..k + 1}
<1> SUFFICES Selection(next, options, cand, k + 1)
  OBVIOUS
<1>1. {cand[i] : i \in 1..k} \subseteq C
  OBVIOUS
<1>2. sel.out \in Seq(C)
  BY <1>1, SeqMonotonic DEF Selection
<1>3. CASE next = sel
  BY <1>2, <1>3 DEF Selection
<1>4. CASE next = [sel EXCEPT !.skipped = @ + 1]
  <2>1. /\ next.out = sel.out /\ next.used = sel.used
        /\ DOMAIN next = {"out", "used", "skipped"}
    BY <1>4 DEF Selection
  <2>2. QED
    BY <1>2, <2>1 DEF Selection
<1>5. CASE /\ next = [sel EXCEPT !.out = Append(@, c), !.used = sel.used + c.tokens]
           /\ ~(options.top # None /\ Len(sel.out) >= options.top)
           /\ ~(options.budget # None /\ sel.used + c.tokens > options.budget)
  <2> DEFINE n == Len(sel.out)
             out == Append(sel.out, c)
  <2>1. /\ next.out = out /\ next.used = sel.used + c.tokens
        /\ DOMAIN next = {"out", "used", "skipped"}
    BY <1>5 DEF Selection
  <2>2. c \in C /\ c.tokens \in Nat
    OBVIOUS
  <2>3. /\ out \in Seq(C) /\ Len(out) = n + 1 /\ DOMAIN out = 1..n + 1
        /\ out[n + 1] = c
        /\ \A i \in 1..n : out[i] = sel.out[i]
    <3>1. sel.out \in Seq(C) /\ c \in C
      BY <1>2, <2>2
    <3> HIDE DEF c, C
    <3>2. /\ out \in Seq(C) /\ Len(out) = n + 1 /\ out[n + 1] = c
          /\ \A i \in 1..n : out[i] = sel.out[i]
      BY <3>1, AppendProperties
    <3>3. DOMAIN out = 1..n + 1
      BY <3>2, LenProperties
    <3>4. QED
      BY <3>2, <3>3
  <2>4. n \in Nat /\ sel.used \in Nat
    BY DEF Selection
  <2>5. \A i \in 1..n : out[i].memory # c.memory
    <3> SUFFICES ASSUME NEW i \in 1..n PROVE out[i].memory # c.memory
      OBVIOUS
    <3>1. sel.out[i] \in {cand[x] : x \in 1..k}
      BY <2>4, ElementOfSeq DEF Selection
    <3>2. PICK x \in 1..k : sel.out[i] = cand[x]
      BY <3>1
    <3>3. x \in 1..k + 1 /\ k + 1 \in 1..k + 1 /\ x # k + 1
      OBVIOUS
    <3>4. QED
      BY <2>3, <3>2, <3>3
  <2> HIDE DEF out, n
  <2>6. \A i, j \in 1..n + 1 : out[i].memory = out[j].memory => i = j
    <3>1. \A i, j \in 1..n : out[i].memory = out[j].memory => i = j
      BY <2>3 DEF Selection, n
    <3>2. \A i \in 1..n + 1 : i \in 1..n \/ i = n + 1
      BY <2>4
    <3>3. QED
      BY <2>3, <2>5, <3>1, <3>2
  <2>7. options.top # None => n + 1 <= options.top
    BY <1>5, <2>4 DEF OptionsAreValid, n
  <2>8. options.budget # None => sel.used + c.tokens <= options.budget
    BY <1>5, <2>2, <2>4 DEF OptionsAreValid
  <2>9. sel.used + c.tokens \in Nat /\ n + 1 \in Nat
    BY <2>2, <2>4
  <2> HIDE DEF next, c, C
  <2>10. QED
    BY <2>1, <2>3, <2>6, <2>7, <2>8, <2>9 DEF Selection, C
<1>6. \/ next = sel
      \/ next = [sel EXCEPT !.skipped = @ + 1]
      \/ /\ next = [sel EXCEPT !.out = Append(@, c), !.used = sel.used + c.tokens]
         /\ ~(options.top # None /\ Len(sel.out) >= options.top)
         /\ ~(options.budget # None /\ sel.used + c.tokens > options.budget)
  BY TakeIs
<1> HIDE DEF next, c
<1>7. QED
  BY <1>3, <1>4, <1>5, <1>6
\* So does the whole run, by induction over its steps.
LEMMA RunSelects ==
    ASSUME NEW options, OptionsAreValid(options), NEW cand, NEW n \in Nat,
           \A i \in 1..n : cand[i].tokens \in Nat,
           \A i, j \in 1..n : cand[i].memory = cand[j].memory => i = j,
           NEW sel, Runs(sel, options, cand, n)
    PROVE  Selection(sel[n], options, cand, n)
<1> DEFINE G == {m \in Nat : m <= n => Selection(sel[m], options, cand, m)}
<1>1. \A i \in 0..n : sel[i] = IF i = 0 THEN Nothing ELSE Take(options, sel[i - 1], cand[i])
  BY DEF Runs
<1>2. 0 \in G
  <2>1. sel[0] = Nothing
    BY <1>1
  <2>2. /\ DOMAIN Nothing = {"out", "used", "skipped"}
        /\ Nothing.out = <<>> /\ Nothing.used = 0
    BY DEF Nothing
  <2>3. Len(<<>>) = 0 /\ DOMAIN <<>> = {} /\ <<>> \in Seq({cand[i] : i \in 1..0})
    BY EmptySeq
  <2> HIDE DEF Nothing
  <2>4. Selection(Nothing, options, cand, 0)
    BY <2>2, <2>3 DEF Selection, OptionsAreValid
  <2>5. QED
    BY <2>1, <2>4
<1>3. \A m \in Nat : m \in G => m + 1 \in G
  <2> SUFFICES ASSUME NEW m \in Nat, m \in G, m + 1 <= n
               PROVE  Selection(sel[m + 1], options, cand, m + 1)
    OBVIOUS
  <2>1. Selection(sel[m], options, cand, m)
    OBVIOUS
  <2>2. sel[m + 1] = Take(options, sel[m], cand[m + 1])
    BY <1>1
  <2>3. /\ \A i \in 1..m + 1 : cand[i].tokens \in Nat
        /\ \A i, j \in 1..m + 1 : cand[i].memory = cand[j].memory => i = j
    OBVIOUS
  <2>4. QED
    BY <2>1, <2>2, <2>3, SelectionGrows
<1> HIDE DEF G
<1>4. Nat \subseteq G
  BY <1>2, <1>3, CountingReachesAll
<1>5. QED
  BY <1>4 DEF G

\* The context: candidates for hits that may be shown, a memory once at most,
\* within the number and the tokens asked for.
LEMMA SelectedIs ==
    ASSUME NEW t, NEW legal, HitsAreRanked(legal), NEW flt, NEW options,
           OptionsAreValid(options), NEW degraded,
           \A h \in legal : t[DocumentOf(h)].length \in Nat
    PROVE  LET s == Selected(t, legal, flt, options, degraded) IN
           /\ \A i \in DOMAIN s.out : \E h \in legal : /\ s.out[i].user = h.user
                                                       /\ DocumentOf(s.out[i]) = DocumentOf(h)
           /\ \A i, j \in DOMAIN s.out : s.out[i].memory = s.out[j].memory => i = j
           /\ options.top # None => Len(s.out) <= options.top
           /\ options.budget # None => s.used <= options.budget
<1> DEFINE order == Ranked(legal, options)
           memories == {h.memory : h \in legal}
           n == Cardinality(memories)
           Of(m) == Candidate(t, legal, flt, options, degraded, m)
           cand == [i \in 1..n |-> Of(order[i])]
           s == Selected(t, legal, flt, options, degraded)
<1>1. /\ n \in Nat /\ order \in [1..n -> memories]
      /\ \A i, j \in 1..n : order[i] = order[j] => i = j
  BY RankedIs
<1>2. Len(order) = n
  <2> HIDE DEF order, n
  <2>1. QED
    BY <1>1
<1>3. ASSUME NEW m \in memories
      PROVE  /\ Of(m).memory = m /\ Of(m).tokens \in Nat
             /\ \E h \in legal : Of(m).user = h.user /\ DocumentOf(Of(m)) = DocumentOf(h)
  <2> DEFINE h == CHOOSE x \in legal : x.memory = m
             d == DocumentOf(h)
  <2>1. h \in legal /\ h.memory = m
    OBVIOUS
  <2> HIDE DEF h
  <2>2. d.user = h.user /\ d.memory = m /\ d.version = h.version
    BY <2>1 DEF DocumentOf
  <2>3. /\ Of(m).user = d.user /\ Of(m).memory = m /\ Of(m).version = d.version
        /\ Of(m).tokens = Max2(1, t[d].length)
    BY DEF Candidate, h
  <2>4. t[d].length \in Nat
    BY <2>1
  <2>5. Of(m).tokens \in Nat
    BY <2>3, <2>4 DEF Max2
  <2> HIDE DEF Of
  <2>6. DocumentOf(Of(m)) = d
    BY <2>1, <2>2, <2>3 DEF DocumentOf
  <2>7. QED
    BY <2>1, <2>2, <2>3, <2>5, <2>6
<1> DEFINE Body(f) == [i \in 0..Len(order) |->
                         IF i = 0 THEN Nothing ELSE Take(options, f[i - 1], Of(order[i]))]
<1>4. s = (CHOOSE f : f = Body(f))[Len(order)]
  BY DEF Selected
<1> HIDE DEF Of, order, s, memories
<1>5. \A f : f = Body(f) <=> Runs(f, options, cand, n)
  <2> SUFFICES ASSUME NEW f
               PROVE  Body(f) = [i \in 0..n |-> IF i = 0 THEN Nothing
                                                ELSE Take(options, f[i - 1], cand[i])]
    BY DEF Runs
  <2>1. \A i \in 0..n : i # 0 => cand[i] = Of(order[i])
    BY <1>1
  <2> HIDE DEF cand, n
  <2>2. QED
    BY <1>2, <2>1
<1> HIDE DEF Body
<1> DEFINE run == CHOOSE f : f = Body(f)
<1>6. Runs(run, options, cand, n)
  <2>1. \E f : f = Body(f)
    <3>1. \E f : Runs(f, options, cand, n)
      BY <1>1, RunExists
    <3>2. QED
      BY <1>5, <3>1
  <2>2. run = Body(run)
    BY <2>1
  <2>3. QED
    BY <1>5, <2>2
<1>7. \A i \in 1..n : cand[i] = Of(order[i]) /\ order[i] \in memories
  BY <1>1
<1>8. s = run[n]
  BY <1>2, <1>4
<1> HIDE DEF run, cand, n
<1>9. Selection(s, options, cand, n)
  <2>1. \A i \in 1..n : cand[i].tokens \in Nat
    BY <1>3, <1>7
  <2>2. \A i, j \in 1..n : cand[i].memory = cand[j].memory => i = j
    BY <1>1, <1>3, <1>7
  <2>3. QED
    BY <1>1, <1>6, <1>8, <2>1, <2>2, RunSelects
<1>10. ASSUME NEW i \in DOMAIN s.out
       PROVE  \E h \in legal : s.out[i].user = h.user /\ DocumentOf(s.out[i]) = DocumentOf(h)
  <2>1. s.out[i] \in {cand[x] : x \in 1..n}
    BY <1>9, ElementOfSeq DEF Selection
  <2>2. PICK x \in 1..n : s.out[i] = cand[x]
    BY <2>1
  <2>3. QED
    BY <1>3, <1>7, <2>2
<1>11. QED
  BY <1>9, <1>10 DEF Selection, s

-----------------------------------------------------------------------------
(* Retrieval                                                                 *)

\* A stored answer is what the fusion makes of hits that are all of the user
\* who asked, and finitely many.
OutcomeSelected ==
    Selected(truth, Legal(truth, outcome.hits, outcome.flt), outcome.flt,
             outcome.options, outcome.degraded)

OutcomeStands ==
    Answered =>
        /\ HitsAreRanked(outcome.hits)
        /\ \A h \in outcome.hits : h.user = outcome.flt.user
        /\ OptionsAreValid(outcome.options)
        /\ Context = OutcomeSelected.out
        /\ outcome.fused.used = OutcomeSelected.used

\* Rows keep their length, the one thing of their contents that is added up.
HasLength(rec) == "length" \in DOMAIN rec /\ rec.length \in Nat

\* What the tables and the indexes hold.
TablesStand ==
    /\ DOMAIN truth \subseteq Document
    /\ \A d \in DOMAIN truth : HasLength(truth[d])
    /\ DOMAIN fts \subseteq Document /\ IsFiniteSet(DOMAIN fts)
    /\ vector \subseteq Document /\ IsFiniteSet(vector)

RetrievalInv == TablesStand /\ OutcomeStands

\* What a fusion presents is what was selected.
LEMMA FusedCandidates ==
    ASSUME NEW t, NEW hits, NEW flt, NEW options, NEW degraded
    PROVE  LET fused == Fuse(t, hits, flt, options, degraded)
               selected == Selected(t, Legal(t, hits, flt), flt, options, degraded)
           IN fused.candidates = selected.out /\ fused.used = selected.used
BY DEF Fuse, Report

\* The document of a hit that passes is the one the tables hold as current.
LEMMA PassedIsCurrent ==
    ASSUME NEW t, DOMAIN t \subseteq Document, NEW flt, NEW h, Reason(t, flt, h) = Passed
    PROVE  /\ DocumentOf(h) \in DOMAIN t
           /\ t[DocumentOf(h)].current
           /\ HardFilter(t, DocumentOf(h), flt) = Passed
<1> DEFINE d == DocumentOf(h)
<1>1. HardFilter(t, d, flt) = Passed /\ IsCurrent(t, d)
  BY DEF Reason, Passed
<1>2. PICK e \in DOMAIN t : e.user = d.user /\ e.memory = d.memory /\ t[e].current
                           /\ e.version = d.version
  <2>1. d.version \in CurrentVersions(t, d.user, d.memory)
    BY <1>1 DEF IsCurrent
  <2>2. QED
    BY <2>1 DEF CurrentVersions
<1>3. d = [user |-> h.user, memory |-> h.memory, version |-> h.version]
  BY DEF DocumentOf
<1>4. e = [user |-> e.user, memory |-> e.memory, version |-> e.version]
  BY <1>2 DEF Document
<1>5. e = d
  BY <1>2, <1>3, <1>4
<1>6. QED
  BY <1>1, <1>2, <1>5

\* Among hits of one user, those on presentable documents decide alone: of two
\* hits that are compared, both are on the same document.
LEMMA PresentableDecide ==
    ASSUME NEW t, DOMAIN t \subseteq Document, NEW flt, NEW hits,
           \A h \in hits : h.user = flt.user
    PROVE  LET presentable == {h \in hits :
                 LET d == DocumentOf(h) IN
                 /\ d \in DOMAIN t /\ t[d].current
                 /\ HardFilter(t, d, flt) = Passed}
           IN Legal(t, presentable, flt) = Legal(t, hits, flt)
<1> DEFINE Shown(h) == /\ DocumentOf(h) \in DOMAIN t /\ t[DocumentOf(h)].current
                       /\ HardFilter(t, DocumentOf(h), flt) = Passed
           presentable == {h \in hits : Shown(h)}
<1>1. \A h : Reason(t, flt, h) = Passed => Shown(h)
  BY PassedIsCurrent
<1>2. \A g \in hits, h \in hits :
        g.memory = h.memory /\ g.version = h.version => DocumentOf(g) = DocumentOf(h)
  BY DEF DocumentOf
<1>3. \A g \in hits, h \in hits :
        g.memory = h.memory /\ g.version = h.version /\ Shown(h) => Shown(g)
  BY <1>2
<1> HIDE DEF Shown
<1>4. \A h \in presentable : h \in Dedupe(presentable) <=> h \in Dedupe(hits)
  BY <1>3 DEF Dedupe
<1>5. \A h : h \in Legal(t, presentable, flt) <=> h \in Legal(t, hits, flt)
  BY <1>1, <1>4 DEF Legal, Dedupe
<1>6. Legal(t, presentable, flt) = Legal(t, hits, flt)
  <2>1. /\ Legal(t, presentable, flt) = {h \in Dedupe(presentable) : Reason(t, flt, h) = Passed}
        /\ Legal(t, hits, flt) = {h \in Dedupe(hits) : Reason(t, flt, h) = Passed}
    BY DEF Legal
  <2>2. QED
    BY <1>5
<1>7. QED
  BY <1>6 DEF Shown

\* A search numbers what it returns.
LEMMA HitsOfAre ==
    ASSUME NEW channel \in Channel, NEW n \in Nat, NEW D, D \subseteq Document,
           NEW found \in [1..n -> D]
    PROVE  /\ HitsAreRanked(HitsOf(channel, found))
           /\ \A h \in HitsOf(channel, found) : \E d \in D : h.user = d.user
<1> DEFINE f == [i \in 1..n |-> Hit(channel, found[i], i)]
           hits == HitsOf(channel, found)
<1>1. hits = {f[i] : i \in 1..n}
  BY DEF HitsOf
<1>2. IsFiniteSet(hits)
  <2>1. f \in Surjection(1..n, hits)
    BY <1>1 DEF Surjection
  <2>2. IsFiniteSet(1..n)
    BY FS_Interval
  <2>3. QED
    BY <2>1, <2>2, FS_Surjection
<1>3. ASSUME NEW h \in hits
      PROVE  /\ h.channel \in Channel /\ h.rank \in Nat \ {0} /\ h.memory \in Nat
             /\ \E d \in D : h.user = d.user
  <2>1. PICK i \in 1..n : h = Hit(channel, found[i], i)
    BY <1>1
  <2>2. found[i] \in D
    OBVIOUS
  <2>3. found[i].memory \in Nat
    BY <2>2, MemoriesAreOrdered DEF Document
  <2>4. /\ h.channel = channel /\ h.rank = i /\ h.memory = found[i].memory
        /\ h.user = found[i].user
    BY <2>1 DEF Hit
  <2>5. QED
    BY <2>2, <2>3, <2>4
<1>4. QED
  BY <1>2, <1>3 DEF HitsAreRanked

\* The rows keep their length through every change of the tables.
LEMMA ChangesKeepLength ==
    ASSUME NEW rec, HasLength(rec), NEW status
    PROVE  /\ HasLength(WithStatus(rec, status))
           /\ HasLength([WithStatus(rec, status) EXCEPT !.current = FALSE])
           /\ HasLength([rec EXCEPT !.conflict = "unresolved"])
BY DEF HasLength, WithStatus

\* Every write keeps the tables as they have to be and takes the last answer away.
LEMMA TablesPreserved ==
    ASSUME TablesStand, RetrievalNext
    PROVE  TablesStand' /\ (RetrieveAny \/ outcome' = NoOutcome)
<1> USE DEF TablesStand
<1>1. ASSUME NEW d \in Documents, Write(d) PROVE TablesStand' /\ outcome' = NoOutcome
  <2>1. /\ DOMAIN truth' = DOMAIN truth \cup {d} /\ UNCHANGED <<fts, vector>>
        /\ outcome' = NoOutcome
    BY <1>1 DEF Write
  <2>2. d \in Document /\ HasLength(Content[d])
    BY RequestsAreBuilt DEF Documents, HasLength
  <2>3. ASSUME NEW e \in DOMAIN truth' PROVE HasLength(truth'[e])
    <3>1. truth'[e] = IF e = d THEN Content[d]
                      ELSE IF e.user = d.user /\ e.memory = d.memory
                           THEN [WithStatus(truth[e], "superseded") EXCEPT !.current = FALSE]
                           ELSE truth[e]
      BY <1>1, <2>1, <2>3 DEF Write
    <3>2. e = d \/ e \in DOMAIN truth
      BY <2>1, <2>3
    <3>3. e \in DOMAIN truth =>
            HasLength([WithStatus(truth[e], "superseded") EXCEPT !.current = FALSE])
      BY ChangesKeepLength
    <3>4. QED
      BY <2>2, <3>1, <3>2, <3>3
  <2>4. QED
    BY <2>1, <2>2, <2>3
<1>2. ASSUME NEW d \in DOMAIN truth, NEW rec, HasLength(rec), Change(d, rec)
      PROVE  TablesStand' /\ outcome' = NoOutcome
  <2>1. truth' = [truth EXCEPT ![d] = rec] /\ UNCHANGED <<fts, vector>> /\ outcome' = NoOutcome
    BY <1>2 DEF Change
  <2>2. /\ DOMAIN truth' = DOMAIN truth
        /\ \A e \in DOMAIN truth : truth'[e] = rec \/ truth'[e] = truth[e]
    BY <2>1
  <2>3. QED
    BY <1>2, <2>1, <2>2
<1>3. ASSUME NEW d \in DOMAIN truth, Retire(d) \/ Contest(d)
      PROVE  TablesStand' /\ outcome' = NoOutcome
  <2>1. /\ HasLength(WithStatus(truth[d], "removed"))
        /\ HasLength([truth[d] EXCEPT !.conflict = "unresolved"])
    BY ChangesKeepLength
  <2>2. CASE Retire(d)
    BY <1>2, <2>1, <2>2 DEF Retire
  <2>3. CASE Contest(d)
    BY <1>2, <2>1, <2>3 DEF Contest
  <2>4. QED
    BY <1>3, <2>2, <2>3
<1>4. ASSUME NEW d, UpsertFts(d) \/ DeleteFts(d) \/ IndexVector(d)
      PROVE  TablesStand' /\ outcome' = NoOutcome
  <2>1. /\ UNCHANGED truth /\ outcome' = NoOutcome
        /\ \/ DOMAIN fts' = DOMAIN fts \cup {d} /\ d \in DOMAIN truth
           \/ DOMAIN fts' = DOMAIN fts \ {d}
           \/ UNCHANGED fts
        /\ \/ UNCHANGED vector
           \/ vector' = vector \ {d}
           \/ vector' = vector \cup {d} /\ d \in DOMAIN truth
    BY <1>4 DEF UpsertFts, DeleteFts, IndexVector
  <2>2. IsFiniteSet(DOMAIN fts')
    BY <2>1, FS_AddElement, FS_RemoveElement
  <2>3. IsFiniteSet(vector')
    BY <2>1, FS_AddElement, FS_RemoveElement
  <2>4. QED
    BY <2>1, <2>2, <2>3
<1>5. ASSUME RetrieveAny PROVE TablesStand'
  BY <1>5 DEF RetrieveAny, Retrieve
<1>6. QED
  BY <1>1, <1>3, <1>4, <1>5 DEF RetrievalNext

\* The hits of a retrieval are of the user who asks and finitely many.
LEMMA RetrievalAnswers == TablesStand /\ RetrieveAny => OutcomeStands'
<1> SUFFICES ASSUME TablesStand, RetrieveAny PROVE OutcomeStands'
  OBVIOUS
<1>1. PICK r \in Requests :
          \E words \in WordLists(r.flt) \cup {None}, vectors \in VectorLists \cup {None} :
              Retrieve(r.flt, r.options, words, vectors)
  BY DEF RetrieveAny
<1>2. PICK words \in WordLists(r.flt) \cup {None}, vectors \in VectorLists \cup {None} :
          Retrieve(r.flt, r.options, words, vectors)
  BY <1>1
<1> DEFINE flt == r.flt
           degraded == {c \in Channel : IF c = "fts5" THEN words = None ELSE vectors = None}
           byWords == IF words = None THEN {} ELSE HitsOf("fts5", words)
           byVectors == IF vectors = None THEN {} ELSE VectorHits(vectors, flt.user)
           hits == byWords \cup byVectors
<1>3. /\ outcome' = [state |-> "answered", flt |-> flt, options |-> r.options,
                     hits |-> hits, degraded |-> degraded,
                     fused |-> [Fuse(truth, hits, flt, r.options, degraded)
                                  EXCEPT !.dropped = Published(@)]]
      /\ UNCHANGED truth /\ OptionsAreValid(r.options)
  BY <1>2 DEF Retrieve
<1>4. HitsAreRanked({})
  BY FS_EmptySet DEF HitsAreRanked
<1>5. HitsAreRanked(byWords) /\ \A h \in byWords : h.user = flt.user
  <2>1. CASE words = None
    BY <1>4, <2>1
  <2>2. CASE words # None
    <3> DEFINE D == {d \in DOMAIN fts : FtsMatches(d, flt)}
    <3>1. words \in UNION {[1..n -> D] : n \in 0..Cardinality(D)}
      BY <1>2, <2>2 DEF WordLists
    <3>2. PICK n \in 0..Cardinality(D) : words \in [1..n -> D]
      BY <3>1
    <3>3. D \subseteq Document /\ \A d \in D : d.user = flt.user
      BY DEF TablesStand, FtsMatches
    <3>4. n \in Nat /\ "fts5" \in Channel
      BY DEF Channel
    <3> HIDE DEF D
    <3>5. QED
      BY <2>2, <3>2, <3>3, <3>4, HitsOfAre
  <2>3. QED
    BY <2>1, <2>2
<1>6. HitsAreRanked(byVectors) /\ \A h \in byVectors : h.user = flt.user
  <2>1. CASE vectors = None
    BY <1>4, <2>1
  <2>2. CASE vectors # None
    <3> DEFINE all == HitsOf("vector", vectors)
    <3>1. vectors \in [1..Cardinality(vector) -> vector]
      BY <1>2, <2>2 DEF VectorLists
    <3>2. Cardinality(vector) \in Nat /\ vector \subseteq Document /\ "vector" \in Channel
      BY FS_CardinalityType DEF TablesStand, Channel
    <3>3. HitsAreRanked(all)
      BY <3>1, <3>2, HitsOfAre
    <3>4. byVectors \subseteq all /\ \A h \in byVectors : h.user = flt.user
      BY <2>2 DEF VectorHits
    <3> HIDE DEF all, byVectors
    <3>5. QED
      BY <3>3, <3>4, FS_Subset DEF HitsAreRanked
  <2>3. QED
    BY <2>1, <2>2
<1> HIDE DEF byWords, byVectors
<1>7. HitsAreRanked(hits) /\ \A h \in hits : h.user = flt.user
  BY <1>5, <1>6, FS_Union DEF HitsAreRanked
<1> HIDE DEF hits, degraded, flt
<1>8. /\ outcome'.fused.candidates = Fuse(truth, hits, flt, r.options, degraded).candidates
      /\ outcome'.fused.used = Fuse(truth, hits, flt, r.options, degraded).used
  BY <1>3 DEF Fuse, Report
<1>9. /\ outcome'.hits = hits /\ outcome'.flt = flt /\ outcome'.options = r.options
      /\ outcome'.degraded = degraded
  BY <1>3
<1>10. OutcomeSelected' = Selected(truth, Legal(truth, hits, flt), flt, r.options, degraded)
  BY <1>3, <1>9 DEF OutcomeSelected
<1>11. QED
  BY <1>3, <1>7, <1>8, <1>9, <1>10, FusedCandidates DEF OutcomeStands, Context

\* Only a retrieval gives an answer, and everything else forgets it.
LEMMA RetrievalPreserves == RetrievalInv /\ [RetrievalNext]_retrievalVars => RetrievalInv'
<1> SUFFICES ASSUME RetrievalInv, [RetrievalNext]_retrievalVars PROVE RetrievalInv'
  OBVIOUS
<1>1. CASE UNCHANGED retrievalVars
  BY <1>1 DEF retrievalVars, RetrievalInv, TablesStand, OutcomeStands, OutcomeSelected, Answered,
              Context
<1>2. CASE RetrievalNext
  <2>1. TablesStand' /\ (RetrieveAny \/ outcome' = NoOutcome)
    BY <1>2, TablesPreserved DEF RetrievalInv
  <2>2. outcome' = NoOutcome => OutcomeStands'
    BY DEF NoOutcome, Answered, OutcomeStands
  <2>3. QED
    BY <2>1, <2>2, RetrievalAnswers DEF RetrievalInv
<1>3. QED
  BY <1>1, <1>2

\* Every document the tables hold is a document, and the answer that stands is
\* what `fuse_retrieval' makes of hits that all belong to the user who asked.
THEOREM RetrievalInvariant == RetrievalSpec => []RetrievalInv
<1>1. RetrievalInit => RetrievalInv
  <2> SUFFICES ASSUME RetrievalInit PROVE RetrievalInv
    OBVIOUS
  <2>1. DOMAIN truth = {} /\ DOMAIN fts = {} /\ vector = {} /\ outcome = NoOutcome
    BY DEF RetrievalInit
  <2>2. TablesStand
    BY <2>1, FS_EmptySet DEF TablesStand
  <2>3. OutcomeStands
    BY <2>1 DEF OutcomeStands, Answered, NoOutcome
  <2>4. QED
    BY <2>2, <2>3 DEF RetrievalInv
<1>2. QED
  BY <1>1, RetrievalPreserves, PTL DEF RetrievalSpec

\* Hits of versions that were superseded, removed or contested, and hits that
\* fail the hard filter, get no score and take no place in the list or the
\* budget: the context is the one that the other hits give at the ranks the
\* providers gave them (`_fuse_retrieval_with_diagnostics').  Those ranks keep
\* the gaps that the dropped hits leave.
THEOREM StaleHitsAreLeftOut == RetrievalSpec => []StaleHitsTakeNoPlace
<1>1. RetrievalInv => StaleHitsTakeNoPlace
  <2> SUFFICES ASSUME RetrievalInv, Answered PROVE StaleHitsTakeNoPlace
    BY DEF StaleHitsTakeNoPlace
  <2> DEFINE presentable == {h \in outcome.hits :
                 LET d == DocumentOf(h) IN
                 /\ d \in DOMAIN truth /\ truth[d].current
                 /\ HardFilter(truth, d, outcome.flt) = Passed}
  <2>1. Legal(truth, presentable, outcome.flt) = Legal(truth, outcome.hits, outcome.flt)
    BY PresentableDecide DEF RetrievalInv, TablesStand, OutcomeStands
  <2>2. Context = Selected(truth, Legal(truth, outcome.hits, outcome.flt), outcome.flt,
                           outcome.options, outcome.degraded).out
    BY DEF RetrievalInv, OutcomeStands, OutcomeSelected
  <2> HIDE DEF presentable
  <2>3. Context = Fuse(truth, presentable, outcome.flt, outcome.options,
                       outcome.degraded).candidates
    BY <2>1, <2>2, FusedCandidates
  <2>4. QED
    BY <2>3 DEF StaleHitsTakeNoPlace, presentable
<1>2. QED
  BY <1>1, RetrievalInvariant, PTL

\* What passes the hard filter is in no open conflict and in a status asked for.
LEMMA HardFilterPasses ==
    ASSUME NEW t, NEW d, NEW flt, HardFilter(t, d, flt) = Passed
    PROVE  /\ d \in DOMAIN t /\ t[d].conflict # "unresolved"
           /\ Allows(flt.statuses, t[d].status)
<1>1. d \in DOMAIN t
  BY DEF HardFilter, Passed
<1> DEFINE rec == t[d]
           own == IF rec.type = "preference" THEN PreferenceReason(rec, flt)
                  ELSE KnowledgeReason(rec, d.version, flt)
           cross == d.user # flt.user
           type == rec.type \notin flt.types
           status == ~Allows(flt.statuses, rec.status)
           sensitivity == ~Allows(flt.sensitivity, rec.sensitivity)
           kind == ~Allows(flt.memory_types, rec.memory_type)
           fails == own # Passed
           conflict == rec.conflict = "unresolved"
<1> HIDE DEF own, cross, type, status, sensitivity, kind, fails, conflict
<1> DEFINE rules == <<Rule(cross, "cross_user"), Rule(type, "object_type"),
                      Rule(status, "memory_status"), Rule(sensitivity, "sensitivity"),
                      Rule(kind, "memory_type"), Rule(fails, own),
                      Rule(conflict, "unresolved_conflict"), Rule(TRUE, Passed)>>
<1>2. HardFilter(t, d, flt) = Decision(rules)
  BY <1>1 DEF HardFilter, own, cross, type, status, sensitivity, kind, fails, conflict
<1>3. /\ DOMAIN rules = 1 .. 8 /\ rules[8].when
      /\ rules[3].when = status /\ rules[6].when = fails /\ rules[7].when = conflict
  BY DEF Rule
<1>4. /\ \A i \in {1, 2, 3, 4, 5, 7} : rules[i].then # Passed
      /\ rules[6].then = own
  BY DEF Rule, Passed
<1> HIDE DEF rules
<1>5. PICK i : Decides(rules, 8, i)
  <2>1. 8 \in Nat /\ 8 \in 1 .. 8
    OBVIOUS
  <2>2. QED
    BY <1>3, <2>1, DecisionIs
<1>6. /\ i \in 1 .. 8 /\ rules[i].when /\ Decision(rules) = rules[i].then
      /\ \A j \in 1 .. 8 : j < i => ~rules[j].when
  BY <1>5 DEF Decides
<1>7. i \in {1, 2, 3, 4, 5, 7} \/ i = 6 \/ i = 8
  BY <1>6
<1>8. i # 6
  <2>1. i = 6 => rules[6].when /\ rules[6].then = Passed
    BY <1>2, <1>6
  <2>2. QED
    BY <1>3, <1>4, <2>1 DEF fails
<1>9. i = 8
  BY <1>2, <1>4, <1>6, <1>7, <1>8
<1>10. ~rules[3].when /\ ~rules[7].when
  BY <1>6, <1>9
<1>11. ~status /\ ~conflict
  BY <1>3, <1>10
<1>12. QED
  BY <1>1, <1>11 DEF status, conflict

\* The standard context admits what is active.
LEMMA ActiveIsAdmitted ==
    ASSUME NEW s, s = "active"
    PROVE  AdmitMemoryStatus(s) = "admitted_standard_context"
<1> DEFINE rules == <<Rule(s = "active", "admitted_standard_context"),
                      Rule(s \in {"candidate", "superseded", "deprecated",
                                         "expired", "removed"}, s),
                      Rule(TRUE, "rejected_unknown_status")>>
<1>1. AdmitMemoryStatus(s) = Decision(rules)
  BY DEF AdmitMemoryStatus
<1>2. /\ DOMAIN rules = 1 .. 3 /\ rules[1].when = (s = "active")
      /\ rules[1].then = "admitted_standard_context"
  BY DEF Rule
<1> HIDE DEF rules
<1>3. PICK i : Decides(rules, 3, i)
  <2>1. 3 \in Nat /\ 1 \in 1 .. 3
    OBVIOUS
  <2>2. QED
    BY <1>2, <2>1, DecisionIs
<1>4. i = 1
  <2>1. /\ i \in 1 .. 3 /\ rules[1].when
        /\ \A j \in 1 .. 3 : j < i => ~rules[j].when
    BY <1>2, <1>3 DEF Decides
  <2>2. QED
    BY <2>1
<1>5. QED
  BY <1>1, <1>2, <1>3, <1>4 DEF Decides

\* The context a user is given consists of rows that the tables hold for this
\* user as current, in no open conflict, active where the standard filter asked,
\* each memory once, and it respects the number and the tokens asked for,
\* whatever the two indexes hold and however their hits are ranked
\* (`_fuse_retrieval_with_diagnostics', `retrieve_graceful').
THEOREM OnlyCurrentRows == RetrievalSpec => []ContextIsCurrent
<1>1. RetrievalInv => ContextIsCurrent
  <2> SUFFICES ASSUME RetrievalInv, Answered PROVE ContextIsCurrent
    BY DEF ContextIsCurrent
  <2> DEFINE flt == outcome.flt
             options == outcome.options
             legal == Legal(truth, outcome.hits, flt)
  <2>1. /\ HitsAreRanked(outcome.hits) /\ \A h \in outcome.hits : h.user = flt.user
        /\ OptionsAreValid(options)
        /\ Context = Selected(truth, legal, flt, options, outcome.degraded).out
        /\ outcome.fused.used = Selected(truth, legal, flt, options, outcome.degraded).used
    BY DEF RetrievalInv, OutcomeStands, OutcomeSelected
  <2>2. legal \subseteq outcome.hits /\ \A h \in legal : Reason(truth, flt, h) = Passed
    BY DEF Legal, Dedupe
  <2> HIDE DEF legal, flt, options
  <2>3. HitsAreRanked(legal)
    BY <2>1, <2>2, FS_Subset DEF HitsAreRanked
  <2>4. ASSUME NEW h \in legal
        PROVE  /\ DocumentOf(h) \in DOMAIN truth /\ truth[DocumentOf(h)].current
               /\ HardFilter(truth, DocumentOf(h), flt) = Passed
    BY <2>2, PassedIsCurrent DEF RetrievalInv, TablesStand
  <2>5. \A h \in legal : truth[DocumentOf(h)].length \in Nat
    BY <2>4 DEF RetrievalInv, TablesStand, HasLength
  <2>6. /\ \A i \in DOMAIN Context : \E h \in legal : /\ Context[i].user = h.user
                                                      /\ DocumentOf(Context[i]) = DocumentOf(h)
        /\ \A i, j \in DOMAIN Context : Context[i].memory = Context[j].memory => i = j
        /\ options.top # None => Len(Context) <= options.top
        /\ options.budget # None => outcome.fused.used <= options.budget
    BY <2>1, <2>3, <2>5, SelectedIs
  <2>7. ASSUME NEW i \in DOMAIN Context
        PROVE  LET c == Context[i]  d == DocumentOf(c) IN
               /\ c.user = flt.user /\ d \in DOMAIN truth
               /\ truth[d].current /\ truth[d].conflict # "unresolved"
               /\ Allows(flt.statuses, truth[d].status)
               /\ flt = StandardFilter(flt.user, flt, flt.as_of) =>
                    AdmitMemoryStatus(truth[d].status) = "admitted_standard_context"
    <3> DEFINE d == DocumentOf(Context[i])
    <3>1. PICK h \in legal : Context[i].user = h.user /\ d = DocumentOf(h)
      BY <2>6
    <3> HIDE DEF d
    <3>2. /\ d \in DOMAIN truth /\ truth[d].current /\ truth[d].conflict # "unresolved"
          /\ Allows(flt.statuses, truth[d].status)
      BY <2>4, <3>1, HardFilterPasses
    <3>3. ASSUME flt = StandardFilter(flt.user, flt, flt.as_of)
          PROVE  AdmitMemoryStatus(truth[d].status) = "admitted_standard_context"
      <4>1. StandardFilter(flt.user, flt, flt.as_of).statuses = {"active"}
        BY DEF StandardFilter
      <4>2. flt.statuses = {"active"}
        BY <3>3, <4>1
      <4>3. truth[d].status = "active"
        BY <3>2, <4>2 DEF Allows
      <4>4. QED
        BY <4>3, ActiveIsAdmitted
    <3>4. Context[i].user = flt.user
      BY <2>1, <2>2, <3>1
    <3>5. QED
      BY <3>2, <3>3, <3>4 DEF d
  <2>8. QED
    BY <2>6, <2>7 DEF ContextIsCurrent, flt, options
<1>2. QED
  BY <1>1, RetrievalInvariant, PTL

=============================================================================
