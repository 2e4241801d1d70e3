-------------------------------- MODULE Outbox --------------------------------
(***************************************************************************)
(* The outbox table of the memory service and the thread that drains it.   *)
(*                                                                         *)
(* A business transaction inserts a row per event; the worker claims the   *)
(* rows that are due in a transaction of its own, and then, one event at a *)
(* time and under the process-wide write lock, routes the event to its     *)
(* consumer and records the outcome: the row is deleted, rescheduled with  *)
(* an exponential back-off, or kept as a dead letter (next_retry_at NULL). *)
(* The process may die between any two transactions.                       *)
(***************************************************************************)
EXTENDS Integers, FiniteSets

CONSTANTS
  Events,       \* outbox rows a run may insert
  Upserts,      \* those of type memory.upserted
  Forgets,      \* those of type forget.executed (priority 1)
  Structural,   \* those inserted by _d8d_outbox (relation, conflict, lifecycle)
  Routed,       \* those whose type has a registered consumer
  MaxRetries,   \* outbox.max_retries
  Backoff,      \* Backoff[n] is RETRY_BASE_SECONDS * 2^n
  Limit,        \* rows claimed per poll
  MaxFaults     \* bound on process crashes and failed outcome transactions

ASSUME EventsAssumption ==
  /\ IsFiniteSet(Events)
  /\ Upserts \subseteq Events
  /\ Forgets \subseteq Events
  /\ Structural \subseteq Events
  /\ Routed \subseteq Events
  /\ Structural \cap (Upserts \cup Forgets) = {}
  /\ Upserts \cap Forgets = {}

ASSUME LimitsAssumption ==
  /\ MaxRetries \in Nat
  /\ Backoff \in [1..MaxRetries -> Nat \ {0}]
  /\ Limit \in Nat \ {0}
  /\ MaxFaults \in Nat

VARIABLES
  rows,         \* the outbox table: event |-> row
  enqueuedAt,   \* created_at of every event ever inserted, NoTime before
  clock,        \* the wall clock
  thread,       \* the worker thread: "off", "idle" or "polling"
  stopping,     \* the threading.Event _stop
  stopCall,     \* the caller of stop(): "none", "joining" or "returned"
  batch,        \* the claimed rows not yet processed, as read by the claim
  claimTime,    \* now_iso of the current poll
  call,         \* the event being processed and what its consumer returned
  lastIndexed,  \* _last_indexed_ts, NoTime for None
  delivered,    \* events whose consumer completed at least once
  calls,        \* calls[e]: how often e was handed to the router
  faults        \* crashes and failed outcome transactions so far

queueVars  == <<rows, enqueuedAt>>
threadVars == <<thread, stopping, stopCall>>
pollVars   == <<batch, claimTime, call>>
histVars   == <<delivered, calls>>
vars == <<queueVars, clock, threadVars, pollVars, lastIndexed, histVars, faults>>

-------------------------------------------------------------------------------
(* The table. *)

NoTime == -1
Times == Nat \cup {NoTime}
Row == [attempts : Nat, nextRetry : Times]
EmptyTable == [e \in {} |-> [attempts |-> 0, nextRetry |-> NoTime]]
NoCall == [event |-> NoTime, result |-> "none"]

Priority(e) == IF e \in Forgets THEN 1 ELSE 0

Enqueued(e) == enqueuedAt[e] # NoTime
DeadRow(e) == e \in DOMAIN rows /\ rows[e].nextRetry = NoTime

\* The process-wide write lock is held while an event is processed.
LockFree == call = NoCall

-------------------------------------------------------------------------------
(* Producers: the insert is part of the business transaction. *)

\* enqueue_outbox: due at once.
EnqueueOutbox(e) ==
  /\ e \notin Structural
  /\ LockFree
  /\ ~Enqueued(e)
  /\ clock' = clock + 1
  /\ enqueuedAt' = [enqueuedAt EXCEPT ![e] = clock']
  /\ rows' = [d \in DOMAIN rows \cup {e} |->
                IF d = e THEN [attempts |-> 0, nextRetry |-> clock'] ELSE rows[d]]
  /\ UNCHANGED <<threadVars, pollVars, lastIndexed, histVars, faults>>

\* _d8d_outbox leaves next_retry_at out of the INSERT: the column is NULL.
EnqueueStructural(e) ==
  /\ e \in Structural
  /\ LockFree
  /\ ~Enqueued(e)
  /\ clock' = clock + 1
  /\ enqueuedAt' = [enqueuedAt EXCEPT ![e] = clock']
  /\ rows' = [d \in DOMAIN rows \cup {e} |->
                IF d = e THEN [attempts |-> 0, nextRetry |-> NoTime] ELSE rows[d]]
  /\ UNCHANGED <<threadVars, pollVars, lastIndexed, histVars, faults>>

\* Time passes up to some moment at which a rescheduled row becomes due.
Tick ==
  \E e \in DOMAIN rows :
    /\ rows[e].nextRetry > clock
    /\ clock' = rows[e].nextRetry
    /\ UNCHANGED <<queueVars, threadVars, pollVars, lastIndexed, histVars, faults>>

-------------------------------------------------------------------------------
(* The thread. *)

\* start() clears _stop and creates a thread; it returns at once, without
\* clearing _stop, while the old thread is alive.
Start ==
  /\ thread = "off"
  /\ stopCall # "joining"
  /\ thread' = "idle"
  /\ stopping' = FALSE
  /\ stopCall' = "none"
  /\ UNCHANGED <<queueVars, clock, pollVars, lastIndexed, histVars, faults>>

\* stop() sets _stop and joins the thread.
Stop ==
  /\ thread # "off"
  /\ stopCall = "none"
  /\ stopping' = TRUE
  /\ stopCall' = "joining"
  /\ UNCHANGED <<queueVars, clock, thread, pollVars, lastIndexed, histVars, faults>>

\* join(timeout) returns when the thread has ended, or after join_timeout.
StopReturns ==
  /\ stopCall = "joining"
  /\ stopCall' = "returned"
  /\ UNCHANGED <<queueVars, clock, thread, stopping, pollVars, lastIndexed,
                 histVars, faults>>

\* The loop condition is read between two polls only.
ThreadExits ==
  /\ thread = "idle"
  /\ stopping
  /\ thread' = "off"
  /\ UNCHANGED <<queueVars, clock, stopping, stopCall, pollVars, lastIndexed,
                 histVars, faults>>

-------------------------------------------------------------------------------
(* One poll. *)

\* Mutant: the due time is not compared with the clock.
MutClaimableEarly(e) ==
  /\ rows[e].nextRetry # NoTime
  /\ rows[e].attempts <= MaxRetries

\* Mutant: the last attempt is never granted.
MutClaimableShort(e) ==
  /\ rows[e].nextRetry # NoTime
  /\ rows[e].nextRetry <= clock
  /\ rows[e].attempts < MaxRetries

Claimable(e) ==
  /\ rows[e].nextRetry # NoTime
  /\ rows[e].nextRetry <= clock
  /\ rows[e].attempts <= MaxRetries

\* Mutant: ordered by next_retry_at alone.
MutPrecedes(d, c, table) == table[d].nextRetry < table[c].nextRetry

\* ORDER BY priority DESC, next_retry_at ASC.
Precedes(d, c, table) ==
  \/ Priority(d) > Priority(c)
  \/ Priority(d) = Priority(c) /\ table[d].nextRetry < table[c].nextRetry

\* LIMIT: as many rows as allowed, none preceded by a row left behind.
IsClaim(S) ==
  LET due == {e \in DOMAIN rows : Claimable(e)} IN
  /\ S \subseteq due
  /\ Cardinality(S) <= Limit
  /\ S = due \/ Cardinality(S) = Limit
  /\ \A d \in due \ S, c \in S : ~Precedes(d, c, rows)

\* _poll_once up to the end of the reading transaction.
Poll ==
  /\ thread = "idle"
  /\ ~stopping
  /\ \E S \in SUBSET DOMAIN rows :
       /\ IsClaim(S)
       /\ S # {}
       /\ batch' = [e \in S |-> rows[e]]
  /\ thread' = "polling"
  /\ claimTime' = clock
  /\ UNCHANGED <<queueVars, clock, stopping, stopCall, call, lastIndexed, histVars, faults>>

IsNext(e) ==
  /\ e \in DOMAIN batch
  /\ \A d \in DOMAIN batch : ~Precedes(d, e, batch)

\* The consumer of a routed type may complete or raise; an unrouted one raises.
RouteResult(e) == IF e \in Routed THEN {"ok", "error"} ELSE {"error"}

\* _process_event takes the write lock and calls the router.
Consume(e) ==
  /\ thread = "polling"
  /\ call = NoCall
  /\ IsNext(e)
  /\ \E result \in RouteResult(e) :
       /\ call' = [event |-> e, result |-> result]
       /\ delivered' = IF result = "ok" THEN delivered \cup {e} ELSE delivered
  /\ calls' = [calls EXCEPT ![e] = @ + 1]
  /\ UNCHANGED <<queueVars, clock, threadVars, batch, claimTime, lastIndexed, faults>>

\* Mutant: the row is deleted whatever the consumer returned.
MutAcknowledge ==
  /\ call # NoCall
  /\ rows' = [d \in DOMAIN rows \ {call.event} |-> rows[d]]
  /\ batch' = [d \in DOMAIN batch \ {call.event} |-> batch[d]]
  /\ lastIndexed' = IF call.event \in Upserts THEN enqueuedAt[call.event] ELSE lastIndexed
  /\ call' = NoCall
  /\ UNCHANGED <<enqueuedAt, clock, threadVars, claimTime, histVars, faults>>

\* mark_outbox_success: the row goes, and only an upsert moves the watermark.
Acknowledge ==
  /\ call # NoCall
  /\ call.result = "ok"
  /\ rows' = [d \in DOMAIN rows \ {call.event} |-> rows[d]]
  /\ batch' = [d \in DOMAIN batch \ {call.event} |-> batch[d]]
  /\ lastIndexed' = IF call.event \in Upserts THEN enqueuedAt[call.event] ELSE lastIndexed
  /\ call' = NoCall
  /\ UNCHANGED <<enqueuedAt, clock, threadVars, claimTime, histVars, faults>>

\* Mutant: a row is put aside one attempt too early.
MutAfterFailureEarly(e) ==
  LET attempts == batch[e].attempts + 1 IN
  [attempts  |-> attempts,
   nextRetry |-> IF attempts >= MaxRetries THEN NoTime ELSE clock + Backoff[attempts]]

\* Mutant: the attempt is not counted.
MutAfterFailureUncounted(e) ==
  [attempts |-> batch[e].attempts, nextRetry |-> clock + 1]

\* _fail: the attempt is counted from the claimed row.
AfterFailure(e) ==
  LET attempts == batch[e].attempts + 1 IN
  [attempts  |-> attempts,
   nextRetry |-> IF attempts > MaxRetries THEN NoTime ELSE clock + Backoff[attempts]]

\* The consumer raised.
Fail ==
  /\ call # NoCall
  /\ call.result = "error"
  /\ rows' = [rows EXCEPT ![call.event] = AfterFailure(call.event)]
  /\ batch' = [d \in DOMAIN batch \ {call.event} |-> batch[d]]
  /\ call' = NoCall
  /\ UNCHANGED <<enqueuedAt, clock, threadVars, claimTime, lastIndexed, histVars, faults>>

\* The consumer completed and mark_outbox_success raised: counted as a failure.
AcknowledgeFails ==
  /\ call # NoCall
  /\ call.result = "ok"
  /\ faults < MaxFaults
  /\ faults' = faults + 1
  /\ rows' = [rows EXCEPT ![call.event] = AfterFailure(call.event)]
  /\ batch' = [d \in DOMAIN batch \ {call.event} |-> batch[d]]
  /\ call' = NoCall
  /\ UNCHANGED <<enqueuedAt, clock, threadVars, claimTime, lastIndexed, histVars>>

\* _fail itself raises (the database is locked): the rest of the batch is dropped.
PollAborts ==
  /\ call # NoCall
  /\ faults < MaxFaults
  /\ faults' = faults + 1
  /\ call' = NoCall
  /\ batch' = EmptyTable
  /\ thread' = "idle"
  /\ UNCHANGED <<queueVars, clock, stopping, stopCall, claimTime, lastIndexed, histVars>>

PollEnds ==
  /\ thread = "polling"
  /\ call = NoCall
  /\ DOMAIN batch = {}
  /\ thread' = "idle"
  /\ UNCHANGED <<queueVars, clock, stopping, stopCall, pollVars, lastIndexed, histVars, faults>>

\* The process dies and comes back with only the table; app.main starts anew.
Crash ==
  /\ thread # "off"
  /\ faults < MaxFaults
  /\ faults' = faults + 1
  /\ thread' = "off"
  /\ stopping' = FALSE
  /\ stopCall' = "none"
  /\ batch' = EmptyTable
  /\ call' = NoCall
  /\ lastIndexed' = NoTime
  /\ UNCHANGED <<queueVars, clock, claimTime, histVars>>

-------------------------------------------------------------------------------
Init ==
  /\ rows = EmptyTable
  /\ enqueuedAt = [e \in Events |-> NoTime]
  /\ clock = 0
  /\ thread = "off"
  /\ stopping = FALSE
  /\ stopCall = "none"
  /\ batch = EmptyTable
  /\ claimTime = 0
  /\ call = NoCall
  /\ lastIndexed = NoTime
  /\ delivered = {}
  /\ calls = [e \in Events |-> 0]
  /\ faults = 0

WorkerStep ==
  \/ ThreadExits \/ Poll \/ PollEnds
  \/ \E e \in Events : Consume(e)
  \/ Acknowledge \/ Fail

Next ==
  \/ \E e \in Events : EnqueueOutbox(e)
  \/ \E e \in Events : EnqueueStructural(e)
  \/ Tick
  \/ Start \/ Stop \/ StopReturns
  \/ WorkerStep
  \/ AcknowledgeFails \/ PollAborts \/ Crash

Spec == Init /\ [][Next]_vars

\* The scheduler runs the thread and the clock advances.
FairSpec == Spec /\ WF_vars(WorkerStep) /\ WF_vars(Tick)

-------------------------------------------------------------------------------
(* Correctness. *)

IsTable(t) == DOMAIN t \subseteq Events /\ t \in [DOMAIN t -> Row]

TypeOK ==
  /\ IsTable(rows)
  /\ enqueuedAt \in [Events -> Times]
  /\ clock \in Nat
  /\ thread \in {"off", "idle", "polling"}
  /\ stopping \in BOOLEAN
  /\ stopCall \in {"none", "joining", "returned"}
  /\ IsTable(batch)
  /\ claimTime \in Nat
  /\ call \in [event : Events, result : {"ok", "error"}] \cup {NoCall}
  /\ lastIndexed \in Times
  /\ delivered \in SUBSET Events
  /\ calls \in [Events -> Nat]
  /\ faults \in Nat

\* "No event is lost": an inserted row leaves the table only after its consumer
\* has completed, whatever crashes and failed transactions came in between.
NoEventLost ==
  \A e \in Events : Enqueued(e) /\ e \notin DOMAIN rows => e \in delivered

\* A row put aside as a dead letter has used up every attempt, so the dead
\* letters of enqueue_outbox are failures an operator has to look at and never
\* events that were simply not tried.
DeadLetterIsExhausted ==
  \A e \in DOMAIN rows \ Structural :
    DeadRow(e) => rows[e].attempts = MaxRetries + 1

\* At-least-once has a price, and this is its bound: an event is handed to its
\* consumer once per recorded attempt, once more for the call under way, and
\* once more for each crash or failed transaction that lost the outcome.
AttemptsOf(e) == IF e \in DOMAIN rows THEN rows[e].attempts ELSE MaxRetries + 1
UnderWay(e) == IF call # NoCall /\ call.event = e THEN 1 ELSE 0

RedeliveryBounded ==
  \A e \in Events : calls[e] <= faults + AttemptsOf(e) + UnderWay(e)

\* The worker goes by a batch it has read before, yet it never calls a consumer
\* for a row that is gone, dead, not yet due or out of attempts in the table.
CallsOnlyDueRows ==
  [][\A e \in Events : calls'[e] > calls[e] =>
       /\ e \in DOMAIN rows
       /\ rows[e].nextRetry \in 0..clock
       /\ rows[e].attempts <= MaxRetries]_vars

\* ADR-015: forgetting goes before indexing.  While an ordinary event is being
\* consumed, no forget event that was due when the poll began is still waiting.
ForgetBeforeIndex ==
  [][\A e \in Events \ Forgets : calls'[e] > calls[e] =>
       \A f \in Forgets \cap DOMAIN rows :
         DeadRow(f) \/ rows[f].nextRetry > claimTime]_vars

\* If the worker is eventually left running, every event inserted by
\* enqueue_outbox is in the end consumed and removed, or put aside.
EventuallySettled ==
  <>[](thread # "off" /\ ~stopping) =>
    \A e \in Events : Enqueued(e) ~> (e \notin DOMAIN rows \/ DeadRow(e))

\* The outbox implements the delivery promise for every event that
\* enqueue_outbox inserts.
PromiseStatus(e) ==
  IF ~Enqueued(e) THEN "absent"
  ELSE IF e \notin DOMAIN rows THEN "done"
  ELSE IF DeadRow(e) THEN "dead" ELSE "pending"

Promise == INSTANCE Delivery WITH
  Items   <- Events \ Structural,
  status  <- [e \in Events \ Structural |-> PromiseStatus(e)],
  effects <- delivered \ Structural

KeepsPromise == Promise!DeliverySpec

-------------------------------------------------------------------------------
(* The inductive invariant: what the worker has read before still holds. *)

BatchIsCurrent ==
  \A e \in DOMAIN batch :
    /\ e \in DOMAIN rows
    /\ batch[e] = rows[e]
    /\ rows[e].nextRetry # NoTime
    /\ rows[e].attempts <= MaxRetries

CallIsFromBatch ==
  call # NoCall =>
    /\ thread = "polling"
    /\ call.event \in DOMAIN batch
    /\ call.result = "ok" => call.event \in delivered

RowsAreEnqueued == \A e \in DOMAIN rows : Enqueued(e)

FreshIsUntouched ==
  \A e \in Events : ~Enqueued(e) => calls[e] = 0 /\ e \notin delivered

AttemptsBounded ==
  \A e \in DOMAIN rows :
    rows[e].attempts <= IF DeadRow(e) THEN MaxRetries + 1 ELSE MaxRetries

IInv ==
  /\ TypeOK
  /\ BatchIsCurrent
  /\ CallIsFromBatch
  /\ RowsAreEnqueued
  /\ FreshIsUntouched
  /\ AttemptsBounded
  /\ NoEventLost
  /\ DeadLetterIsExhausted
  /\ RedeliveryBounded

\* A forget event that was due when the poll began is in the batch as long as
\* the batch holds an ordinary event.
ForgetsClaimed ==
  thread = "polling" =>
    \A f \in Forgets \cap DOMAIN rows, e \in DOMAIN batch \ Forgets :
      DeadRow(f) \/ rows[f].nextRetry > claimTime \/ f \in DOMAIN batch

BatchWasDue ==
  \A e \in DOMAIN batch : batch[e].nextRetry <= claimTime

OrderInv == claimTime <= clock /\ BatchWasDue /\ ForgetsClaimed

===============================================================================
