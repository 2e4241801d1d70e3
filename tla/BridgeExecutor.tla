---------------------------- MODULE BridgeExecutor ----------------------------
(***************************************************************************)
(* The process-wide thread pool on which every call of the embedding       *)
(* library runs, and its bounded recovery from calls that hang.            *)
(*                                                                         *)
(* A call cannot be interrupted.  When a tracked call has been running for *)
(* longer than the hang threshold, the next request abandons the pool and  *)
(* creates another one, at most MaxRebuilds times; after that every        *)
(* request is refused until the process restarts.                          *)
(***************************************************************************)
EXTENDS Integers, FiniteSets

CONSTANTS
  Requests,     \* embed requests; each submits at most one call
  Workers,      \* max_workers of the pool
  MaxRebuilds   \* _embed_max_hang_rebuilds

ASSUME ExecutorAssumption ==
  /\ IsFiniteSet(Requests)
  /\ Workers \in Nat \ {0}
  /\ MaxRebuilds \in Nat

VARIABLES
  future,       \* future[r]: state of the call request r has submitted
  poolOf,       \* poolOf[r]: the pool it was submitted to
  exec          \* the module's globals, see ExecutorState

executorVars == <<future, poolOf, exec>>

FutureState == {"none", "queued", "running", "done", "failed", "cancelled"}
Finished(r) == future[r] \in {"done", "failed", "cancelled"}
Pending(r) == future[r] \in {"queued", "running"}

\* pool: the current pool; shut: _executor_shutdown; tracked: _in_flight, and
\* aged those in it for longer than the hang threshold; recovered: how often the
\* pool was replaced; restart: _embed_restart_required.
ExecutorState ==
  [pool : Nat, shut : BOOLEAN, tracked : SUBSET Requests, aged : SUBSET Requests,
   recovered : Nat, restart : BOOLEAN]

ExecutorInit ==
  /\ future = [r \in Requests |-> "none"]
  /\ poolOf = [r \in Requests |-> 0]
  /\ exec = [pool |-> 0, shut |-> FALSE, tracked |-> {}, aged |-> {},
             recovered |-> 0, restart |-> FALSE]

ExecutorTypeOK ==
  /\ future \in [Requests -> FutureState]
  /\ poolOf \in [Requests -> Nat]
  /\ exec \in ExecutorState

-------------------------------------------------------------------------------
Unfinished(x) == {r \in x.tracked : ~Finished(r)}
Track(x, R) == [x EXCEPT !.tracked = R, !.aged = @ \cap R]
Hung(x) == Unfinished(x) \cap x.aged # {}
NewPool(x) == [x EXCEPT !.pool = @ + 1, !.shut = FALSE]

\* _maybe_recover_hung_executor.
Recovered(x) ==
  LET swept == Track(x, Unfinished(x)) IN
  IF ~Hung(x) THEN swept
  ELSE IF x.restart \/ x.recovered >= MaxRebuilds THEN [swept EXCEPT !.restart = TRUE]
  ELSE [NewPool(Track(x, {})) EXCEPT !.recovered = @ + 1]

Admits(x) == ~x.restart

\* _submit_bridge, when the gate is open.
Submitted(r) ==
  LET x == Recovered(exec)
      y == IF x.shut THEN NewPool(x) ELSE x IN
  /\ Admits(x)
  /\ future' = [future EXCEPT ![r] = "queued"]
  /\ poolOf' = [poolOf EXCEPT ![r] = y.pool]
  /\ exec' = Track(y, y.tracked \cup {r})

\* _submit_bridge returns None.
SubmitRefused ==
  /\ ~Admits(Recovered(exec))
  /\ exec' = Recovered(exec)
  /\ UNCHANGED <<future, poolOf>>

\* A finished call leaves the tracking (done callback, _mark_future_complete).
Finishes(r, state) ==
  /\ future' = [future EXCEPT ![r] = state]
  /\ exec' = Track(exec, exec.tracked \ {r})
  /\ UNCHANGED poolOf

\* shutdown_executor: calls that are still running forbid a restart in this process.
Shutdown(x) ==
  IF x.shut THEN x
  ELSE [Track(x, {}) EXCEPT !.shut = TRUE, !.restart = @ \/ Unfinished(x) # {}]

-------------------------------------------------------------------------------
(* The pool and the library. *)

WorkerTakes(r) ==
  /\ future[r] = "queued"
  /\ Cardinality({q \in Requests : future[q] = "running" /\ poolOf[q] = poolOf[r]}) < Workers
  /\ future' = [future EXCEPT ![r] = "running"]
  /\ UNCHANGED <<poolOf, exec>>

CallEnds(r) ==
  /\ future[r] = "running"
  /\ \E state \in {"done", "failed"} : Finishes(r, state)

\* The hang threshold passes.
Ages(r) ==
  /\ r \in Unfinished(exec) \ exec.aged
  /\ exec' = [exec EXCEPT !.aged = @ \cup {r}]
  /\ UNCHANGED <<future, poolOf>>

-------------------------------------------------------------------------------
(* The inductive invariant *)

\* The pools that were given up and still have a call in them or waiting.
AbandonedPools == {poolOf[r] : r \in {q \in Requests : Pending(q)}} \ {exec.pool}

\* No pool is younger than the current one, and a pool is given up by a recovery
\* or empty: as long as calls are admitted, every pending call of the current
\* pool is tracked, and a pool that was shut down has none.
ExecutorInv ==
  /\ ExecutorTypeOK
  /\ exec.recovered <= MaxRebuilds
  /\ \A r \in Requests : poolOf[r] <= exec.pool
  /\ Cardinality(AbandonedPools) <= exec.recovered
  /\ ~exec.restart =>
       \A r \in Requests : Pending(r) /\ poolOf[r] = exec.pool => r \in exec.tracked
  /\ exec.shut /\ ~exec.restart => exec.tracked = {}

===============================================================================
