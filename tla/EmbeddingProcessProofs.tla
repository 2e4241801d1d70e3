----------------------- MODULE EmbeddingProcessProofs -----------------------
(***************************************************************************)
(* For every number of requests, connections, providers, stops and         *)
(* restarts: stop() joins every thread there is, hanging calls occupy a    *)
(* bounded number of pools, and a provider that is READY has its session.  *)
(***************************************************************************)
EXTENDS EmbeddingProcess, FiniteSetTheorems, TLAPS

USE ExecutorAssumption, ProviderAssumption

-----------------------------------------------------------------------------
(* The executor: its operators *)

\* Tracking changes nothing else.
LEMMA TrackFacts ==
  ASSUME NEW x \in ExecutorState, NEW R \in SUBSET Requests
  PROVE  /\ Track(x, R) \in ExecutorState
         /\ Track(x, R).tracked = R
         /\ Track(x, R).pool = x.pool /\ Track(x, R).shut = x.shut
         /\ Track(x, R).recovered = x.recovered /\ Track(x, R).restart = x.restart
<1>1. x.aged \cap R \in SUBSET Requests
  OBVIOUS
<1>2. QED
  BY <1>1, Zenon DEF Track, ExecutorState

\* A new pool is open.
LEMMA NewPoolFacts ==
  ASSUME NEW x \in ExecutorState
  PROVE  /\ NewPool(x) \in ExecutorState
         /\ NewPool(x).tracked = x.tracked
         /\ NewPool(x).pool = x.pool + 1 /\ NewPool(x).shut = FALSE
         /\ NewPool(x).recovered = x.recovered /\ NewPool(x).restart = x.restart
<1>1. x.pool + 1 \in Nat
  BY DEF ExecutorState
<1>2. QED
  BY <1>1, Zenon DEF NewPool, ExecutorState

\* The recovery keeps the pool, or replaces it at the price of one of the
\* MaxRebuilds recoveries.
LEMMA RecoveredFacts ==
  ASSUME NEW x \in ExecutorState, x.recovered <= MaxRebuilds
  PROVE  /\ Recovered(x) \in ExecutorState
         /\ Recovered(x).recovered <= MaxRebuilds
         /\ \/ /\ Recovered(x).pool = x.pool /\ Recovered(x).recovered = x.recovered
               /\ Recovered(x).shut = x.shut /\ Recovered(x).tracked = Unfinished(x)
               /\ x.restart => Recovered(x).restart
            \/ /\ ~x.restart /\ ~Recovered(x).restart
               /\ Recovered(x).pool = x.pool + 1 /\ Recovered(x).recovered = x.recovered + 1
               /\ Recovered(x).shut = FALSE /\ Recovered(x).tracked = {}
<1> DEFINE swept == Track(x, Unfinished(x))
<1>1. Unfinished(x) \in SUBSET Requests
  BY DEF Unfinished, ExecutorState
<1>2. /\ swept \in ExecutorState /\ swept.tracked = Unfinished(x)
      /\ swept.pool = x.pool /\ swept.shut = x.shut
      /\ swept.recovered = x.recovered /\ swept.restart = x.restart
  BY <1>1, TrackFacts
<1>3. CASE ~Hung(x)
  BY <1>2, <1>3 DEF Recovered
<1> HIDE DEF swept
<1>4. CASE Hung(x) /\ (x.restart \/ x.recovered >= MaxRebuilds)
  <2>1. Recovered(x) = [swept EXCEPT !.restart = TRUE]
    BY <1>4 DEF Recovered, swept
  <2>2. Recovered(x) = [pool |-> swept.pool, shut |-> swept.shut, tracked |-> swept.tracked,
                        aged |-> swept.aged, recovered |-> swept.recovered, restart |-> TRUE]
    BY <1>2, <2>1 DEF ExecutorState
  <2>3. QED
    BY <1>2, <2>2 DEF ExecutorState
<1>5. CASE Hung(x) /\ ~x.restart /\ x.recovered < MaxRebuilds
  <2> DEFINE emptied == Track(x, {})
             fresh == NewPool(emptied)
  <2>1. /\ fresh \in ExecutorState /\ fresh.tracked = {}
        /\ fresh.pool = x.pool + 1 /\ fresh.shut = FALSE
        /\ fresh.recovered = x.recovered /\ fresh.restart = x.restart
    <3>1. {} \in SUBSET Requests
      OBVIOUS
    <3>2. /\ emptied \in ExecutorState /\ emptied.tracked = {} /\ emptied.pool = x.pool
          /\ emptied.recovered = x.recovered /\ emptied.restart = x.restart
      BY <3>1, TrackFacts
    <3> HIDE DEF emptied
    <3>3. QED
      BY <3>2, NewPoolFacts
  <2>2. Recovered(x) = [fresh EXCEPT !.recovered = fresh.recovered + 1]
    BY <1>5 DEF Recovered, ExecutorState
  <2> HIDE DEF emptied, fresh
  <2>3. Recovered(x) = [pool |-> fresh.pool, shut |-> fresh.shut, tracked |-> fresh.tracked,
                        aged |-> fresh.aged, recovered |-> fresh.recovered + 1,
                        restart |-> fresh.restart]
    BY <2>1, <2>2 DEF ExecutorState
  <2>4. x.recovered \in Nat /\ x.recovered + 1 <= MaxRebuilds
    BY <1>5 DEF ExecutorState
  <2>5. QED
    BY <1>5, <2>1, <2>3, <2>4 DEF ExecutorState
<1>6. x.restart \in BOOLEAN /\ (x.recovered >= MaxRebuilds \/ x.recovered < MaxRebuilds)
  BY DEF ExecutorState
<1>7. QED
  BY <1>3, <1>4, <1>5, <1>6

\* The shutdown forgets what it tracks, and remembers that there was something.
LEMMA ShutdownFacts ==
  ASSUME NEW x \in ExecutorState
  PROVE  /\ Shutdown(x) \in ExecutorState
         /\ Shutdown(x).pool = x.pool /\ Shutdown(x).recovered = x.recovered
         /\ \/ Shutdown(x) = x
            \/ /\ Shutdown(x).shut = TRUE /\ Shutdown(x).tracked = {}
               /\ Shutdown(x).restart = (x.restart \/ Unfinished(x) # {})
<1> DEFINE swept == Track(x, {})
<1>1. /\ swept \in ExecutorState /\ swept.tracked = {}
      /\ swept.pool = x.pool /\ swept.recovered = x.recovered /\ swept.restart = x.restart
  BY TrackFacts
<1>2. CASE x.shut
  BY <1>2 DEF Shutdown
<1>3. CASE ~x.shut
  <2>1. Shutdown(x) = [swept EXCEPT !.shut = TRUE, !.restart = swept.restart \/ Unfinished(x) # {}]
    BY <1>3 DEF Shutdown
  <2> HIDE DEF swept
  <2>2. Shutdown(x) = [pool |-> swept.pool, shut |-> TRUE, tracked |-> swept.tracked,
                       aged |-> swept.aged, recovered |-> swept.recovered,
                       restart |-> (swept.restart \/ Unfinished(x) # {})]
    BY <1>1, <2>1 DEF ExecutorState
  <2>3. (swept.restart \/ Unfinished(x) # {}) \in BOOLEAN
    OBVIOUS
  <2>4. QED
    BY <1>1, <2>2, <2>3 DEF ExecutorState
<1>4. QED
  BY <1>2, <1>3

-----------------------------------------------------------------------------
(* The executor: its steps *)

\* The abandoned pools are finite in number: none is younger than the current.
LEMMA AbandonedFinite ==
  ASSUME ExecutorInv
  PROVE  IsFiniteSet(AbandonedPools) /\ Cardinality(AbandonedPools) \in Nat
<1>1. 0 \in Int /\ exec.pool \in Int
  BY DEF ExecutorInv, ExecutorTypeOK, ExecutorState
<1>2. AbandonedPools \in SUBSET (0..exec.pool)
  BY DEF ExecutorInv, ExecutorTypeOK, ExecutorState, AbandonedPools
<1>3. IsFiniteSet(0..exec.pool)
  BY <1>1, FS_Interval
<1>4. IsFiniteSet(AbandonedPools)
  BY <1>2, <1>3, FS_Subset
<1>5. QED
  BY <1>4, FS_CardinalityType

\* A step that leaves the pool and lets no call become pending.
LEMMA PendingShrinks ==
  ASSUME ExecutorInv, UNCHANGED poolOf,
         future' \in [Requests -> FutureState], exec' \in ExecutorState,
         exec'.pool = exec.pool, exec'.recovered = exec.recovered,
         \A r \in Requests : Pending(r)' => Pending(r),
         ~exec'.restart =>
           \A r \in Requests : Pending(r)' /\ poolOf[r] = exec.pool => r \in exec'.tracked,
         exec'.shut /\ ~exec'.restart => exec'.tracked = {}
  PROVE  ExecutorInv'
<1>1. AbandonedPools' \subseteq AbandonedPools
  BY DEF AbandonedPools
<1>2. Cardinality(AbandonedPools') <= Cardinality(AbandonedPools)
      /\ Cardinality(AbandonedPools') \in Nat
  BY <1>1, AbandonedFinite, FS_Subset, FS_CardinalityType
<1>3. Cardinality(AbandonedPools') <= exec'.recovered
  BY <1>2, AbandonedFinite DEF ExecutorInv, ExecutorTypeOK, ExecutorState
<1>4. QED
  BY <1>3 DEF ExecutorInv, ExecutorTypeOK

\* A call is taken by a worker, ends, or passes the hang threshold.
LEMMA PoolStepPreserves ==
  ASSUME ExecutorInv, NEW r \in Requests, WorkerTakes(r) \/ CallEnds(r) \/ Ages(r)
  PROVE  ExecutorInv'
<1>1. CASE WorkerTakes(r)
  <2>1. /\ UNCHANGED <<poolOf, exec>> /\ future' \in [Requests -> FutureState]
        /\ \A q \in Requests : Pending(q)' => Pending(q)
    BY <1>1 DEF WorkerTakes, ExecutorInv, ExecutorTypeOK, FutureState, Pending
  <2>2. exec' \in ExecutorState
    BY <2>1 DEF ExecutorInv, ExecutorTypeOK
  <2>3. QED
    BY <2>1, <2>2, PendingShrinks DEF ExecutorInv
<1>2. CASE CallEnds(r)
  <2>1. /\ UNCHANGED poolOf /\ future' \in [Requests -> FutureState]
        /\ \A q \in Requests : Pending(q)' => Pending(q) /\ q # r
        /\ exec' = Track(exec, exec.tracked \ {r})
    BY <1>2 DEF CallEnds, Finishes, ExecutorInv, ExecutorTypeOK, FutureState, Pending
  <2>2. /\ exec \in ExecutorState
        /\ exec.tracked \ {r} \in SUBSET Requests
    BY DEF ExecutorInv, ExecutorTypeOK, ExecutorState
  <2>3. /\ exec' \in ExecutorState /\ exec'.tracked = exec.tracked \ {r}
        /\ exec'.pool = exec.pool /\ exec'.shut = exec.shut
        /\ exec'.recovered = exec.recovered /\ exec'.restart = exec.restart
    BY <2>1, <2>2, TrackFacts
  <2>4. QED
    BY <2>1, <2>3, PendingShrinks DEF ExecutorInv
<1>3. CASE Ages(r)
  <2>1. UNCHANGED <<future, poolOf>> /\ exec' = [exec EXCEPT !.aged = exec.aged \cup {r}]
        /\ exec \in ExecutorState
    BY <1>3 DEF Ages, ExecutorInv, ExecutorTypeOK
  <2>2. exec' = [pool |-> exec.pool, shut |-> exec.shut, tracked |-> exec.tracked,
                 aged |-> exec.aged \cup {r},
                 recovered |-> exec.recovered, restart |-> exec.restart]
    BY <2>1 DEF ExecutorState
  <2>3. exec' \in ExecutorState
    BY <2>1, <2>2 DEF ExecutorState
  <2>4. future' \in [Requests -> FutureState] /\ \A q \in Requests : Pending(q)' => Pending(q)
    BY <2>1 DEF ExecutorInv, ExecutorTypeOK, Pending
  <2>5. QED
    BY <2>1, <2>2, <2>3, <2>4, PendingShrinks DEF ExecutorInv
<1>4. QED
  BY <1>1, <1>2, <1>3

\* A shutdown, and a refusal: what is pending stays so, and either every call
\* of the pool is finished or there is no way back.
LEMMA ShutdownPreserves ==
  ASSUME ExecutorInv, UNCHANGED <<future, poolOf>>,
         exec' = Shutdown(exec) \/ (exec' = Recovered(exec) /\ ~Admits(Recovered(exec)))
  PROVE  ExecutorInv'
<1>1. exec \in ExecutorState /\ exec.recovered <= MaxRebuilds
      /\ future' \in [Requests -> FutureState]
      /\ \A q \in Requests : Pending(q)' => Pending(q)
  BY DEF ExecutorInv, ExecutorTypeOK, Pending
<1>2. CASE exec' = Shutdown(exec)
  <2>1. /\ exec' \in ExecutorState
        /\ exec'.pool = exec.pool /\ exec'.recovered = exec.recovered
        /\ \/ exec' = exec
           \/ /\ exec'.shut = TRUE /\ exec'.tracked = {}
              /\ exec'.restart = (exec.restart \/ Unfinished(exec) # {})
    BY <1>1, <1>2, ShutdownFacts
  <2>2. CASE exec' = exec
    BY <1>1, <2>2, PendingShrinks DEF ExecutorInv
  <2>3. CASE exec'.restart
    BY <1>1, <2>1, <2>3, PendingShrinks
  <2>4. CASE exec' # exec /\ ~exec'.restart
    <3>1. ~exec.restart /\ Unfinished(exec) = {} /\ exec'.tracked = {}
      BY <2>1, <2>4
    <3>2. \A r \in Requests : Pending(r) /\ poolOf[r] = exec.pool => r \in Unfinished(exec)
      BY <3>1 DEF ExecutorInv, Unfinished, Pending, Finished
    <3>3. QED
      BY <1>1, <2>1, <3>1, <3>2, PendingShrinks
  <2>5. QED
    BY <2>2, <2>3, <2>4
<1>3. CASE exec' = Recovered(exec) /\ ~Admits(Recovered(exec))
  <2>1. /\ exec' \in ExecutorState /\ exec'.restart
        /\ exec'.pool = exec.pool /\ exec'.recovered = exec.recovered
    BY <1>1, <1>3, RecoveredFacts DEF Admits
  <2>2. QED
    BY <1>1, <2>1, PendingShrinks
<1>4. QED
  BY <1>2, <1>3

\* A call that is submitted goes to the pool there is, to a new one in the place
\* of one that was shut down empty, or to one that a recovery has paid for.
LEMMA SubmittedPreserves ==
  ASSUME ExecutorInv, NEW r \in Requests, Submitted(r)
  PROVE  ExecutorInv'
<1> DEFINE x == Recovered(exec)
           y == IF x.shut THEN NewPool(x) ELSE x
<1>1. exec \in ExecutorState /\ exec.recovered <= MaxRebuilds
      /\ exec.pool \in Nat /\ exec.recovered \in Nat
  BY DEF ExecutorInv, ExecutorTypeOK, ExecutorState
<1>2. /\ ~x.restart
      /\ future' = [future EXCEPT ![r] = "queued"]
      /\ poolOf' = [poolOf EXCEPT ![r] = y.pool]
      /\ exec' = Track(y, y.tracked \cup {r})
  BY DEF Submitted, Admits
<1>3. /\ x \in ExecutorState /\ x.recovered <= MaxRebuilds
      /\ \/ /\ x.pool = exec.pool /\ x.recovered = exec.recovered
            /\ x.shut = exec.shut /\ x.tracked = Unfinished(exec) /\ ~exec.restart
         \/ /\ ~exec.restart
            /\ x.pool = exec.pool + 1 /\ x.recovered = exec.recovered + 1
            /\ x.shut = FALSE /\ x.tracked = {}
  BY <1>1, <1>2, RecoveredFacts
<1> HIDE DEF x
<1>4. /\ y \in ExecutorState /\ y.recovered = x.recovered /\ y.restart = x.restart
      /\ y.shut = FALSE /\ y.tracked = x.tracked
      /\ y.pool = IF x.shut THEN x.pool + 1 ELSE x.pool
  BY <1>3, NewPoolFacts DEF ExecutorState
<1> HIDE DEF y
<1>5. /\ exec' \in ExecutorState /\ exec'.tracked = y.tracked \cup {r}
      /\ exec'.pool = y.pool /\ exec'.shut = FALSE
      /\ exec'.recovered = x.recovered /\ ~exec'.restart
  <2>1. y.tracked \cup {r} \in SUBSET Requests
    BY <1>4 DEF ExecutorState
  <2>2. QED
    BY <1>2, <1>4, <2>1, TrackFacts
<1>6. /\ future' \in [Requests -> FutureState] /\ poolOf' \in [Requests -> Nat]
      /\ poolOf'[r] = y.pool
      /\ \A q \in Requests \ {r} : poolOf'[q] = poolOf[q] /\ future'[q] = future[q]
  BY <1>2, <1>4 DEF ExecutorInv, ExecutorTypeOK, ExecutorState, FutureState
<1>7. \A q \in Requests \ {r} : Pending(q)' => Pending(q)
  BY <1>6 DEF Pending
<1>8. y.pool \in Nat /\ exec.pool <= y.pool
  BY <1>1, <1>3, <1>4
<1>9. \A q \in Requests : poolOf'[q] <= exec'.pool
  <2>1. \A q \in Requests : poolOf[q] <= exec.pool /\ poolOf[q] \in Nat
    BY DEF ExecutorInv, ExecutorTypeOK
  <2>2. QED
    BY <1>1, <1>5, <1>6, <1>8, <2>1
<1>10. \A q \in Requests : Pending(q) /\ poolOf[q] = exec.pool => q \in Unfinished(exec)
  BY <1>3 DEF ExecutorInv, Unfinished, Pending, Finished
<1>11. \A q \in Requests : Pending(q)' /\ poolOf'[q] = exec'.pool => q \in exec'.tracked
  <2> SUFFICES ASSUME NEW q \in Requests \ {r}, Pending(q), poolOf[q] = y.pool
               PROVE  q \in y.tracked
    BY <1>5, <1>6, <1>7
  <2>1. poolOf[q] <= exec.pool /\ poolOf[q] \in Nat
    BY DEF ExecutorInv, ExecutorTypeOK
  <2>2. y.pool = exec.pool
    BY <1>1, <1>8, <2>1
  <2>3. QED
    BY <1>1, <1>3, <1>4, <1>10, <2>2
<1>12. /\ AbandonedPools' \subseteq AbandonedPools \cup {exec.pool}
       /\ x.recovered = exec.recovered => AbandonedPools' \subseteq AbandonedPools
  <2>1. AbandonedPools' \subseteq {poolOf[q] : q \in {p \in Requests : Pending(p)}}
    BY <1>5, <1>6, <1>7 DEF AbandonedPools
  <2>2. AbandonedPools' \subseteq AbandonedPools \cup {exec.pool}
    BY <2>1 DEF AbandonedPools
  <2>3. ASSUME x.recovered = exec.recovered PROVE exec.pool \notin AbandonedPools'
    <3>1. CASE y.pool = exec.pool
      BY <1>5, <3>1 DEF AbandonedPools
    <3>2. CASE y.pool # exec.pool
      <4>1. exec.shut /\ ~exec.restart
        BY <1>1, <1>3, <1>4, <2>3, <3>2
      <4>2. \A q \in Requests : Pending(q) => poolOf[q] # exec.pool
        BY <4>1 DEF ExecutorInv
      <4>3. QED
        BY <2>1, <4>2
    <3>3. QED
      BY <3>1, <3>2
  <2>4. QED
    BY <2>2, <2>3
<1>13. Cardinality(AbandonedPools') <= exec'.recovered
  <2>1. /\ IsFiniteSet(AbandonedPools) /\ Cardinality(AbandonedPools) \in Nat
        /\ Cardinality(AbandonedPools) <= exec.recovered
    BY AbandonedFinite DEF ExecutorInv
  <2>2. /\ IsFiniteSet(AbandonedPools \cup {exec.pool})
        /\ Cardinality(AbandonedPools \cup {exec.pool}) \in Nat
        /\ Cardinality(AbandonedPools \cup {exec.pool}) <= Cardinality(AbandonedPools) + 1
    <3>1. /\ IsFiniteSet(AbandonedPools \cup {exec.pool})
          /\ Cardinality(AbandonedPools \cup {exec.pool}) =
               IF exec.pool \in AbandonedPools THEN Cardinality(AbandonedPools)
               ELSE Cardinality(AbandonedPools) + 1
      BY <2>1, FS_AddElement
    <3>2. QED
      BY <2>1, <3>1
  <2>3. CASE x.recovered = exec.recovered
    <3>1. Cardinality(AbandonedPools') <= Cardinality(AbandonedPools)
          /\ Cardinality(AbandonedPools') \in Nat
      BY <1>12, <2>1, <2>3, FS_Subset, FS_CardinalityType
    <3>2. QED
      BY <1>1, <1>5, <2>1, <2>3, <3>1
  <2>4. CASE x.recovered = exec.recovered + 1
    <3>1. Cardinality(AbandonedPools') <= Cardinality(AbandonedPools \cup {exec.pool})
          /\ Cardinality(AbandonedPools') \in Nat
      BY <1>12, <2>2, FS_Subset, FS_CardinalityType
    <3>2. QED
      BY <1>1, <1>5, <2>1, <2>2, <2>4, <3>1
  <2>5. QED
    BY <1>3, <2>3, <2>4
<1>14. QED
  BY <1>3, <1>5, <1>6, <1>9, <1>11, <1>13 DEF ExecutorInv, ExecutorTypeOK

-----------------------------------------------------------------------------
(* The server *)

\* The executor steps as its lemmas say, or stays as it is.
LEMMA ExecutorPreserved ==
  ASSUME ExecutorInv, ServerTypeOK, ServerNext
  PROVE  ExecutorInv'
<1>1. CASE UNCHANGED executorVars
  BY <1>1 DEF executorVars, ExecutorInv, ExecutorTypeOK, AbandonedPools, Pending
<1>2. CASE ShutdownExecutor
  BY <1>2, ShutdownPreserves DEF ShutdownExecutor
<1>3. ASSUME NEW c \in Conns, SubmitCall(c) PROVE ExecutorInv'
  <2>1. CASE \E r \in serves[c] : Submitted(r)
    <3>1. PICK r \in serves[c] : Submitted(r)
      BY <2>1
    <3>2. r \in Requests
      BY <3>1 DEF ServerTypeOK
    <3>3. QED
      BY <3>1, <3>2, SubmittedPreserves
  <2>2. CASE SubmitRefused
    BY <2>2, ShutdownPreserves DEF SubmitRefused
  <2>3. QED
    BY <1>1, <1>3, <2>1, <2>2 DEF SubmitCall
<1>4. ASSUME NEW r \in Requests, PoolStep(r) PROVE ExecutorInv'
  BY <1>4, PoolStepPreserves DEF PoolStep
<1>5. QED
  BY <1>1, <1>2, <1>3, <1>4
     DEF ServerNext, RemoveStaleSocket, Bind, Publish, AcceptLoopEnds, StopBegins, CloseSocket,
         JoinThreads, Unlink, Restart, Accept, Register, Receive, Handle, Respond,
         OtherBinds, OtherStops

\* The flags of the server, and where each thread stands.
LEMMA ServerTyped ==
  ASSUME ServerTypeOK, ServerNext
  PROVE  ServerTypeOK'
<1>1. ASSUME NEW c \in Conns,
             Accept(c) \/ Register(c) \/ Receive(c) \/ Handle(c) \/ SubmitCall(c) \/ Respond(c)
      PROVE  ServerTypeOK'
  <2>1. CASE Accept(c) \/ Register(c) \/ Receive(c)
    BY <2>1 DEF Accept, Register, Receive, Thread, OnlyThread, ServerTypeOK
  <2>2. CASE Handle(c)
    BY <2>2 DEF Handle, Thread, OnlyThread, ServerTypeOK
  <2>3. CASE SubmitCall(c)
    BY <2>3 DEF SubmitCall, Thread, OnlyThread, ServerTypeOK
  <2>4. CASE Respond(c)
    BY <2>4 DEF Respond, Thread, OnlyThread, ServerTypeOK
  <2>5. QED
    BY <1>1, <2>1, <2>2, <2>3, <2>4
<1>2. CASE RemoveStaleSocket \/ Bind \/ Publish \/ AcceptLoopEnds
  BY <1>2 DEF RemoveStaleSocket, Bind, Publish, AcceptLoopEnds, Boots, ServerTypeOK
<1>3. CASE StopBegins \/ CloseSocket \/ ShutdownExecutor
  <2>1. CASE StopBegins
    <3>1. stops' \in Nat
      <4>1. stops \in Nat /\ stops' = stops + 1
        BY <2>1 DEF StopBegins, ServerTypeOK
      <4>2. QED
        BY <4>1
    <3>2. halt' = "flagged" /\ running' = FALSE /\ stopped' = TRUE
          /\ UNCHANGED <<file, boot, conn, serves, joined>>
      BY <2>1 DEF StopBegins
    <3>3. QED
      BY <3>1, <3>2 DEF ServerTypeOK
  <2>2. CASE CloseSocket
    BY <2>2 DEF CloseSocket, ServerTypeOK
  <2>3. CASE ShutdownExecutor
    BY <2>3 DEF ShutdownExecutor, ServerTypeOK
  <2>4. QED
    BY <1>3, <2>1, <2>2, <2>3
<1>4. CASE JoinThreads \/ Unlink \/ Restart
  BY <1>4 DEF JoinThreads, Unlink, Restart, ServerTypeOK
<1>5. CASE OtherBinds \/ OtherStops \/ \E r \in Requests : PoolStep(r)
  BY <1>5 DEF OtherBinds, OtherStops, PoolStep, serverVars, ServerTypeOK
<1>6. QED
  BY <1>1, <1>2, <1>3, <1>4, <1>5 DEF ServerNext

\* No step between the beginning of a stop and the next start raises a flag or
\* adds a thread.
LEMMA StopPreserved ==
  ASSUME ServerTypeOK, StopStands, StopKnowsThreads, ServerNext
  PROVE  StopStands' /\ StopKnowsThreads'
<1>1. ASSUME NEW c \in Conns,
             Accept(c) \/ Register(c) \/ Receive(c) \/ Handle(c) \/ SubmitCall(c) \/ Respond(c)
      PROVE  StopStands' /\ StopKnowsThreads'
  <2>1. UNCHANGED <<halt, running, stopped, joined>> /\ (boot' = boot \/ boot' = "left")
    BY <1>1 DEF Accept, Register, Receive, Handle, SubmitCall, Respond, OnlyThread
  <2>2. \A d \in Conns : halt # "no" /\ Live(d)' => Live(d)
    BY <1>1 DEF Accept, Register, Receive, Handle, SubmitCall, Respond, Thread, Live, StopStands,
                ServerTypeOK
  <2>3. QED
    BY <2>1, <2>2 DEF StopStands, StopKnowsThreads
<1>2. CASE RemoveStaleSocket \/ Bind \/ Publish \/ AcceptLoopEnds
  BY <1>2 DEF RemoveStaleSocket, Bind, Publish, AcceptLoopEnds, Boots, StopStands, StopKnowsThreads,
              Live
<1>3. CASE StopBegins \/ CloseSocket \/ ShutdownExecutor
  BY <1>3 DEF StopBegins, CloseSocket, ShutdownExecutor, StopStands, StopKnowsThreads, Live
<1>4. CASE JoinThreads \/ Unlink \/ Restart
  BY <1>4 DEF JoinThreads, Unlink, Restart, StopStands, StopKnowsThreads, Live
<1>5. CASE OtherBinds \/ OtherStops \/ \E r \in Requests : PoolStep(r)
  BY <1>5 DEF OtherBinds, OtherStops, PoolStep, serverVars, StopStands, StopKnowsThreads, Live
<1>6. QED
  BY <1>1, <1>2, <1>3, <1>4, <1>5 DEF ServerNext

-----------------------------------------------------------------------------
(* The providers *)

Result == [bridge : Bridge, ok : BOOLEAN]

\* What a start may leave: a session if it succeeds, and never less than was
\* there if there was one.
LEMMA AttemptFacts ==
  ASSUME NEW b \in Bridge, NEW r \in Attempt(b)
  PROVE  /\ r \in Result
         /\ r.ok => HasSession(r.bridge)
         /\ HasSession(b) => r.bridge = b
         /\ r.bridge.destroyed = b.destroyed
<1>1. ASSUME NEW x \in Bridge
      PROVE  /\ [x EXCEPT !.fatal = TRUE] \in Bridge
             /\ [x EXCEPT !.loaded = TRUE] \in Bridge
             /\ [x EXCEPT !.session = TRUE] \in Bridge
             /\ [x EXCEPT !.fatal = TRUE].destroyed = x.destroyed
             /\ [x EXCEPT !.loaded = TRUE].destroyed = x.destroyed
             /\ [x EXCEPT !.session = TRUE].destroyed = x.destroyed
  BY Zenon DEF Bridge
<1>10. ASSUME NEW x \in Bridge
      PROVE  /\ Ok(x) \in Result /\ Ok(x).ok = TRUE /\ Ok(x).bridge = x
             /\ Fail(x) \in Result /\ Fail(x).ok = FALSE /\ Fail(x).bridge = x
  BY DEF Ok, Fail, Result
<1>2. ASSUME NEW x \in Bridge, NEW q \in Load(x)
      PROVE  /\ q \in Result /\ (HasSession(x) => q.ok /\ q.bridge = x)
             /\ q.bridge.destroyed = x.destroyed
  <2>1. HasSession(x) => q = Ok(x)
    BY DEF Load, HasSession
  <2>2. \E y \in Bridge : y.destroyed = x.destroyed /\ (q = Ok(y) \/ q = Fail(y))
    BY <1>1 DEF Load
  <2>3. QED
    BY <1>10, <2>1, <2>2
<1>3. ASSUME NEW x \in Bridge, NEW q \in CreateSession(x)
      PROVE  /\ q \in Result /\ (HasSession(x) => q.ok /\ q.bridge = x)
             /\ q.bridge.destroyed = x.destroyed
  <2>1. HasSession(x) => q = Ok(x)
    BY DEF CreateSession, HasSession
  <2>2. \E y \in Bridge : y.destroyed = x.destroyed /\ (q = Ok(y) \/ q = Fail(y))
    BY <1>1 DEF CreateSession
  <2>3. QED
    BY <1>10, <2>1, <2>2
<1>4. ASSUME NEW x \in Bridge, NEW q \in EmbedCall(x)
      PROVE  q \in Result /\ q.bridge = x /\ (q.ok => HasSession(x))
  <2>1. q = Fail(x) \/ (q = Ok(x) /\ HasSession(x))
    BY DEF EmbedCall
  <2>2. QED
    BY <1>10, <2>1
<1> DEFINE Opened == Then(Load(b), CreateSession)
<1>5. ASSUME NEW q \in Opened
      PROVE  /\ q \in Result /\ (HasSession(b) => q.ok /\ q.bridge = b)
             /\ q.bridge.destroyed = b.destroyed
  <2>1. CASE q \in Load(b) /\ ~q.ok
    BY <1>2, <2>1
  <2>2. CASE \E l \in Load(b) : l.ok /\ q \in CreateSession(l.bridge)
    <3>1. PICK l \in Load(b) : l.ok /\ q \in CreateSession(l.bridge)
      BY <2>2
    <3>2. /\ l \in Result /\ l.bridge \in Bridge /\ (HasSession(b) => l.bridge = b)
          /\ l.bridge.destroyed = b.destroyed
      BY <1>2, <3>1 DEF Result
    <3>3. QED
      BY <1>3, <3>1, <3>2
  <2>3. QED
    BY <1>5, <2>1, <2>2 DEF Then
<1>6. r \in Then(Opened, EmbedCall)
  BY DEF Attempt
<1> HIDE DEF Opened
<1>7. CASE r \in Opened /\ ~r.ok
  BY <1>5, <1>7
<1>8. CASE \E o \in Opened : o.ok /\ r \in EmbedCall(o.bridge)
  <2>1. PICK o \in Opened : o.ok /\ r \in EmbedCall(o.bridge)
    BY <1>8
  <2>2. /\ o \in Result /\ o.bridge \in Bridge /\ (HasSession(b) => o.bridge = b)
        /\ o.bridge.destroyed = b.destroyed
    BY <1>5, <2>1 DEF Result
  <2>3. QED
    BY <1>4, <2>1, <2>2
<1>9. QED
  BY <1>6, <1>7, <1>8 DEF Then

\* Sets of providers are finite.
LEMMA ReadyFinite ==
  /\ IsFiniteSet(Ready) /\ Cardinality(Ready) \in Nat
  /\ Cardinality(Ready) <= Cardinality(Providers)
  /\ Cardinality(Ready) = 0 <=> Ready = {}
<1>1. Ready \in SUBSET Providers
  BY DEF Ready
<1>2. QED
  BY <1>1, FS_Subset, FS_CardinalityType, FS_EmptySet

\* What a READY provider has: a session on the bridge that is shared, and a
\* dimension.
Served ==
  /\ \A p \in Ready : HasSession(bridges[bound[p]]) /\ dimension
  /\ refs = Cardinality(Ready)

\* That is what embed, health and model_info say of it.
LEMMA ServedSeen ==
  /\ Served => ReadyHasSession
  /\ ReadyHasSession => Served
<1>1. ASSUME NEW p \in Ready
      PROVE  /\ (\E r \in Embeds(p) : r.ok) <=> HasSession(bridges[bound[p]])
             /\ Health(p).bridge_has_session = bridges[bound[p]].session
             /\ Health(p).model.dimension = dimension
  <2>1. Embeds(p) = EmbedCall(bridges[bound[p]])
    BY DEF Embeds, Ready
  <2>2. Ok(bridges[bound[p]]).ok = TRUE /\ Fail(bridges[bound[p]]).ok = FALSE
    BY DEF Ok, Fail
  <2>3. QED
    BY <2>1, <2>2 DEF EmbedCall, Health, ModelInfo
<1>2. ASSUME NEW b PROVE HasSession(b) => b.session
  BY DEF HasSession
<1>3. QED
  BY <1>1, <1>2 DEF Served, ReadyHasSession

\* The same of the next state.
LEMMA ServedSeenNext ==
  ASSUME Served'
  PROVE  ReadyHasSession'
<1>1. ASSUME NEW p \in Ready'
      PROVE  /\ HasSession(bridges[bound[p]])' => \E r \in Embeds(p)' : r.ok
             /\ (Health(p).bridge_has_session)' = (bridges[bound[p]].session)'
             /\ (Health(p).model.dimension)' = dimension'
  <2>1. Embeds(p)' = EmbedCall(bridges[bound[p]])'
    BY DEF Embeds, Ready
  <2>2. Ok(bridges[bound[p]]').ok = TRUE
    BY DEF Ok
  <2>3. QED
    BY <2>1, <2>2 DEF EmbedCall, Health, ModelInfo
<1>2. ASSUME NEW b PROVE HasSession(b) => b.session
  BY DEF HasSession
<1>3. QED
  BY <1>1, <1>2 DEF Served, ReadyHasSession

\* Only a provider of the shared bridge can be READY.
LEMMA ReadyShares ==
  ASSUME ProviderInv, NEW p \in Ready
  PROVE  /\ bound[p] \in 1..Len(bridges) /\ bound[p] = shared
         /\ HasSession(bridges[bound[p]]) /\ dimension
<1>1. bound[p] \in 1..Len(bridges)
  BY DEF Ready, ProviderInv, ProviderTypeOK, BoundStands
<1>2. HasSession(bridges[bound[p]]) /\ dimension
  BY ServedSeen DEF Served, ProviderInv
<1>3. QED
  BY <1>1, <1>2 DEF HasSession, ProviderInv, GivenUpDestroyed

\* A provider joins the bridge there is, or makes one.
LEMMA ConstructPreserves ==
  ASSUME ProviderInv, NEW p \in Providers, Construct(p)
  PROVE  ProviderInv'
<1>1. /\ bridges \in Seq(Bridge) /\ Len(bridges) \in Nat
      /\ shared \in 0..Len(bridges) /\ NewBridge \in Bridge
  BY DEF ProviderInv, ProviderTypeOK, NewBridge, Bridge
<1>2. /\ bridges' \in Seq(Bridge) /\ Len(bridges') <= MaxBridges /\ Len(bridges) <= Len(bridges')
      /\ shared' \in 1..Len(bridges')
      /\ \A i \in 1..Len(bridges) : bridges'[i] = bridges[i]
      /\ GivenUpDestroyed'
      /\ Ready # {} => shared # 0
  <2>1. CASE /\ bridges' = Append(bridges, NewBridge) /\ shared' = Len(bridges')
             /\ Len(bridges) < MaxBridges
             /\ shared = 0
    BY <1>1, <2>1, ReadyShares DEF ProviderInv, GivenUpDestroyed
  <2>2. CASE shared # 0 /\ UNCHANGED <<bridges, shared>>
    BY <1>1, <2>2 DEF ProviderInv, ProviderTypeOK, GivenUpDestroyed
  <2>3. QED
    BY <2>1, <2>2 DEF Construct
<1>3. /\ UNCHANGED <<refs, library>>
      /\ life' = [life EXCEPT ![p] = "UNINITIALIZED"] /\ life[p] = "absent"
      /\ bound' = [bound EXCEPT ![p] = shared']
      /\ dimension' = FALSE \/ UNCHANGED dimension
      /\ shared # 0 => UNCHANGED dimension
  BY DEF Construct
<1>4. Ready' = Ready
  BY <1>3 DEF Ready, ProviderInv, ProviderTypeOK, Lifecycle
<1>5. ProviderTypeOK'
  <2>1. dimension' \in BOOLEAN
    BY <1>3 DEF ProviderInv, ProviderTypeOK
  <2>2. bound' \in [Providers -> 0..Len(bridges')]
    BY <1>1, <1>2, <1>3 DEF ProviderInv, ProviderTypeOK
  <2>3. life' \in [Providers -> Lifecycle]
    BY <1>3 DEF ProviderInv, ProviderTypeOK, Lifecycle
  <2>4. refs' \in 0..Cardinality(Providers) /\ library' = library
    BY <1>3 DEF ProviderInv, ProviderTypeOK
  <2>5. shared' \in 0..Len(bridges')
    BY <1>1, <1>2
  <2>6. QED
    BY <1>2, <2>1, <2>2, <2>3, <2>4, <2>5 DEF ProviderInv, ProviderTypeOK
<1>6. BoundStands'
  BY <1>2, <1>3 DEF ProviderInv, ProviderTypeOK, BoundStands
<1>7. Served'
  <2>1. ASSUME NEW q \in Ready
        PROVE  /\ bound'[q] = bound[q] /\ bound[q] \in 1..Len(bridges)
               /\ HasSession(bridges[bound[q]]) /\ dimension'
    BY <1>1, <1>2, <1>3, ReadyShares DEF Ready, ProviderInv, ProviderTypeOK, BoundStands
  <2>2. refs' = Cardinality(Ready)
    BY <1>3, ServedSeen DEF Served, ProviderInv
  <2>3. QED
    BY <1>2, <1>4, <2>1, <2>2 DEF Served
<1>8. QED
  BY <1>2, <1>5, <1>6, <1>7, ServedSeenNext DEF ProviderInv

\* What an attempt to start does to the bridges, as far as others see it.
LEMMA AttemptKeepsSessions ==
  ASSUME ProviderInv, NEW p \in Providers, life[p] # "absent",
         NEW r \in Attempt(bridges[bound[p]])
  PROVE  /\ bound[p] \in 1..Len(bridges) /\ r \in Result
         /\ [bridges EXCEPT ![bound[p]] = r.bridge] \in Seq(Bridge)
         /\ Len([bridges EXCEPT ![bound[p]] = r.bridge]) = Len(bridges)
         /\ r.ok => HasSession([bridges EXCEPT ![bound[p]] = r.bridge][bound[p]])
         /\ \A q \in Ready : HasSession([bridges EXCEPT ![bound[p]] = r.bridge][bound[q]])
         /\ \A i \in 1..Len(bridges) :
              i # shared => [bridges EXCEPT ![bound[p]] = r.bridge][i].destroyed
<1>1. /\ bridges \in Seq(Bridge) /\ bound[p] \in 1..Len(bridges)
      /\ bridges[bound[p]] \in Bridge
  BY DEF ProviderInv, ProviderTypeOK, BoundStands
<1>2. /\ r \in Result /\ r.bridge \in Bridge
      /\ r.ok => HasSession(r.bridge)
      /\ HasSession(bridges[bound[p]]) => r.bridge = bridges[bound[p]]
      /\ r.bridge.destroyed = bridges[bound[p]].destroyed
  BY <1>1, AttemptFacts DEF Result
<1>3. ASSUME NEW q \in Ready PROVE bound[q] \in 1..Len(bridges) /\ HasSession(bridges[bound[q]])
  BY ReadyShares
<1>4. \A i \in 1..Len(bridges) : i # shared => bridges[i].destroyed
  BY DEF ProviderInv, GivenUpDestroyed
<1>5. QED
  BY <1>1, <1>2, <1>3, <1>4

\* A start that succeeds has a session and a reference.
LEMMA StartSucceedsPreserves ==
  ASSUME ProviderInv, NEW p \in Providers, StartSucceeds(p)
  PROVE  ProviderInv'
<1>1. PICK r \in Attempt(bridges[bound[p]]) :
        r.ok /\ bridges' = [bridges EXCEPT ![bound[p]] = r.bridge]
  BY DEF StartSucceeds
<1>2. /\ UNCHANGED <<shared, bound, library>> /\ refs' = refs + 1 /\ dimension' = TRUE
      /\ life' = [life EXCEPT ![p] = "READY"]
      /\ life[p] # "absent" /\ p \notin Ready
  BY DEF StartSucceeds, Ready
<1>3. /\ bridges' \in Seq(Bridge) /\ Len(bridges') = Len(bridges)
      /\ HasSession(bridges'[bound[p]])
      /\ \A q \in Ready : HasSession(bridges'[bound[q]])
      /\ GivenUpDestroyed'
  BY <1>1, <1>2, AttemptKeepsSessions DEF GivenUpDestroyed
<1>4. Ready' = Ready \cup {p}
  BY <1>2 DEF Ready, ProviderInv, ProviderTypeOK
<1>5. Cardinality(Ready') = Cardinality(Ready) + 1
  BY <1>2, <1>4, ReadyFinite, FS_AddElement
<1>6. /\ Cardinality(Ready') <= Cardinality(Providers) /\ refs' = Cardinality(Ready')
      /\ refs' \in Nat
  <2>1. Ready' \in SUBSET Providers
    BY DEF Ready
  <2>2. Cardinality(Ready') <= Cardinality(Providers)
    BY <2>1, FS_Subset
  <2>3. refs = Cardinality(Ready) /\ Cardinality(Ready) \in Nat
    BY ReadyFinite, ServedSeen DEF ProviderInv, Served
  <2>4. QED
    BY <1>2, <1>5, <2>2, <2>3
<1>7. ProviderTypeOK'
  <2>1. Cardinality(Providers) \in Nat
    BY FS_CardinalityType
  <2>2. QED
    BY <1>2, <1>3, <1>6, <2>1 DEF ProviderInv, ProviderTypeOK, Lifecycle
<1>8. BoundStands'
  BY <1>2 DEF ProviderInv, ProviderTypeOK, BoundStands
<1>9. Served'
  BY <1>2, <1>3, <1>4, <1>6 DEF Served
<1>10. QED
  BY <1>3, <1>7, <1>8, <1>9, ServedSeenNext DEF ProviderInv

\* A start that fails gives up the shared bridge only when nobody is READY.
LEMMA StartFailsPreserves ==
  ASSUME ProviderInv, NEW p \in Providers, StartFails(p)
  PROVE  ProviderInv'
<1>1. /\ UNCHANGED <<refs, bound, library>>
      /\ life' = [life EXCEPT ![p] = "INITIALIZING"]
      /\ life[p] # "absent" /\ p \notin Ready
  BY DEF StartFails, Ready
<1>2. Ready' = Ready
  BY <1>1 DEF Ready, ProviderInv, ProviderTypeOK
<1>3. PICK r \in Attempt(bridges[bound[p]]) :
        LET left == [bridges EXCEPT ![bound[p]] = r.bridge] IN
        \/ /\ Replaceable(r.bridge)
           /\ bridges' = IF shared = 0 THEN left
                         ELSE [left EXCEPT ![shared] = DestroySession(left[shared])]
           /\ shared' = 0 /\ dimension' = FALSE
        \/ bridges' = left /\ UNCHANGED <<shared, dimension>>
  BY DEF StartFails
<1> DEFINE left == [bridges EXCEPT ![bound[p]] = r.bridge]
<1>4. /\ left \in Seq(Bridge) /\ Len(left) = Len(bridges)
      /\ \A q \in Ready : HasSession(left[bound[q]])
      /\ \A i \in 1..Len(bridges) : i # shared => left[i].destroyed
  BY <1>1, AttemptKeepsSessions
<1> HIDE DEF left
<1>5. /\ bridges' \in Seq(Bridge) /\ Len(bridges') = Len(bridges)
      /\ shared' \in 0..Len(bridges)
      /\ \A q \in Ready : HasSession(bridges'[bound[q]]) /\ dimension'
      /\ dimension' \in BOOLEAN /\ GivenUpDestroyed'
  <2>1. shared \in 0..Len(bridges)
    BY DEF ProviderInv, ProviderTypeOK
  <2>2. CASE bridges' = left /\ UNCHANGED <<shared, dimension>>
    BY <1>4, <2>1, <2>2, ReadyShares DEF ProviderInv, ProviderTypeOK, GivenUpDestroyed
  <2>3. CASE /\ Replaceable(r.bridge) /\ shared' = 0 /\ dimension' = FALSE
             /\ bridges' = IF shared = 0 THEN left
                           ELSE [left EXCEPT ![shared] = DestroySession(left[shared])]
    <3>1. Ready = {}
      BY <2>3, ReadyFinite, ServedSeen DEF Replaceable, ProviderInv, Served
    <3>2. /\ bridges' \in Seq(Bridge) /\ Len(bridges') = Len(bridges)
          /\ \A i \in 1..Len(bridges) : bridges'[i].destroyed
      <4>1. CASE shared = 0
        BY <1>4, <2>3, <4>1
      <4>2. CASE shared # 0
        <5>1. shared \in 1..Len(left) /\ left[shared] \in Bridge
          BY <1>4, <2>1, <4>2
        <5>2. DestroySession(left[shared]) \in Bridge /\ DestroySession(left[shared]).destroyed
          BY <5>1, Zenon DEF DestroySession, Bridge
        <5>3. QED
          BY <1>4, <2>3, <4>2, <5>1, <5>2
      <4>3. QED
        BY <4>1, <4>2
    <3>3. 0 \in 0..Len(bridges)
      BY <2>1
    <3>4. QED
      BY <2>3, <3>1, <3>2, <3>3 DEF GivenUpDestroyed
  <2>4. QED
    BY <1>3, <2>2, <2>3 DEF left
<1>6. ProviderTypeOK'
  BY <1>1, <1>5 DEF ProviderInv, ProviderTypeOK, Lifecycle
<1>7. BoundStands'
  BY <1>1 DEF ProviderInv, ProviderTypeOK, BoundStands
<1>8. Served'
  BY <1>1, <1>2, <1>5, ServedSeen DEF ProviderInv, Served
<1>9. QED
  BY <1>5, <1>6, <1>7, <1>8, ServedSeenNext DEF ProviderInv

\* A provider that closes gives back the reference it has.
LEMMA ClosePreserves ==
  ASSUME ProviderInv, NEW p \in Providers, Close(p)
  PROVE  ProviderInv'
<1>1. /\ UNCHANGED <<bridges, shared, bound, dimension, library>>
      /\ life' = [life EXCEPT ![p] = "CLOSED"] /\ p \in Ready
      /\ refs' = IF refs > 0 THEN refs - 1 ELSE refs
  BY DEF Close, Ready
<1>2. Ready' = Ready \ {p}
  BY <1>1 DEF Ready, ProviderInv, ProviderTypeOK
<1>3. Cardinality(Ready') = Cardinality(Ready) - 1
  BY <1>1, <1>2, ReadyFinite, FS_RemoveElement
<1>4. refs' = Cardinality(Ready') /\ refs' \in 0..Cardinality(Providers)
  <2>1. /\ refs = Cardinality(Ready) /\ Cardinality(Ready) \in Nat /\ Cardinality(Ready) # 0
        /\ Cardinality(Ready) <= Cardinality(Providers) /\ Cardinality(Providers) \in Nat
    BY <1>1, ReadyFinite, ServedSeen, FS_CardinalityType DEF ProviderInv, Served
  <2>2. QED
    BY <1>1, <1>3, <2>1
<1>5. ProviderTypeOK' /\ BoundStands'
  BY <1>1, <1>4 DEF ProviderInv, ProviderTypeOK, BoundStands, Lifecycle, Ready
<1>6. Served' /\ GivenUpDestroyed'
  BY <1>1, <1>2, <1>4, ServedSeen DEF ProviderInv, Served, GivenUpDestroyed
<1>7. QED
  BY <1>5, <1>6, ServedSeenNext DEF ProviderInv

-----------------------------------------------------------------------------
(* The theorems *)

\* The invariant holds of a process that has just begun.
LEMMA InitEstablishes == Init => IInv
<1> SUFFICES ASSUME Init PROVE IInv
  OBVIOUS
<1>1. ExecutorInv
  <2>1. AbandonedPools = {}
    BY DEF Init, ServerInit, ExecutorInit, AbandonedPools, Pending
  <2>2. Cardinality(AbandonedPools) = 0
    BY <2>1, FS_EmptySet
  <2>3. ExecutorTypeOK
    BY DEF Init, ServerInit, ExecutorInit, ExecutorTypeOK, ExecutorState, FutureState
  <2>4. QED
    BY <2>2, <2>3 DEF Init, ServerInit, ExecutorInit, ExecutorInv, Pending
<1>2. ServerTypeOK /\ StopStands /\ StopKnowsThreads
  BY DEF Init, ServerInit, ServerTypeOK, StopStands, StopKnowsThreads
<1>3. ProviderTypeOK /\ BoundStands /\ GivenUpDestroyed /\ ReadyHasSession
  <2>1. Ready = {} /\ Cardinality(Ready) = 0 /\ Cardinality(Providers) \in Nat
    BY FS_EmptySet, FS_CardinalityType DEF Init, ProviderInit, Ready
  <2>2. ReadyHasSession
    BY <2>1 DEF Init, ProviderInit, ReadyHasSession
  <2>3. bridges = <<>> /\ Len(bridges) = 0 /\ bridges \in Seq(Bridge)
    BY DEF Init, ProviderInit
  <2>4. life \in [Providers -> Lifecycle] /\ dimension \in BOOLEAN
        /\ library \in {"missing", "incomplete", "complete"}
    BY DEF Init, ProviderInit, Lifecycle
  <2>5. shared = 0 /\ refs = 0 /\ bound = [p \in Providers |-> 0]
    BY DEF Init, ProviderInit
  <2>6. ProviderTypeOK
    BY <2>1, <2>3, <2>4, <2>5 DEF ProviderTypeOK
  <2>7. BoundStands
    BY DEF Init, ProviderInit, BoundStands
  <2>8. GivenUpDestroyed
    BY <2>3 DEF GivenUpDestroyed
  <2>9. QED
    BY <2>2, <2>6, <2>7, <2>8
<1>4. QED
  BY <1>1, <1>2, <1>3 DEF IInv, ServerInv, ProviderInv

\* The server and the providers share no variable.
LEMMA StepPreserves == IInv /\ [Next]_vars => IInv'
<1> SUFFICES ASSUME IInv, [Next]_vars PROVE IInv'
  OBVIOUS
<1>1. ServerInv'
  <2>1. CASE ServerNext
    BY <2>1, ExecutorPreserved, ServerTyped, StopPreserved DEF IInv, ServerInv
  <2>2. CASE UNCHANGED processVars
    <3>1. UNCHANGED executorVars /\ UNCHANGED serverVars /\ UNCHANGED file
      BY <2>2 DEF processVars
    <3>2. ExecutorInv'
      BY <3>1 DEF executorVars, IInv, ServerInv, ExecutorInv, ExecutorTypeOK,
                  AbandonedPools, Pending
    <3>3. ServerTypeOK' /\ StopStands' /\ StopKnowsThreads'
      BY <3>1 DEF serverVars, IInv, ServerInv, ServerTypeOK, StopStands, StopKnowsThreads, Live
    <3>4. QED
      BY <3>2, <3>3 DEF ServerInv
  <2>3. QED
    BY <2>1, <2>2 DEF Next, vars
<1>2. ProviderInv'
  <2>1. CASE ProviderNext
    <3>1. CASE LibraryChanges
      <4>1. Served' /\ GivenUpDestroyed'
        BY <3>1, ServedSeen DEF LibraryChanges, IInv, ProviderInv, Served, Ready, GivenUpDestroyed
      <4>2. QED
        BY <3>1, <4>1, ServedSeenNext DEF LibraryChanges, IInv, ProviderInv, ProviderTypeOK,
                                          BoundStands
    <3>2. QED
      BY <2>1, <3>1, ConstructPreserves, StartSucceedsPreserves, StartFailsPreserves,
         ClosePreserves DEF ProviderNext, IInv
  <2>2. CASE UNCHANGED providerVars
    <3>1. Served' /\ GivenUpDestroyed'
      BY <2>2, ServedSeen DEF providerVars, IInv, ProviderInv, Served, Ready, GivenUpDestroyed
    <3>2. QED
      BY <2>2, <3>1, ServedSeenNext DEF providerVars, IInv, ProviderInv, ProviderTypeOK, BoundStands
  <2>3. QED
    BY <2>1, <2>2 DEF Next, vars
<1>3. QED
  BY <1>1, <1>2 DEF IInv

\* The inductive invariant of the process.
THEOREM Invariance == Spec => []IInv
<1>1. QED
  BY InitEstablishes, StepPreserves, PTL DEF Spec

\* The state of the executor, of the server and of the providers is typed.
THEOREM TypeCorrect == Spec => []TypeOK
<1>1. IInv => TypeOK
  BY DEF IInv, ServerInv, ExecutorInv, ProviderInv, TypeOK
<1>2. QED
  BY <1>1, Invariance, PTL

\* stop() joins every thread that serves a connection when it returns, however
\* accepts, starts and stops interleave.
THEOREM StopIsComplete == Spec => []StopKnowsThreads
<1>1. IInv => StopKnowsThreads
  BY DEF IInv, ServerInv
<1>2. QED
  BY <1>1, Invariance, PTL

\* The calls that run in the library, hung or not, occupy at most MaxRebuilds + 1
\* pools, through any number of stops and starts.
THEOREM HungCallsAreBounded == Spec => []HungCallsBounded
<1>1. ExecutorInv => HungCallsBounded
  <2> SUFFICES ASSUME ExecutorInv PROVE HungCallsBounded
    OBVIOUS
  <2> DEFINE Busy == {poolOf[r] : r \in {q \in Requests : future[q] = "running"}}
  <2>1. Busy \subseteq AbandonedPools \cup {exec.pool}
    BY DEF AbandonedPools, Pending
  <2>2. /\ IsFiniteSet(AbandonedPools) /\ Cardinality(AbandonedPools) \in Nat
        /\ Cardinality(AbandonedPools) <= exec.recovered
        /\ exec.recovered \in Nat /\ exec.recovered <= MaxRebuilds
    BY AbandonedFinite DEF ExecutorInv, ExecutorTypeOK, ExecutorState
  <2>3. /\ IsFiniteSet(AbandonedPools \cup {exec.pool})
        /\ Cardinality(AbandonedPools \cup {exec.pool}) =
             IF exec.pool \in AbandonedPools THEN Cardinality(AbandonedPools)
             ELSE Cardinality(AbandonedPools) + 1
    BY <2>2, FS_AddElement
  <2>4. /\ Cardinality(Busy) <= Cardinality(AbandonedPools \cup {exec.pool})
        /\ Cardinality(Busy) \in Nat
    BY <2>1, <2>3, FS_Subset, FS_CardinalityType
  <2> HIDE DEF Busy
  <2>5. Cardinality(Busy) <= MaxRebuilds + 1
    BY <2>2, <2>3, <2>4
  <2>6. QED
    BY <2>5 DEF HungCallsBounded, Busy
<1>2. IInv => ExecutorInv
  BY DEF IInv, ServerInv
<1>3. QED
  BY <1>1, <1>2, Invariance, PTL

\* A provider that is READY has a live session, and the references are those of
\* the providers that are READY.
THEOREM SessionsHold == Spec => []ReadyHasSession
<1>1. IInv => ReadyHasSession
  BY DEF IInv, ProviderInv
<1>2. QED
  BY <1>1, Invariance, PTL

\* The target cannot make a session beside another: every provider that is READY
\* uses the bridge the process shares, and each of the other bridges is destroyed.
THEOREM OneBridge ==
  Spec => [](GivenUpDestroyed /\ \A p \in Ready : bound[p] = shared)
<1>1. IInv => GivenUpDestroyed /\ \A p \in Ready : bound[p] = shared
  BY ReadyShares DEF IInv, ProviderInv
<1>2. QED
  BY <1>1, Invariance, PTL

=============================================================================
