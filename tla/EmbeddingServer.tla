---------------------------- MODULE EmbeddingServer ---------------------------
(***************************************************************************)
(* EmbeddingUDSServer: start() accepts on one thread, every connection has  *)
(* a thread of its own, and stop() may be called from any thread while the  *)
(* server is up, and be followed by another start() in the same process.    *)
(* Another process uses the same socket path.                              *)
(***************************************************************************)
EXTENDS BridgeExecutor

CONSTANTS
  Conns,        \* connections
  MaxStops      \* bound on calls of stop()

VARIABLES
  file,         \* the socket file: "absent", "stale", "ours" or "theirs"
  boot,         \* where start() stands
  halt,         \* where stop() stands
  running,      \* _running
  stopped,      \* _stopped
  conn,         \* conn[c]: where the connection and its thread stand
  serves,       \* serves[c]: the requests its thread is working on (at most one)
  joined,       \* the threads stop() has taken over to join
  stops         \* calls of stop() so far

serverVars == <<boot, halt, running, stopped, conn, serves, joined, stops>>
processVars == <<file, serverVars, executorVars>>

ServerInit ==
  /\ ExecutorInit
  /\ file \in {"absent", "stale", "theirs"}
  /\ boot = "down"
  /\ halt = "no"
  /\ running = FALSE
  /\ stopped = FALSE
  /\ conn = [c \in Conns |-> "new"]
  /\ serves = [c \in Conns |-> {}]
  /\ joined = {}
  /\ stops = 0

-------------------------------------------------------------------------------
(* start() *)

Boots(stage) == boot' = stage /\ UNCHANGED <<halt, running, stopped, conn, serves, joined, stops>>

\* The directory, _remove_stale_socket and the start of the service, each of which
\* may raise, so that start() is left; a live socket always does.
RemoveStaleSocket ==
  /\ boot = "down"
  /\ \/ Boots("left") /\ UNCHANGED file
     \/ /\ file \notin {"ours", "theirs"}
        /\ file' = "absent"
        /\ Boots("cleared") \/ Boots("left")
  /\ UNCHANGED executorVars

\* bind fails when the path has been taken since.
Bind ==
  /\ boot = "cleared"
  /\ IF file = "absent" THEN Boots("bound") /\ file' = "ours"
     ELSE Boots("left") /\ UNCHANGED file
  /\ UNCHANGED executorVars

\* A new running lifecycle is published under the lock of the connections.
Publish ==
  /\ boot = "bound"
  /\ boot' = "serving"
  /\ running' = TRUE
  /\ stopped' = FALSE
  /\ UNCHANGED <<file, halt, conn, serves, joined, stops, executorVars>>

Listening == file = "ours" /\ halt \in {"no", "flagged"}

Accept(c) ==
  /\ boot = "serving"
  /\ running /\ Listening
  /\ conn[c] = "new"
  /\ \A d \in Conns : conn[d] # "accepted"
  /\ conn' = [conn EXCEPT ![c] = "accepted"]
  /\ UNCHANGED <<file, boot, halt, running, stopped, serves, joined, stops, executorVars>>

\* Mutant: a connection is registered without looking at the state again.
MutRegister(c) ==
  /\ conn[c] = "accepted"
  /\ conn' = [conn EXCEPT ![c] = "reading"]
  /\ UNCHANGED <<file, boot, halt, running, stopped, serves, joined, stops, executorVars>>

\* Check, registration and start of the thread are one critical section.
Register(c) ==
  /\ conn[c] = "accepted"
  /\ IF running /\ ~stopped
     THEN conn' = [conn EXCEPT ![c] = "reading"] /\ UNCHANGED boot
     ELSE conn' = [conn EXCEPT ![c] = "closed"] /\ boot' = "left"
  /\ UNCHANGED <<file, halt, running, stopped, serves, joined, stops, executorVars>>

\* The accept loop ends: the flag is down, or the socket was closed under it.
AcceptLoopEnds ==
  /\ boot = "serving"
  /\ ~running \/ ~Listening
  /\ \A c \in Conns : conn[c] # "accepted"
  /\ Boots("left")
  /\ UNCHANGED <<file, executorVars>>

-------------------------------------------------------------------------------
(* stop() *)

\* By a thread that knows the server to be up, or after start() was left.  (A stop
\* between listen and Publish would be overwritten by Publish.)
StopBegins ==
  /\ halt = "no"
  /\ boot \in {"serving", "left"}
  /\ stops < MaxStops
  /\ halt' = "flagged"
  /\ running' = FALSE
  /\ stopped' = TRUE
  /\ stops' = stops + 1
  /\ UNCHANGED <<file, boot, conn, serves, joined, executorVars>>

\* The listening socket is closed; connections in its queue are refused.
CloseSocket ==
  /\ halt = "flagged"
  /\ halt' = "closed"
  /\ file' = IF file = "ours" THEN "stale" ELSE file
  /\ UNCHANGED <<boot, running, stopped, conn, serves, joined, stops, executorVars>>

\* Mutant: calls that are still running do not forbid a restart.
MutShutdownExecutor ==
  /\ halt = "closed"
  /\ halt' = "shut"
  /\ exec' = [Track(exec, {}) EXCEPT !.shut = TRUE]
  /\ UNCHANGED <<file, boot, running, stopped, conn, serves, joined, stops, future, poolOf>>

\* service.close and shutdown_executor.
ShutdownExecutor ==
  /\ halt = "closed"
  /\ halt' = "shut"
  /\ exec' = Shutdown(exec)
  /\ UNCHANGED <<file, boot, running, stopped, conn, serves, joined, stops, future, poolOf>>

Live(c) == conn[c] \in {"reading", "received", "submitting", "waiting"}

\* The registered threads are taken over; each is joined for at most 2 s.
JoinThreads ==
  /\ halt = "shut"
  /\ halt' = "joined"
  /\ joined' = joined \cup {c \in Conns : Live(c)}
  /\ UNCHANGED <<file, boot, running, stopped, conn, serves, stops, executorVars>>

\* Whatever is at the path is unlinked.
Unlink ==
  /\ halt = "joined"
  /\ halt' = "returned"
  /\ file' = "absent"
  /\ UNCHANGED <<boot, running, stopped, conn, serves, joined, stops, executorVars>>

\* start() again in the same process.
Restart ==
  /\ halt = "returned"
  /\ boot = "left"
  /\ halt' = "no"
  /\ boot' = "down"
  /\ UNCHANGED <<file, running, stopped, conn, serves, joined, stops, executorVars>>

-------------------------------------------------------------------------------
(* _handle_conn *)

Thread(c, from, to) == conn[c] = from /\ conn' = [conn EXCEPT ![c] = to]
OnlyThread == UNCHANGED <<file, boot, halt, running, stopped, joined, stops>>

\* A chunk arrives, or the peer closes; after a time-out a stopped server leaves.
Receive(c) ==
  /\ Thread(c, "reading", "received") \/ Thread(c, "reading", "closed")
  /\ OnlyThread /\ UNCHANGED <<serves, executorVars>>

\* The check after recv; then one request of the chunk is handled.
Handle(c) ==
  /\ IF stopped
     THEN Thread(c, "received", "closed") /\ UNCHANGED serves
     ELSE /\ Thread(c, "received", "submitting")
          /\ \E r \in Requests :
               /\ future[r] = "none" /\ \A d \in Conns : r \notin serves[d]
               /\ serves' = [serves EXCEPT ![c] = {r}]
  /\ OnlyThread /\ UNCHANGED executorVars

\* handle_request: a call is submitted; or there is none, for a request that is
\* refused, a ping, the health or an answer of the cache.
SubmitCall(c) ==
  /\ conn[c] = "submitting"
  /\ \/ (\E r \in serves[c] : Submitted(r)) /\ Thread(c, "submitting", "waiting") /\ UNCHANGED serves
     \/ /\ SubmitRefused \/ UNCHANGED executorVars
        /\ Thread(c, "submitting", "reading")
        /\ serves' = [serves EXCEPT ![c] = {}]
  /\ OnlyThread

\* The call is answered or given up, and the answer is sent.
Respond(c) ==
  /\ Thread(c, "waiting", "reading")
  /\ serves' = [serves EXCEPT ![c] = {}]
  /\ OnlyThread /\ UNCHANGED executorVars

-------------------------------------------------------------------------------
(* The other process: its own server is as careful when it starts. *)

OtherBinds ==
  /\ file \in {"absent", "stale"}
  /\ file' = "theirs"
  /\ UNCHANGED <<serverVars, executorVars>>

OtherStops ==
  /\ file = "theirs"
  /\ file' \in {"absent", "stale"}
  /\ UNCHANGED <<serverVars, executorVars>>

PoolStep(r) ==
  /\ WorkerTakes(r) \/ CallEnds(r) \/ Ages(r)
  /\ UNCHANGED <<file, serverVars>>

ServerNext ==
  \/ RemoveStaleSocket \/ Bind \/ Publish \/ AcceptLoopEnds
  \/ StopBegins \/ CloseSocket \/ ShutdownExecutor \/ JoinThreads \/ Unlink \/ Restart
  \/ \E c \in Conns :
       Accept(c) \/ Register(c) \/ Receive(c) \/ Handle(c) \/ SubmitCall(c) \/ Respond(c)
  \/ \E r \in Requests : PoolStep(r)
  \/ OtherBinds \/ OtherStops

-------------------------------------------------------------------------------
ServerTypeOK ==
  /\ file \in {"absent", "stale", "ours", "theirs"}
  /\ boot \in {"down", "cleared", "bound", "serving", "left"}
  /\ halt \in {"no", "flagged", "closed", "shut", "joined", "returned"}
  /\ running \in BOOLEAN /\ stopped \in BOOLEAN
  /\ conn \in [Conns -> {"new", "accepted", "reading", "received", "submitting", "waiting", "closed"}]
  /\ serves \in [Conns -> SUBSET Requests]
  /\ joined \in SUBSET Conns
  /\ stops \in Nat

\* A connection accepted just before a stop does not get a thread in the stopped
\* lifecycle: stop() knows every thread there is when it comes to join them, and
\* none appears after it has returned.
StopKnowsThreads ==
  halt \in {"joined", "returned"} => \A c \in Conns : Live(c) => c \in joined

\* R3 HIGH-01: a stop and a start in the same process cannot get around the bound
\* on the calls that hang in the library: they occupy at most MaxRebuilds + 1
\* pools, however often the server is stopped and started.
HungCallsBounded ==
  Cardinality({poolOf[r] : r \in {q \in Requests : future[q] = "running"}}) <= MaxRebuilds + 1

\* From the beginning of a stop to the next start no thread is added: the flags
\* are down and nobody is between bind and Publish.
StopStands ==
  halt # "no" => boot \in {"serving", "left"} /\ ~running /\ stopped

ServerInv ==
  /\ ServerTypeOK
  /\ ExecutorInv
  /\ StopStands
  /\ StopKnowsThreads

===============================================================================
