------------------------------ MODULE MemoryClient ------------------------------
(***************************************************************************)
(* The connection of the desktop client (memory-client/src/memory_client): *)
(* its five connection states, the three reconnections with back-off, the  *)
(* requests in flight and their deadline timers.  The code runs on one     *)
(* thread and is entered by signals of the socket and of timers; each      *)
(* operator below is one such entry, from a client record to the next.     *)
(* The view model that receives the client's signals is MemoryViewModel,   *)
(* which holds the variables.                                              *)
(*                                                                         *)
(* QLocalSocket is external.  What is taken of it: abort() of a connected  *)
(* socket reports the disconnection before it returns, abort() of any      *)
(* other reports nothing; flush() on a connection the peer has closed may  *)
(* report the disconnection from inside the call.                          *)
(***************************************************************************)
EXTENDS Integers, FiniteSets

CONSTANTS
    Requests,    \* request identifiers, in the order of use
    MaxAttempts  \* maxReconnectAttempts_

ASSUME RequestsAssumption == Requests \subseteq Nat \ {0}
ASSUME AttemptsAssumption == MaxAttempts \in Nat

ConnectionState == {"disconnected", "connecting", "connected", "reconnecting"}

\* How far the time since a request was sent has come: past the deadline the
\* view model watches, and past the client's own, a grace period later.
Age == {"unsent", "fresh", "due", "overdue"}

Client == [conn : ConnectionState, socket : {"unconnected", "connecting", "connected"},
           gone : BOOLEAN,                 \* the peer has closed, unnoticed
           auto : BOOLEAN,                 \* autoReconnectEnabled_
           timer : BOOLEAN,                \* reconnectTimer_ is active
           attempts : 0..MaxAttempts,      \* reconnectAttempts_
           pending : SUBSET Requests,      \* pendingRequests_
           timers : SUBSET Requests,       \* clientDeadlineTimers_
           wire : SUBSET Requests,         \* sent over this connection
           age : [Requests -> Age],
           heard : [Requests -> 0..2],     \* history: final signals of a request
           paused : BOOLEAN]               \* history: reconnection switched off under way

NewClient ==
    [conn |-> "disconnected", socket |-> "unconnected", gone |-> FALSE, auto |-> TRUE,
     timer |-> FALSE, attempts |-> 0, pending |-> {}, timers |-> {}, wire |-> {},
     age |-> [r \in Requests |-> "unsent"], heard |-> [r \in Requests |-> 0],
     paused |-> FALSE]

---------------------------------------------------------------------------
(* Requests in flight *)

Heard(c, reqs) ==
    [r \in Requests |-> IF r \in reqs /\ c.heard[r] < 2 THEN c.heard[r] + 1 ELSE c.heard[r]]

\* expirePendingRequest: the timer goes, the request goes, requestFailed.
Expired(c, reqs) ==
    [c EXCEPT !.pending = c.pending \ reqs, !.timers = c.timers \ reqs,
              !.heard = Heard(c, reqs)]

FailInFlight(c) == Expired(c, c.pending)

\* The tail of sendRequest: pending entry and deadline timer.
Registered(c, r) ==
    [c EXCEPT !.pending = c.pending \cup {r}, !.timers = c.timers \cup {r},
              !.age = [c.age EXCEPT ![r] = "fresh"],
              !.wire = IF c.socket = "connected" THEN c.wire \cup {r} ELSE c.wire]

---------------------------------------------------------------------------
(* The connection *)

Dial(c) == [c EXCEPT !.conn = "connecting", !.socket = "connecting", !.paused = FALSE]

\* startReconnectBackoff
Backoff(c) == [c EXCEPT !.attempts = c.attempts + 1, !.conn = "reconnecting", !.timer = TRUE,
                       !.paused = FALSE]

MayReconnect(c) == c.auto /\ c.attempts < MaxAttempts

\* handleSocketDisconnected.  why is "manual" while manualDisconnectInProgress_
\* is set, "fatal" while protocolFatalDisconnect_ is, and "lost" otherwise.
Disconnected(c, why) ==
    LET d == [FailInFlight(c) EXCEPT !.timer = FALSE, !.timers = {}, !.wire = {},
                                     !.socket = "unconnected", !.gone = FALSE]
    IN  IF why = "lost" /\ MayReconnect(d) THEN Backoff(d)
                                           ELSE [d EXCEPT !.conn = "disconnected"]

\* QLocalSocket::abort
Aborted(c, why) ==
    IF c.socket = "connected" THEN Disconnected(c, why) ELSE [c EXCEPT !.socket = "unconnected"]

\* setAutoReconnectEnabled
AutoSet(c, enabled) ==
    [c EXCEPT !.auto = enabled, !.timer = c.timer /\ enabled,
              !.paused = c.paused \/ (c.conn = "reconnecting" /\ ~enabled)]

\* connectToService
Connected(c) ==
    IF c.conn = "disconnected" THEN Dial([c EXCEPT !.timer = FALSE, !.attempts = 0]) ELSE c

\* disconnectFromService: Closing, the requests fail, and the socket goes.
Stopped(c) ==
    IF c.conn = "disconnected" THEN c
    ELSE [Aborted(FailInFlight([c EXCEPT !.timer = FALSE]), "manual")
             EXCEPT !.conn = "disconnected"]

\* retryConnect
Retried(c) ==
    Connected([FailInFlight(Aborted([c EXCEPT !.timer = FALSE], "manual"))
               EXCEPT !.conn = "disconnected"])

\* The callback of reconnectTimer_.
TimerFired(c) ==
    LET d == [c EXCEPT !.timer = FALSE] IN IF c.conn = "reconnecting" THEN Dial(d) ELSE d

\* handleSocketConnected
DialSucceeded(c) == [c EXCEPT !.socket = "connected", !.conn = "connected", !.attempts = 0]

\* handleSocketErrorOccurred while connecting.
DialFailed(c) ==
    LET d == [c EXCEPT !.socket = "unconnected", !.timer = FALSE]
    IN  IF MayReconnect(d) THEN Backoff(d) ELSE [d EXCEPT !.conn = "disconnected"]

---------------------------------------------------------------------------
(* Answers: handleSocketReadyRead, one packet *)

\* A packet that does not decode, or is no response: abort, no reconnection.
Malformed(c) == FailInFlight([Aborted(c, "fatal") EXCEPT !.conn = "disconnected"])

\* Mutant: an answer is passed on without asking whether it is awaited.
MutAnswered(c, r, mismatch) == Expired(c, {r})

\* A response; mismatch says that its trace identifier is not the request's.
\* Unknown, repeated and expired answers are dropped.
Answered(c, r, mismatch) ==
    IF r \notin c.pending THEN c
    ELSE Expired(c, {r})

\* Whether responseReceived is what the answer leads to.
Accepted(c, r, mismatch) == r \in c.pending /\ c.age[r] # "overdue" /\ ~mismatch

---------------------------------------------------------------------------
(* What every entry into the client leaves behind *)

\* A request in flight has its timer and has not been heard of; every other one
\* that was sent has been heard of once.
Accounted(c) ==
    \A r \in Requests :
       IF r \in c.pending THEN c.heard[r] = 0 /\ c.age[r] # "unsent"
       ELSE c.heard[r] = IF c.age[r] = "unsent" THEN 0 ELSE 1

\* Only a connected socket has requests on the wire.
WireStands(c) ==
    /\ c.socket = "connected" <=> c.conn = "connected"
    /\ c.socket # "connected" => c.wire = {}

ClientInv(c) ==
    /\ c \in Client
    /\ c.timers = c.pending
    /\ Accounted(c)
    /\ WireStands(c)
=============================================================================
