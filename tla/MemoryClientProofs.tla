------------------------- MODULE MemoryClientProofs -------------------------
(***************************************************************************)
(* Proofs about MemoryClient and MemoryViewModel, for any number of        *)
(* requests and reconnections: the client accounts for every request it    *)
(* has sent, the view model closes every pipeline, and what it shows and   *)
(* executes belongs to the text and the preview the user is looking at.    *)
(* An entry into the client is an operator from a client record to the     *)
(* next, so its facts are lemmas about that operator; what the view model  *)
(* makes of the client's signals is another.                               *)
(***************************************************************************)
EXTENDS MemoryViewModel, WellFoundedInduction, TLAPS

-----------------------------------------------------------------------------
(* The client *)

\* d comes after c by an entry that sends nothing.
Shrinks(c, d) ==
    /\ ClientInv(d)
    /\ d.pending \subseteq c.pending /\ d.wire \subseteq c.wire
    /\ d.age = c.age

\* A new client is in order.
LEMMA NewClientIs == ClientInv(NewClient)
<1>1. NewClient \in Client
  BY AttemptsAssumption DEF NewClient, Client, ConnectionState, Age
<1>2. QED
  BY <1>1 DEF NewClient, ClientInv, Accounted, WireStands

\* Requests that are failed, time out or are answered leave no timer behind.
LEMMA ExpiredIs ==
    ASSUME NEW c, ClientInv(c), NEW reqs \in SUBSET c.pending
    PROVE  LET d == Expired(c, reqs) IN
           /\ Shrinks(c, d)
           /\ d.pending = c.pending \ reqs /\ d.wire = c.wire
           /\ d.conn = c.conn /\ d.socket = c.socket
<1> DEFINE d == Expired(c, reqs)
<1>1. c \in Client /\ c.timers = c.pending /\ Accounted(c) /\ WireStands(c)
  BY DEF ClientInv
<1>2. Heard(c, reqs) \in [Requests -> 0..2]
  BY <1>1 DEF Heard, Client
<1>3. /\ d \in Client
      /\ d.pending = c.pending \ reqs /\ d.timers = d.pending /\ d.heard = Heard(c, reqs)
      /\ d.age = c.age /\ d.wire = c.wire /\ d.conn = c.conn /\ d.socket = c.socket
  BY <1>1, <1>2 DEF Expired, Client
<1> HIDE DEF d
<1>4. Accounted(d)
  <2> SUFFICES ASSUME NEW r \in Requests
               PROVE  IF r \in d.pending THEN d.heard[r] = 0 /\ d.age[r] # "unsent"
                      ELSE d.heard[r] = IF d.age[r] = "unsent" THEN 0 ELSE 1
    BY DEF Accounted
  <2>1. /\ r \in c.pending => c.heard[r] = 0 /\ c.age[r] # "unsent"
        /\ r \notin c.pending => c.heard[r] = IF c.age[r] = "unsent" THEN 0 ELSE 1
    BY <1>1 DEF Accounted
  <2>2. d.heard[r] = IF r \in reqs /\ c.heard[r] < 2 THEN c.heard[r] + 1 ELSE c.heard[r]
    BY <1>3 DEF Heard
  <2>3. QED
    BY <1>3, <2>1, <2>2
<1>5. WireStands(d)
  BY <1>1, <1>3 DEF WireStands
<1>6. QED
  BY <1>1, <1>3, <1>4, <1>5 DEF Shrinks, ClientInv, d

\* Changing what is not about requests or the socket.
LEMMA SameRequests ==
    ASSUME NEW c, ClientInv(c), NEW d \in Client,
           d.pending = c.pending, d.timers = c.timers, d.wire = c.wire,
           d.age = c.age, d.heard = c.heard, WireStands(d)
    PROVE  Shrinks(c, d)
BY DEF Shrinks, ClientInv, Accounted

\* Entries one after the other.
LEMMA ShrinksOn ==
    ASSUME NEW b, NEW c, NEW d, Shrinks(b, c), Shrinks(c, d)
    PROVE  Shrinks(b, d)
BY DEF Shrinks

\* A lost, stopped or fatal connection fails every request, whatever follows.
LEMMA DisconnectedIs ==
    ASSUME NEW c, ClientInv(c), NEW why
    PROVE  LET d == Disconnected(c, why) IN
           /\ Shrinks(c, d)
           /\ d.pending = {} /\ d.wire = {}
           /\ d.socket = "unconnected" /\ d.conn \in {"disconnected", "reconnecting"}
<1> DEFINE f == FailInFlight(c)
           e == [f EXCEPT !.timer = FALSE, !.timers = {}, !.wire = {},
                          !.socket = "unconnected", !.gone = FALSE]
           d == Disconnected(c, why)
<1>1. /\ Shrinks(c, f) /\ f.pending = {} /\ f.wire = c.wire
  BY ExpiredIs DEF FailInFlight
<1>2. /\ f \in Client /\ f.timers = {} /\ Accounted(f)
  BY <1>1 DEF Shrinks, ClientInv
<1> HIDE DEF f
<1>3. /\ e \in Client /\ e.pending = {} /\ e.timers = {} /\ e.wire = {}
      /\ e.age = f.age /\ e.heard = f.heard
      /\ e.socket = "unconnected" /\ e.attempts = f.attempts
  BY <1>1, <1>2 DEF Client
<1>4. d = IF why = "lost" /\ MayReconnect(e) THEN Backoff(e)
          ELSE [e EXCEPT !.conn = "disconnected"]
  BY DEF Disconnected, f
<1> HIDE DEF e, d
<1>5. /\ d \in Client /\ d.pending = {} /\ d.timers = {} /\ d.wire = {}
      /\ d.age = f.age /\ d.heard = f.heard /\ d.socket = "unconnected"
      /\ d.conn \in {"disconnected", "reconnecting"}
  <2>1. CASE why = "lost" /\ MayReconnect(e)
    <3>1. e.attempts + 1 \in 0..MaxAttempts
      BY <1>3, <2>1, AttemptsAssumption DEF MayReconnect, Client
    <3>2. QED
      BY <1>3, <1>4, <2>1, <3>1 DEF Backoff, Client, ConnectionState
  <2>2. CASE ~(why = "lost" /\ MayReconnect(e))
    BY <1>3, <1>4, <2>2 DEF Client, ConnectionState
  <2>3. QED
    BY <2>1, <2>2
<1>6. Accounted(d) /\ WireStands(d)
  BY <1>1, <1>2, <1>5 DEF Accounted, WireStands
<1>7. f.age = c.age
  BY <1>1 DEF Shrinks
<1>8. Shrinks(c, d)
  BY <1>5, <1>6, <1>7 DEF Shrinks, ClientInv
<1>9. QED
  BY <1>5, <1>8 DEF d

\* abort() leaves no socket behind; a connected one goes the way of any loss.
LEMMA AbortedIs ==
    ASSUME NEW c, ClientInv(c), NEW why
    PROVE  LET d == Aborted(c, why) IN
           /\ Shrinks(c, d)
           /\ d.wire = {} /\ d.socket = "unconnected"
           /\ c.socket = "connected" => d.pending = {}
<1>1. CASE c.socket = "connected"
  BY <1>1, DisconnectedIs DEF Aborted
<1>2. CASE c.socket # "connected"
  <2> DEFINE d == [c EXCEPT !.socket = "unconnected"]
  <2>1. /\ d \in Client /\ d.pending = c.pending /\ d.timers = c.timers
        /\ d.wire = c.wire /\ d.age = c.age /\ d.heard = c.heard
        /\ d.socket = "unconnected" /\ d.conn = c.conn
    BY DEF ClientInv, Client
  <2> HIDE DEF d
  <2>2. WireStands(d) /\ d.wire = {}
    BY <1>2, <2>1 DEF ClientInv, WireStands
  <2>3. Shrinks(c, d)
    BY <2>1, <2>2, SameRequests
  <2>4. Aborted(c, why) = d
    BY <1>2 DEF Aborted, d
  <2>5. QED
    BY <1>2, <2>1, <2>2, <2>3, <2>4
<1>3. QED
  BY <1>1, <1>2

\* The fields that connecting, timers and switches change.
LEMMA RestIs ==
    ASSUME NEW c, ClientInv(c), c.socket # "connected",
           NEW conn \in ConnectionState \ {"connected"},
           NEW socket \in {"unconnected", "connecting"},
           NEW d \in Client, d.pending = c.pending, d.timers = c.timers, d.wire = c.wire,
           d.age = c.age, d.heard = c.heard, d.conn = conn, d.socket = socket
    PROVE  Shrinks(c, d)
<1>1. WireStands(d)
  BY DEF ClientInv, WireStands
<1>2. QED
  BY <1>1, SameRequests

\* Dialling begins while there is no connection.
LEMMA DialIs ==
    ASSUME NEW c, ClientInv(c), c.socket # "connected"
    PROVE  Shrinks(c, Dial(c)) /\ Dial(c).conn = "connecting"
<1> DEFINE d == Dial(c)
<1>1. /\ d \in Client /\ d.pending = c.pending /\ d.timers = c.timers
      /\ d.wire = c.wire /\ d.age = c.age /\ d.heard = c.heard
      /\ d.conn = "connecting" /\ d.socket = "connecting"
  BY DEF Dial, ClientInv, Client, ConnectionState
<1> HIDE DEF d
<1>2. Shrinks(c, d)
  BY <1>1, RestIs DEF ConnectionState
<1>3. QED
  BY <1>1, <1>2 DEF d

\* connectToService
LEMMA ConnectedIs ==
    ASSUME NEW c, ClientInv(c)
    PROVE  /\ Shrinks(c, Connected(c))
           /\ c.conn = "disconnected" => Connected(c).conn = "connecting"
<1>1. CASE c.conn = "disconnected"
  <2> DEFINE d == [c EXCEPT !.timer = FALSE, !.attempts = 0]
  <2>0. 0 \in 0..MaxAttempts
    BY AttemptsAssumption
  <2>1. /\ d \in Client /\ d.pending = c.pending /\ d.timers = c.timers
        /\ d.wire = c.wire /\ d.age = c.age /\ d.heard = c.heard
        /\ d.conn = c.conn /\ d.socket = c.socket
    BY <2>0 DEF ClientInv, Client
  <2> HIDE DEF d
  <2>2. Shrinks(c, d)
    BY <2>1, SameRequests DEF ClientInv, WireStands
  <2>3. ClientInv(d) /\ d.socket # "connected"
    BY <1>1, <2>1, <2>2 DEF Shrinks, ClientInv, WireStands
  <2>4. Shrinks(c, Dial(d)) /\ Dial(d).conn = "connecting"
    BY <2>2, <2>3, DialIs, ShrinksOn
  <2>5. QED
    BY <1>1, <2>4 DEF Connected, d
<1>2. CASE c.conn # "disconnected"
  BY <1>2 DEF Connected, Shrinks
<1>3. QED
  BY <1>1, <1>2

\* reconnectTimer_ is stopped: nothing else changes.
LEMMA TimerStopped ==
    ASSUME NEW c, ClientInv(c)
    PROVE  LET d == [c EXCEPT !.timer = FALSE] IN
           Shrinks(c, d) /\ d.conn = c.conn /\ d.socket = c.socket
<1> DEFINE d == [c EXCEPT !.timer = FALSE]
<1>1. /\ d \in Client /\ d.pending = c.pending /\ d.timers = c.timers
      /\ d.wire = c.wire /\ d.age = c.age /\ d.heard = c.heard
      /\ d.conn = c.conn /\ d.socket = c.socket
  BY DEF ClientInv, Client
<1> HIDE DEF d
<1>2. Shrinks(c, d)
  BY <1>1, SameRequests DEF ClientInv, WireStands
<1>3. QED
  BY <1>1, <1>2 DEF d

\* The connection state is set while there is no socket.
LEMMA ConnSet ==
    ASSUME NEW c, ClientInv(c), c.socket = "unconnected"
    PROVE  LET d == [c EXCEPT !.conn = "disconnected"] IN
           Shrinks(c, d) /\ d.conn = "disconnected" /\ d.socket = "unconnected"
<1> DEFINE d == [c EXCEPT !.conn = "disconnected"]
<1>1. /\ d \in Client /\ d.pending = c.pending /\ d.timers = c.timers
      /\ d.wire = c.wire /\ d.age = c.age /\ d.heard = c.heard
      /\ d.conn = "disconnected" /\ d.socket = "unconnected"
  BY DEF ClientInv, Client, ConnectionState
<1> HIDE DEF d
<1>2. Shrinks(c, d)
  BY <1>1, RestIs DEF ConnectionState
<1>3. QED
  BY <1>1, <1>2 DEF d

\* Stop
LEMMA StoppedIs ==
    ASSUME NEW c, ClientInv(c)
    PROVE  Shrinks(c, Stopped(c))
<1>1. CASE c.conn = "disconnected"
  BY <1>1 DEF Stopped, Shrinks
<1>2. CASE c.conn # "disconnected"
  <2> DEFINE b == [c EXCEPT !.timer = FALSE]
             f == FailInFlight(b)
             a == Aborted(f, "manual")
             d == [a EXCEPT !.conn = "disconnected"]
  <2>1. Shrinks(c, b)
    BY TimerStopped
  <2> HIDE DEF b
  <2>2. Shrinks(b, f)
    BY <2>1, ExpiredIs DEF FailInFlight, Shrinks
  <2> HIDE DEF f
  <2>3. Shrinks(f, a) /\ a.socket = "unconnected"
    BY <2>2, AbortedIs DEF Shrinks
  <2> HIDE DEF a
  <2>4. Shrinks(a, d)
    BY <2>3, ConnSet DEF Shrinks
  <2>5. Stopped(c) = d
    BY <1>2 DEF Stopped, d, a, f, b
  <2> HIDE DEF d
  <2>6. QED
    BY <2>1, <2>2, <2>3, <2>4, <2>5, ShrinksOn
<1>3. QED
  BY <1>1, <1>2

\* Retry
LEMMA RetriedIs ==
    ASSUME NEW c, ClientInv(c)
    PROVE  Shrinks(c, Retried(c)) /\ Retried(c).conn = "connecting"
<1> DEFINE b == [c EXCEPT !.timer = FALSE]
           a == Aborted(b, "manual")
           f == FailInFlight(a)
           d == [f EXCEPT !.conn = "disconnected"]
<1>1. Shrinks(c, b)
  BY TimerStopped
<1> HIDE DEF b
<1>2. Shrinks(b, a) /\ a.socket = "unconnected"
  BY <1>1, AbortedIs DEF Shrinks
<1> HIDE DEF a
<1>3. Shrinks(a, f) /\ f.socket = "unconnected"
  BY <1>2, ExpiredIs DEF FailInFlight, Shrinks
<1> HIDE DEF f
<1>4. Shrinks(f, d) /\ d.conn = "disconnected"
  BY <1>3, ConnSet DEF Shrinks
<1> HIDE DEF d
<1>5. Shrinks(d, Connected(d)) /\ Connected(d).conn = "connecting"
  BY <1>4, ConnectedIs DEF Shrinks
<1>6. Retried(c) = Connected(d)
  BY DEF Retried, d, f, a, b
<1>7. QED
  BY <1>1, <1>2, <1>3, <1>4, <1>5, <1>6, ShrinksOn

\* A packet that is no response.
LEMMA MalformedIs ==
    ASSUME NEW c, ClientInv(c), c.socket = "connected"
    PROVE  Shrinks(c, Malformed(c))
<1> DEFINE a == Aborted(c, "fatal")
           d == [a EXCEPT !.conn = "disconnected"]
<1>1. Shrinks(c, a) /\ a.socket = "unconnected"
  BY AbortedIs
<1> HIDE DEF a
<1>2. Shrinks(a, d)
  BY <1>1, ConnSet DEF Shrinks
<1> HIDE DEF d
<1>3. Shrinks(d, FailInFlight(d))
  BY <1>2, ExpiredIs DEF FailInFlight, Shrinks
<1>4. Malformed(c) = FailInFlight(d)
  BY DEF Malformed, d, a
<1>5. QED
  BY <1>1, <1>2, <1>3, <1>4, ShrinksOn

\* reconnectTimer_ fires.
LEMMA TimerFiredIs ==
    ASSUME NEW c, ClientInv(c)
    PROVE  Shrinks(c, TimerFired(c))
<1> DEFINE d == [c EXCEPT !.timer = FALSE]
<1>1. Shrinks(c, d) /\ d.conn = c.conn /\ d.socket = c.socket
  BY TimerStopped
<1>2. TimerFired(c) = IF c.conn = "reconnecting" THEN Dial(d) ELSE d
  BY DEF TimerFired
<1> HIDE DEF d
<1>3. CASE c.conn = "reconnecting"
  <2>1. ClientInv(d) /\ d.socket # "connected"
    BY <1>1, <1>3 DEF Shrinks, ClientInv, WireStands
  <2>2. QED
    BY <1>1, <1>2, <1>3, <2>1, DialIs, ShrinksOn
<1>4. CASE c.conn # "reconnecting"
  BY <1>1, <1>2, <1>4
<1>5. QED
  BY <1>3, <1>4

\* setAutoReconnectEnabled
LEMMA AutoSetIs ==
    ASSUME NEW c, ClientInv(c), NEW b \in BOOLEAN
    PROVE  Shrinks(c, AutoSet(c, b))
<1> DEFINE d == AutoSet(c, b)
<1>1. /\ d \in Client /\ d.pending = c.pending /\ d.timers = c.timers
      /\ d.wire = c.wire /\ d.age = c.age /\ d.heard = c.heard
      /\ d.conn = c.conn /\ d.socket = c.socket
  BY DEF AutoSet, ClientInv, Client
<1> HIDE DEF d
<1>2. Shrinks(c, d)
  BY <1>1, SameRequests DEF ClientInv, WireStands
<1>3. QED
  BY <1>1, <1>2 DEF d

\* The connection is made,
LEMMA DialSucceededIs ==
    ASSUME NEW c, ClientInv(c), c.socket = "connecting"
    PROVE  Shrinks(c, DialSucceeded(c))
<1> DEFINE d == DialSucceeded(c)
<1>0. 0 \in 0..MaxAttempts
  BY AttemptsAssumption
<1>1. /\ d \in Client /\ d.pending = c.pending /\ d.timers = c.timers
      /\ d.wire = c.wire /\ d.age = c.age /\ d.heard = c.heard
      /\ d.conn = "connected" /\ d.socket = "connected"
  BY <1>0 DEF DialSucceeded, ClientInv, Client, ConnectionState
<1> HIDE DEF d
<1>2. Shrinks(c, d)
  BY <1>1, SameRequests DEF WireStands
<1>3. QED
  BY <1>1, <1>2 DEF d

\* or refused.
LEMMA DialFailedIs ==
    ASSUME NEW c, ClientInv(c), c.socket = "connecting"
    PROVE  Shrinks(c, DialFailed(c))
<1> DEFINE e == [c EXCEPT !.socket = "unconnected", !.timer = FALSE]
           d == DialFailed(c)
<1>1. /\ e \in Client /\ e.pending = c.pending /\ e.timers = c.timers
      /\ e.wire = c.wire /\ e.age = c.age /\ e.heard = c.heard
      /\ e.conn = c.conn /\ e.socket = "unconnected" /\ e.attempts = c.attempts
  BY DEF ClientInv, Client
<1>2. d = IF MayReconnect(e) THEN Backoff(e) ELSE [e EXCEPT !.conn = "disconnected"]
  BY DEF DialFailed
<1> HIDE DEF e, d
<1>3. /\ d \in Client /\ d.pending = c.pending /\ d.timers = c.timers
      /\ d.wire = c.wire /\ d.age = c.age /\ d.heard = c.heard
      /\ d.socket = "unconnected" /\ d.conn \in {"disconnected", "reconnecting"}
  <2>1. CASE MayReconnect(e)
    <3>1. e.attempts + 1 \in 0..MaxAttempts
      BY <1>1, <2>1, AttemptsAssumption DEF MayReconnect, Client
    <3>2. QED
      BY <1>1, <1>2, <2>1, <3>1 DEF Backoff, Client, ConnectionState
  <2>2. CASE ~MayReconnect(e)
    BY <1>1, <1>2, <2>2 DEF Client, ConnectionState
  <2>3. QED
    BY <2>1, <2>2
<1>4. Shrinks(c, d)
  BY <1>3, RestIs DEF ConnectionState
<1>5. QED
  BY <1>4 DEF d

\* A request goes out.
LEMMA RegisteredIs ==
    ASSUME NEW c, ClientInv(c), NEW r \in Requests, c.age[r] = "unsent"
    PROVE  LET d == Registered(c, r) IN
           /\ ClientInv(d) /\ d.conn = c.conn /\ d.pending = c.pending \cup {r}
           /\ d.age = [c.age EXCEPT ![r] = "fresh"]
           /\ d.wire = IF c.socket = "connected" THEN c.wire \cup {r} ELSE c.wire
<1> DEFINE d == Registered(c, r)
<1>1. /\ d \in Client /\ d.pending = c.pending \cup {r} /\ d.timers = c.timers \cup {r}
      /\ d.age = [c.age EXCEPT ![r] = "fresh"] /\ d.heard = c.heard
      /\ d.wire = IF c.socket = "connected" THEN c.wire \cup {r} ELSE c.wire
      /\ d.conn = c.conn /\ d.socket = c.socket
  BY DEF Registered, ClientInv, Client, Age
<1> HIDE DEF d
<1>2. Accounted(d)
  BY <1>1 DEF ClientInv, Accounted, Client
<1>3. WireStands(d)
  BY <1>1 DEF ClientInv, WireStands
<1>4. QED
  BY <1>1, <1>2, <1>3 DEF ClientInv, d

-----------------------------------------------------------------------------
(* The view model *)

\* ViewInv, but for the pipelines of P the timer of their request need not run.
Almost(c, v, P) ==
    /\ v \in View
    /\ \A p \in Pipelines : Sent(c, v.request[p])
    /\ \A p, q \in Pipelines : p # q /\ v.request[p] = v.request[q] => v.request[p] = None
    /\ \A p \in Pipelines \ P : v.busy[p] => v.request[p] \in v.timers
    /\ ChatStands(c, v)
    /\ ForgetStands(c, v)

\* None is no request.
LEMMA NoneIsNone == None \notin Requests /\ None \in Ref
BY RequestsAssumption DEF None, Ref

\* Without exceptions that is the invariant.
LEMMA AlmostIs ==
    ASSUME NEW c, NEW v
    PROVE  Almost(c, v, {}) <=> ViewInv(c, v)
BY DEF Almost, ViewInv, PipelinesStand

\* The view model stands as the client goes on: what was sent stays sent, and of
\* that nothing comes back onto the wire.
LEMMA ClientMoves ==
    ASSUME NEW c, NEW v, NEW P, Almost(c, v, P), NEW d,
           \A r \in Requests :
              c.age[r] # "unsent" => d.age[r] # "unsent" /\ (r \in d.wire => r \in c.wire),
           d.wire \subseteq Requests
    PROVE  Almost(d, v, P)
<1>1. /\ \A p \in Pipelines : v.request[p] \in Ref
      /\ v.spent \subseteq Ref /\ v.forget.credential \in Ref
  BY DEF Almost, View, ForgetView
<1>2. ASSUME NEW r \in Ref, Sent(c, r) PROVE Sent(d, r)
  BY <1>2, NoneIsNone DEF Sent, Ref
<1>3. \A p \in Pipelines : Sent(d, v.request[p])
  BY <1>1, <1>2 DEF Almost
<1>4. ForgetStands(d, v)
  BY <1>1, <1>2 DEF Almost, ForgetStands
<1>5. ChatStands(d, v)
  <2>1. "preChat" \in Pipelines
    BY DEF Pipelines, Sending
  <2>2. v.request["preChat"] \in d.wire => v.request["preChat"] \in c.wire
    BY <1>1, <2>1, NoneIsNone DEF Almost, Sent
  <2>3. QED
    BY <2>2 DEF Almost, ChatStands
<1>6. QED
  BY <1>3, <1>4, <1>5 DEF Almost

\* The names of pipelines and stages.
LEMMA Names ==
    /\ {"preChat", "postTurn", "contextAssemble", "forgetPreview", "forgetExecute"}
         \subseteq Pipelines
    /\ "forget" \in Shown /\ \A p \in Pipelines : StageOf(p) \in Shown
    /\ StageOf("forgetPreview") = "forget" /\ StageOf("forgetExecute") = "forget"
    /\ \A p \in Pipelines \ Forget : StageOf(p) # "forget"
BY DEF Pipelines, Sending, Asking, Forget, Shown, StageOf

\* A preview that is taken back.
LEMMA NoPreviewIs ==
    ASSUME NEW f \in ForgetView
    PROVE  /\ NoPreview(f) \in ForgetView
           /\ NoPreview(f).credential = None /\ ~NoPreview(f).live
           /\ \A b \in BOOLEAN :
                LET g == [NoPreview(f) EXCEPT !.selector = b] IN
                g \in ForgetView /\ g.credential = None /\ ~g.live
<1> DEFINE h == NoPreview(f)
<1>1. -1 \in -1..1
  OBVIOUS
<1>2. h \in ForgetView /\ h.credential = None /\ h.live = FALSE
  BY <1>1, NoneIsNone DEF NoPreview, ForgetView
<1> HIDE DEF h
<1>3. ASSUME NEW b \in BOOLEAN
      PROVE  LET g == [h EXCEPT !.selector = b] IN
             g \in ForgetView /\ g.credential = None /\ g.live = FALSE
  BY <1>2 DEF ForgetView
<1>4. QED
  BY <1>2, <1>3 DEF h

\* What onRequestFailed does to the pipelines that wait for reqs.
LEMMA FailedIs ==
    ASSUME NEW v \in View, NEW reqs, NEW code \in {"failed", "timeout"}
    PROVE  LET w == Failed(v, reqs, code) IN
           /\ w \in View
           /\ w.timers = v.timers \ reqs /\ w.text = v.text /\ w.spent = v.spent
           /\ \A p \in Pipelines :
                IF v.request[p] \in reqs THEN w.request[p] = None /\ ~w.busy[p]
                ELSE w.request[p] = v.request[p] /\ w.busy[p] = v.busy[p]
           /\ w.stage["forget"] \in {v.stage["forget"], code}
           /\ w.context = IF v.request["preChat"] \in reqs THEN None ELSE v.context
           /\ IF v.request["forgetPreview"] \in reqs
              THEN w.forget.credential = None /\ ~w.forget.live
              ELSE w.forget = v.forget
<1> DEFINE hit == Waiting(v, reqs)
           request == [p \in Pipelines |-> IF p \in hit THEN None ELSE v.request[p]]
           busy == [p \in Pipelines |-> v.busy[p] /\ p \notin hit]
           stage == [s \in Shown |-> IF s \in {StageOf(p) : p \in hit} THEN code
                                      ELSE v.stage[s]]
           context == IF "preChat" \in hit THEN None ELSE v.context
           assembled == IF "contextAssemble" \in hit THEN None ELSE v.assembled
           forget == IF "forgetPreview" \in hit
                     THEN [NoPreview(v.forget) EXCEPT !.selector = FALSE] ELSE v.forget
           timers == v.timers \ reqs
           w == Failed(v, reqs, code)
<1>1. \A p \in Pipelines : p \in hit <=> v.request[p] \in reqs
  BY DEF Waiting
<1>2. w = [v EXCEPT !.timers = timers, !.request = request, !.busy = busy, !.stage = stage,
                    !.context = context, !.assembled = assembled, !.forget = forget]
  BY DEF Failed
<1>3. /\ request \in [Pipelines -> Ref] /\ busy \in [Pipelines -> BOOLEAN]
      /\ stage \in [Shown -> Stages] /\ timers \in SUBSET Requests
      /\ context \in Ref /\ assembled \in Ref
  BY NoneIsNone DEF View, Stages
<1>4. forget \in ForgetView
  BY NoPreviewIs DEF View
<1>5. /\ \A p \in Pipelines :
            IF v.request[p] \in reqs THEN request[p] = None /\ ~busy[p]
            ELSE request[p] = v.request[p] /\ busy[p] = v.busy[p]
      /\ stage["forget"] \in {v.stage["forget"], code}
  BY <1>1, Names DEF View
<1>6. IF v.request["forgetPreview"] \in reqs
      THEN forget.credential = None /\ ~forget.live ELSE forget = v.forget
  BY <1>1, Names, NoPreviewIs DEF View
<1>7. context = IF v.request["preChat"] \in reqs THEN None ELSE v.context
  BY <1>1, Names
<1> HIDE DEF hit, request, busy, stage, context, assembled, forget, timers, w
<1>8. /\ w \in View
      /\ w.timers = timers /\ w.text = v.text /\ w.spent = v.spent
      /\ w.request = request /\ w.busy = busy /\ w.stage = stage
      /\ w.context = context /\ w.forget = forget
  BY <1>2, <1>3, <1>4 DEF View
<1>9. QED
  BY <1>5, <1>6, <1>7, <1>8 DEF w, timers

\* However many pipelines are closed, the view model stands.
LEMMA FailedKeeps ==
    ASSUME NEW c, c.wire \subseteq Requests, NEW v, NEW P, Almost(c, v, P),
           NEW reqs, NEW code \in {"failed", "timeout"}
    PROVE  Almost(c, Failed(v, reqs, code), P)
<1> DEFINE w == Failed(v, reqs, code)
<1>1. v \in View
  BY DEF Almost
<1>2. /\ w \in View
      /\ w.timers = v.timers \ reqs /\ w.text = v.text /\ w.spent = v.spent
      /\ \A p \in Pipelines :
           IF v.request[p] \in reqs THEN w.request[p] = None /\ ~w.busy[p]
           ELSE w.request[p] = v.request[p] /\ w.busy[p] = v.busy[p]
      /\ w.stage["forget"] \in {v.stage["forget"], code}
      /\ w.context = IF v.request["preChat"] \in reqs THEN None ELSE v.context
      /\ IF v.request["forgetPreview"] \in reqs
         THEN w.forget.credential = None /\ ~w.forget.live
         ELSE w.forget = v.forget
  BY <1>1, FailedIs
<1> HIDE DEF w
<1>3. \A p \in Pipelines : Sent(c, w.request[p])
  BY <1>2 DEF Almost, Sent
<1>4. \A p, q \in Pipelines : p # q /\ w.request[p] = w.request[q] => w.request[p] = None
  BY <1>2 DEF Almost
<1>5. \A p \in Pipelines \ P : w.busy[p] => w.request[p] \in w.timers
  BY <1>2 DEF Almost
<1>6. ChatStands(c, w)
  <2>1. ChatStands(c, v)
    BY DEF Almost
  <2>2. CASE v.request["preChat"] \in reqs
    BY <1>2, <2>1, <2>2, Names, NoneIsNone DEF ChatStands
  <2>3. CASE v.request["preChat"] \notin reqs
    BY <1>2, <2>1, <2>3, Names DEF ChatStands
  <2>4. QED
    BY <2>2, <2>3
<1>7. ForgetStands(c, w)
  <2>1. ForgetStands(c, v)
    BY DEF Almost
  <2>2. CASE v.request["forgetPreview"] \in reqs
    BY <1>2, <2>1, <2>2, Names DEF ForgetStands, Sent
  <2>3. CASE v.request["forgetPreview"] \notin reqs
    BY <1>2, <2>1, <2>3, Names DEF ForgetStands
  <2>4. QED
    BY <2>2, <2>3
<1>8. QED
  BY <1>2, <1>3, <1>4, <1>5, <1>6, <1>7 DEF Almost, w

\* Without a connection the chat pipelines rest: nothing is on the wire then.
LEMMA RestedKeeps ==
    ASSUME NEW c, c.wire = {}, NEW v, NEW P, Almost(c, v, P)
    PROVE  Almost(c, Rested(v), P)
<1> DEFINE chat == {"preChat", "postTurn"}
           busy == [p \in Pipelines |-> v.busy[p] /\ p \notin chat]
           stage == [s \in Shown |-> IF s \in chat /\ v.busy[s] THEN "idle" ELSE v.stage[s]]
           w == Rested(v)
<1>1. w = [v EXCEPT !.stage = stage, !.busy = busy]
  BY DEF Rested
<1>2. v \in View
  BY DEF Almost
<1>3. /\ busy \in [Pipelines -> BOOLEAN] /\ stage \in [Shown -> Stages]
      /\ \A p \in Pipelines : busy[p] => v.busy[p]
      /\ busy["forgetPreview"] = v.busy["forgetPreview"]
      /\ stage["forget"] = v.stage["forget"]
  BY <1>2, Names DEF View, Stages
<1> HIDE DEF busy, stage, w
<1>4. /\ w \in View
      /\ w.request = v.request /\ w.busy = busy /\ w.stage = stage
      /\ w.timers = v.timers /\ w.text = v.text /\ w.context = v.context
      /\ w.forget = v.forget /\ w.spent = v.spent
  BY <1>1, <1>2, <1>3 DEF View
<1>5. ChatStands(c, w) /\ ForgetStands(c, w)
  BY <1>3, <1>4 DEF Almost, ChatStands, ForgetStands
<1>6. QED
  BY <1>3, <1>4, <1>5 DEF Almost, w

\* The signals of a step of the client.
LEMMA ToldKeeps ==
    ASSUME ClientInv(client'), NEW v, NEW P, Almost(client, v, P),
           NEW code \in {"failed", "timeout"},
           \A r \in Requests :
              client.age[r] # "unsent" =>
                 client'.age[r] # "unsent" /\ (r \in client'.wire => r \in client.wire)
    PROVE  Almost(client', Told(v, code), P)
<1> DEFINE w == Failed(v, client.pending \ client'.pending, code)
<1>1. client'.wire \subseteq Requests
  BY DEF ClientInv, Client
<1>2. Almost(client', v, P)
  BY <1>1, ClientMoves
<1>3. Almost(client', w, P)
  BY <1>1, <1>2, FailedKeeps
<1> HIDE DEF w
<1>4. client'.conn = "disconnected" => client'.wire = {}
  BY DEF ClientInv, WireStands
<1>5. client'.conn = "disconnected" => Almost(client', Rested(w), P)
  BY <1>3, <1>4, RestedKeeps
<1>6. Told(v, code) = IF client'.conn = "disconnected" /\ client.conn # "disconnected"
                      THEN Rested(w) ELSE w
  BY DEF Told, w
<1>7. QED
  BY <1>3, <1>5, <1>6

\* No execution of a forgetting goes out in this step.
Quiet == vm'.request["forgetExecute"] \in {None, vm.request["forgetExecute"]}

\* What the signals of a step leave of the view model.
LEMMA ToldIs ==
    ASSUME NEW v \in View, NEW code \in {"failed", "timeout"}
    PROVE  LET u == Told(v, code) IN
           /\ u \in View /\ u.text = v.text /\ u.spent = v.spent
           /\ u.forget = v.forget \/ (u.forget.credential = None /\ ~u.forget.live)
           /\ \A p \in Pipelines : u.request[p] \in {None, v.request[p]}
           /\ client.pending \subseteq client'.pending /\ client'.conn = client.conn =>
                \A p \in Pipelines : u.busy[p] = v.busy[p]
<1> DEFINE reqs == client.pending \ client'.pending
           w == Failed(v, reqs, code)
           u == Told(v, code)
           rests == client'.conn = "disconnected" /\ client.conn # "disconnected"
<1>1. /\ w \in View /\ w.text = v.text /\ w.spent = v.spent
      /\ w.forget = v.forget \/ (w.forget.credential = None /\ ~w.forget.live)
      /\ \A p \in Pipelines : w.request[p] \in {None, v.request[p]}
      /\ \A p \in Pipelines : v.request[p] \notin reqs => w.busy[p] = v.busy[p]
  BY FailedIs
<1>2. u = IF rests THEN Rested(w) ELSE w
  BY DEF Told
<1> HIDE DEF w, u
<1>3. /\ Rested(w) \in View
      /\ Rested(w).text = w.text /\ Rested(w).spent = w.spent
      /\ Rested(w).forget = w.forget /\ Rested(w).request = w.request
  <2> DEFINE chat == {"preChat", "postTurn"}
             busy == [p \in Pipelines |-> w.busy[p] /\ p \notin chat]
             stage == [s \in Shown |-> IF s \in chat /\ w.busy[s] THEN "idle" ELSE w.stage[s]]
  <2>1. Rested(w) = [w EXCEPT !.stage = stage, !.busy = busy]
    BY DEF Rested
  <2>2. busy \in [Pipelines -> BOOLEAN] /\ stage \in [Shown -> Stages]
    BY <1>1, Names DEF View, Stages
  <2> HIDE DEF busy, stage
  <2>3. QED
    BY <1>1, <2>1, <2>2 DEF View
<1>4. /\ u \in View /\ u.text = v.text /\ u.spent = v.spent
      /\ u.forget = v.forget \/ (u.forget.credential = None /\ ~u.forget.live)
      /\ \A p \in Pipelines : u.request[p] \in {None, v.request[p]}
  BY <1>1, <1>2, <1>3
<1>5. ASSUME client.pending \subseteq client'.pending, client'.conn = client.conn,
             NEW p \in Pipelines
      PROVE  u.busy[p] = v.busy[p]
  BY <1>1, <1>2, <1>5
<1>6. QED
  BY <1>4, <1>5 DEF u

\* An entry that sends nothing, with what the view model hears of it.
LEMMA Entry ==
    ASSUME IInv, Shrinks(client, client'),
           vm' = vm \/ \E code \in {"failed", "timeout"} : vm' = Told(vm, code)
    PROVE  IInv' /\ Quiet
<1>1. /\ ClientInv(client') /\ client'.wire \subseteq client.wire /\ client'.age = client.age
  BY DEF Shrinks
<1>2. Almost(client, vm, {})
  BY AlmostIs DEF IInv
<1>3. client'.wire \subseteq Requests
  BY <1>1 DEF ClientInv, Client
<1>4. Almost(client', vm, {})
  BY <1>1, <1>2, <1>3, ClientMoves
<1>5. \A code \in {"failed", "timeout"} : Almost(client', Told(vm, code), {})
  BY <1>1, <1>2, ToldKeeps
<1>6. Almost(client', vm', {})
  BY <1>4, <1>5
<1>7. ViewInv(client', vm')
  BY <1>6, AlmostIs
<1>8. Quiet
  <2>1. vm \in View
    BY DEF IInv, ViewInv
  <2>2. \A code \in {"failed", "timeout"} :
           Told(vm, code).request["forgetExecute"] \in {None, vm.request["forgetExecute"]}
    BY <2>1, ToldIs, Names
  <2>3. QED
    BY <2>2 DEF Quiet
<1>9. QED
  BY <1>1, <1>7, <1>8 DEF IInv

-----------------------------------------------------------------------------
(* Sending *)

\* A set of numbers that is not empty has a least member.
LEMMA LeastExists ==
    ASSUME NEW S \in SUBSET Nat, S # {}
    PROVE  \E m \in S : \A n \in S : m <= n
<1> DEFINE LT == {ss \in Nat \X Nat : ss[1] < ss[2]}
<1>1. IsWellFoundedOn(LT, Nat)
  BY NatLessThanWellFounded DEF OpToRel
<1>2. \A x, y \in Nat : y < x => <<y, x>> \in LT
  OBVIOUS
<1> HIDE DEF LT
<1>3. PICK m \in S : \A n \in S : <<n, m>> \notin LT
  BY <1>1, WFMin
<1>4. \A n \in S : n \in Nat /\ m \in Nat /\ ~(n < m)
  BY <1>2, <1>3
<1>5. \A n \in S : m <= n
  BY <1>4, SMT
<1>6. QED
  BY <1>3, <1>5

\* The next identifier is one that was never used.
LEMMA FreshIs ==
    ASSUME Unused # {}
    PROVE  /\ FreshRequest \in Requests /\ FreshRequest # None
           /\ client.age[FreshRequest] = "unsent"
<1>1. Unused \in SUBSET Nat
  BY RequestsAssumption DEF Unused
<1>2. \E r \in Unused : \A q \in Unused : r <= q
  BY <1>1, LeastExists
<1>3. FreshRequest \in Unused
  BY <1>2 DEF FreshRequest
<1>4. QED
  BY <1>3, NoneIsNone DEF Unused

\* What sendRequest leaves of the client: the new request is the only one that
\* can have come onto the wire, and if it did then nothing was lost.
LEMMA SendIs ==
    ASSUME IInv, SendRequest
    PROVE  LET f == FreshRequest IN
           /\ f \in Requests /\ f # None /\ client.age[f] = "unsent"
           /\ ClientInv(client') /\ client'.age[f] # "unsent"
           /\ \A r \in Requests :
                client.age[r] # "unsent" =>
                   client'.age[r] # "unsent" /\ (r \in client'.wire => r \in client.wire)
           /\ f \in client'.wire =>
                client.pending \subseteq client'.pending /\ client'.conn = client.conn
<1> DEFINE f == FreshRequest
<1>1. f \in Requests /\ f # None /\ client.age[f] = "unsent"
  BY FreshIs DEF SendRequest
<1>2. ClientInv(client) /\ client.age \in [Requests -> Age]
  BY DEF IInv, ClientInv, Client
<1> HIDE DEF f
<1>3. CASE client' = Registered(client, f)
  <2>1. /\ ClientInv(client') /\ client'.conn = client.conn
        /\ client'.pending = client.pending \cup {f}
        /\ client'.age = [client.age EXCEPT ![f] = "fresh"]
        /\ client'.wire \subseteq client.wire \cup {f}
    BY <1>1, <1>2, <1>3, RegisteredIs
  <2>2. QED
    BY <1>1, <1>2, <2>1 DEF f
<1>4. CASE client' = Registered(Disconnected(client, "lost"), f)
  <2> DEFINE d == Disconnected(client, "lost")
  <2>1. /\ ClientInv(d) /\ d.age = client.age /\ d.wire = {} /\ d.socket = "unconnected"
    BY <1>2, DisconnectedIs DEF Shrinks
  <2> HIDE DEF d
  <2>2. /\ ClientInv(client') /\ client'.age = [client.age EXCEPT ![f] = "fresh"]
        /\ client'.wire = {}
    <3>1. d.age[f] = "unsent" /\ client' = Registered(d, f)
      BY <1>1, <1>4, <2>1 DEF d
    <3>2. /\ ClientInv(client') /\ client'.age = [d.age EXCEPT ![f] = "fresh"]
          /\ client'.wire = IF d.socket = "connected" THEN d.wire \cup {f} ELSE d.wire
      BY <1>1, <2>1, <3>1, RegisteredIs
    <3>3. QED
      BY <2>1, <3>2
  <2>3. QED
    BY <1>1, <1>2, <2>2 DEF f
<1>5. QED
  BY <1>3, <1>4 DEF SendRequest, f

\* A pipeline p that was started: its request is new, its timer runs, and the
\* rest is up to the pipeline.
LEMMA Started ==
    ASSUME IInv, SendRequest, NEW v, NEW p \in Pipelines, Almost(client, v, {p}),
           v.request = vm.request, v.spent = vm.spent,
           NEW w \in View,
           LET u == Told(v, "failed") IN
              /\ w.request = [u.request EXCEPT ![p] = FreshRequest]
              /\ w.timers = u.timers \cup {FreshRequest}
              /\ \A q \in Pipelines \ {p} : w.busy[q] = u.busy[q],
           ChatStands(client', w), ForgetStands(client', w)
    PROVE  ViewInv(client', w)
<1> DEFINE f == FreshRequest
           u == Told(v, "failed")
<1>1. /\ f # None /\ client.age[f] = "unsent" /\ ClientInv(client')
      /\ client'.age[f] # "unsent"
  BY SendIs
<1>2. Almost(client', u, {p})
  BY SendIs, ToldKeeps
<1>3. v \in View
  BY DEF Almost
<1>4. u \in View /\ \A q \in Pipelines : u.request[q] \in {None, v.request[q]}
  BY <1>3, ToldIs
<1>5. \A q \in Pipelines : u.request[q] # f
  BY <1>1, <1>4 DEF Almost, Sent
<1>6. /\ w.request = [u.request EXCEPT ![p] = f] /\ w.timers = u.timers \cup {f}
      /\ \A q \in Pipelines \ {p} : w.busy[q] = u.busy[q]
      /\ u.request \in [Pipelines -> Ref]
  BY <1>4 DEF View
<1> HIDE DEF f, u
<1>7. \A q \in Pipelines : Sent(client', w.request[q])
  BY <1>1, <1>2, <1>6 DEF Almost, Sent
<1>8. \A q, r \in Pipelines : q # r /\ w.request[q] = w.request[r] => w.request[q] = None
  BY <1>2, <1>5, <1>6 DEF Almost
<1>9. \A q \in Pipelines : w.busy[q] => w.request[q] \in w.timers
  BY <1>2, <1>6 DEF Almost
<1>10. QED
  BY <1>7, <1>8, <1>9 DEF ViewInv, PipelinesStand

\* x differs from v in its stages, its busy flags, or neither.
SameButFlags(v, x) ==
    /\ x \in View
    /\ x.request = v.request /\ x.timers = v.timers
    /\ x.text = v.text /\ x.context = v.context /\ x.assembled = v.assembled
    /\ x.forget = v.forget /\ x.spent = v.spent

\* A stage is set,
LEMMA StageSetIs ==
    ASSUME NEW v \in View, NEW p \in Pipelines, NEW s \in Stages
    PROVE  LET x == StageSet(v, p, s) IN
           /\ SameButFlags(v, x) /\ x.busy = v.busy
           /\ x.stage["forget"] = IF p \in Forget THEN s ELSE v.stage["forget"]
<1> DEFINE stage == [v.stage EXCEPT ![StageOf(p)] = s]
           x == StageSet(v, p, s)
<1>1. x = [v EXCEPT !.stage = stage]
  BY DEF StageSet
<1>2. /\ stage \in [Shown -> Stages]
      /\ stage["forget"] = IF p \in Forget THEN s ELSE v.stage["forget"]
  BY Names DEF View, StageOf
<1> HIDE DEF stage, x
<1>3. SameButFlags(v, x) /\ x.busy = v.busy /\ x.stage = stage
  BY <1>1, <1>2 DEF View, SameButFlags
<1>4. QED
  BY <1>2, <1>3 DEF x

\* a busy flag,
LEMMA BusySetIs ==
    ASSUME NEW v \in View, NEW p \in Pipelines, NEW b \in BOOLEAN
    PROVE  LET x == BusySet(v, p, b) IN
           /\ SameButFlags(v, x) /\ x.stage = v.stage
           /\ x.busy = [v.busy EXCEPT ![p] = b]
<1> DEFINE busy == [v.busy EXCEPT ![p] = b]
           x == BusySet(v, p, b)
<1>1. x = [v EXCEPT !.busy = busy]
  BY DEF BusySet
<1>2. busy \in [Pipelines -> BOOLEAN]
  BY DEF View
<1> HIDE DEF busy, x
<1>3. SameButFlags(v, x) /\ x.stage = v.stage /\ x.busy = busy
  BY <1>1, <1>2 DEF View, SameButFlags
<1>4. QED
  BY <1>3 DEF x, busy

\* or both, as a pipeline ends.
LEMMA EndsIs ==
    ASSUME NEW v \in View, NEW p \in Pipelines, NEW s \in Stages
    PROVE  LET x == Ends(v, p, s) IN
           /\ SameButFlags(v, x)
           /\ x.busy = [v.busy EXCEPT ![p] = FALSE]
           /\ x.stage["forget"] = IF p \in Forget THEN s ELSE v.stage["forget"]
<1> DEFINE y == BusySet(v, p, FALSE)
           x == StageSet(y, p, s)
<1>1. SameButFlags(v, y) /\ y.stage = v.stage /\ y.busy = [v.busy EXCEPT ![p] = FALSE]
  BY BusySetIs
<1> HIDE DEF y
<1>2. /\ SameButFlags(y, x) /\ x.busy = y.busy
      /\ x.stage["forget"] = IF p \in Forget THEN s ELSE y.stage["forget"]
  BY <1>1, StageSetIs DEF SameButFlags
<1> HIDE DEF x
<1>3. SameButFlags(v, x)
  BY <1>1, <1>2 DEF SameButFlags
<1>4. QED
  BY <1>1, <1>2, <1>3 DEF x, y, Ends

\* The caller keeps the new request and its timer.
LEMMA ArmedIs ==
    ASSUME NEW v \in View, NEW p \in Pipelines, FreshRequest \in Requests
    PROVE  LET x == Armed(v, p) IN
           /\ x \in View
           /\ x.request = [v.request EXCEPT ![p] = FreshRequest]
           /\ x.timers = v.timers \cup {FreshRequest}
           /\ x.busy = v.busy /\ x.stage = v.stage
           /\ x.text = v.text /\ x.context = v.context /\ x.assembled = v.assembled
           /\ x.forget = v.forget /\ x.spent = v.spent
<1> DEFINE f == FreshRequest
           request == [v.request EXCEPT ![p] = f]
           timers == v.timers \cup {f}
           x == Armed(v, p)
<1>1. x = [v EXCEPT !.request = request, !.timers = timers]
  BY DEF Armed
<1> HIDE DEF f
<1>2. f \in Requests
  BY DEF f
<1>3. request \in [Pipelines -> Ref] /\ timers \in SUBSET Requests
  BY <1>2 DEF View, Ref
<1> HIDE DEF request, timers, x
<1>4. /\ x \in View /\ x.request = request /\ x.timers = timers
      /\ x.busy = v.busy /\ x.stage = v.stage
      /\ x.text = v.text /\ x.context = v.context /\ x.assembled = v.assembled
      /\ x.forget = v.forget /\ x.spent = v.spent
  BY <1>1, <1>3 DEF View
<1>5. QED
  BY <1>4 DEF x, request, timers, f

\* A pipeline rests, or shows why it does not run: nothing is in flight for it
\* that was not before.
LEMMA RestKeeps ==
    ASSUME NEW c, NEW v, ViewInv(c, v), NEW x, SameButFlags(v, x),
           \A p \in Pipelines : x.busy[p] => v.busy[p],
           x.busy["preChat"] = v.busy["preChat"],
           x.busy["forgetPreview"] = v.busy["forgetPreview"],
           x.stage["forget"] # "awaiting_confirmation" \/ x.stage["forget"] = v.stage["forget"]
    PROVE  ViewInv(c, x)
<1>1. x \in View /\ PipelinesStand(c, x)
  BY DEF ViewInv, PipelinesStand, SameButFlags
<1>2. ChatStands(c, x)
  BY DEF ViewInv, ChatStands, SameButFlags
<1>3. ForgetStands(c, x)
  BY DEF ViewInv, ForgetStands, SameButFlags
<1>4. QED
  BY <1>1, <1>2, <1>3 DEF ViewInv

\* v is vm, but perhaps for the text of the chat and the memories shown.
SameButChat(v) ==
    /\ v \in View
    /\ v.request = vm.request /\ v.busy = vm.busy /\ v.stage = vm.stage
    /\ v.timers = vm.timers /\ v.forget = vm.forget /\ v.spent = vm.spent

\* A pipeline that is busy before it sends.  A new text is shown before its
\* memory is asked for, and the memory of the text before is gone.
LEMMA RunKeeps ==
    ASSUME IInv, NEW p \in Sending, NEW v, SameButChat(v),
           NEW stage \in {"querying", "sending"}, Run(p, v, stage),
           IF p = "preChat" THEN v.text = FreshRequest /\ v.context = None ELSE v = vm
    PROVE  IInv' /\ Quiet
<1> DEFINE f == FreshRequest
           b == BusySet(v, p, TRUE)
           s == StageSet(b, p, stage)
           u == Told(s, "failed")
           w == Armed(u, p)
<1>1. /\ ~vm.busy[p] /\ SendRequest /\ vm' = w
  BY DEF Run
<1>2. p \in Pipelines /\ p \notin Forget /\ stage \in Stages
  BY DEF Pipelines, Sending, Forget, Stages, InProgress
<1>3. /\ SameButFlags(v, b) /\ b.stage = v.stage /\ b.busy = [v.busy EXCEPT ![p] = TRUE]
  BY <1>2, BusySetIs DEF SameButChat
<1> HIDE DEF b
<1>4. /\ SameButFlags(b, s) /\ s.busy = b.busy /\ s.stage["forget"] = b.stage["forget"]
  BY <1>2, <1>3, StageSetIs DEF SameButFlags
<1> HIDE DEF s
<1>5. /\ SameButFlags(v, s) /\ s.busy = [v.busy EXCEPT ![p] = TRUE]
      /\ s.stage["forget"] = vm.stage["forget"]
  BY <1>3, <1>4 DEF SameButFlags, SameButChat
<1>6. Almost(client, vm, {})
  BY AlmostIs DEF IInv
<1>7. Almost(client, s, {p})
  <2>1. vm.busy \in [Pipelines -> BOOLEAN]
    BY <1>6 DEF Almost, View
  <2>2. ChatStands(client, s)
    <3>1. CASE p = "preChat"
      <4>1. vm.request["preChat"] \notin client.wire
        BY <1>1, <1>6, <3>1 DEF Almost, ChatStands
      <4>2. QED
        BY <1>5, <3>1, <4>1 DEF ChatStands, SameButFlags, SameButChat
    <3>2. CASE p # "preChat"
      BY <1>5, <1>6, <2>1, <3>2, Names DEF Almost, ChatStands, SameButFlags
    <3>3. QED
      BY <3>1, <3>2
  <2>3. ForgetStands(client, s)
    <3>1. p # "forgetPreview"
      BY <1>2 DEF Forget
    <3>2. s.busy["forgetPreview"] = vm.busy["forgetPreview"]
      BY <1>5, <2>1, <3>1, Names DEF SameButChat
    <3>3. QED
      BY <1>5, <1>6, <3>2 DEF Almost, ForgetStands, SameButFlags, SameButChat
  <2>4. \A q \in Pipelines \ {p} : s.busy[q] => s.request[q] \in s.timers
    BY <1>5, <1>6, <2>1 DEF Almost, SameButFlags, SameButChat
  <2>5. QED
    BY <1>5, <1>6, <2>2, <2>3, <2>4 DEF Almost, SameButFlags, SameButChat
<1>8. /\ f \in Requests /\ f # None
      /\ ClientInv(client')
      /\ f \in client'.wire =>
           client.pending \subseteq client'.pending /\ client'.conn = client.conn
  BY <1>1, SendIs
<1>9. Almost(client', u, {p})
  BY <1>1, <1>7, SendIs, ToldKeeps
<1>10. /\ u \in View /\ u.text = s.text
       /\ u.request["forgetExecute"] \in {None, s.request["forgetExecute"]}
       /\ client.pending \subseteq client'.pending /\ client'.conn = client.conn =>
            \A q \in Pipelines : u.busy[q] = s.busy[q]
  BY <1>5, Names, ToldIs DEF SameButFlags
<1> HIDE DEF u
<1>11. /\ w \in View
       /\ w.request = [u.request EXCEPT ![p] = f] /\ w.timers = u.timers \cup {f}
       /\ w.busy = u.busy /\ w.stage = u.stage
       /\ w.text = u.text /\ w.context = u.context
       /\ w.forget = u.forget /\ w.spent = u.spent
  BY <1>2, <1>8, <1>10, ArmedIs
<1> HIDE DEF w
<1>12. u.request \in [Pipelines -> Ref]
  BY <1>10 DEF View
<1>13. ChatStands(client', w)
  <2>1. CASE p = "preChat"
    <3>1. w.text = f /\ w.request["preChat"] = f
      BY <1>2, <1>5, <1>10, <1>11, <1>12, <2>1 DEF SameButFlags
    <3>2. u.context = None \/ u.context = u.text
      BY <1>9 DEF Almost, ChatStands
    <3>3. f \in client'.wire => w.busy["preChat"]
      <4>1. s.busy["preChat"]
        BY <1>2, <1>5, <1>6, <2>1 DEF Almost, View, SameButChat
      <4>2. QED
        BY <1>2, <1>8, <1>10, <1>11, <2>1, <4>1
    <3>4. QED
      BY <1>11, <3>1, <3>2, <3>3 DEF ChatStands
  <2>2. CASE p # "preChat"
    BY <1>9, <1>11, <1>12, <2>2, Names DEF Almost, ChatStands
  <2>3. QED
    BY <2>1, <2>2
<1>14. ForgetStands(client', w)
  <2>1. p # "forgetPreview"
    BY <1>2 DEF Forget
  <2>2. w.request["forgetPreview"] = u.request["forgetPreview"]
    BY <1>11, <1>12, <2>1, Names
  <2>3. QED
    BY <1>9, <1>11, <2>2 DEF Almost, ForgetStands
<1>15. /\ s.request = vm.request /\ s.spent = vm.spent
  BY <1>5 DEF SameButFlags, SameButChat
<1>16. ViewInv(client', w)
  BY <1>1, <1>2, <1>7, <1>11, <1>13, <1>14, <1>15, Started DEF u, f
<1>17. Quiet
  BY <1>1, <1>2, <1>10, <1>11, <1>12, <1>15, Names DEF Quiet, Forget
<1>18. QED
  BY <1>1, <1>8, <1>16, <1>17 DEF IInv

\* A pipeline that could not send.
LEMMA NotRunKeeps ==
    ASSUME IInv, NEW p \in Sending, NEW v, SameButChat(v), NotRun(p, v),
           IF p = "preChat" THEN v.context = None ELSE v = vm
    PROVE  IInv' /\ Quiet
<1> DEFINE w == Ends(v, p, "failed")
<1>1. ~vm.busy[p] /\ client' = client /\ vm' = w
  BY DEF NotRun, Refused
<1>2. p \in Pipelines /\ p \notin Forget /\ "failed" \in Stages
  BY DEF Pipelines, Sending, Forget, Stages
<1>3. ViewInv(client, vm)
  BY DEF IInv
<1>4. vm.busy \in [Pipelines -> BOOLEAN]
  BY <1>3 DEF ViewInv, View
<1>5. ViewInv(client, v)
  <2>1. CASE p = "preChat"
    <3>1. vm.request["preChat"] \notin client.wire
      BY <1>1, <1>3, <2>1 DEF ViewInv, ChatStands
    <3>2. ChatStands(client, v)
      BY <2>1, <3>1 DEF ChatStands, SameButChat
    <3>3. PipelinesStand(client, v) /\ ForgetStands(client, v)
      BY <1>3 DEF ViewInv, PipelinesStand, ForgetStands, SameButChat
    <3>4. QED
      BY <3>2, <3>3 DEF ViewInv, SameButChat
  <2>2. CASE p # "preChat"
    BY <1>3, <2>2
  <2>3. QED
    BY <2>1, <2>2
<1>6. /\ SameButFlags(v, w) /\ w.busy = [v.busy EXCEPT ![p] = FALSE]
      /\ w.stage["forget"] = v.stage["forget"]
  BY <1>2, EndsIs DEF SameButChat
<1> HIDE DEF w
<1>7. \A q \in Pipelines : w.busy[q] = v.busy[q]
  BY <1>1, <1>2, <1>4, <1>6 DEF SameButChat
<1>8. ViewInv(client, w)
  BY <1>5, <1>6, <1>7, Names, RestKeeps
<1>9. QED
  BY <1>1, <1>6, <1>8 DEF IInv, Quiet, SameButFlags, SameButChat

\* A pipeline that refuses a second run, and is busy once it has sent.
LEMMA AskKeeps ==
    ASSUME IInv, NEW p \in Asking, NEW v, SameButChat(v),
           v.text = vm.text, v.context = vm.context, Ask(p, v, v, "querying")
    PROVE  IInv' /\ Quiet
<1>1. p \in Pipelines /\ p \notin Forget /\ p # "preChat"
  BY DEF Pipelines, Sending, Asking, Forget
<1>2. {"failed", "querying"} \subseteq Stages
  BY DEF Stages, InProgress
<1>3. ViewInv(client, v)
  BY DEF IInv, ViewInv, PipelinesStand, ChatStands, ForgetStands, SameButChat
<1>4. CASE Refused /\ vm' = StageSet(v, p, "failed")
  <2> DEFINE x == StageSet(v, p, "failed")
  <2>1. /\ SameButFlags(v, x) /\ x.busy = v.busy /\ x.stage["forget"] = v.stage["forget"]
    BY <1>1, <1>2, StageSetIs DEF SameButChat
  <2> HIDE DEF x
  <2>2. ViewInv(client, x)
    BY <1>3, <2>1, RestKeeps
  <2>3. QED
    BY <1>4, <2>1, <2>2 DEF Refused, IInv, x, Quiet, SameButFlags, SameButChat
<1>5. CASE /\ SendRequest
           /\ vm' = StageSet(BusySet(Armed(Told(v, "failed"), p), p, TRUE), p, "querying")
  <2> DEFINE f == FreshRequest
             u == Told(v, "failed")
             a == Armed(u, p)
             b == BusySet(a, p, TRUE)
             w == StageSet(b, p, "querying")
  <2>1. f \in Requests /\ ClientInv(client')
    BY <1>5, SendIs
  <2>2. Almost(client, v, {p}) /\ v \in View
    BY <1>3 DEF Almost, ViewInv, PipelinesStand
  <2>3. Almost(client', u, {p}) /\ u \in View
    <3>1. Almost(client', u, {p})
      BY <1>5, <2>2, SendIs, ToldKeeps
    <3>2. QED
      BY <3>1 DEF Almost
  <2>4. /\ a \in View
        /\ a.request = [u.request EXCEPT ![p] = f] /\ a.timers = u.timers \cup {f}
        /\ a.busy = u.busy /\ a.stage = u.stage
        /\ a.text = u.text /\ a.context = u.context
        /\ a.forget = u.forget /\ a.spent = u.spent
    BY <1>1, <2>1, <2>3, ArmedIs
  <2>5. u.request \in [Pipelines -> Ref] /\ u.busy \in [Pipelines -> BOOLEAN]
    BY <2>3 DEF View
  <2> HIDE DEF u, a
  <2>6. /\ SameButFlags(a, b) /\ b.stage = a.stage /\ b.busy = [a.busy EXCEPT ![p] = TRUE]
    BY <1>1, <2>4, BusySetIs
  <2> HIDE DEF b
  <2>7. /\ SameButFlags(b, w) /\ w.busy = b.busy /\ w.stage["forget"] = b.stage["forget"]
    BY <1>1, <1>2, <2>6, StageSetIs DEF SameButFlags
  <2> HIDE DEF w
  <2>8. /\ w \in View
        /\ w.request = [u.request EXCEPT ![p] = f] /\ w.timers = u.timers \cup {f}
        /\ w.busy = [u.busy EXCEPT ![p] = TRUE]
        /\ w.stage["forget"] = u.stage["forget"]
        /\ w.text = u.text /\ w.context = u.context
        /\ w.forget = u.forget /\ w.spent = u.spent
    BY <2>4, <2>6, <2>7 DEF SameButFlags
  <2>9. p # "forgetPreview"
    BY <1>1 DEF Forget
  <2>10. \A q \in {"preChat", "forgetPreview"} :
            w.request[q] = u.request[q] /\ w.busy[q] = u.busy[q]
    BY <1>1, <2>5, <2>8, <2>9, Names
  <2>11. ChatStands(client', w) /\ ForgetStands(client', w)
    BY <2>3, <2>8, <2>10 DEF Almost, ChatStands, ForgetStands
  <2>12. \A q \in Pipelines \ {p} : w.busy[q] = u.busy[q]
    BY <2>5, <2>8
  <2>13. ViewInv(client', w)
    BY <1>1, <1>5, <2>2, <2>8, <2>11, <2>12, Started DEF u, f, SameButChat
  <2>14. Quiet
    <3>1. w.request["forgetExecute"] = u.request["forgetExecute"]
      BY <1>1, <2>5, <2>8, Names DEF Forget
    <3>2. u.request["forgetExecute"] \in {None, v.request["forgetExecute"]}
      BY <2>2, ToldIs, Names DEF u
    <3>3. vm' = w
      BY <1>5 DEF w, b, a, u
    <3>4. QED
      BY <3>1, <3>2, <3>3 DEF Quiet, SameButChat
  <2>15. QED
    BY <1>5, <2>1, <2>13, <2>14 DEF IInv, w, b, a, u
<1>6. QED
  BY <1>4, <1>5 DEF Ask

-----------------------------------------------------------------------------
(* Precise forgetting *)

\* w differs from v in its forget view, its stages, or neither.
SameButForget(v, w) ==
    /\ w \in View
    /\ w.request = v.request /\ w.timers = v.timers /\ w.busy = v.busy
    /\ w.text = v.text /\ w.context = v.context /\ w.spent = v.spent

\* A forget view in place of another.
LEMMA ForgetSet ==
    ASSUME NEW v \in View, NEW g \in ForgetView
    PROVE  LET w == [v EXCEPT !.forget = g] IN
           /\ SameButForget(v, w) /\ w.forget = g /\ w.stage = v.stage
           /\ w.assembled = v.assembled
BY DEF View, SameButForget

\* Taking a preview back leaves nothing to confirm.
LEMMA NothingToConfirm ==
    ASSUME NEW c, NEW v, ViewInv(c, v), NEW w, SameButForget(v, w),
           w.forget.credential \in {None, v.forget.credential},
           \/ ~w.forget.live
           \/ /\ w.forget = v.forget
              /\ \/ w.stage["forget"] # "awaiting_confirmation"
                 \/ w.stage["forget"] = v.stage["forget"]
    PROVE  ViewInv(c, w)
<1>1. PipelinesStand(c, w) /\ ChatStands(c, w)
  BY DEF ViewInv, PipelinesStand, ChatStands, SameButForget
<1>2. ForgetStands(c, w)
  BY DEF ViewInv, ForgetStands, SameButForget, Sent
<1>3. QED
  BY <1>1, <1>2 DEF ViewInv, SameButForget

\* The preview asks; what was previewed before is taken back.
LEMMA PreviewKeeps ==
    ASSUME IInv, RunForgetPreview
    PROVE  IInv' /\ Quiet
<1> DEFINE p == "forgetPreview"
<1>1. p \in Pipelines /\ p \in Forget /\ {"failed", "previewing"} \subseteq Stages
  BY DEF Pipelines, Forget, Stages, InProgress
<1>2. ViewInv(client, vm) /\ vm \in View /\ vm.forget \in ForgetView
  BY DEF IInv, ViewInv, View
<1>3. CASE /\ Refused
           /\ vm' = StageSet([vm EXCEPT !.forget = NoPreview(vm.forget)], p, "failed")
  <2> DEFINE v == [vm EXCEPT !.forget = NoPreview(vm.forget)]
             w == StageSet(v, p, "failed")
  <2>1. /\ SameButForget(vm, v)
        /\ v.forget.credential = None /\ ~v.forget.live
    BY <1>2, ForgetSet, NoPreviewIs
  <2> HIDE DEF v
  <2>2. SameButFlags(v, w) /\ w.busy = v.busy
    BY <1>1, <2>1, StageSetIs DEF SameButForget
  <2> HIDE DEF w
  <2>3. SameButForget(vm, w) /\ w.forget.credential = None /\ ~w.forget.live
    BY <2>1, <2>2 DEF SameButForget, SameButFlags
  <2>4. ViewInv(client, w)
    BY <1>2, <2>3, NothingToConfirm
  <2>5. QED
    BY <1>3, <2>3, <2>4 DEF Refused, IInv, w, v, Quiet, SameButForget
<1>4. ASSUME SendRequest,
             LET v == Armed(Told(vm, "failed"), p)
                 w == [v EXCEPT !.forget = [NoPreview(v.forget) EXCEPT !.selector = TRUE]]
             IN  vm' = StageSet(BusySet(w, p, TRUE), p, "previewing")
      PROVE  IInv' /\ Quiet
  <2> DEFINE f == FreshRequest
             u == Told(vm, "failed")
             a == Armed(u, p)
             g == [NoPreview(a.forget) EXCEPT !.selector = TRUE]
             d == [a EXCEPT !.forget = g]
             b == BusySet(d, p, TRUE)
             w == StageSet(b, p, "previewing")
  <2>1. /\ f \in Requests /\ f # None /\ client.age[f] = "unsent" /\ ClientInv(client')
    BY <1>4, SendIs
  <2>2. Almost(client, vm, {p})
    BY <1>2 DEF Almost, ViewInv, PipelinesStand
  <2>3. Almost(client', u, {p}) /\ u \in View
    <3>1. Almost(client', u, {p})
      BY <1>4, <2>2, SendIs, ToldKeeps
    <3>2. QED
      BY <3>1 DEF Almost
  <2>4. u.spent = vm.spent
    BY <1>2, ToldIs
  <2>5. u.request \in [Pipelines -> Ref] /\ u.busy \in [Pipelines -> BOOLEAN]
    BY <2>3 DEF View
  <2> HIDE DEF u
  <2>6. /\ a \in View
        /\ a.request = [u.request EXCEPT ![p] = f] /\ a.timers = u.timers \cup {f}
        /\ a.busy = u.busy
        /\ a.text = u.text /\ a.context = u.context
        /\ a.forget = u.forget /\ a.spent = u.spent
    BY <1>1, <2>1, <2>3, ArmedIs
  <2>7. g \in ForgetView /\ g.credential = None /\ ~g.live
    <3>1. a.forget \in ForgetView
      BY <2>6 DEF View
    <3>2. QED
      BY <3>1, NoPreviewIs
  <2> HIDE DEF a, g
  <2>8. SameButForget(a, d) /\ d.forget = g
    BY <2>6, <2>7, ForgetSet
  <2> HIDE DEF d
  <2>9. /\ SameButFlags(d, b) /\ b.stage = d.stage /\ b.busy = [d.busy EXCEPT ![p] = TRUE]
    BY <1>1, <2>8, BusySetIs DEF SameButForget
  <2> HIDE DEF b
  <2>10. /\ SameButFlags(b, w) /\ w.busy = b.busy
    BY <1>1, <2>9, StageSetIs DEF SameButFlags
  <2> HIDE DEF w
  <2>11. /\ w \in View
         /\ w.request = [u.request EXCEPT ![p] = f] /\ w.timers = u.timers \cup {f}
         /\ w.busy = [u.busy EXCEPT ![p] = TRUE]
         /\ w.text = u.text /\ w.context = u.context
         /\ w.forget = g /\ w.spent = vm.spent
    BY <2>4, <2>6, <2>8, <2>9, <2>10 DEF SameButFlags, SameButForget
  <2>12. /\ w.request["preChat"] = u.request["preChat"]
         /\ w.busy["preChat"] = u.busy["preChat"]
         /\ w.request[p] = f /\ w.busy[p]
    BY <1>1, <2>5, <2>11, Names
  <2>13. ChatStands(client', w)
    BY <2>3, <2>11, <2>12 DEF Almost, ChatStands
  <2>14. ForgetStands(client', w)
    <3>1. f \notin vm.spent
      BY <1>2, <2>1 DEF ViewInv, ForgetStands, Sent
    <3>2. \A r \in w.spent : Sent(client', r)
      BY <2>3, <2>4, <2>11 DEF Almost, ForgetStands
    <3>3. QED
      BY <2>7, <2>11, <2>12, <3>1, <3>2 DEF ForgetStands, Sent
  <2>15. \A q \in Pipelines \ {p} : w.busy[q] = u.busy[q]
    BY <2>5, <2>11
  <2>16. ViewInv(client', w)
    BY <1>1, <1>4, <2>2, <2>11, <2>13, <2>14, <2>15, Started DEF u, f
  <2>17. Quiet
    <3>1. w.request["forgetExecute"] = u.request["forgetExecute"]
      BY <2>5, <2>11, Names
    <3>2. u.request["forgetExecute"] \in {None, vm.request["forgetExecute"]}
      BY <1>2, ToldIs, Names DEF u
    <3>3. vm' = w
      BY <1>4 DEF w, b, d, g, a, u
    <3>4. QED
      BY <3>1, <3>2, <3>3 DEF Quiet
  <2>18. QED
    BY <1>4, <2>1, <2>16, <2>17 DEF IInv, w, b, d, g, a, u
<1>5. QED
  BY <1>3, <1>4 DEF RunForgetPreview

\* The execution spends the credential it sends.
LEMMA ExecuteKeeps ==
    ASSUME IInv, RunForgetExecute
    PROVE  IInv'
<1> DEFINE p == "forgetExecute"
<1>1. p \in Pipelines /\ p \in Forget /\ {"failed", "executing"} \subseteq Stages
  BY DEF Pipelines, Forget, Stages, InProgress
<1>2. ViewInv(client, vm) /\ vm \in View /\ vm.forget \in ForgetView
  BY DEF IInv, ViewInv, View
<1>3. CASE ExpiredCredential
  <2> DEFINE g == [vm.forget EXCEPT !.credential = None]
             v == [vm EXCEPT !.forget = g]
             w == StageSet(v, p, "failed")
  <2>1. g \in ForgetView /\ g.credential = None /\ ~g.live
    BY <1>2, <1>3, NoneIsNone DEF ExpiredCredential, ForgetView
  <2> HIDE DEF g
  <2>2. SameButForget(vm, v) /\ v.forget = g
    BY <1>2, <2>1, ForgetSet
  <2> HIDE DEF v
  <2>3. SameButFlags(v, w) /\ w.busy = v.busy
    BY <1>1, <2>2, StageSetIs DEF SameButForget
  <2> HIDE DEF w
  <2>4. SameButForget(vm, w) /\ w.forget.credential = None /\ ~w.forget.live
    BY <2>1, <2>2, <2>3 DEF SameButForget, SameButFlags
  <2>5. ViewInv(client, w)
    BY <1>2, <2>4, NothingToConfirm
  <2>6. QED
    BY <1>3, <2>5 DEF ExpiredCredential, Refused, IInv, w, v, g
<1>4. CASE Refused /\ vm' = StageSet(vm, p, "failed")
  <2> DEFINE w == StageSet(vm, p, "failed")
  <2>1. SameButFlags(vm, w) /\ w.busy = vm.busy /\ w.stage["forget"] = "failed"
    BY <1>1, <1>2, StageSetIs
  <2> HIDE DEF w
  <2>2. ViewInv(client, w)
    BY <1>2, <2>1, RestKeeps
  <2>3. QED
    BY <1>4, <2>2 DEF Refused, IInv, w
<1>5. ASSUME MayExecute, SendRequest,
             LET v == Armed(Told(vm, "failed"), p)
                 w == [v EXCEPT !.forget = [v.forget EXCEPT !.executed = -1],
                                !.spent = v.spent \cup {vm.forget.credential}]
             IN  vm' = StageSet(BusySet(w, p, TRUE), p, "executing")
      PROVE  IInv'
  <2> DEFINE f == FreshRequest
             u == Told(vm, "failed")
             a == Armed(u, p)
             g == [a.forget EXCEPT !.executed = -1]
             spent == a.spent \cup {vm.forget.credential}
             d == [a EXCEPT !.forget = g, !.spent = spent]
             b == BusySet(d, p, TRUE)
             w == StageSet(b, p, "executing")
  <2>1. f \in Requests /\ ClientInv(client')
    BY <1>5, SendIs
  <2>2. Almost(client, vm, {p})
    BY <1>2 DEF Almost, ViewInv, PipelinesStand
  <2>3. Almost(client', u, {p}) /\ u \in View
    <3>1. Almost(client', u, {p})
      BY <1>5, <2>2, SendIs, ToldKeeps
    <3>2. QED
      BY <3>1 DEF Almost
  <2>4. u.spent = vm.spent /\ u.request["forgetPreview"] = None
    <3>1. u.request["forgetPreview"] \in {None, vm.request["forgetPreview"]}
      BY <1>2, Names, ToldIs
    <3>2. vm.request["forgetPreview"] = None
      BY <1>2, <1>5 DEF ViewInv, ForgetStands, MayExecute
    <3>3. u.spent = vm.spent
      BY <1>2, ToldIs
    <3>4. QED
      BY <3>1, <3>2, <3>3
  <2>5. u.request \in [Pipelines -> Ref] /\ u.busy \in [Pipelines -> BOOLEAN]
    BY <2>3 DEF View
  <2> HIDE DEF u
  <2>6. /\ a \in View
        /\ a.request = [u.request EXCEPT ![p] = f] /\ a.timers = u.timers \cup {f}
        /\ a.busy = u.busy
        /\ a.text = u.text /\ a.context = u.context
        /\ a.forget = u.forget /\ a.spent = u.spent
    BY <1>1, <2>1, <2>3, ArmedIs
  <2>7. g \in ForgetView /\ g.credential = u.forget.credential
    <3>1. -1 \in -1..1 /\ a.forget \in ForgetView
      BY <2>6 DEF View
    <3>2. QED
      BY <2>6, <3>1 DEF ForgetView
  <2>8. spent \in SUBSET Ref /\ spent = vm.spent \cup {vm.forget.credential}
    BY <1>2, <2>4, <2>6 DEF View, ForgetView
  <2> HIDE DEF a, g, spent
  <2>9. /\ d \in View
        /\ d.request = a.request /\ d.timers = a.timers /\ d.busy = a.busy
        /\ d.text = a.text /\ d.context = a.context /\ d.forget = g /\ d.spent = spent
    BY <2>6, <2>7, <2>8 DEF View
  <2> HIDE DEF d
  <2>10. /\ SameButFlags(d, b) /\ b.stage = d.stage /\ b.busy = [d.busy EXCEPT ![p] = TRUE]
    BY <1>1, <2>9, BusySetIs
  <2> HIDE DEF b
  <2>11. /\ SameButFlags(b, w) /\ w.busy = b.busy /\ w.stage["forget"] = "executing"
    BY <1>1, <2>10, StageSetIs DEF SameButFlags
  <2> HIDE DEF w
  <2>12. /\ w \in View
         /\ w.request = [u.request EXCEPT ![p] = f] /\ w.timers = u.timers \cup {f}
         /\ w.busy = [u.busy EXCEPT ![p] = TRUE]
         /\ w.text = u.text /\ w.context = u.context
         /\ w.forget = g /\ w.spent = spent
    BY <2>6, <2>9, <2>10, <2>11 DEF SameButFlags
  <2>13. /\ w.request["preChat"] = u.request["preChat"]
         /\ w.busy["preChat"] = u.busy["preChat"]
         /\ w.request["forgetPreview"] = None
    BY <1>1, <2>4, <2>5, <2>12, Names
  <2>14. ChatStands(client', w)
    BY <2>3, <2>12, <2>13 DEF Almost, ChatStands
  <2>15. ForgetStands(client', w)
    <3>1. \A r \in vm.spent : Sent(client', r)
      BY <2>3, <2>4 DEF Almost, ForgetStands
    <3>2. Sent(client', vm.forget.credential)
      <4>1. Sent(client, vm.forget.credential) /\ vm.forget.credential \in Ref
        BY <1>2 DEF ViewInv, ForgetStands, ForgetView
      <4>2. \A r \in Requests : client.age[r] # "unsent" => client'.age[r] # "unsent"
        BY <1>5, SendIs
      <4>3. QED
        BY <4>1, <4>2, NoneIsNone DEF Sent, Ref
    <3>3. Sent(client', w.forget.credential)
      BY <2>3, <2>7, <2>12 DEF Almost, ForgetStands
    <3>4. QED
      BY <2>8, <2>11, <2>12, <2>13, <3>1, <3>2, <3>3 DEF ForgetStands
  <2>16. \A q \in Pipelines \ {p} : w.busy[q] = u.busy[q]
    BY <2>5, <2>12
  <2>17. ViewInv(client', w)
    BY <1>1, <1>5, <2>2, <2>12, <2>14, <2>15, <2>16, Started DEF u, f
  <2>18. QED
    BY <1>5, <2>1, <2>17 DEF IInv, w, b, d, g, spent, a, u
<1>6. QED
  BY <1>3, <1>4, <1>5 DEF RunForgetExecute

\* An execution goes out only where one may: whatever refuses sends nothing.
LEMMA ExecuteIsQuiet ==
    ASSUME IInv, RunForgetExecute
    PROVE  Quiet \/ MayExecute
<1> DEFINE p == "forgetExecute"
           g == [vm.forget EXCEPT !.credential = None]
           v == [vm EXCEPT !.forget = g]
<1>1. p \in Pipelines /\ "failed" \in Stages /\ vm \in View
  BY DEF IInv, ViewInv, Pipelines, Forget, Stages
<1>2. g \in ForgetView
  BY <1>1, NoneIsNone DEF View, ForgetView
<1>3. v \in View /\ v.request = vm.request
  BY <1>1, <1>2, ForgetSet DEF SameButForget
<1>4. /\ StageSet(vm, p, "failed").request = vm.request
      /\ StageSet(v, p, "failed").request = vm.request
  BY <1>1, <1>3, StageSetIs DEF SameButFlags
<1>5. ExpiredCredential => vm' = StageSet(v, p, "failed")
  BY DEF ExpiredCredential
<1>6. QED
  BY <1>4, <1>5 DEF RunForgetExecute, Quiet

\* The credential's time runs out.
LEMMA CredentialExpiresKeeps ==
    ASSUME IInv, CredentialExpires
    PROVE  IInv' /\ Quiet
<1> DEFINE g == [vm.forget EXCEPT !.live = FALSE]
           w == [vm EXCEPT !.forget = g]
<1>1. ViewInv(client, vm) /\ vm \in View /\ vm.forget \in ForgetView
  BY DEF IInv, ViewInv, View
<1>2. g \in ForgetView /\ g.credential = vm.forget.credential /\ ~g.live
  BY <1>1 DEF ForgetView
<1> HIDE DEF g
<1>3. SameButForget(vm, w) /\ w.forget = g
  BY <1>1, <1>2, ForgetSet
<1> HIDE DEF w
<1>4. ViewInv(client, w)
  BY <1>1, <1>2, <1>3, NothingToConfirm
<1>5. QED
  BY <1>3, <1>4 DEF CredentialExpires, IInv, w, g, Quiet, SameButForget

-----------------------------------------------------------------------------
(* Resets *)

\* A reset closes pipelines: it drops the timers of their requests, which no
\* other pipeline waits for.
LEMMA ResetKeeps ==
    ASSUME NEW c, c.wire \subseteq Requests, NEW v, ViewInv(c, v), NEW ps \in SUBSET Pipelines
    PROVE  /\ ViewInv(c, Reset(v, ps))
           /\ \A p \in Pipelines : Reset(v, ps).request[p] \in {None, v.request[p]}
<1> DEFINE gone == {v.request[p] : p \in ps}
           timers == v.timers \ gone
           request == [p \in Pipelines |-> IF p \in ps THEN None ELSE v.request[p]]
           busy == [p \in Pipelines |-> v.busy[p] /\ p \notin ps]
           stage == [s \in Shown |-> IF s \in {StageOf(p) : p \in ps} THEN "idle"
                                     ELSE v.stage[s]]
           text == IF "preChat" \in ps THEN None ELSE v.text
           context == IF "preChat" \in ps THEN None ELSE v.context
           forget == IF "forgetPreview" \in ps THEN NoPreview(v.forget) ELSE v.forget
           w == Reset(v, ps)
<1>1. v \in View /\ v.forget \in ForgetView
  BY DEF ViewInv, View
<1>2. w = [v EXCEPT !.timers = timers, !.request = request, !.busy = busy, !.stage = stage,
                    !.text = text, !.context = context, !.forget = forget]
  BY DEF Reset
<1>3. /\ request \in [Pipelines -> Ref] /\ busy \in [Pipelines -> BOOLEAN]
      /\ stage \in [Shown -> Stages] /\ timers \in SUBSET Requests
      /\ text \in Ref /\ context \in Ref
  BY <1>1, NoneIsNone DEF View, Stages
<1>4. /\ forget \in ForgetView
      /\ IF "forgetPreview" \in ps THEN forget.credential = None /\ ~forget.live
         ELSE forget = v.forget
  BY <1>1, NoPreviewIs
<1>5. stage["forget"] \in {"idle", v.stage["forget"]}
  BY Names
<1>6. /\ \A p \in ps : request[p] = None /\ ~busy[p]
      /\ \A p \in Pipelines \ ps : request[p] = v.request[p] /\ busy[p] = v.busy[p]
  BY <1>1 DEF View
<1>7. \A p \in Pipelines : busy[p] => request[p] \in timers
  <2> SUFFICES ASSUME NEW p \in Pipelines, busy[p] PROVE request[p] \in timers
    OBVIOUS
  <2>1. p \notin ps /\ request[p] = v.request[p] /\ v.request[p] \in v.timers
    BY DEF ViewInv, PipelinesStand
  <2>2. v.request[p] # None
    BY <1>1, <2>1, NoneIsNone DEF View
  <2>3. v.request[p] \notin gone
    BY <2>1, <2>2 DEF ViewInv, PipelinesStand
  <2>4. QED
    BY <2>1, <2>3
<1> HIDE DEF timers, request, busy, stage, text, context, forget, w
<1>8. /\ w \in View
      /\ w.timers = timers /\ w.request = request /\ w.busy = busy /\ w.stage = stage
      /\ w.text = text /\ w.context = context /\ w.forget = forget /\ w.spent = v.spent
  BY <1>1, <1>2, <1>3, <1>4 DEF View
<1>9. PipelinesStand(c, w)
  BY <1>6, <1>7, <1>8 DEF ViewInv, PipelinesStand, Sent
<1>10. ChatStands(c, w)
  <2>1. CASE "preChat" \in ps
    BY <1>6, <1>8, <2>1, Names, NoneIsNone DEF ChatStands, context
  <2>2. CASE "preChat" \notin ps
    BY <1>6, <1>8, <2>2, Names DEF ViewInv, ChatStands, context, text
  <2>3. QED
    BY <2>1, <2>2
<1>11. ForgetStands(c, w)
  <2>1. CASE "forgetPreview" \in ps
    BY <1>4, <1>6, <1>8, <2>1, Names DEF ViewInv, ForgetStands, Sent
  <2>2. CASE "forgetPreview" \notin ps
    BY <1>4, <1>5, <1>6, <1>8, <2>2, Names DEF ViewInv, ForgetStands
  <2>3. QED
    BY <2>1, <2>2
<1>12. QED
  BY <1>6, <1>8, <1>9, <1>10, <1>11 DEF ViewInv, w

\* An entry that sends nothing, after a reset.
LEMMA ResetEntry ==
    ASSUME IInv, Shrinks(client, client'), NEW ps \in SUBSET Pipelines,
           vm' = Told(Reset(vm, ps), "failed")
    PROVE  IInv' /\ Quiet
<1> DEFINE v == Reset(vm, ps)
<1>1. ClientInv(client') /\ client'.wire \subseteq client.wire /\ client'.age = client.age
  BY DEF Shrinks
<1>2. client.wire \subseteq Requests
  BY DEF IInv, ClientInv, Client
<1>3. /\ ViewInv(client, v) /\ v \in View
      /\ v.request["forgetExecute"] \in {None, vm.request["forgetExecute"]}
  BY <1>2, ResetKeeps, Names DEF IInv, ViewInv
<1> HIDE DEF v
<1>4. Almost(client, v, {})
  BY <1>3, AlmostIs
<1>5. Almost(client', Told(v, "failed"), {})
  BY <1>1, <1>4, ToldKeeps
<1>6. ViewInv(client', vm')
  BY <1>5, AlmostIs DEF v
<1>7. Told(v, "failed").request["forgetExecute"] \in {None, v.request["forgetExecute"]}
  BY <1>3, ToldIs, Names
<1>8. QED
  BY <1>1, <1>3, <1>6, <1>7 DEF IInv, Quiet, v

-----------------------------------------------------------------------------
(* Answers *)

\* A pipeline p ends in stage s: its request was dropped before, and a preview
\* that waits for its confirmation is one that may be executed.
LEMMA EndKeeps ==
    ASSUME NEW c, c.wire \subseteq Requests, NEW p \in Pipelines, NEW v, Almost(c, v, {p}),
           v.request[p] = None, NEW x, SameButForget(v, x), NEW s \in Stages,
           Sent(c, x.forget.credential),
           IF p \in Forget
           THEN s = "awaiting_confirmation" /\ x.forget.live =>
                  x.forget.credential = x.forget.hash /\ x.forget.credential \notin x.spent
           ELSE x.forget = v.forget /\ x.stage = v.stage
    PROVE  ViewInv(c, Ends(x, p, s)) /\ Ends(x, p, s).request = v.request
<1> DEFINE w == Ends(x, p, s)
<1>1. v \in View /\ x \in View
  BY DEF Almost, SameButForget
<1>2. /\ SameButFlags(x, w) /\ w.busy = [x.busy EXCEPT ![p] = FALSE]
      /\ w.stage["forget"] = IF p \in Forget THEN s ELSE x.stage["forget"]
  BY <1>1, EndsIs
<1> HIDE DEF w
<1>3. /\ w \in View
      /\ w.request = v.request /\ w.timers = v.timers /\ w.text = v.text
      /\ w.context = v.context /\ w.spent = v.spent /\ w.forget = x.forget
      /\ w.busy = [v.busy EXCEPT ![p] = FALSE]
  BY <1>2 DEF SameButFlags, SameButForget
<1>4. \A q \in Pipelines : w.busy[q] = (v.busy[q] /\ q # p)
  BY <1>1, <1>3 DEF View
<1>5. PipelinesStand(c, w)
  <2>1. \A q \in Pipelines : w.busy[q] => w.request[q] \in w.timers
    BY <1>3, <1>4 DEF Almost
  <2>2. /\ \A q \in Pipelines : Sent(c, w.request[q])
        /\ \A q, t \in Pipelines : q # t /\ w.request[q] = w.request[t] => w.request[q] = None
    BY <1>3 DEF Almost
  <2>3. QED
    BY <2>1, <2>2 DEF PipelinesStand
<1>6. ChatStands(c, w)
  <2>1. w.request["preChat"] \in c.wire => p # "preChat"
    BY <1>3, NoneIsNone
  <2>2. QED
    BY <1>3, <1>4, <2>1, Names DEF Almost, ChatStands
<1>7. ForgetStands(c, w)
  <2>1. w.request["forgetPreview"] # None => p # "forgetPreview"
    BY <1>3
  <2>2. w.request["forgetPreview"] # None =>
           w.busy["forgetPreview"] /\ w.request["forgetPreview"] \notin w.spent
    BY <1>3, <1>4, <2>1, Names DEF Almost, ForgetStands
  <2>3. w.forget.live /\ w.stage["forget"] = "awaiting_confirmation" =>
           w.forget.credential = w.forget.hash /\ w.forget.credential \notin w.spent
    <3>1. CASE p \in Forget
      BY <1>2, <1>3, <3>1 DEF SameButForget
    <3>2. CASE p \notin Forget
      BY <1>2, <1>3, <3>2 DEF Almost, ForgetStands
    <3>3. QED
      BY <3>1, <3>2
  <2>4. QED
    BY <1>3, <2>2, <2>3 DEF Almost, ForgetStands
<1>8. QED
  BY <1>3, <1>5, <1>6, <1>7 DEF ViewInv, w

\* The answer for pipeline p has come: its request and its timer are dropped.
Dropped(v, p, r) ==
    [v EXCEPT !.timers = v.timers \ {r}, !.request = [v.request EXCEPT ![p] = None]]

\* Nothing else of the view model changes, and it stands but for the busy flag.
LEMMA DroppedIs ==
    ASSUME NEW c, c.wire \subseteq Requests, NEW v, ViewInv(c, v), NEW p \in Pipelines,
           NEW r \in Requests, v.request[p] = r
    PROVE  LET w == Dropped(v, p, r) IN
           /\ Almost(c, w, {p}) /\ w.request[p] = None
           /\ \A q \in Pipelines : w.request[q] \in {None, v.request[q]}
           /\ w.text = v.text /\ w.context = v.context /\ w.assembled = v.assembled
           /\ w.forget = v.forget /\ w.spent = v.spent /\ w.stage = v.stage
<1> DEFINE timers == v.timers \ {r}
           request == [v.request EXCEPT ![p] = None]
           w == Dropped(v, p, r)
<1>0. w = [v EXCEPT !.timers = timers, !.request = request]
  BY DEF Dropped
<1>1. v \in View
  BY DEF ViewInv
<1>2. /\ timers \in SUBSET Requests /\ request \in [Pipelines -> Ref]
      /\ request[p] = None /\ \A q \in Pipelines \ {p} : request[q] = v.request[q]
  BY <1>1, NoneIsNone DEF View
<1>3. \A q \in Pipelines \ {p} : v.request[q] # r
  BY NoneIsNone DEF ViewInv, PipelinesStand
<1>4. \A q \in Pipelines \ {p} : v.busy[q] => request[q] \in timers
  BY <1>2, <1>3 DEF ViewInv, PipelinesStand
<1> HIDE DEF timers, request, w
<1>5. /\ w \in View /\ w.timers = timers /\ w.request = request /\ w.busy = v.busy
      /\ w.text = v.text /\ w.context = v.context /\ w.assembled = v.assembled
      /\ w.forget = v.forget /\ w.spent = v.spent /\ w.stage = v.stage
  BY <1>0, <1>1, <1>2 DEF View
<1>6. \A q \in Pipelines : Sent(c, w.request[q])
  BY <1>2, <1>5 DEF ViewInv, PipelinesStand, Sent
<1>7. \A q, s \in Pipelines : q # s /\ w.request[q] = w.request[s] => w.request[q] = None
  BY <1>2, <1>5 DEF ViewInv, PipelinesStand
<1>8. ChatStands(c, w)
  <2>1. w.request["preChat"] \in c.wire => w.request["preChat"] = v.request["preChat"]
    BY <1>2, <1>5, Names, NoneIsNone
  <2>2. QED
    BY <1>5, <2>1 DEF ViewInv, ChatStands
<1>9. ForgetStands(c, w)
  <2>1. w.request["forgetPreview"] \in {None, v.request["forgetPreview"]}
    BY <1>2, <1>5, Names
  <2>2. QED
    BY <1>5, <2>1 DEF ViewInv, ForgetStands
<1>10. QED
  BY <1>2, <1>4, <1>5, <1>6, <1>7, <1>8, <1>9 DEF Almost, w, timers, request

\* What a preview shows may be confirmed: it is the preview of the request that
\* was answered, and no execution has been sent with it.
LEMMA PreviewedIs ==
    ASSUME NEW c, c.wire \subseteq Requests, NEW v, Almost(c, v, {"forgetPreview"}),
           v.request["forgetPreview"] = None, NEW r \in Requests, r \notin v.spent,
           Sent(c, r), NEW own \in BOOLEAN, NEW cred \in BOOLEAN, NEW hash \in BOOLEAN,
           NEW n \in 0..1
    PROVE  /\ ViewInv(c, Previewed(v, r, own, cred, hash, n))
           /\ Previewed(v, r, own, cred, hash, n).request = v.request
<1> DEFINE p == "forgetPreview"
           f == [v.forget EXCEPT !.credential = IF cred THEN r ELSE v.forget.credential,
                                 !.live = cred, !.selector = FALSE]
           none == [NoPreview(v.forget) EXCEPT !.selector = FALSE]
           full == [f EXCEPT !.hash = r, !.expected = n]
<1>1. p \in Pipelines /\ p \in Forget /\ {"failed", "awaiting_confirmation"} \subseteq Stages
  BY DEF Pipelines, Forget, Stages, Finished
<1>2. v \in View /\ v.forget \in ForgetView /\ Sent(c, v.forget.credential)
  BY DEF Almost, View, ForgetStands
<1>3. none \in ForgetView /\ none.credential = None /\ ~none.live
  BY <1>2, NoPreviewIs
<1>4. /\ f \in ForgetView /\ f.credential \in {r, v.forget.credential}
      /\ f.live = cred /\ (cred => f.credential = r)
  BY <1>2 DEF ForgetView, Ref
<1> HIDE DEF none, f
<1>5. /\ full \in ForgetView /\ full.credential = f.credential
      /\ full.live = cred /\ full.hash = r
  BY <1>4 DEF ForgetView, Ref
<1> HIDE DEF full
<1>6. \A g \in {none, f, full} : g \in ForgetView /\ Sent(c, g.credential)
  BY <1>2, <1>3, <1>4, <1>5 DEF Sent
<1>7. ASSUME NEW g \in {none, f, full}
      PROVE  /\ SameButForget(v, [v EXCEPT !.forget = g])
             /\ [v EXCEPT !.forget = g].forget = g
  BY <1>2, <1>6, ForgetSet
<1>8. ASSUME NEW g \in {none, f, full}
      PROVE  /\ ViewInv(c, Ends([v EXCEPT !.forget = g], p, "failed"))
             /\ Ends([v EXCEPT !.forget = g], p, "failed").request = v.request
  <2> DEFINE x == [v EXCEPT !.forget = g]
  <2>1. SameButForget(v, x) /\ x.forget = g
    BY <1>7
  <2> HIDE DEF x
  <2>2. /\ ViewInv(c, Ends(x, p, "failed"))
        /\ Ends(x, p, "failed").request = v.request
    BY <1>1, <1>6, <2>1, EndKeeps
  <2>3. QED
    BY <2>2 DEF x
<1>9. /\ ViewInv(c, Ends([v EXCEPT !.forget = full], p, "awaiting_confirmation"))
      /\ Ends([v EXCEPT !.forget = full], p, "awaiting_confirmation").request = v.request
  <2> DEFINE x == [v EXCEPT !.forget = full]
  <2>1. SameButForget(v, x) /\ x.forget = full
    BY <1>7
  <2> HIDE DEF x
  <2>2. x.forget.live =>
           x.forget.credential = x.forget.hash /\ x.forget.credential \notin x.spent
    BY <1>4, <1>5, <2>1 DEF SameButForget
  <2>3. /\ ViewInv(c, Ends(x, p, "awaiting_confirmation"))
        /\ Ends(x, p, "awaiting_confirmation").request = v.request
    BY <1>1, <1>6, <2>1, <2>2, EndKeeps
  <2>4. QED
    BY <2>3 DEF x
<1>10. QED
  BY <1>8, <1>9 DEF Previewed, f, none, full

\* After an execution there is nothing left to confirm.
LEMMA ExecutedIs ==
    ASSUME NEW c, c.wire \subseteq Requests, NEW v, Almost(c, v, {"forgetExecute"}),
           v.request["forgetExecute"] = None, NEW n \in -1..1
    PROVE  ViewInv(c, Executed(v, n)) /\ Executed(v, n).request = v.request
<1> DEFINE p == "forgetExecute"
           g == [v.forget EXCEPT !.executed = n]
           d == [v.forget EXCEPT !.executed = n, !.credential = None, !.live = FALSE]
<1>1. p \in Pipelines /\ p \in Forget /\ {"failed", "completed"} \subseteq Stages
  BY DEF Pipelines, Forget, Stages, Finished
<1>2. v \in View /\ v.forget \in ForgetView /\ Sent(c, v.forget.credential)
  BY DEF Almost, View, ForgetStands
<1>3. /\ g \in ForgetView /\ g.credential = v.forget.credential
      /\ d \in ForgetView /\ d.credential = None
  BY <1>2, NoneIsNone DEF ForgetView
<1>4. Sent(c, g.credential) /\ Sent(c, d.credential)
  BY <1>2, <1>3 DEF Sent
<1> HIDE DEF g, d
<1>5. ASSUME NEW h \in {g, d}, NEW s \in {"failed", "completed"}
      PROVE  /\ ViewInv(c, Ends([v EXCEPT !.forget = h], p, s))
             /\ Ends([v EXCEPT !.forget = h], p, s).request = v.request
  <2> DEFINE x == [v EXCEPT !.forget = h]
  <2>1. SameButForget(v, x) /\ x.forget = h
    BY <1>2, <1>3, ForgetSet
  <2> HIDE DEF x
  <2>2. ViewInv(c, Ends(x, p, s)) /\ Ends(x, p, s).request = v.request
    BY <1>1, <1>4, <2>1, EndKeeps
  <2>3. QED
    BY <2>2 DEF x
<1>6. QED
  BY <1>5 DEF Executed, g, d

\* A response is read.  Late, repeated and unknown ones change nothing here.
LEMMA ReadResponseKeeps ==
    ASSUME IInv, NEW r \in Requests, ReadResponse(r)
    PROVE  IInv' /\ Quiet
<1>1. PICK mismatch \in BOOLEAN :
         /\ client' = Answered(client, r, mismatch)
         /\ IF ~Accepted(client, r, mismatch)
            THEN vm' = Told(vm, IF client.age[r] = "overdue" THEN "timeout" ELSE "failed")
            ELSE \/ vm' = Failed(vm, {r}, "failed")
                 \/ /\ Waiting(vm, {r}) = {}
                    /\ vm' = [vm EXCEPT !.timers = vm.timers \ {r}]
                 \/ \E p \in Waiting(vm, {r}) : Received(vm, p, r)
  BY DEF ReadResponse
<1>2. ClientInv(client) /\ ViewInv(client, vm) /\ vm \in View
  BY DEF IInv, ViewInv
<1>3. Shrinks(client, client') /\ client'.wire = client.wire
  <2>1. CASE r \in client.pending
    <3>1. {r} \in SUBSET client.pending
      BY <2>1
    <3>2. client' = Expired(client, {r})
      BY <1>1, <2>1 DEF Answered
    <3>3. QED
      BY <1>2, <3>1, <3>2, ExpiredIs
  <2>2. CASE r \notin client.pending
    BY <1>1, <1>2, <2>2 DEF Answered, Shrinks
  <2>3. QED
    BY <2>1, <2>2
<1>4. CASE ~Accepted(client, r, mismatch)
  <2>1. \E code \in {"failed", "timeout"} : vm' = Told(vm, code)
    BY <1>1, <1>4
  <2>2. QED
    BY <1>3, <2>1, Entry
<1>5. CASE Accepted(client, r, mismatch)
  <2>1. ClientInv(client') /\ client'.age = client.age
    BY <1>3 DEF Shrinks
  <2>2. client'.wire \subseteq Requests /\ r \in client'.wire /\ client'.age[r] # "unsent"
    BY <1>2, <1>3, <1>5, <2>1 DEF Accepted, ClientInv, Client, Accounted, ReadResponse
  <2>3. Almost(client', vm, {}) /\ ViewInv(client', vm)
    BY <1>2, <1>3, <2>1, <2>2, AlmostIs, ClientMoves
  <2>4. SUFFICES ViewInv(client', vm') /\ Quiet
    BY <2>1 DEF IInv
  <2>5. CASE vm' = Failed(vm, {r}, "failed")
    <3>1. ViewInv(client', vm')
      BY <2>2, <2>3, <2>5, AlmostIs, FailedKeeps
    <3>2. Quiet
      BY <1>2, <2>5, FailedIs, Names DEF Quiet
    <3>3. QED
      BY <3>1, <3>2
  <2>6. CASE Waiting(vm, {r}) = {} /\ vm' = [vm EXCEPT !.timers = vm.timers \ {r}]
    <3>1. /\ vm' \in View /\ vm'.timers = vm.timers \ {r}
          /\ vm'.request = vm.request /\ vm'.busy = vm.busy /\ vm'.stage = vm.stage
          /\ vm'.text = vm.text /\ vm'.context = vm.context
          /\ vm'.forget = vm.forget /\ vm'.spent = vm.spent
      BY <1>2, <2>6 DEF View
    <3>2. \A p \in Pipelines : vm.request[p] # r
      BY <2>6 DEF Waiting
    <3>3. PipelinesStand(client', vm')
      BY <2>3, <3>1, <3>2 DEF ViewInv, PipelinesStand
    <3>4. ChatStands(client', vm') /\ ForgetStands(client', vm')
      BY <2>3, <3>1 DEF ViewInv, ChatStands, ForgetStands
    <3>5. QED
      BY <3>1, <3>3, <3>4 DEF ViewInv, Quiet
  <2>7. ASSUME NEW p \in Waiting(vm, {r}), Received(vm, p, r)
        PROVE  ViewInv(client', vm') /\ Quiet
    <3> DEFINE c == client'
               w == Dropped(vm, p, r)
    <3>1. p \in Pipelines /\ vm.request[p] = r
      BY <2>7 DEF Waiting
    <3>2. /\ Almost(c, w, {p}) /\ w.request[p] = None
          /\ w.request["forgetExecute"] \in {None, vm.request["forgetExecute"]}
          /\ w.text = vm.text /\ w.context = vm.context /\ w.assembled = vm.assembled
          /\ w.forget = vm.forget /\ w.spent = vm.spent /\ w.stage = vm.stage
      <4>1. ViewInv(c, vm) /\ c.wire \subseteq Requests
        BY <2>2, <2>3
      <4> HIDE DEF c
      <4>2. QED
        BY <3>1, <4>1, DroppedIs, Names
    <3>3. w \in View /\ Sent(c, w.forget.credential)
      BY <3>2 DEF Almost, ForgetStands
    <3>4. {"ready", "sent", "failed"} \subseteq Stages
      BY DEF Stages, Finished
    <3>5. CASE p = "preChat" /\ \E m \in {None, r} :
                 vm' = Ends([w EXCEPT !.context = m], p, "ready")
      <4>1. PICK m \in {None, r} : vm' = Ends([w EXCEPT !.context = m], p, "ready")
        BY <3>5
      <4> DEFINE x == [w EXCEPT !.context = m]
      <4> HIDE DEF w, c
      <4>2. m \in Ref
        BY NoneIsNone DEF Ref
      <4>3. /\ x \in View /\ x.context = m
            /\ x.request = w.request /\ x.timers = w.timers /\ x.busy = w.busy
            /\ x.stage = w.stage /\ x.text = w.text /\ x.forget = w.forget
            /\ x.spent = w.spent
        BY <3>3, <4>2 DEF View
      <4>4. vm.text = r
        BY <2>2, <2>3, <3>1, <3>5 DEF ViewInv, ChatStands
      <4>5. ChatStands(c, x)
        BY <2>2, <3>2, <3>5, <4>3, <4>4, NoneIsNone DEF ChatStands, c
      <4>6. Almost(c, x, {p})
        BY <3>2, <4>3, <4>5 DEF Almost, ForgetStands
      <4> HIDE DEF x
      <4>7. SameButForget(x, x) /\ p \notin Forget /\ Sent(c, x.forget.credential)
        BY <3>3, <3>5, <4>3 DEF SameButForget, Forget
      <4>8. ViewInv(c, Ends(x, p, "ready")) /\ Ends(x, p, "ready").request = x.request
        BY <2>2, <3>1, <3>2, <3>4, <4>3, <4>6, <4>7, EndKeeps DEF c
      <4>9. QED
        <5>1. vm' = Ends(x, p, "ready") /\ x.request = w.request
          BY <4>1, <4>3 DEF x
        <5>2. QED
          BY <3>2, <4>8, <5>1 DEF c, Quiet
    <3>6. ASSUME p \notin Forget, NEW s \in {"ready", "sent", "failed"}
          PROVE  \A x \in {w} \cup {[w EXCEPT !.assembled = m] : m \in {None, r}} :
                    ViewInv(c, Ends(x, p, s)) /\ Ends(x, p, s).request = w.request
      <4> HIDE DEF w, c
      <4>1. SameButForget(w, w)
        BY <3>3 DEF SameButForget
      <4>2. ViewInv(c, Ends(w, p, s)) /\ Ends(w, p, s).request = w.request
        BY <2>2, <3>1, <3>2, <3>3, <3>4, <3>6, <4>1, EndKeeps DEF c
      <4>3. ASSUME NEW m \in {None, r}
            PROVE  /\ ViewInv(c, Ends([w EXCEPT !.assembled = m], p, s))
                   /\ Ends([w EXCEPT !.assembled = m], p, s).request = w.request
        <5> DEFINE x == [w EXCEPT !.assembled = m]
        <5>1. m \in Ref
          BY NoneIsNone DEF Ref
        <5>2. SameButForget(w, x) /\ x.forget = w.forget /\ x.stage = w.stage
          BY <3>3, <5>1 DEF View, SameButForget
        <5> HIDE DEF x
        <5>3. ViewInv(c, Ends(x, p, s)) /\ Ends(x, p, s).request = w.request
          BY <2>2, <3>1, <3>2, <3>3, <3>4, <3>6, <5>2, EndKeeps DEF c
        <5>4. QED
          BY <5>3 DEF x
      <4>4. QED
        BY <4>2, <4>3
    <3>7. \A q \in Sending \cup Asking : q \notin Forget
      BY DEF Sending, Asking, Forget
    <3>8. CASE p \in Sending \ {"preChat"} /\ vm' = Ends(w, p, "sent")
      BY <3>2, <3>6, <3>7, <3>8 DEF Quiet
    <3>9. CASE p \in Asking \ {"contextAssemble"} /\ vm' = Ends(w, p, "ready")
      BY <3>2, <3>6, <3>7, <3>9 DEF Quiet
    <3>10. CASE p = "contextAssemble"
                /\ \/ vm' = Ends([w EXCEPT !.assembled = r], p, "ready")
                   \/ vm' = Ends([w EXCEPT !.assembled = None], p, "failed")
      <4>1. p \notin Forget
        BY <3>10 DEF Forget
      <4>2. QED
        BY <3>2, <3>6, <3>10, <4>1 DEF Quiet
    <3>11. CASE p = "forgetPreview" /\ \E own, cred, hash \in BOOLEAN, n \in 0..1 :
                  vm' = Previewed(w, r, own, cred, hash, n)
      <4>1. r \notin w.spent /\ Sent(c, r)
        BY <2>2, <2>3, <3>1, <3>2, <3>11, NoneIsNone DEF ViewInv, ForgetStands, Sent
      <4> HIDE DEF w
      <4>2. QED
        BY <2>2, <3>2, <3>11, <4>1, PreviewedIs DEF Quiet
    <3>12. CASE p = "forgetExecute" /\ \E n \in -1..1 : vm' = Executed(w, n)
      <4> HIDE DEF w
      <4>1. QED
        BY <2>2, <3>2, <3>12, ExecutedIs DEF Quiet
    <3>13. \/ p = "preChat" /\ \E m \in {None, r} :
                vm' = Ends([w EXCEPT !.context = m], p, "ready")
           \/ p \in Sending \ {"preChat"} /\ vm' = Ends(w, p, "sent")
           \/ p \in Asking \ {"contextAssemble"} /\ vm' = Ends(w, p, "ready")
           \/ p = "contextAssemble"
              /\ \/ vm' = Ends([w EXCEPT !.assembled = r], p, "ready")
                 \/ vm' = Ends([w EXCEPT !.assembled = None], p, "failed")
           \/ p = "forgetPreview" /\ \E own, cred, hash \in BOOLEAN, n \in 0..1 :
                vm' = Previewed(w, r, own, cred, hash, n)
           \/ p = "forgetExecute" /\ \E n \in -1..1 : vm' = Executed(w, n)
      BY <2>7 DEF Received, Dropped
    <3>14. QED
      BY <3>5, <3>8, <3>9, <3>10, <3>11, <3>12, <3>13
  <2>8. QED
    BY <1>1, <1>5, <2>5, <2>6, <2>7
<1>6. QED
  BY <1>4, <1>5

-----------------------------------------------------------------------------
(* Time *)

\* The deadlines of a request pass.
LEMMA TimePassesKeeps ==
    ASSUME IInv, NEW r \in Requests, TimePasses(r)
    PROVE  IInv' /\ Quiet
<1>1. PICK a \in {"due", "overdue"} :
         /\ client.age[r] # "unsent"
         /\ client' = [client EXCEPT !.age = [client.age EXCEPT ![r] = a]]
  BY DEF TimePasses
<1> DEFINE age == [client.age EXCEPT ![r] = a]
<1>2. ClientInv(client) /\ client \in Client /\ client.age \in [Requests -> Age]
  BY DEF IInv, ClientInv, Client
<1>3. /\ age \in [Requests -> Age]
      /\ \A q \in Requests : age[q] = "unsent" <=> client.age[q] = "unsent"
  BY <1>1, <1>2 DEF Age
<1> HIDE DEF age
<1>4. /\ client' \in Client /\ client'.age = age
      /\ client'.pending = client.pending /\ client'.timers = client.timers
      /\ client'.wire = client.wire /\ client'.heard = client.heard
      /\ client'.conn = client.conn /\ client'.socket = client.socket
  BY <1>1, <1>2, <1>3 DEF Client, age
<1>5. ClientInv(client')
  <2>1. Accounted(client')
    BY <1>2, <1>3, <1>4 DEF ClientInv, Accounted
  <2>2. QED
    BY <1>2, <1>4, <2>1 DEF ClientInv, WireStands
<1>6. Almost(client, vm, {}) /\ vm' = vm
  BY AlmostIs DEF IInv, TimePasses
<1>7. client'.wire \subseteq Requests
  BY <1>4 DEF Client
<1>8. Almost(client', vm, {})
  BY <1>3, <1>4, <1>6, <1>7, ClientMoves
<1>9. QED
  BY <1>5, <1>6, <1>8, AlmostIs DEF IInv, Quiet

\* The view model's deadline closes the pipeline, and the client is not told.
LEMMA ViewDeadlineKeeps ==
    ASSUME IInv, NEW r \in Requests, ViewDeadline(r)
    PROVE  IInv' /\ Quiet
<1>1. Almost(client, vm, {}) /\ client.wire \subseteq Requests
  BY AlmostIs DEF IInv, ClientInv, Client
<1>2. Almost(client, Failed(vm, {r}, "timeout"), {})
  BY <1>1, FailedKeeps
<1>3. Quiet
  BY FailedIs, Names DEF IInv, ViewInv, ViewDeadline, Quiet
<1>4. QED
  BY <1>2, <1>3, AlmostIs DEF ViewDeadline, IInv

\* The client's deadline fails the request.
LEMMA ClientDeadlineKeeps ==
    ASSUME IInv, NEW r \in Requests, ClientDeadline(r)
    PROVE  IInv' /\ Quiet
<1>1. {r} \in SUBSET client.pending /\ ClientInv(client)
  BY DEF IInv, ClientInv, ClientDeadline
<1>2. Shrinks(client, client')
  BY <1>1, ExpiredIs DEF ClientDeadline
<1>3. QED
  BY <1>2, Entry DEF ClientDeadline

-----------------------------------------------------------------------------
(* The invariant *)

\* A new program is in order.
LEMMA InitIs == Init => IInv
<1> SUFFICES ASSUME Init PROVE IInv
  OBVIOUS
<1>1. ClientInv(client) /\ client.wire = {}
  BY NewClientIs DEF Init, NewClient
<1>2. -1 \in -1..1 /\ 0 \in 0..1
  OBVIOUS
<1>3. /\ vm \in View /\ vm.spent = {}
      /\ \A p \in Pipelines : vm.request[p] = None /\ vm.busy[p] = FALSE
      /\ vm.context = None /\ vm.forget.credential = None /\ vm.forget.live = FALSE
  BY <1>2, NoneIsNone DEF Init, View, ForgetView, Stages
<1>4. PipelinesStand(client, vm)
  BY <1>3 DEF PipelinesStand, Sent
<1>5. ChatStands(client, vm) /\ ForgetStands(client, vm)
  BY <1>1, <1>3, Names DEF ChatStands, ForgetStands, Sent
<1>6. QED
  BY <1>1, <1>3, <1>4, <1>5 DEF IInv, ViewInv

\* A pipeline is started, or refuses.
LEMMA RunPipelineKeeps ==
    ASSUME IInv, RunPipeline
    PROVE  IInv' /\ (Quiet \/ MayExecute)
<1>1. vm \in View
  BY DEF IInv, ViewInv
<1>2. SameButChat(vm) /\ {"querying", "sending"} \subseteq Stages
  BY <1>1 DEF SameButChat, Stages, InProgress
<1>3. CASE RunPreChat
  <2> DEFINE v == [vm EXCEPT !.text = None, !.context = None]
             w == [vm EXCEPT !.text = FreshRequest, !.context = None]
  <2>1. CASE NotRun("preChat", v)
    <3>1. SameButChat(v) /\ v.context = None
      BY <1>1, NoneIsNone DEF View, SameButChat
    <3> HIDE DEF v
    <3>2. QED
      BY <2>1, <3>1, NotRunKeeps DEF Sending
  <2>2. CASE Run("preChat", w, "querying")
    <3>1. FreshRequest \in Ref
      BY <2>2, FreshIs DEF Run, SendRequest, Ref
    <3>2. SameButChat(w) /\ w.text = FreshRequest /\ w.context = None
      BY <1>1, <3>1, NoneIsNone DEF View, SameButChat
    <3> HIDE DEF w
    <3>3. QED
      BY <2>2, <3>2, RunKeeps DEF Sending
  <2>3. QED
    BY <1>3, <2>1, <2>2 DEF RunPreChat
<1>4. ASSUME NEW p \in Sending \ {"preChat"}, NotRun(p, vm) \/ Run(p, vm, "sending")
      PROVE  IInv' /\ Quiet
  BY <1>2, <1>4, NotRunKeeps, RunKeeps
<1>5. CASE RunPostTurn \/ RunTool \/ RunManualConfig \/ RunBehavior
  BY <1>4, <1>5 DEF RunPostTurn, RunTool, RunManualConfig, RunBehavior, Sending
<1>6. ASSUME NEW p \in Asking, Ask(p, vm, vm, "querying")
      PROVE  IInv' /\ Quiet
  BY <1>2, <1>6, AskKeeps
<1>7. CASE StartPreference \/ RunKnowledgeDetail \/ RunConflictCompare \/ RunLifecycleStatus
  BY <1>6, <1>7 DEF StartPreference, RunKnowledgeDetail, RunConflictCompare,
                    RunLifecycleStatus, Asking
<1>8. CASE RunContextAssemble
  <2> DEFINE v == [vm EXCEPT !.assembled = None]
  <2>1. SameButChat(v) /\ v.text = vm.text /\ v.context = vm.context
    BY <1>1, NoneIsNone DEF View, SameButChat
  <2>2. Ask("contextAssemble", v, v, "querying")
    BY <1>8 DEF RunContextAssemble
  <2> HIDE DEF v
  <2>3. QED
    BY <2>1, <2>2, AskKeeps DEF Asking
<1>9. CASE RunForgetExecute
  BY <1>9, ExecuteKeeps, ExecuteIsQuiet
<1>10. QED
  BY <1>3, <1>5, <1>7, <1>8, <1>9, PreviewKeeps DEF RunPipeline

\* The entries into the client by its buttons, its socket and its timer.
LEMMA ConnectionKeeps ==
    ASSUME IInv,
           \/ ReadGarbage \/ Connect \/ Stop \/ RetryConnect \/ SetAutoReconnect
           \/ ReconnectTimer \/ SocketConnects \/ SocketRefuses \/ PeerCloses
           \/ SocketDisconnected
    PROVE  IInv' /\ Quiet
<1>1. ClientInv(client)
  BY DEF IInv
<1>2. CASE ReadGarbage
  BY <1>1, <1>2, MalformedIs, Entry DEF ReadGarbage
<1>3. CASE Connect
  BY <1>1, <1>3, ConnectedIs, Entry DEF Connect
<1>4. ResetPipelines \in SUBSET Pipelines
  BY DEF ResetPipelines
<1>5. CASE Stop
  BY <1>1, <1>4, <1>5, StoppedIs, ResetEntry DEF Stop
<1>6. CASE RetryConnect
  BY <1>1, <1>4, <1>6, RetriedIs, ResetEntry DEF RetryConnect
<1>7. CASE SetAutoReconnect
  BY <1>1, <1>7, AutoSetIs, Entry DEF SetAutoReconnect
<1>8. CASE ReconnectTimer
  BY <1>1, <1>8, TimerFiredIs, Entry DEF ReconnectTimer
<1>9. CASE SocketConnects
  BY <1>1, <1>9, DialSucceededIs, Entry DEF SocketConnects
<1>10. CASE SocketRefuses
  BY <1>1, <1>10, DialFailedIs, Entry DEF SocketRefuses
<1>11. CASE PeerCloses
  <2> DEFINE d == [client EXCEPT !.gone = TRUE]
  <2>1. /\ d \in Client /\ d.pending = client.pending /\ d.timers = client.timers
        /\ d.wire = client.wire /\ d.age = client.age /\ d.heard = client.heard
        /\ d.conn = client.conn /\ d.socket = client.socket
    BY <1>1 DEF ClientInv, Client
  <2> HIDE DEF d
  <2>2. Shrinks(client, d)
    BY <1>1, <2>1, SameRequests DEF ClientInv, WireStands
  <2>3. QED
    BY <1>11, <2>2, Entry DEF PeerCloses, d
<1>12. CASE SocketDisconnected
  <2>1. Shrinks(client, client')
    BY <1>1, <1>12, DisconnectedIs DEF SocketDisconnected
  <2>2. QED
    BY <1>12, <2>1, Entry DEF SocketDisconnected
<1>13. QED
  BY <1>2, <1>3, <1>5, <1>6, <1>7, <1>8, <1>9, <1>10, <1>11, <1>12

\* The invariant is kept by every step, and only a confirmed preview is executed.
LEMMA StepKeeps == IInv /\ [Next]_vars => IInv' /\ (Quiet \/ MayExecute)
<1> SUFFICES ASSUME IInv, [Next]_vars PROVE IInv' /\ (Quiet \/ MayExecute)
  OBVIOUS
<1>1. CASE RunPipeline
  BY <1>1, RunPipelineKeeps
<1>2. ASSUME NEW r \in Requests,
             ReadResponse(r) \/ TimePasses(r) \/ ViewDeadline(r) \/ ClientDeadline(r)
      PROVE  IInv' /\ Quiet
  BY <1>2, ReadResponseKeeps, TimePassesKeeps, ViewDeadlineKeeps, ClientDeadlineKeeps
<1>3. CASE CredentialExpires
  BY <1>3, CredentialExpiresKeeps
<1>4. ASSUME NEW p \in Pipelines, ResetOne(p)
      PROVE  IInv' /\ Quiet
  <2>1. client.wire \subseteq Requests /\ ViewInv(client, vm)
    BY DEF IInv, ClientInv, Client
  <2>2. {p} \in SUBSET Pipelines
    OBVIOUS
  <2>3. /\ ViewInv(client, Reset(vm, {p}))
        /\ \A q \in Pipelines : Reset(vm, {p}).request[q] \in {None, vm.request[q]}
    BY <2>1, <2>2, ResetKeeps
  <2>4. QED
    BY <1>4, <2>3, Names DEF ResetOne, IInv, Quiet
<1>5. CASE \/ ReadGarbage \/ Connect \/ Stop \/ RetryConnect \/ SetAutoReconnect
           \/ ReconnectTimer \/ SocketConnects \/ SocketRefuses \/ PeerCloses
           \/ SocketDisconnected
  BY <1>5, ConnectionKeeps
<1>6. CASE UNCHANGED vars
  BY <1>6 DEF vars, IInv, Quiet
<1>7. QED
  BY <1>1, <1>2, <1>3, <1>4, <1>5, <1>6 DEF Next

\* The inductive invariant holds in every reachable state: of any number of
\* requests, pipelines, lost connections and reconnections in any order.
THEOREM Invariance == Spec => []IInv
<1>1. Init => IInv
  BY InitIs
<1>2. IInv /\ [Next]_vars => IInv'
  BY StepKeeps
<1>3. QED
  BY <1>1, <1>2, PTL DEF Spec

\* The client and the view model only hold states of their types.
THEOREM TypeCorrect == Spec => []TypeOK
<1>1. IInv => TypeOK
  BY DEF IInv, ClientInv, ViewInv, TypeOK
<1>2. QED
  BY <1>1, Invariance, PTL

\* The caller of every request that was sent is told once how it ended, and no
\* pipeline is busy without a timer that will close it.
THEOREM RequestsEndOnce == Spec => []EveryRequestEndsOnce
<1>1. IInv => EveryRequestEndsOnce
  BY DEF IInv, ClientInv, Accounted, ViewInv, PipelinesStand, EveryRequestEndsOnce
<1>2. QED
  BY <1>1, Invariance, PTL

\* The memory put into the text for the model was retrieved for that text.
THEOREM ContextIsTrue == Spec => []ContextIsOfThisText
<1>1. IInv => ContextIsOfThisText
  BY DEF IInv, ViewInv, ChatStands, ContextIsOfThisText
<1>2. QED
  BY <1>1, Invariance, PTL

\* A forget plan is executed with a credential that is still valid, that was
\* never sent before, and that belongs to the selection it is confirmed for.
THEOREM ExecutesOnce == Spec => ExecutesOncePerPreview
<1> DEFINE A == vm'.request["forgetExecute"] \notin {None, vm.request["forgetExecute"]}
                  => /\ vm.forget.credential = vm.forget.hash
                     /\ vm.forget.live
                     /\ vm.forget.credential \notin vm.spent
<1>1. IInv /\ [Next]_vars => A
  BY StepKeeps DEF Quiet, MayExecute, IInv, ViewInv, ForgetStands
<1>2. IInv /\ [Next]_vars => [A]_vars
  BY <1>1
<1> HIDE DEF A
<1>3. Spec => [][A]_vars
  BY <1>2, Invariance, PTL DEF Spec
<1>4. QED
  BY <1>3 DEF A, ExecutesOncePerPreview
=============================================================================
