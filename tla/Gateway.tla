------------------------------ MODULE Gateway ------------------------------
(***************************************************************************)
(* The socket server of the memory service (gateway/server.py): accept     *)
(* loop, one thread per connection, frames decoded and dispatched one      *)
(* after the other, the deadline compared when the handler has returned,   *)
(* stop().  The handlers are those of Ingress and the trivial ones of      *)
(* handlers.py; each runs in its own unit of work, so a dispatch is one    *)
(* step.                                                                   *)
(*                                                                         *)
(* A request is a record with a field kind.  Clients repeat requests at    *)
(* will: that is how they retry when an answer was lost or late.           *)
(***************************************************************************)
EXTENDS Ingress

CONSTANTS Conns, Requests, MaxSent, MaxTime

Methods == {"version", "field", "unknown", "store", "echo", "retrieve", "health",
            "turn", "event", "frame", "large"}

EventFields == {"kind", "defect", "user", "session", "key", "id", "actor", "src", "type",
                "status", "consent", "sens", "matched", "ignore", "checked", "call", "turn",
                "structured", "content", "age", "occurred", "captured"}

\* What the peers send: calls of the methods, with the fields the handlers read.
ASSUME RequestAssumption ==
    \A r \in Requests :
       /\ r.kind \in Methods
       /\ r.kind = "turn" => r.user \in Users /\ r.session \in Sessions
       /\ r.kind = "event" => DOMAIN r = EventFields

VARIABLES db,       \* the tables
          now,      \* half days
          server,   \* "new", "up", "stopped"
          conns     \* per connection: its thread, bytes and answers

vars == <<db, now, server, conns>>

\* phase: where the thread stands.  "check" is the top of the read loop, where
\* the stopped flag is looked at; "recv" waits for bytes; "busy" has bytes.
Fresh == [phase |-> "none", wire |-> << >>, buf |-> << >>,
          asked |-> << >>, told |-> << >>, gone |-> FALSE]

Init ==
    /\ db = EmptyDb
    /\ now = 0
    /\ server = "new"
    /\ conns = [c \in Conns |-> Fresh]

Sent == LET Sum[S \in SUBSET Conns] ==
              IF S = {} THEN 0
              ELSE LET c == CHOOSE x \in S : TRUE
                   IN Len(conns[c].asked) + Sum[S \ {c}]
        IN  Sum[Conns]

\* start(): a socket left on disk is unlinked, then bind, listen, accept.
Start ==
    /\ server = "new"
    /\ server' = "up"
    /\ UNCHANGED <<db, now, conns>>

Accept(c) ==
    /\ server = "up"
    /\ conns[c].phase = "none"
    /\ conns' = [conns EXCEPT ![c] = [conns[c] EXCEPT !.phase = "check"]]
    /\ UNCHANGED <<db, now, server>>

\* stop(): threads that still run after two seconds are left to run.
Stop ==
    /\ server = "up"
    /\ server' = "stopped"
    /\ UNCHANGED <<db, now, conns>>

\* The peer writes a request, at any time, without waiting for an answer.
Send(c, r) ==
    /\ conns[c].phase \in {"check", "recv", "busy"}
    /\ ~conns[c].gone
    /\ Sent < MaxSent
    /\ conns' = [conns EXCEPT ![c] = [conns[c] EXCEPT !.wire = Append(conns[c].wire, r),
                                                     !.asked = Append(conns[c].asked, r)]]
    /\ UNCHANGED <<db, now, server>>

HangUp(c) ==
    /\ conns[c].phase \in {"check", "recv", "busy"}
    /\ ~conns[c].gone
    /\ conns' = [conns EXCEPT ![c] = [conns[c] EXCEPT !.gone = TRUE]]
    /\ UNCHANGED <<db, now, server>>

\* The top of the read loop.
Look(c) ==
    /\ conns[c].phase = "check"
    /\ conns' = [conns EXCEPT ![c] = [conns[c] EXCEPT !.phase =
                                         IF server = "stopped" THEN "closed" ELSE "recv"]]
    /\ UNCHANGED <<db, now, server>>

\* Bytes, or the end of the stream.  stop() does not wake a thread up that
\* waits here.
Recv(c) ==
    /\ conns[c].phase = "recv"
    /\ \/ /\ conns[c].wire # << >>
          /\ conns' = [conns EXCEPT ![c] = [conns[c] EXCEPT !.phase = "busy",
                                                           !.buf = conns[c].wire,
                                                           !.wire = << >>]]
       \/ /\ conns[c].wire = << >> /\ conns[c].gone
          /\ conns' = [conns EXCEPT ![c] = [conns[c] EXCEPT !.phase = "closed"]]
    /\ UNCHANGED <<db, now, server>>

\* health: degraded unless the database answers and the worker's counters can
\* be read.
Health(database, worker) ==
    IF database = "ok" /\ worker = "ok" THEN "ok" ELSE "degraded"

\* Envelope, route, handler: the answer and the database after it.
Handle(r) ==
    CASE r.kind = "version" -> [db |-> db, answer |-> Refuse("PROTOCOL_ERROR", r.kind)]
      [] r.kind = "field"   -> [db |-> db, answer |-> Refuse("INVALID_REQUEST", r.kind)]
      [] r.kind \in {"unknown", "store"} ->
           [db |-> db, answer |-> Refuse("UNSUPPORTED_METHOD", r.kind)]
      [] r.kind \in {"echo", "retrieve"} -> [db |-> db, answer |-> Ok(r.kind)]
      [] r.kind = "health"  -> [db |-> db, answer |-> Ok(Health(r.database, r.worker))]
      [] r.kind = "turn"    -> TurnFinalized(db, r, now)
      [] r.kind = "event"   -> EventIngest(db, r, now)

\* One answer per request; a good one that is late becomes TIMEOUT.  A peer
\* that is gone gets nothing and the failure is swallowed.
Reply(con, answer, late) ==
    IF con.gone THEN con
    ELSE [con EXCEPT !.told =
            Append(con.told, IF late /\ answer.status = "ok" THEN Refuse("TIMEOUT", "late")
                             ELSE answer)]

\* The thread ends; what it had read is dropped.
Closed(con) == [con EXCEPT !.phase = "closed", !.buf = << >>]

\* Mutant: the rest of the buffer is dropped with the request just served.
MutNext(con) == [con EXCEPT !.buf = << >>, !.phase = "check"]

\* The thread takes the request off its buffer and goes on with the rest.
Next1(con) ==
    LET rest == Tail(con.buf) IN
    [con EXCEPT !.buf = rest, !.phase = IF rest = << >> THEN "check" ELSE "busy"]

\* A frame that cannot be decoded is answered and ends the connection.
BadFrame(c) ==
    /\ conns[c].phase = "busy" /\ Head(conns[c].buf).kind = "frame"
    /\ conns' = [conns EXCEPT ![c] =
                   Closed(Reply(conns[c], Refuse("PROTOCOL_ERROR", "frame"), FALSE))]
    /\ UNCHANGED <<db, now, server>>

\* A request that is served.  late: the handler took longer than the deadline;
\* what it committed stays.
Dispatch(c, late) ==
    LET r == Head(conns[c].buf)
        out == Handle(r)
    IN  /\ conns[c].phase = "busy" /\ r.kind \notin {"frame", "large"}
        /\ late => r.kind \in {"turn", "event"}
        /\ db' = out.db
        /\ conns' = [conns EXCEPT ![c] = Next1(Reply(conns[c], out.answer, late))]
        /\ UNCHANGED <<now, server>>

\* The answer does not fit into a frame: encode() raises what _send does not
\* catch, the thread ends and closes the connection without a word.
TooLarge(c) ==
    /\ conns[c].phase = "busy" /\ Head(conns[c].buf).kind = "large"
    /\ conns' = [conns EXCEPT ![c] = Closed(conns[c])]
    /\ UNCHANGED <<db, now, server>>

Tick ==
    /\ now < MaxTime
    /\ now' = now + 1
    /\ UNCHANGED <<db, server, conns>>

\* A round of the outbox worker (outbox/worker.py): answers that are due to be
\* forgotten go.
CleanUp ==
    /\ Cleaned(db, now) # db
    /\ db' = Cleaned(db, now)
    /\ UNCHANGED <<now, server, conns>>

Thread(c) ==
    \/ Look(c)
    \/ Recv(c)
    \/ BadFrame(c)
    \/ TooLarge(c)
    \/ \E late \in BOOLEAN : Dispatch(c, late)

Next ==
    \/ Start
    \/ Stop
    \/ Tick
    \/ CleanUp
    \/ \E c \in Conns :
         \/ Accept(c)
         \/ HangUp(c)
         \/ Thread(c)
         \/ \E r \in Requests : Send(c, r)

Spec == Init /\ [][Next]_vars

-----------------------------------------------------------------------------
(* Properties *)

\* What was accepted: the turns queued and the events stored, with their triple.
Effects(d) ==
    {<<"outbox", i, d.outbox[i].triple, d.outbox[i].at>> : i \in DOMAIN d.outbox}
    \cup {<<"events", i, EventTriple(d.events[i].raw), d.events[i].at>> :
             i \in DOMAIN d.events}

\* One effect for one key: whatever the client repeats, and whatever answer it
\* lost or read as TIMEOUT, two rows are never owed to the same user, session
\* and idempotency key within the day the cache keeps the answer.
Apart(d) ==
    \A x, y \in Effects(d) :
       x # y /\ x[3] = y[3] => x[4] - y[4] >= Day \/ y[4] - x[4] >= Day

OneEffect == Apart(db)

\* A row is marked as a duplicate of an earlier row of the same user, source and
\* text only, never of another user's and never when its text was withheld; and
\* of the rows of one source and text that were captured within a day of one
\* another's arrival only the first is not marked.
DupStands(d, j) ==
    LET row == d.events[j] IN
    /\ row.dup # 0 =>
         LET head == d.events[row.dup] IN
         /\ row.dup \in 1 .. j - 1
         /\ head.event.user = row.event.user
         /\ head.event.src = row.event.src
         /\ head.raw.content = row.raw.content
         /\ row.event.content # NoContent
    /\ \A i \in 1 .. j - 1 :
         (/\ row.fp # NoContent /\ d.events[i].fp = row.fp
          /\ d.events[i].event.user = row.event.user
          /\ d.events[i].event.src = row.event.src
          /\ d.events[i].event.captured >= row.at - Day) => row.dup # 0

\* The duplicates are true, and a true replay is never refused: an event sent
\* again as it was, under another idempotency key or after the cache has forgotten
\* it, is recognised although its row may be stored without its text.
DuplicatesAreTrue ==
    /\ \A j \in DOMAIN db.events : DupStands(db, j)
    /\ \A i \in DOMAIN db.events, r \in Requests :
         (/\ r.kind = "event" /\ r.defect = "none"
          /\ [r EXCEPT !.key = db.events[i].raw.key] = db.events[i].raw)
         => Ingest(db, Process(r), r, now).answer.status = "ok"

\* What a good answer to a request says: the row of that very turn or event, of
\* the user who asked.
TurnIs(d, id, user, session, host) ==
    /\ id \in DOMAIN d.turns
    /\ d.turns[id].session = session /\ d.turns[id].host = host
    /\ d.conv[session] = user

EventIs(d, id, event, user) ==
    /\ id \in DOMAIN d.events
    /\ d.events[id].event.id = event /\ d.events[id].event.user = user

SaysTrue(d, r, answer) ==
    answer.status = "ok" =>
       /\ r.kind \in {"turn", "event", "echo", "retrieve", "health"}
       /\ r.kind = "turn" => TurnIs(d, answer.data[2], r.user, r.session, r.host)
       /\ r.kind = "event" => EventIs(d, answer.data[2], r.id, r.user)

\* Of what was asked on a connection nothing is skipped and nothing is answered
\* twice: what is not answered is still in its buffers, in order, unless the
\* connection was closed or the peer had gone.  The answer at place n is about
\* the request at place n, and one that says done is true, also when it comes
\* out of the cache.
AnswersAreTrue ==
    \A c \in Conns : LET con == conns[c] IN
        /\ Len(con.told) <= Len(con.asked)
        /\ con.phase # "closed" /\ ~con.gone =>
             con.buf \o con.wire = SubSeq(con.asked, Len(con.told) + 1, Len(con.asked))
        /\ \A n \in DOMAIN con.told : SaysTrue(db, con.asked[n], con.told[n])

-----------------------------------------------------------------------------
(* The inductive invariant, in the parts its proof needs. *)

Tables == {"conv", "turns", "outbox", "events", "cache"}

\* A sequence, of whatever.
IsList(s) == s \in Seq({s[i] : i \in DOMAIN s})

TableTypes(d) ==
    /\ DOMAIN d = Tables
    /\ d.conv \in [Sessions -> Users \cup {Nobody}]
    /\ IsList(d.turns) /\ IsList(d.outbox) /\ IsList(d.events)
    /\ \A i \in DOMAIN d.turns :
         DOMAIN d.turns[i] = {"session", "host", "trace", "index", "text"}

ConnTypes(con) ==
    /\ DOMAIN con = {"phase", "wire", "buf", "asked", "told", "gone"}
    /\ con.phase \in {"none", "check", "recv", "busy", "closed"}
    /\ con.wire \in Seq(Requests) /\ con.buf \in Seq(Requests)
    /\ con.asked \in Seq(Requests) /\ IsList(con.told)
    /\ con.gone \in BOOLEAN

TypeOK ==
    /\ TableTypes(db)
    /\ now \in Nat
    /\ server \in {"new", "up", "stopped"}
    /\ DOMAIN conns = Conns
    /\ \A c \in Conns : ConnTypes(conns[c])

\* The cache keeps the answer to what was accepted for a day.
Remembered(d, n) ==
    \A x \in Effects(d) :
       /\ x[4] \in Nat /\ x[4] <= n
       /\ n - x[4] >= Day
          \/ (x[3] \in DOMAIN d.cache /\ d.cache[x[3]].until >= x[4] + Day)

\* A cached answer is true of the turn or the event its fingerprint is of.
CacheStands(d) ==
    \A t \in DOMAIN d.cache : LET row == d.cache[t] IN
       /\ row.until \in Nat
       /\ row.fp[1] = "turn.finalized" =>
            /\ t[1] \in Users /\ t[2] \in Sessions
            /\ TurnIs(d, row.data[2], t[1], t[2], row.fp[3])
       /\ row.fp[1] = "event.ingest" => EventIs(d, row.data[2], row.fp[2], row.fp[3])

\* A row is what the pipeline and the admission make of what was submitted.
Faithful(row) ==
    /\ row.raw \in Requests /\ row.raw.kind = "event" /\ WellFormed(row.raw)
    /\ LET r == Process(row.raw)
            stored == RowOf(r, Decide(r, r.event.user), row.raw, row.at)
       IN  row = [stored EXCEPT !.dup = row.dup]

EventsStand(d) ==
    \A j \in DOMAIN d.events :
       /\ Faithful(d.events[j])
       /\ DupStands(d, j)
       /\ \A i \in 1 .. j - 1 : d.events[i].event.id # d.events[j].event.id

DbStands(d, n) ==
    /\ TableTypes(d)
    /\ Remembered(d, n) /\ Apart(d)
    /\ CacheStands(d)
    /\ EventsStand(d)

\* The requests a connection has not answered are those in its buffers.
Conserved(con) ==
    /\ Len(con.asked) = Len(con.told) + Len(con.buf) + Len(con.wire)
    /\ \A k \in 1 .. Len(con.buf) : con.buf[k] = con.asked[Len(con.told) + k]
    /\ \A k \in 1 .. Len(con.wire) :
         con.wire[k] = con.asked[Len(con.told) + Len(con.buf) + k]

ConnStands(d, con) ==
    /\ con.phase = "busy" <=> con.buf # << >>
    /\ con.phase # "closed" /\ ~con.gone => Conserved(con)
    /\ Len(con.told) <= Len(con.asked)
    /\ \A n \in DOMAIN con.told : SaysTrue(d, con.asked[n], con.told[n])

IInv ==
    /\ TypeOK
    /\ DbStands(db, now)
    /\ \A c \in Conns : ConnStands(db, conns[c])
=============================================================================
