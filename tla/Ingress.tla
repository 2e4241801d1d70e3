------------------------------ MODULE Ingress ------------------------------
(***************************************************************************)
(* The two write methods by which the host hands the service its material: *)
(* turn.finalized and event.ingest (gateway/handlers.py), with the         *)
(* idempotency cache they share (db/repositories.py, db/uow.py).           *)
(*                                                                         *)
(* Each call runs in one UnitOfWork: under the process-wide write lock, in *)
(* one transaction.  A call is therefore a function of the database, a     *)
(* record db of the tables it touches, and of the time; what it returns is *)
(* the database after it and the answer.  Time is counted in half days.    *)
(***************************************************************************)
EXTENDS EventPipeline

CONSTANTS Users, Sessions, Nobody,
          Resolves,     \* what the source resolver finds for a reference
          NoText        \* the reference resolves to nothing

Day == 2

ASSUME NobodyAssumption == Nobody \notin Users

\* Rows carry the request they come from and the time, for the properties.
EmptyDb == [conv   |-> [s \in Sessions |-> Nobody],
            turns  |-> << >>,
            outbox |-> << >>,
            events |-> << >>,
            cache  |-> [t \in {} |-> Nobody]]

Ok(data) == [status |-> "ok", data |-> data]
Refuse(code, why) == [status |-> code, why |-> why]
Done(db, data) == [ok |-> TRUE, db |-> db, answer |-> Ok(data)]
Failed(db, code, why) == [ok |-> FALSE, db |-> db, answer |-> Refuse(code, why)]

Triple(r) == <<r.user, r.session, r.key>>

\* UnitOfWork: what a business function did is committed when it returns and
\* rolled back when it raises.
Committed(db, run) == IF run.ok THEN run.db ELSE db

-----------------------------------------------------------------------------
(* The idempotency cache. *)

\* get_idempotency_cache: the row of a triple, expired or not.
CacheRows(db, t) == {x \in DOMAIN db.cache : x = t}

Cached(db, t, now) == \E x \in CacheRows(db, t) : db.cache[x].until > now

\* delete_idempotency_cache
Dropped(db, T) == [db EXCEPT !.cache = [t \in DOMAIN db.cache \ T |-> db.cache[t]]]

\* cleanup_expired_idempotency, in a transaction of the outbox worker.
Cleaned(db, now) == Dropped(db, {t \in DOMAIN db.cache : db.cache[t].until < now})

\* What a cached answer is worth to a request with the fingerprint fp.
Unwrap(row, fp) == IF row.fp = fp THEN Ok(row.data)
                   ELSE Refuse("INVALID_REQUEST", "other fingerprint")

\* Mutant: the answer is not kept.
MutRemember(db, t, fp, data, now) == db

Remember(db, t, fp, data, now) ==
    [db EXCEPT !.cache =
       [x \in DOMAIN db.cache \cup {t} |->
          IF x = t THEN [fp |-> fp, data |-> data, until |-> now + Day] ELSE db.cache[x]]]

\* Look up, or run the business function and keep its answer in the same
\* transaction.  A business function that fails leaves the database as it was.
\* run is what it comes to on the database without the rows of the key.
ExecuteIdempotent(db, t, fp, now, run) ==
    IF Cached(db, t, now) THEN [db |-> db, answer |-> Unwrap(db.cache[t], fp)]
    ELSE [db |-> IF run.ok THEN Remember(Committed(db, run), t, fp, run.answer.data, now)
                 ELSE Committed(db, run),
          answer |-> run.answer]

-----------------------------------------------------------------------------
(* turn.finalized, and what both methods refuse *)

\* What the validator of turn.finalized refuses before anything else happens:
\* a field that is absent, of another type, blank or without a time zone, keys
\* or trace ids of envelope and payload that differ, a turn that is not final
\* or is a retry of itself, and a tool call named twice.
TurnDefects == {"absent", "type", "blank", "version", "timestamp", "key", "trace",
                "not final", "retry of itself", "call twice"}

\* What event.ingest refuses before the unit of work: the guard of the schema,
\* the cleaner's checks of single fields, and keys or trace ids that differ.
EventDefects == {"version", "legacy time alone", "placeholder", "enum", "identifier",
                 "unknown field", "key", "trace"}

TurnFingerprint(r) == <<"turn.finalized", r.event, r.host, r.ref>>

\* find_turn_by_host: the row of this host turn in a session of this user.
TurnsOf(db, r) ==
    {i \in DOMAIN db.turns : /\ db.turns[i].session = r.session
                             /\ db.turns[i].host = r.host
                             /\ db.conv[r.session] = r.user}

NextTurnIndex(db, s) ==
    LET used == {db.turns[i].index : i \in {j \in DOMAIN db.turns :
                                               db.turns[j].session = s}}
    IN  1 + (IF used = {} THEN 0 ELSE CHOOSE m \in used : \A n \in used : n <= m)

Queue(db, id, again, r, now) ==
    [db EXCEPT !.outbox = Append(db.outbox, [turn |-> id, again |-> again,
                                             triple |-> Triple(r), at |-> now])]

\* The session belongs to another user (get_conversation_with_user in the
\* handler, once more in upsert_conversation).
Foreign(db, r) == db.conv[r.session] \notin {Nobody, r.user}

\* upsert_conversation, of a session that is not another user's
WithConversation(db, r) == [db EXCEPT !.conv = [db.conv EXCEPT ![r.session] = r.user]]

\* insert_turn
WithTurn(db, r, now) ==
    [db EXCEPT !.turns =
       Append(db.turns, [session |-> r.session, host |-> r.host, trace |-> now,
                         index |-> NextTurnIndex(db, r.session),
                         text |-> Resolves[r.ref]])]

\* update_turn_refinalize: text and index stay.
Refinalized(db, id, now) ==
    [db EXCEPT !.turns = [db.turns EXCEPT ![id] = [db.turns[id] EXCEPT !.trace = now]]]

\* save_turn_with_outbox: insert with the resolved text, or refinalize the row
\* there is; either way queue the turn.
SaveTurn(db, r, now) ==
    LET mine  == WithConversation(db, r)
        found == TurnsOf(mine, r)
        new   == Len(db.turns) + 1
        old   == CHOOSE i \in found : \A j \in found : i <= j
    IN  IF found = {}
        THEN Done(Queue(WithTurn(mine, r, now), new, FALSE, r, now), <<"turn", new>>)
        ELSE Done(Queue(Refinalized(mine, old, now), old, TRUE, r, now), <<"turn", old>>)

TurnFinalized(db, r, now) ==
    LET fresh == Dropped(db, CacheRows(db, Triple(r)))
        run == IF Foreign(fresh, r)
                 THEN Failed(fresh, "INVALID_REQUEST", "session ownership")
               ELSE IF TurnsOf(fresh, r) = {} /\ Resolves[r.ref] = NoText
                 THEN Failed(fresh, "INTERNAL_ERROR", "not resolved")
               ELSE SaveTurn(fresh, r, now)
    IN  IF r.defect \in TurnDefects
        THEN [db |-> db, answer |-> Refuse("INVALID_REQUEST", r.defect)]
        ELSE ExecuteIdempotent(db, Triple(r), TurnFingerprint(r), now, run)

-----------------------------------------------------------------------------
(* event.ingest *)

EventTriple(e) == <<e.user, e.session, e.key>>

\* Nothing of a sensitive text goes into a fingerprint.
EventFingerprint(r) ==
    LET e == r.event IN
    <<"event.ingest", e.id, e.user, e.actor, e.session, e.src, e.type, e.occurred,
      IF e.matched \/ e.sens \in {"high", "critical"} \/ e.consent = "none" \/ r.gate
        THEN "omitted" ELSE e.content,
      e.consent, e.status>>

\* compute_event_identity and compute_row_identity decide alike, from the event
\* and from its row, whether the text belongs to the identity.
IdentityHidden(e) ==
    e.matched \/ e.sens \in {"high", "critical"} \/ e.consent = "none" \/ e.ignore

Identity(e) == <<e.user, e.actor, e.src, e.type, e.occurred,
                 IF IdentityHidden(e) THEN <<"hidden">> ELSE <<"text", e.content>> >>

\* Mutant: the head is looked for among the rows of every user.
MutGroupHead(db, row, now) ==
    LET same == {i \in DOMAIN db.events : db.events[i].fp = row.fp}
    IN  IF row.fp = NoContent \/ same = {} THEN 0
        ELSE CHOOSE i \in same : \A j \in same : i <= j

\* find_dedup_group_head: the oldest row of the same text, source and user that
\* was captured within a day.
GroupHead(db, row, now) ==
    LET same == {i \in DOMAIN db.events :
                    /\ db.events[i].event.user = row.event.user
                    /\ db.events[i].fp = row.fp
                    /\ db.events[i].event.src = row.event.src
                    /\ db.events[i].event.captured >= now - Day}
    IN  IF row.fp = NoContent \/ same = {} THEN 0
        ELSE CHOOSE i \in same : \A j \in same : i <= j

\* The row of an event that is stored: text and fingerprint go if it must.
RowOf(r, d, raw, now) ==
    LET hide == Suppressed(r, d) IN
    [event |-> IF hide THEN [r.event EXCEPT !.content = NoContent] ELSE r.event,
     fp |-> IF hide THEN NoContent ELSE ContentFingerprint(r.event),
     decision |-> d.decision, why |-> d.why, dup |-> 0, at |-> now, raw |-> raw]

Replay(db, r, id) ==
    IF Identity(db.events[id].event) = Identity(r.event)
    THEN Done(db, <<"replay", id, db.events[id].decision>>)
    ELSE Failed(db, "INVALID_REQUEST", "identity")

\* insert_source_event: an event id is unique across users.
StoreEvent(db, row) ==
    IF \E i \in DOMAIN db.events : db.events[i].event.id = row.event.id
    THEN Failed(db, "INVALID_REQUEST", "identity")
    ELSE Done([db EXCEPT !.events = Append(db.events, row)],
              <<"event", Len(db.events) + 1, row.decision, row.dup>>)

\* get_source_event_by_event_id: among the rows of the user.
EventsOf(db, e) ==
    {i \in DOMAIN db.events : /\ db.events[i].event.id = e.id
                              /\ db.events[i].event.user = e.user}

\* The business function of event.ingest, after the checks of the payload and
\* the pipeline, which touch nothing.
Ingest(db, r, raw, now) ==
    LET mine == EventsOf(db, r.event)
        bare == RowOf(r, Decide(r, r.event.user), raw, now)
    IN  IF mine # {} THEN Replay(db, r, CHOOSE i \in mine : TRUE)
        ELSE StoreEvent(db, [bare EXCEPT !.dup = GroupHead(db, bare, now)])

EventIngest(db, e, now) ==
    LET r == Process(e)
        fresh == Dropped(db, CacheRows(db, EventTriple(e)))
    IN  IF e.defect \in EventDefects \/ ~WellFormed(e)
        THEN [db |-> db, answer |-> Refuse("INVALID_REQUEST", "event")]
        ELSE ExecuteIdempotent(db, EventTriple(e), EventFingerprint(r), now,
                               Ingest(fresh, r, e, now))

\* find_pending_eligible: what extraction may take up.
Eligible(db) == {i \in DOMAIN db.events : /\ db.events[i].decision = "allow_extraction"
                                          /\ db.events[i].dup = 0}
=============================================================================
