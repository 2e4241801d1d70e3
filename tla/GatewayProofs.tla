--------------------------- MODULE GatewayProofs ---------------------------
(***************************************************************************)
(* Proofs about Gateway: the invariant IInv, and from it the three         *)
(* properties that the runs check, for any peers, requests and texts.      *)
(* What a handler does is a function of the tables; its facts are lemmas   *)
(* about that function, and the steps of the server only cite them.        *)
(***************************************************************************)
EXTENDS Gateway, SequenceTheorems, WellFoundedInduction, TLAPS

-----------------------------------------------------------------------------
(* Numbers and sequences *)

\* A set of numbers that is not empty has a least member.
LEMMA LeastExists ==
    ASSUME NEW S \in SUBSET Nat, S # {}
    PROVE  \E m \in S : \A n \in S : m <= n
<1> DEFINE LT == {ss \in Nat \X Nat : ss[1] < ss[2]}
<1>1. IsWellFoundedOn(LT, Nat)
  BY NatLessThanWellFounded DEF OpToRel
<1>2. \A x, y \in Nat : y < x => <<y, x>> \in LT
  OBVIOUS
<1> HIDE DEF LT
<1>3. PICK m \in S : \A n \in S : <<n, m>> \notin LT
  BY <1>1, WFMin
<1>4. \A n \in S : n \in Nat /\ m \in Nat /\ ~(n < m)
  BY <1>2, <1>3
<1>5. \A n \in S : m <= n
  BY <1>4, SMT
<1>6. QED
  BY <1>3, <1>5

\* A sequence over some set is a list.
LEMMA SeqIsList ==
    ASSUME NEW S, NEW s \in Seq(S)
    PROVE  IsList(s)
<1> DEFINE Elements == {s[i] : i \in DOMAIN s}
<1>1. DOMAIN s = 1 .. Len(s) /\ Len(s) \in Nat
  OBVIOUS
<1>2. \A i \in 1 .. Len(s) : s[i] \in Elements
  BY <1>1
<1> HIDE DEF Elements
<1>3. s \in Seq(Elements)
  BY <1>1, <1>2
<1>4. QED
  BY <1>3 DEF IsList, Elements

\* What Append does to a list.
LEMMA Appended ==
    ASSUME NEW s, IsList(s), NEW x
    PROVE  /\ Len(s) \in Nat /\ DOMAIN s = 1 .. Len(s)
           /\ IsList(Append(s, x))
           /\ Len(Append(s, x)) = Len(s) + 1
           /\ DOMAIN Append(s, x) = 1 .. Len(s) + 1
           /\ \A i \in 1 .. Len(s) : Append(s, x)[i] = s[i]
           /\ Append(s, x)[Len(s) + 1] = x
<1>1. PICK S : s \in Seq(S)
  BY DEF IsList
<1>2. /\ s \in Seq(S \cup {x}) /\ Append(s, x) \in Seq(S \cup {x})
      /\ DOMAIN s = 1 .. Len(s) /\ Len(s) \in Nat
  BY <1>1
<1>3. /\ Len(Append(s, x)) = Len(s) + 1
      /\ \A i \in 1 .. Len(s) : Append(s, x)[i] = s[i]
      /\ Append(s, x)[Len(s) + 1] = x
  BY <1>2
<1>4. IsList(Append(s, x))
  BY <1>2, SeqIsList
<1>5. DOMAIN Append(s, x) = 1 .. Len(s) + 1
  BY <1>2, <1>3
<1>6. QED
  BY <1>2, <1>3, <1>4, <1>5

\* A list stays one when one of its places is overwritten.
LEMMA Overwritten ==
    ASSUME NEW s, IsList(s), NEW k \in DOMAIN s, NEW x
    PROVE  LET q == [s EXCEPT ![k] = x] IN
           /\ IsList(q) /\ Len(q) = Len(s) /\ DOMAIN q = DOMAIN s
           /\ q[k] = x /\ \A i \in DOMAIN s : i # k => q[i] = s[i]
<1> DEFINE q == [s EXCEPT ![k] = x]
<1>1. PICK S : s \in Seq(S)
  BY DEF IsList
<1>2. /\ s \in Seq(S \cup {x}) /\ q \in Seq(S \cup {x}) /\ Len(q) = Len(s)
      /\ DOMAIN q = DOMAIN s /\ q[k] = x
      /\ \A i \in DOMAIN s : i # k => q[i] = s[i]
  BY <1>1
<1>3. QED
  BY <1>2, SeqIsList

-----------------------------------------------------------------------------
(* The cache *)

\* The cache of e is that of d, with an answer for t kept at n.
Kept(d, e, t, fp, data, n) ==
    /\ DOMAIN e.cache = DOMAIN d.cache \cup {t}
    /\ e.cache[t] = [fp |-> fp, data |-> data, until |-> n + Day]
    /\ \A x \in DOMAIN d.cache : x # t => e.cache[x] = d.cache[x]

\* Nothing but the cache differs.
SameRows(d, e) ==
    /\ DOMAIN e = Tables
    /\ e.conv = d.conv /\ e.turns = d.turns /\ e.outbox = d.outbox /\ e.events = d.events

\* Dropping cache rows leaves the other rows and the other tables alone.
LEMMA DroppedIs ==
    ASSUME NEW d, DOMAIN d = Tables, NEW T
    PROVE  LET e == Dropped(d, T) IN
           /\ SameRows(d, e)
           /\ DOMAIN e.cache = DOMAIN d.cache \ T
           /\ \A x \in DOMAIN e.cache : e.cache[x] = d.cache[x]
BY DEF Dropped, SameRows, Tables

\* Remembering an answer puts its row into the cache and does nothing else.
LEMMA RememberIs ==
    ASSUME NEW d, DOMAIN d = Tables, NEW t, NEW fp, NEW data, NEW n
    PROVE  LET e == Remember(d, t, fp, data, n) IN
           SameRows(d, e) /\ Kept(d, e, t, fp, data, n)
BY DEF Remember, SameRows, Kept, Tables

\* Dropping the expired row first makes no difference to what is kept.
LEMMA DroppedThenKept ==
    ASSUME NEW d, DOMAIN d = Tables, NEW e, NEW f, NEW t, NEW fp, NEW data, NEW n,
           e.cache = Dropped(d, CacheRows(d, t)).cache,
           Kept(e, f, t, fp, data, n)
    PROVE  Kept(d, f, t, fp, data, n)
BY DroppedIs DEF CacheRows, Kept

-----------------------------------------------------------------------------
(* turn.finalized *)

\* Turns are added and refinalized; none changes its session or its host turn.
TurnsGrow(d, e) ==
    /\ IsList(e.turns)
    /\ \A i \in DOMAIN e.turns :
         DOMAIN e.turns[i] = {"session", "host", "trace", "index", "text"}
    /\ \A i \in DOMAIN d.turns :
         /\ i \in DOMAIN e.turns
         /\ e.turns[i].session = d.turns[i].session /\ e.turns[i].host = d.turns[i].host

\* The rows that turn.finalized writes for the request r at n.
TurnSaved(d, e, r, n, data) ==
    /\ DOMAIN e = Tables
    /\ d.conv[r.session] \in {Nobody, r.user}
    /\ e.conv = [d.conv EXCEPT ![r.session] = r.user]
    /\ e.events = d.events
    /\ \E q : e.outbox = Append(d.outbox, q) /\ q.triple = Triple(r) /\ q.at = n
    /\ TurnsGrow(d, e)
    /\ data[2] \in DOMAIN e.turns
    /\ e.turns[data[2]].session = r.session /\ e.turns[data[2]].host = r.host

\* A turn of a session that is nobody's or the caller's is always saved: one row
\* added or refinalized, and one row queued.
LEMMA SaveTurnIs ==
    ASSUME NEW d, TableTypes(d), NEW r, r.session \in Sessions, r.user \in Users,
           ~Foreign(d, r), NEW n
    PROVE  LET run == SaveTurn(d, r, n) IN
           /\ run.ok /\ run.answer = Ok(run.answer.data)
           /\ TurnSaved(d, run.db, r, n, run.answer.data)
           /\ run.db.cache = d.cache
<1> DEFINE mine  == WithConversation(d, r)
           found == TurnsOf(mine, r)
           new   == Len(d.turns) + 1
           old   == CHOOSE i \in found : \A j \in found : i <= j
<1>0. DOMAIN d = Tables
  BY DEF TableTypes
<1>1. /\ DOMAIN mine = Tables /\ mine.conv = [d.conv EXCEPT ![r.session] = r.user]
      /\ mine.turns = d.turns /\ mine.outbox = d.outbox /\ mine.events = d.events
      /\ mine.cache = d.cache
  BY <1>0 DEF WithConversation, Tables
<1>2. d.conv[r.session] \in {Nobody, r.user}
  BY DEF Foreign
<1> HIDE DEF mine
<1>3. ASSUME found = {}
      PROVE  LET run == Done(Queue(WithTurn(mine, r, n), new, FALSE, r, n), <<"turn", new>>) IN
             /\ run.ok /\ run.answer = Ok(run.answer.data)
             /\ TurnSaved(d, run.db, r, n, run.answer.data)
             /\ run.db.cache = d.cache
  <2> DEFINE row == [session |-> r.session, host |-> r.host, trace |-> n,
                     index |-> NextTurnIndex(mine, r.session), text |-> Resolves[r.ref]]
             q == [turn |-> new, again |-> FALSE, triple |-> Triple(r), at |-> n]
             with == WithTurn(mine, r, n)
             e == Queue(with, new, FALSE, r, n)
  <2>1. /\ row.session = r.session /\ row.host = r.host
        /\ DOMAIN row = {"session", "host", "trace", "index", "text"}
        /\ q.triple = Triple(r) /\ q.at = n
    OBVIOUS
  <2>2. with = [mine EXCEPT !.turns = Append(mine.turns, row)]
    BY DEF WithTurn
  <2> HIDE DEF row, with
  <2>3. /\ DOMAIN with = Tables /\ with.conv = mine.conv /\ with.events = mine.events
        /\ with.turns = Append(mine.turns, row) /\ with.outbox = mine.outbox
        /\ with.cache = mine.cache
    BY <1>1, <2>2 DEF Tables
  <2>4. e = [with EXCEPT !.outbox = Append(with.outbox, q)]
    BY DEF Queue
  <2> HIDE DEF q, e
  <2>5. /\ DOMAIN e = Tables /\ e.conv = with.conv /\ e.events = with.events
        /\ e.turns = with.turns /\ e.outbox = Append(with.outbox, q)
        /\ e.cache = with.cache
    BY <2>3, <2>4 DEF Tables
  <2>6. TurnsGrow(d, e)
    BY <1>1, <2>1, <2>3, <2>5, Appended DEF TurnsGrow, TableTypes
  <2>7. /\ new \in DOMAIN e.turns /\ e.turns[new] = row
    BY <1>1, <2>3, <2>5, Appended DEF TableTypes
  <2> DEFINE data == <<"turn", new>>
  <2>8. data[2] = new
    OBVIOUS
  <2> HIDE DEF new, data
  <2>9. TurnSaved(d, e, r, n, data)
    BY <1>1, <1>2, <2>1, <2>3, <2>5, <2>6, <2>7, <2>8 DEF TurnSaved
  <2>10. QED
    BY <1>1, <2>3, <2>5, <2>9 DEF Done, Ok, e, with, data
<1>4. ASSUME found # {}
      PROVE  LET run == Done(Queue(Refinalized(mine, old, n), old, TRUE, r, n), <<"turn", old>>) IN
             /\ run.ok /\ run.answer = Ok(run.answer.data)
             /\ TurnSaved(d, run.db, r, n, run.answer.data)
             /\ run.db.cache = d.cache
  <2> DEFINE row == [mine.turns[old] EXCEPT !.trace = n]
             q == [turn |-> old, again |-> TRUE, triple |-> Triple(r), at |-> n]
             with == Refinalized(mine, old, n)
             e == Queue(with, old, TRUE, r, n)
             data == <<"turn", old>>
  <2>0. found \in SUBSET Nat
    BY <1>1, Appended DEF TurnsOf, TableTypes
  <2>1. old \in found
    BY <1>4, <2>0, LeastExists
  <2>2. /\ old \in DOMAIN d.turns
        /\ d.turns[old].session = r.session /\ d.turns[old].host = r.host
        /\ q.triple = Triple(r) /\ q.at = n /\ data[2] = old
    BY <1>1, <2>1 DEF TurnsOf
  <2> HIDE DEF old, found
  <2>3. with = [mine EXCEPT !.turns = [mine.turns EXCEPT ![old] = row]]
    BY DEF Refinalized
  <2>4. /\ row.session = r.session /\ row.host = r.host
        /\ DOMAIN row = {"session", "host", "trace", "index", "text"}
    BY <1>1, <2>2 DEF TableTypes
  <2> HIDE DEF row, with
  <2>5. /\ DOMAIN with = Tables /\ with.conv = mine.conv /\ with.events = mine.events
        /\ with.turns = [mine.turns EXCEPT ![old] = row] /\ with.outbox = mine.outbox
        /\ with.cache = mine.cache
    BY <1>1, <2>3 DEF Tables
  <2>6. e = [with EXCEPT !.outbox = Append(with.outbox, q)]
    BY DEF Queue
  <2> HIDE DEF q, e, data
  <2>7. /\ DOMAIN e = Tables /\ e.conv = with.conv /\ e.events = with.events
        /\ e.turns = with.turns /\ e.outbox = Append(with.outbox, q)
        /\ e.cache = with.cache
    BY <2>5, <2>6 DEF Tables
  <2>8. /\ IsList(e.turns) /\ DOMAIN e.turns = DOMAIN d.turns /\ e.turns[old] = row
        /\ \A i \in DOMAIN d.turns : i # old => e.turns[i] = d.turns[i]
    BY <1>1, <2>2, <2>5, <2>7, Overwritten DEF TableTypes
  <2>9. TurnsGrow(d, e)
    BY <2>2, <2>4, <2>8 DEF TurnsGrow, TableTypes
  <2>10. TurnSaved(d, e, r, n, data)
    BY <1>1, <1>2, <2>2, <2>4, <2>5, <2>7, <2>8, <2>9 DEF TurnSaved
  <2>11. QED
    BY <1>1, <2>5, <2>7, <2>10 DEF Done, Ok, e, with, data
<1>5. SaveTurn(d, r, n) =
        IF found = {} THEN Done(Queue(WithTurn(mine, r, n), new, FALSE, r, n), <<"turn", new>>)
        ELSE Done(Queue(Refinalized(mine, old, n), old, TRUE, r, n), <<"turn", old>>)
  BY DEF SaveTurn, mine
<1> HIDE DEF found, new, old
<1>6. CASE found = {}
  BY <1>3, <1>5, <1>6
<1>7. CASE found # {}
  BY <1>4, <1>5, <1>7
<1>8. QED
  BY <1>6, <1>7

\* A call that wrote nothing was refused, or answered from the row that the cache
\* keeps for its triple t, of the same fingerprint fp.
Unwritten(d, out, t, fp) ==
    /\ out.db = d
    /\ \/ out.answer.status # "ok"
       \/ /\ t \in DOMAIN d.cache /\ d.cache[t].fp = fp
          /\ out.answer.data = d.cache[t].data

\* A call that wrote was not in the cache, and keeps its answer there.
Written(d, out, t, fp, n) ==
    /\ ~Cached(d, t, n)
    /\ Kept(d, out.db, t, fp, out.answer.data, n)

\* A refusal is no good answer, and leaves the tables alone.
LEMMA RefuseIs ==
    ASSUME NEW code, code # "ok", NEW why
    PROVE  Refuse(code, why).status # "ok"
BY DEF Refuse

\* A failed unit of work is not committed and does not answer ok.
LEMMA FailedIs ==
    ASSUME NEW d, NEW code, code # "ok", NEW why
    PROVE  /\ ~Failed(d, code, why).ok
           /\ Failed(d, code, why).answer.status # "ok"
<1>1. Failed(d, code, why).answer = Refuse(code, why)
  BY DEF Failed
<1>2. ~Failed(d, code, why).ok
  BY DEF Failed
<1>3. QED
  BY <1>1, <1>2, RefuseIs

\* Whatever turn.finalized is given, it writes nothing, or saves the turn and
\* remembers the answer in the same commit.
LEMMA TurnOutcome ==
    ASSUME NEW d, TableTypes(d), NEW r \in Requests, r.kind = "turn", NEW n
    PROVE  LET out == TurnFinalized(d, r, n)
               t == Triple(r)
               fp == TurnFingerprint(r)
           IN  \/ Unwritten(d, out, t, fp)
               \/ Written(d, out, t, fp, n) /\ TurnSaved(d, out.db, r, n, out.answer.data)
<1> DEFINE t   == Triple(r)
           fp  == TurnFingerprint(r)
           d0  == Dropped(d, CacheRows(d, t))
           run == IF Foreign(d0, r)
                    THEN Failed(d0, "INVALID_REQUEST", "session ownership")
                  ELSE IF TurnsOf(d0, r) = {} /\ Resolves[r.ref] = NoText
                    THEN Failed(d0, "INTERNAL_ERROR", "not resolved")
                  ELSE SaveTurn(d0, r, n)
           out == TurnFinalized(d, r, n)
<1>1. out = IF r.defect \in TurnDefects
            THEN [db |-> d, answer |-> Refuse("INVALID_REQUEST", r.defect)]
            ELSE IF Cached(d, t, n) THEN [db |-> d, answer |-> Unwrap(d.cache[t], fp)]
            ELSE [db |-> IF run.ok THEN Remember(Committed(d, run), t, fp, run.answer.data, n)
                         ELSE Committed(d, run),
                  answer |-> run.answer]
  BY DEF TurnFinalized, ExecuteIdempotent
<1> SUFFICES \/ Unwritten(d, out, t, fp)
             \/ Written(d, out, t, fp, n) /\ TurnSaved(d, out.db, r, n, out.answer.data)
  OBVIOUS
<1> HIDE DEF out, t, fp
<1>2. CASE r.defect \in TurnDefects
  BY <1>1, <1>2 DEF Unwritten, Refuse
<1>3. CASE r.defect \notin TurnDefects /\ Cached(d, t, n)
  <2>1. t \in DOMAIN d.cache
    BY <1>3 DEF Cached, CacheRows
  <2>2. out.db = d /\ out.answer = Unwrap(d.cache[t], fp)
    BY <1>1, <1>3
  <2>3. CASE d.cache[t].fp = fp
    BY <2>1, <2>2, <2>3 DEF Unwritten, Unwrap, Ok
  <2>4. CASE d.cache[t].fp # fp
    <3>1. out.answer = Refuse("INVALID_REQUEST", "other fingerprint")
      BY <2>2, <2>4 DEF Unwrap
    <3>2. QED
      BY <2>2, <3>1, RefuseIs DEF Unwritten
  <2>5. QED
    BY <2>3, <2>4
<1>4. CASE r.defect \notin TurnDefects /\ ~Cached(d, t, n)
  <2>1. /\ out.db = IF run.ok THEN Remember(Committed(d, run), t, fp, run.answer.data, n)
                    ELSE Committed(d, run)
        /\ out.answer = run.answer
    BY <1>1, <1>4
  <2>2. CASE run = SaveTurn(d0, r, n) /\ ~Foreign(d0, r)
    <3>1. DOMAIN d = Tables
      BY DEF TableTypes
    <3>2. SameRows(d, d0) /\ TableTypes(d0)
      BY <3>1, DroppedIs DEF TableTypes, SameRows
    <3> HIDE DEF d0
    <3> HIDE DEF run
    <3>3. /\ run.ok
          /\ TurnSaved(d0, run.db, r, n, run.answer.data)
          /\ run.db.cache = d0.cache
      <4>1. r.session \in Sessions /\ r.user \in Users
        BY RequestAssumption
      <4> DEFINE saved == SaveTurn(d0, r, n)
      <4>2. /\ saved.ok
            /\ TurnSaved(d0, saved.db, r, n, saved.answer.data)
            /\ saved.db.cache = d0.cache
        BY <2>2, <3>2, <4>1, SaveTurnIs
      <4>3. run = saved
        BY <2>2
      <4> HIDE DEF saved
      <4>4. QED
        BY <4>2, <4>3
    <3> DEFINE e == Remember(run.db, t, fp, run.answer.data, n)
    <3>4. out.db = e /\ out.answer = run.answer
      BY <2>1, <3>3 DEF Committed
    <3>5. SameRows(run.db, e) /\ Kept(run.db, e, t, fp, run.answer.data, n)
      BY <3>3, RememberIs DEF TurnSaved
    <3> HIDE DEF e
    <3>6. Kept(d, e, t, fp, out.answer.data, n)
      BY <3>1, <3>3, <3>4, <3>5, DroppedThenKept DEF d0
    <3>7. TurnSaved(d, e, r, n, out.answer.data)
      BY <3>2, <3>3, <3>4, <3>5 DEF TurnSaved, SameRows, TurnsGrow
    <3>8. QED
      BY <1>4, <3>4, <3>6, <3>7 DEF Written
  <2>3. CASE ~(run = SaveTurn(d0, r, n) /\ ~Foreign(d0, r))
    <3>1. \/ run = Failed(d0, "INVALID_REQUEST", "session ownership")
          \/ run = Failed(d0, "INTERNAL_ERROR", "not resolved")
      BY <2>3
    <3> HIDE DEF run
    <3>2. ~run.ok /\ run.answer.status # "ok"
      BY <3>1, FailedIs
    <3>3. out.db = d /\ out.answer.status # "ok"
      BY <2>1, <3>2 DEF Committed
    <3>4. QED
      BY <3>3 DEF Unwritten
  <2>4. QED
    BY <2>2, <2>3
<1>5. QED
  BY <1>2, <1>3, <1>4

-----------------------------------------------------------------------------
(* event.ingest *)

\* What the pipeline leaves of a submitted event: only the two marks, the level
\* and the status can differ, and an event that the gate stopped is ignored.
LEMMA ProcessIs ==
    ASSUME NEW raw \in Requests, raw.kind = "event"
    PROVE  LET r == Process(raw)
               e == r.event
           IN  /\ e.id = raw.id /\ e.user = raw.user /\ e.actor = raw.actor
               /\ e.src = raw.src /\ e.type = raw.type /\ e.occurred = raw.occurred
               /\ e.content = raw.content /\ e.consent = raw.consent
               /\ e.key = raw.key /\ e.session = raw.session
               /\ e.checked = raw.checked /\ e.captured = raw.captured
               /\ DOMAIN e = EventFields
               /\ r.gate => e.ignore
               /\ raw.ignore => e.ignore
               /\ e.status = "ignored" => e.ignore \/ raw.status = "ignored"
               /\ SecurityGate(e) => e.ignore
<1> DEFINE scan == Scanned(raw)
           r == Process(raw)
<1>1. DOMAIN raw = EventFields
  BY RequestAssumption
<1>2. /\ scan.id = raw.id /\ scan.user = raw.user /\ scan.actor = raw.actor
      /\ scan.src = raw.src /\ scan.type = raw.type /\ scan.occurred = raw.occurred
      /\ scan.content = raw.content /\ scan.consent = raw.consent
      /\ scan.key = raw.key /\ scan.session = raw.session
      /\ scan.checked = raw.checked /\ scan.captured = raw.captured
      /\ scan.status = raw.status /\ scan.ignore = raw.ignore
      /\ DOMAIN scan = EventFields
  BY <1>1 DEF Scanned, EventFields
<1> HIDE DEF scan
<1>3. /\ r.event = IF SecurityGate(scan) THEN [scan EXCEPT !.ignore = TRUE, !.status = "ignored"]
                   ELSE scan
      /\ r.gate = SecurityGate(scan)
  BY DEF Process, scan
<1>4. CASE SecurityGate(scan)
  <2>1. r.event = [scan EXCEPT !.ignore = TRUE, !.status = "ignored"]
    BY <1>3, <1>4
  <2>2. /\ r.event.ignore
        /\ r.event.id = scan.id /\ r.event.user = scan.user /\ r.event.actor = scan.actor
        /\ r.event.src = scan.src /\ r.event.type = scan.type
        /\ r.event.occurred = scan.occurred
        /\ r.event.content = scan.content /\ r.event.consent = scan.consent
        /\ r.event.key = scan.key /\ r.event.session = scan.session
        /\ r.event.checked = scan.checked /\ r.event.captured = scan.captured
        /\ DOMAIN r.event = EventFields
    BY <1>2, <2>1 DEF EventFields
  <2>3. QED
    BY <1>2, <2>2
<1>5. CASE ~SecurityGate(scan)
  <2>1. r.event = scan /\ ~r.gate
    BY <1>3, <1>5
  <2>2. QED
    BY <1>2, <1>5, <2>1
<1>6. QED
  BY <1>4, <1>5

\* A chain of rules decides by one of them that applies, if any does.
LEMMA DecisionIs ==
    ASSUME NEW rules, NEW m \in Nat, DOMAIN rules = 1 .. m,
           NEW k \in 1 .. m, rules[k].when
    PROVE  \E i \in 1 .. m : rules[i].when /\ Decision(rules) = rules[i].then
<1> DEFINE S == {i \in 1 .. m : rules[i].when}
           First(i) == i \in DOMAIN rules /\ rules[i].when /\ \A j \in 1 .. i - 1 : ~rules[j].when
<1>1. PICK i \in S : \A j \in S : i <= j
  <2>1. S \in SUBSET Nat /\ k \in S
    OBVIOUS
  <2> HIDE DEF S
  <2>2. QED
    BY <2>1, LeastExists
<1>2. First(i)
  BY <1>1
<1>3. Decision(rules) = rules[CHOOSE x : First(x)].then
  BY DEF Decision
<1>4. First(CHOOSE x : First(x))
  BY <1>2
<1> DEFINE x == CHOOSE x : First(x)
<1>5. x \in 1 .. m /\ rules[x].when
  BY <1>4
<1>6. QED
  BY <1>3, <1>5

\* An event that the admission rejects for a reason of security is one whose
\* identity leaves the text out: it is ignored or sensitive.
LEMMA SecurityHides ==
    ASSUME NEW raw \in Requests, raw.kind = "event", WellFormed(raw),
           NEW r, r = Process(raw),
           NEW a, a = Admission(r, r.event.user),
           a.decision = "reject", a.why \in SecurityReasons
    PROVE  r.event.ignore \/ r.event.sens \in {"high", "critical"}
<1> DEFINE e == r.event
           other == e.user # e.user
           ignored == e.status = "ignored"
           sensitive == e.sens \in {"high", "critical"}
           unchecked == e.src = "tool_result" /\ ~e.checked
           rules == <<
             Rule(other, Rejected("user_id_mismatch")),
             Rule(e.ignore, Rejected("event_should_ignore")),
             Rule(ignored, Rejected("event_status_ignored")),
             Rule(r.gate, Rejected("security_gate_triggered")),
             Rule(sensitive, Rejected("event_sensitive")),
             Rule(unchecked, Rejected("tool_payload_unchecked")),
             Rule(e.status \in {"cancelled", "timeout"}, Rejected("event_status_unfinished")),
             Rule(~r.eligible, [decision |-> "audit_only", why |-> "quality_not_eligible",
                                kinds |-> {}]),
             Rule(e.status = "failed", Allowed("failed_tool", {"failure_experience"})),
             Rule(e.status = "partial", Allowed("partial", {"preference"})),
             Rule(TRUE, Allowed("ok", Kinds)) >>
<1>1. a = Decision(rules)
  BY DEF Admission
<1>2. DOMAIN rules = 1 .. 11
  OBVIOUS
<1>3. /\ rules[1] = Rule(other, Rejected("user_id_mismatch"))
      /\ rules[2] = Rule(e.ignore, Rejected("event_should_ignore"))
      /\ rules[3] = Rule(ignored, Rejected("event_status_ignored"))
      /\ rules[4] = Rule(r.gate, Rejected("security_gate_triggered"))
      /\ rules[5] = Rule(sensitive, Rejected("event_sensitive"))
      /\ rules[6] = Rule(unchecked,
                         Rejected("tool_payload_unchecked"))
      /\ rules[7] = Rule(e.status \in {"cancelled", "timeout"},
                         Rejected("event_status_unfinished"))
      /\ rules[8] = Rule(~r.eligible, [decision |-> "audit_only",
                                       why |-> "quality_not_eligible", kinds |-> {}])
      /\ rules[9] = Rule(e.status = "failed", Allowed("failed_tool", {"failure_experience"}))
      /\ rules[10] = Rule(e.status = "partial", Allowed("partial", {"preference"}))
      /\ rules[11] = Rule(TRUE, Allowed("ok", Kinds))
  OBVIOUS
<1> HIDE DEF rules, other, ignored, sensitive, unchecked
<1>4. rules[11].when
  BY <1>3 DEF Rule
<1>5. PICK i \in 1 .. 11 : rules[i].when /\ a = rules[i].then
  <2>1. 11 \in Nat /\ 11 \in 1 .. 11
    OBVIOUS
  <2>2. \E i \in 1 .. 11 : rules[i].when /\ Decision(rules) = rules[i].then
    BY <1>2, <1>4, <2>1, DecisionIs
  <2>3. QED
    BY <1>1, <2>2
<1>6. i \in {1, 2, 3, 4, 5, 6, 7, 8, 9, 10, 11}
  BY <1>5
<1>7. i # 1
  <2>1. rules[1].when = other
    BY <1>3 DEF Rule
  <2>2. ~other
    BY DEF other
  <2>3. QED
    BY <1>5, <2>1, <2>2
<1>8. i # 7
  BY <1>3, <1>5 DEF Rule, Rejected, SecurityReasons
<1>9. i # 8
  BY <1>3, <1>5 DEF Rule
<1>10. i \notin {9, 10, 11}
  BY <1>3, <1>5 DEF Rule, Allowed
<1>11. CASE i = 2
  BY <1>3, <1>5, <1>11 DEF Rule
<1>12. CASE i = 3
  <2>1. rules[3].when = ignored
    BY <1>3 DEF Rule
  <2>2. ignored
    BY <1>5, <1>12, <2>1
  <2>3. e.status = "ignored"
    BY <2>2 DEF ignored
  <2>4. QED
    BY <2>3, ProcessIs DEF WellFormed
<1>13. CASE i = 4
  <2>1. r.gate
    BY <1>3, <1>5, <1>13 DEF Rule
  <2>2. QED
    BY <2>1, ProcessIs
<1>14. CASE i = 5
  <2>1. rules[5].when = sensitive
    BY <1>3 DEF Rule
  <2>2. sensitive
    BY <1>5, <1>14, <2>1
  <2>3. QED
    BY <2>2 DEF sensitive
<1>15. CASE i = 6
  <2>1. rules[6].when = unchecked
    BY <1>3 DEF Rule
  <2>2. unchecked
    BY <1>5, <1>15, <2>1
  <2>3. e.src = "tool_result" /\ ~e.checked
    BY <2>2 DEF unchecked
  <2>4. QED
    BY <2>3, ProcessIs DEF SecurityGate
<1>16. QED
  BY <1>6, <1>7, <1>8, <1>9, <1>10, <1>11, <1>12, <1>13, <1>14, <1>15

\* A row whose text is withheld is one whose identity leaves the text out.
LEMMA SuppressedHides ==
    ASSUME NEW raw \in Requests, raw.kind = "event", WellFormed(raw),
           NEW r, r = Process(raw),
           Suppressed(r, Decide(r, r.event.user))
    PROVE  IdentityHidden(r.event)
<1> DEFINE a == Decide(r, r.event.user)
<1>1. CASE r.event.consent = "none"
  BY <1>1 DEF IdentityHidden
<1>2. CASE r.event.consent # "none" /\ a.decision = "reject" /\ a.why \in SecurityReasons
  <2>1. a = Admission(r, r.event.user)
    BY <1>2 DEF Decide
  <2> HIDE DEF a
  <2>2. QED
    BY <1>2, <2>1, SecurityHides DEF IdentityHidden
<1>3. CASE ~(a.decision = "reject" /\ a.why \in SecurityReasons)
  <2>1. r.event.ignore \/ r.gate \/ r.event.matched \/ r.event.consent = "none"
        \/ r.event.sens \in {"high", "critical"}
    BY <1>3 DEF Suppressed
  <2>2. r.gate => r.event.ignore
    BY ProcessIs
  <2>3. QED
    BY <2>1, <2>2 DEF IdentityHidden
<1>4. QED
  BY <1>1, <1>2, <1>3

\* What a faithful row says of the event it was made of.
LEMMA RowIs ==
    ASSUME NEW row, Faithful(row)
    PROVE  LET e == Process(row.raw).event IN
           /\ row.event.id = row.raw.id /\ row.event.user = row.raw.user
           /\ row.event.src = row.raw.src
           /\ Identity(row.event) = Identity(e)
           /\ row.fp # NoContent =>
                row.fp = ContentFingerprint(e) /\ row.event.content = row.raw.content
<1> DEFINE r == Process(row.raw)
           a == Decide(r, r.event.user)
           hide == Suppressed(r, a)
           stored == RowOf(r, a, row.raw, row.at)
<1>1. /\ row.raw \in Requests /\ row.raw.kind = "event" /\ WellFormed(row.raw)
      /\ row = [stored EXCEPT !.dup = row.dup]
  BY DEF Faithful
<1>2. stored = [event |-> IF hide THEN [r.event EXCEPT !.content = NoContent] ELSE r.event,
                fp |-> IF hide THEN NoContent ELSE ContentFingerprint(r.event),
                decision |-> a.decision, why |-> a.why, dup |-> 0, at |-> row.at,
                raw |-> row.raw]
  BY DEF RowOf
<1> HIDE DEF stored
<1>3. /\ row.event = IF hide THEN [r.event EXCEPT !.content = NoContent] ELSE r.event
      /\ row.fp = IF hide THEN NoContent ELSE ContentFingerprint(r.event)
  BY <1>1, <1>2
<1> DEFINE e == r.event
<1>4. /\ e.id = row.raw.id /\ e.user = row.raw.user /\ e.src = row.raw.src
      /\ e.content = row.raw.content /\ DOMAIN e = EventFields
  BY <1>1, ProcessIs
<1>5. CASE hide
  <2>1. IdentityHidden(e)
    BY <1>1, <1>5, SuppressedHides
  <2> HIDE DEF e, hide
  <2>2. row.event = [e EXCEPT !.content = NoContent] /\ row.fp = NoContent
    BY <1>3, <1>5 DEF e
  <2>3. /\ row.event.id = e.id /\ row.event.user = e.user /\ row.event.src = e.src
        /\ row.event.actor = e.actor /\ row.event.type = e.type
        /\ row.event.occurred = e.occurred
        /\ row.event.matched = e.matched /\ row.event.sens = e.sens
        /\ row.event.consent = e.consent /\ row.event.ignore = e.ignore
    BY <1>4, <2>2 DEF EventFields
  <2>4. Identity(row.event) = Identity(e)
    BY <2>1, <2>3 DEF Identity, IdentityHidden
  <2>5. QED
    BY <1>4, <2>2, <2>3, <2>4 DEF e
<1>6. CASE ~hide
  BY <1>3, <1>4, <1>6
<1>7. QED
  BY <1>5, <1>6

\* What event.ingest leaves for the event raw at n: the row there is, or a new one.
EventFound(d, e, raw, data) ==
    /\ e.events = d.events
    /\ data[2] \in DOMAIN d.events
    /\ d.events[data[2]].event.id = raw.id /\ d.events[data[2]].event.user = raw.user

EventStored(d, e, raw, n, data) ==
    \E row : /\ e.events = Append(d.events, row)
             /\ Faithful(row) /\ row.raw = raw /\ row.at = n
             /\ row.dup = GroupHead(d, row, n)
             /\ \A i \in DOMAIN d.events : d.events[i].event.id # raw.id
             /\ data[2] = Len(d.events) + 1

EventSaved(d, e, raw, n, data) ==
    /\ DOMAIN e = Tables
    /\ e.conv = d.conv /\ e.turns = d.turns /\ e.outbox = d.outbox
    /\ EventFound(d, e, raw, data) \/ EventStored(d, e, raw, n, data)

\* What a unit of work that succeeds without writing returns.
LEMMA DoneIs ==
    ASSUME NEW d, NEW data
    PROVE  /\ Done(d, data).ok /\ Done(d, data).db = d
           /\ Done(d, data).answer = Ok(data) /\ Ok(data).data = data /\ Ok(data).status = "ok"
BY DEF Done, Ok

\* An event whose id is stored is answered with the stored row, or refused.
LEMMA ReplayIs ==
    ASSUME NEW d, DOMAIN d = Tables, NEW raw \in Requests, raw.kind = "event",
           NEW id \in EventsOf(d, Process(raw).event), NEW n
    PROVE  LET run == Replay(d, Process(raw), id) IN
           \/ ~run.ok /\ run.answer.status # "ok"
           \/ /\ run.ok /\ run.db.cache = d.cache
              /\ EventSaved(d, run.db, raw, n, run.answer.data)
<1> DEFINE r == Process(raw)
           run == Replay(d, r, id)
<1>1. /\ id \in DOMAIN d.events
      /\ d.events[id].event.id = raw.id /\ d.events[id].event.user = raw.user
  BY ProcessIs DEF EventsOf
<1>2. CASE Identity(d.events[id].event) = Identity(r.event)
  <2> DEFINE data == <<"replay", id, d.events[id].decision>>
  <2>1. run = Done(d, data)
    BY <1>2 DEF Replay
  <2>2. data[2] = id
    OBVIOUS
  <2> HIDE DEF run, data
  <2>3. run.ok /\ run.db = d /\ run.answer.data = data
    BY <2>1, DoneIs
  <2>4. EventSaved(d, run.db, raw, n, run.answer.data)
    BY <1>1, <2>2, <2>3 DEF EventSaved, EventFound
  <2>5. QED
    BY <2>3, <2>4 DEF run
<1>3. CASE Identity(d.events[id].event) # Identity(r.event)
  <2>1. run = Failed(d, "INVALID_REQUEST", "identity")
    BY <1>3 DEF Replay
  <2>2. QED
    BY <2>1, FailedIs
<1>4. QED
  BY <1>2, <1>3

\* The head of a group depends on the rows, the event and its fingerprint only.
LEMMA HeadIs ==
    ASSUME NEW d, NEW e, e.events = d.events,
           NEW row, NEW bare, bare.event = row.event, bare.fp = row.fp, NEW n
    PROVE  GroupHead(e, bare, n) = GroupHead(d, row, n)
<1> DEFINE Oldest(events, event, fp) ==
      LET same == {i \in DOMAIN events : /\ events[i].event.user = event.user
                                         /\ events[i].fp = fp
                                         /\ events[i].event.src = event.src
                                         /\ events[i].event.captured >= n - Day}
      IN  IF fp = NoContent \/ same = {} THEN 0
          ELSE CHOOSE i \in same : \A j \in same : i <= j
<1>1. /\ GroupHead(d, row, n) = Oldest(d.events, row.event, row.fp)
      /\ GroupHead(e, bare, n) = Oldest(e.events, bare.event, bare.fp)
  BY DEF GroupHead
<1> HIDE DEF Oldest
<1>2. QED
  BY <1>1

\* A row under a new id is stored at the end of the table, or refused.
LEMMA StoreIs ==
    ASSUME NEW d, TableTypes(d), NEW raw \in Requests, raw.kind = "event", WellFormed(raw),
           NEW n,
           NEW bare, bare = RowOf(Process(raw), Decide(Process(raw), Process(raw).event.user),
                                  raw, n)
    PROVE  LET run == StoreEvent(d, [bare EXCEPT !.dup = GroupHead(d, bare, n)]) IN
           \/ ~run.ok /\ run.answer.status # "ok"
           \/ /\ run.ok /\ run.db.cache = d.cache
              /\ EventSaved(d, run.db, raw, n, run.answer.data)
<1> DEFINE row == [bare EXCEPT !.dup = GroupHead(d, bare, n)]
           run == StoreEvent(d, row)
<1>1. /\ DOMAIN bare = {"event", "fp", "decision", "why", "dup", "at", "raw"}
      /\ bare.raw = raw /\ bare.at = n
  BY DEF RowOf
<1>2. /\ row.raw = raw /\ row.at = n /\ row.event = bare.event /\ row.fp = bare.fp
      /\ row.dup = GroupHead(d, bare, n)
      /\ row = [bare EXCEPT !.dup = row.dup]
  BY <1>1
<1> HIDE DEF row
<1>3. Faithful(row)
  BY <1>2 DEF Faithful
<1>4. row.dup = GroupHead(d, row, n)
  BY <1>2, HeadIs
<1>5. row.event.id = raw.id
  BY <1>2, <1>3, RowIs
<1>6. CASE \E i \in DOMAIN d.events : d.events[i].event.id = row.event.id
  <2>1. run = Failed(d, "INVALID_REQUEST", "identity")
    BY <1>6 DEF StoreEvent
  <2>2. QED
    BY <2>1, FailedIs DEF row
<1>7. CASE \A i \in DOMAIN d.events : d.events[i].event.id # row.event.id
  <2> DEFINE e == [d EXCEPT !.events = Append(d.events, row)]
             data == <<"event", Len(d.events) + 1, row.decision, row.dup>>
  <2>1. run = Done(e, data)
    BY <1>7 DEF StoreEvent
  <2>2. data[2] = Len(d.events) + 1
    OBVIOUS
  <2>3. /\ DOMAIN e = Tables /\ e.conv = d.conv /\ e.turns = d.turns
        /\ e.outbox = d.outbox /\ e.events = Append(d.events, row) /\ e.cache = d.cache
    BY DEF TableTypes, Tables
  <2> HIDE DEF run, data, e
  <2>4. run.ok /\ run.db = e /\ run.answer.data = data
    BY <2>1, DoneIs
  <2>5. EventStored(d, e, raw, n, data)
    BY <1>2, <1>3, <1>4, <1>5, <1>7, <2>2, <2>3 DEF EventStored
  <2>6. EventSaved(d, e, raw, n, data)
    BY <2>3, <2>5 DEF EventSaved
  <2>7. QED
    BY <2>3, <2>4, <2>6 DEF run, row
<1>8. QED
  BY <1>6, <1>7

\* Whatever event.ingest is given, it writes nothing, or stores or finds the event
\* and remembers the answer in the same commit.
LEMMA EventOutcome ==
    ASSUME NEW d, TableTypes(d), NEW raw \in Requests, raw.kind = "event", NEW n
    PROVE  LET out == EventIngest(d, raw, n)
               t == EventTriple(raw)
               fp == EventFingerprint(Process(raw))
           IN  \/ Unwritten(d, out, t, fp)
               \/ /\ Written(d, out, t, fp, n)
                  /\ EventSaved(d, out.db, raw, n, out.answer.data)
<1> DEFINE t   == EventTriple(raw)
           fp  == EventFingerprint(Process(raw))
           d0  == Dropped(d, CacheRows(d, t))
           run == Ingest(d0, Process(raw), raw, n)
           out == EventIngest(d, raw, n)
<1>1. out = IF raw.defect \in EventDefects \/ ~WellFormed(raw)
            THEN [db |-> d, answer |-> Refuse("INVALID_REQUEST", "event")]
            ELSE IF Cached(d, t, n) THEN [db |-> d, answer |-> Unwrap(d.cache[t], fp)]
            ELSE [db |-> IF run.ok THEN Remember(Committed(d, run), t, fp, run.answer.data, n)
                         ELSE Committed(d, run),
                  answer |-> run.answer]
  BY DEF EventIngest, ExecuteIdempotent
<1> SUFFICES \/ Unwritten(d, out, t, fp)
             \/ Written(d, out, t, fp, n) /\ EventSaved(d, out.db, raw, n, out.answer.data)
  OBVIOUS
<1> HIDE DEF out, t, fp
<1>2. CASE raw.defect \in EventDefects \/ ~WellFormed(raw)
  <2>1. out.db = d /\ out.answer = Refuse("INVALID_REQUEST", "event")
    BY <1>1, <1>2
  <2>2. QED
    BY <2>1, RefuseIs DEF Unwritten
<1>3. CASE ~(raw.defect \in EventDefects \/ ~WellFormed(raw)) /\ Cached(d, t, n)
  <2>1. t \in DOMAIN d.cache
    BY <1>3 DEF Cached, CacheRows
  <2>2. out.db = d /\ out.answer = Unwrap(d.cache[t], fp)
    BY <1>1, <1>3
  <2>3. CASE d.cache[t].fp = fp
    BY <2>1, <2>2, <2>3 DEF Unwritten, Unwrap, Ok
  <2>4. CASE d.cache[t].fp # fp
    <3>1. out.answer = Refuse("INVALID_REQUEST", "other fingerprint")
      BY <2>2, <2>4 DEF Unwrap
    <3>2. QED
      BY <2>2, <3>1, RefuseIs DEF Unwritten
  <2>5. QED
    BY <2>3, <2>4
<1>4. CASE ~(raw.defect \in EventDefects \/ ~WellFormed(raw)) /\ ~Cached(d, t, n)
  <2>1. /\ out.db = IF run.ok THEN Remember(Committed(d, run), t, fp, run.answer.data, n)
                    ELSE Committed(d, run)
        /\ out.answer = run.answer
    BY <1>1, <1>4
  <2>2. DOMAIN d = Tables
    BY DEF TableTypes
  <2>3. SameRows(d, d0) /\ TableTypes(d0)
    BY <2>2, DroppedIs DEF TableTypes, SameRows
  <2> HIDE DEF d0
  <2>4. \/ ~run.ok /\ run.answer.status # "ok"
        \/ /\ run.ok /\ run.db.cache = d0.cache
           /\ EventSaved(d0, run.db, raw, n, run.answer.data)
    <3> DEFINE r == Process(raw)
               mine == EventsOf(d0, r.event)
               bare == RowOf(r, Decide(r, r.event.user), raw, n)
               id == CHOOSE i \in mine : TRUE
    <3>1. run = IF mine # {} THEN Replay(d0, r, id)
                ELSE StoreEvent(d0, [bare EXCEPT !.dup = GroupHead(d0, bare, n)])
      BY DEF Ingest
    <3>2. CASE mine # {}
      <4>1. id \in mine
        BY <3>2
      <4> HIDE DEF id
      <4>2. run = Replay(d0, Process(raw), id) /\ id \in EventsOf(d0, Process(raw).event)
        BY <3>1, <3>2, <4>1
      <4>3. QED
        BY <2>3, <4>2, ReplayIs DEF TableTypes
    <3>3. CASE mine = {}
      <4>1. run = StoreEvent(d0, [bare EXCEPT !.dup = GroupHead(d0, bare, n)])
        BY <3>1, <3>3
      <4>2. bare = RowOf(Process(raw), Decide(Process(raw), Process(raw).event.user), raw, n)
        OBVIOUS
      <4> HIDE DEF bare, run
      <4>3. QED
        BY <1>4, <2>3, <4>1, <4>2, StoreIs
    <3>4. QED
      BY <3>2, <3>3
  <2> HIDE DEF run
  <2>5. CASE ~run.ok /\ run.answer.status # "ok"
    BY <2>1, <2>5 DEF Committed, Unwritten
  <2>6. CASE run.ok /\ run.db.cache = d0.cache
             /\ EventSaved(d0, run.db, raw, n, run.answer.data)
    <3> DEFINE e == Remember(run.db, t, fp, run.answer.data, n)
    <3>1. out.db = e /\ out.answer = run.answer
      BY <2>1, <2>6 DEF Committed
    <3>2. SameRows(run.db, e) /\ Kept(run.db, e, t, fp, run.answer.data, n)
      BY <2>6, RememberIs DEF EventSaved
    <3> HIDE DEF e
    <3>3. Kept(d, e, t, fp, out.answer.data, n)
      BY <2>2, <2>6, <3>1, <3>2, DroppedThenKept DEF d0
    <3>4. EventSaved(d, e, raw, n, out.answer.data)
      <4>1. /\ DOMAIN e = Tables
            /\ e.conv = d.conv /\ e.turns = d.turns /\ e.outbox = d.outbox
        BY <2>3, <2>6, <3>2 DEF EventSaved, SameRows
      <4>2. CASE EventFound(d0, run.db, raw, run.answer.data)
        BY <2>3, <3>1, <3>2, <4>1, <4>2 DEF EventSaved, EventFound, SameRows
      <4>3. CASE EventStored(d0, run.db, raw, n, run.answer.data)
        <5>1. d.events = d0.events
          BY <2>3 DEF SameRows
        <5>2. \A row : GroupHead(d0, row, n) = GroupHead(d, row, n)
          BY <5>1, HeadIs
        <5>3. EventStored(d, e, raw, n, out.answer.data)
          BY <3>1, <3>2, <4>3, <5>1, <5>2 DEF EventStored, SameRows
        <5>4. QED
          BY <4>1, <5>3 DEF EventSaved
      <4>4. QED
        BY <2>6, <4>2, <4>3 DEF EventSaved
    <3>5. QED
      BY <1>4, <3>1, <3>3, <3>4 DEF Written
  <2>7. QED
    BY <2>4, <2>5, <2>6
<1>5. QED
  BY <1>2, <1>3, <1>4

-----------------------------------------------------------------------------
(* What a call keeps of the invariant *)

\* Rows are added; a session that is claimed stays its user's.
Grown(d, e) ==
    /\ \A s \in Sessions : d.conv[s] # Nobody => e.conv[s] = d.conv[s]
    /\ \A i \in DOMAIN d.turns :
         /\ i \in DOMAIN e.turns
         /\ e.turns[i].session = d.turns[i].session /\ e.turns[i].host = d.turns[i].host
    /\ \A i \in DOMAIN d.events : i \in DOMAIN e.events /\ e.events[i] = d.events[i]

\* Saving a turn keeps the tables well formed, and what was in them.
LEMMA TurnSavedGrows ==
    ASSUME NEW d, TableTypes(d), NEW e, NEW r, r.session \in Sessions, r.user \in Users,
           NEW n, NEW data, TurnSaved(d, e, r, n, data)
    PROVE  TableTypes(e) /\ Grown(d, e)
<1>1. e.conv \in [Sessions -> Users \cup {Nobody}]
  BY DEF TableTypes, TurnSaved
<1>2. \A s \in Sessions : d.conv[s] # Nobody => e.conv[s] = d.conv[s]
  BY DEF TableTypes, TurnSaved
<1>3. IsList(e.outbox)
  BY Appended DEF TableTypes, TurnSaved
<1>4. TableTypes(e)
  BY <1>1, <1>3 DEF TableTypes, TurnSaved, TurnsGrow
<1>5. QED
  BY <1>2, <1>4 DEF Grown, TurnSaved, TurnsGrow

\* Storing an event keeps the tables well formed, and what was in them.
LEMMA EventSavedGrows ==
    ASSUME NEW d, TableTypes(d), NEW e, NEW raw, NEW n, NEW data,
           EventSaved(d, e, raw, n, data)
    PROVE  TableTypes(e) /\ Grown(d, e)
<1>1. CASE EventFound(d, e, raw, data)
  BY <1>1 DEF TableTypes, EventSaved, EventFound, Grown
<1>2. CASE EventStored(d, e, raw, n, data)
  <2>1. PICK row : e.events = Append(d.events, row)
    BY <1>2 DEF EventStored
  <2>2. IsList(d.events)
    BY DEF TableTypes
  <2>3. /\ IsList(e.events)
        /\ \A i \in DOMAIN d.events : i \in DOMAIN e.events /\ e.events[i] = d.events[i]
    BY <2>1, <2>2, Appended
  <2>4. QED
    BY <2>3 DEF TableTypes, EventSaved, Grown
<1>3. QED
  BY <1>1, <1>2 DEF EventSaved

\* What was true of a turn or an event stays true.
LEMMA GrownKeeps ==
    ASSUME NEW d, NEW e, Grown(d, e), NEW id
    PROVE  /\ \A user \in Users, session \in Sessions :
                \A host : TurnIs(d, id, user, session, host) =>
                            TurnIs(e, id, user, session, host)
           /\ \A event, user : EventIs(d, id, event, user) => EventIs(e, id, event, user)
<1>1. ASSUME NEW user \in Users, NEW session \in Sessions, NEW host,
             TurnIs(d, id, user, session, host)
      PROVE  TurnIs(e, id, user, session, host)
  BY <1>1, NobodyAssumption DEF TurnIs, Grown
<1>2. ASSUME NEW event, NEW user, EventIs(d, id, event, user)
      PROVE  EventIs(e, id, event, user)
  BY <1>2 DEF EventIs, Grown
<1>3. QED
  BY <1>1, <1>2

\* An answer that was true stays true as the tables grow.
LEMMA AnswersStay ==
    ASSUME NEW d, NEW e, Grown(d, e), NEW r \in Requests, NEW answer,
           SaysTrue(d, r, answer)
    PROVE  SaysTrue(e, r, answer)
<1>1. CASE r.kind = "turn"
  BY <1>1, GrownKeeps, RequestAssumption DEF SaysTrue
<1>2. CASE r.kind # "turn"
  BY <1>2, GrownKeeps DEF SaysTrue
<1>3. QED
  BY <1>1, <1>2

\* An answer that is kept for a day is in the cache, and those that were there
\* stay true.
LEMMA CacheKept ==
    ASSUME NEW d, NEW e, CacheStands(d), Grown(d, e),
           NEW t, NEW fp, NEW data, NEW n \in Nat, Kept(d, e, t, fp, data, n),
           fp[1] = "turn.finalized" =>
              /\ t[1] \in Users /\ t[2] \in Sessions
              /\ TurnIs(e, data[2], t[1], t[2], fp[3]),
           fp[1] = "event.ingest" => EventIs(e, data[2], fp[2], fp[3])
    PROVE  CacheStands(e)
<1> SUFFICES ASSUME NEW x \in DOMAIN e.cache
             PROVE  LET row == e.cache[x] IN
                    /\ row.until \in Nat
                    /\ row.fp[1] = "turn.finalized" =>
                         /\ x[1] \in Users /\ x[2] \in Sessions
                         /\ TurnIs(e, row.data[2], x[1], x[2], row.fp[3])
                    /\ row.fp[1] = "event.ingest" =>
                         EventIs(e, row.data[2], row.fp[2], row.fp[3])
  BY DEF CacheStands
<1>1. CASE x = t
  <2>1. e.cache[x].fp = fp /\ e.cache[x].data = data /\ e.cache[x].until = n + 2
    BY <1>1 DEF Kept, Day
  <2>2. QED
    BY <1>1, <2>1
<1>2. CASE x # t
  <2>1. x \in DOMAIN d.cache /\ e.cache[x] = d.cache[x]
    BY <1>2 DEF Kept
  <2>2. QED
    BY <2>1, GrownKeeps DEF CacheStands
<1>3. QED
  BY <1>1, <1>2

\* A new effect under a key that is not in the cache is a day away from the
\* others of that key.
LEMMA EffectsKept ==
    ASSUME NEW d, NEW e, NEW n \in Nat, Remembered(d, n), Apart(d), CacheStands(d),
           NEW t, NEW fp, NEW data, Kept(d, e, t, fp, data, n), ~Cached(d, t, n),
           NEW y, y[3] = t, y[4] = n,
           Effects(e) \subseteq Effects(d) \cup {y}
    PROVE  Remembered(e, n) /\ Apart(e)
<1>1. e.cache[t].until = n + 2
  BY DEF Kept, Day
<1>2. \A x \in DOMAIN d.cache : x \in DOMAIN e.cache /\ (x # t => e.cache[x] = d.cache[x])
  BY DEF Kept
<1>3. ASSUME NEW x \in Effects(d), x[3] = t
      PROVE  x[4] \in Nat /\ n - x[4] >= 2
  <2>1. x[4] \in Nat /\ x[4] <= n
        /\ (n - x[4] >= 2 \/ (t \in DOMAIN d.cache /\ d.cache[t].until >= x[4] + 2))
    BY <1>3 DEF Remembered, Day
  <2>2. t \in DOMAIN d.cache => d.cache[t].until \in Nat /\ d.cache[t].until <= n
    BY DEF CacheStands, Cached, CacheRows
  <2>3. QED
    BY <2>1, <2>2
<1>4. Remembered(e, n)
  <2> SUFFICES ASSUME NEW x \in Effects(e)
               PROVE  /\ x[4] \in Nat /\ x[4] <= n
                      /\ n - x[4] >= 2
                         \/ (x[3] \in DOMAIN e.cache /\ e.cache[x[3]].until >= x[4] + 2)
    BY DEF Remembered, Day
  <2>1. CASE x = y
    BY <1>1, <2>1 DEF Kept
  <2>2. CASE x \in Effects(d) /\ x[3] = t
    <3>1. x[4] \in Nat /\ x[4] <= n
      BY <2>2 DEF Remembered
    <3>2. QED
      BY <1>3, <2>2, <3>1
  <2>3. CASE x \in Effects(d) /\ x[3] # t
    BY <1>2, <2>3 DEF Remembered, Day
  <2>4. QED
    BY <2>1, <2>2, <2>3
<1>5. Apart(e)
  <2> SUFFICES ASSUME NEW x \in Effects(e), NEW z \in Effects(e), x # z, x[3] = z[3]
               PROVE  x[4] - z[4] >= 2 \/ z[4] - x[4] >= 2
    BY DEF Apart, Day
  <2>1. CASE x \in Effects(d) /\ z \in Effects(d)
    BY <2>1 DEF Apart, Day
  <2>2. CASE x \in Effects(d) /\ z = y
    BY <1>3, <2>2
  <2>3. CASE x = y /\ z \in Effects(d)
    BY <1>3, <2>3
  <2>4. QED
    BY <2>1, <2>2, <2>3
<1>6. QED
  BY <1>4, <1>5

\* Two rows of one fingerprint and of different events are of one text.
LEMMA SameText ==
    ASSUME NEW row, Faithful(row), NEW head, Faithful(head),
           row.fp # NoContent, head.fp = row.fp, row.raw.id # head.raw.id
    PROVE  row.raw.content = head.raw.content /\ row.event.content # NoContent
<1> DEFINE e == Process(row.raw).event
           h == Process(head.raw).event
<1>1. /\ row.fp = ContentFingerprint(e) /\ head.fp = ContentFingerprint(h)
      /\ row.event.content = row.raw.content
  BY RowIs
<1>2. /\ e.id = row.raw.id /\ h.id = head.raw.id
      /\ e.content = row.raw.content /\ h.content = head.raw.content
  BY ProcessIs DEF Faithful
<1> HIDE DEF e, h
<1>3. CASE e.content # NoContent /\ h.content # NoContent
  <2>1. <<"text", e.content>> = <<"text", h.content>>
    BY <1>1, <1>3 DEF ContentFingerprint
  <2>2. QED
    BY <1>1, <1>2, <1>3, <2>1
<1>4. CASE e.content = NoContent /\ h.content = NoContent
  <2>1. <<"ids", e.id, e.key, e.session>> = <<"ids", h.id, h.key, h.session>>
    BY <1>1, <1>4 DEF ContentFingerprint
  <2>2. QED
    BY <1>2, <2>1
<1>5. CASE e.content # NoContent /\ h.content = NoContent
  <2>1. <<"text", e.content>> = <<"ids", h.id, h.key, h.session>>
    BY <1>1, <1>5 DEF ContentFingerprint
  <2>2. <<"text", e.content>>[1] # <<"ids", h.id, h.key, h.session>>[1]
    OBVIOUS
  <2>3. QED
    BY <2>1, <2>2
<1>6. CASE e.content = NoContent /\ h.content # NoContent
  <2>1. <<"ids", e.id, e.key, e.session>> = <<"text", h.content>>
    BY <1>1, <1>6 DEF ContentFingerprint
  <2>2. <<"ids", e.id, e.key, e.session>>[1] # <<"text", h.content>>[1]
    OBVIOUS
  <2>3. QED
    BY <2>1, <2>2
<1>7. QED
  BY <1>3, <1>4, <1>5, <1>6

\* The head of a group is a row of the group.
LEMMA HeadOfGroup ==
    ASSUME NEW d, IsList(d.events), NEW row, NEW n
    PROVE  LET same == {i \in DOMAIN d.events :
                           /\ d.events[i].event.user = row.event.user
                           /\ d.events[i].fp = row.fp
                           /\ d.events[i].event.src = row.event.src
                           /\ d.events[i].event.captured >= n - Day}
           IN  IF row.fp = NoContent \/ same = {} THEN GroupHead(d, row, n) = 0
               ELSE GroupHead(d, row, n) \in same
<1> DEFINE same == {i \in DOMAIN d.events :
                       /\ d.events[i].event.user = row.event.user
                       /\ d.events[i].fp = row.fp
                       /\ d.events[i].event.src = row.event.src
                       /\ d.events[i].event.captured >= n - Day}
<1>1. same \in SUBSET Nat
  BY Appended
<1>2. GroupHead(d, row, n) = IF row.fp = NoContent \/ same = {} THEN 0
                             ELSE CHOOSE i \in same : \A j \in same : i <= j
  BY DEF GroupHead
<1> SUFFICES IF row.fp = NoContent \/ same = {} THEN GroupHead(d, row, n) = 0
             ELSE GroupHead(d, row, n) \in same
  OBVIOUS
<1> HIDE DEF same
<1>3. CASE row.fp = NoContent \/ same = {}
  BY <1>2, <1>3
<1>4. CASE row.fp # NoContent /\ same # {}
  <2>1. \E i \in same : \A j \in same : i <= j
    BY <1>1, <1>4, LeastExists
  <2>2. (CHOOSE i \in same : \A j \in same : i <= j) \in same
    BY <2>1
  <2>3. QED
    BY <1>2, <1>4, <2>2
<1>5. QED
  BY <1>3, <1>4

\* The stored events stand as long as their table is not written.
LEMMA EventsStay ==
    ASSUME NEW d, NEW e, e.events = d.events, EventsStand(d)
    PROVE  EventsStand(e)
BY DEF EventsStand, DupStands

\* A new event stands, and leaves those before it standing: its head is found
\* among them, and if there is none it is the first of its day.
LEMMA EventsAdded ==
    ASSUME NEW d, IsList(d.events), EventsStand(d), NEW e, NEW raw \in Requests,
           raw.kind = "event", NEW n, NEW data, EventStored(d, e, raw, n, data)
    PROVE  EventsStand(e)
<1>1. PICK row : /\ e.events = Append(d.events, row)
                 /\ Faithful(row) /\ row.raw = raw /\ row.at = n
                 /\ row.dup = GroupHead(d, row, n)
                 /\ \A i \in DOMAIN d.events : d.events[i].event.id # raw.id
  BY DEF EventStored
<1> DEFINE new == Len(d.events) + 1
<1>2. /\ new \in Nat /\ DOMAIN d.events = 1 .. new - 1 /\ DOMAIN e.events = 1 .. new
      /\ \A i \in 1 .. new - 1 : e.events[i] = d.events[i]
      /\ e.events[new] = row
  BY <1>1, Appended
<1> HIDE DEF new
<1> SUFFICES ASSUME NEW j \in 1 .. new
             PROVE  /\ Faithful(e.events[j])
                    /\ DupStands(e, j)
                    /\ \A i \in 1 .. j - 1 : e.events[i].event.id # e.events[j].event.id
  BY <1>2 DEF EventsStand
<1>3. CASE j # new
  <2>1. j \in DOMAIN d.events /\ e.events[j] = d.events[j]
    BY <1>2, <1>3
  <2>2. \A i \in 1 .. j - 1 : e.events[i] = d.events[i]
    BY <1>2, <1>3
  <2>3. DupStands(d, j)
    BY <2>1 DEF EventsStand
  <2>4. DupStands(e, j)
    BY <2>1, <2>2, <2>3 DEF DupStands
  <2>5. QED
    BY <2>1, <2>2, <2>4 DEF EventsStand
<1>4. CASE j = new
  <2>1. /\ e.events[j] = row
        /\ \A i \in 1 .. j - 1 : i \in DOMAIN d.events /\ e.events[i] = d.events[i]
    BY <1>2, <1>4
  <2>2. row.event.id = raw.id
    BY <1>1, RowIs
  <2>3. \A i \in 1 .. j - 1 : e.events[i].event.id # row.event.id
    BY <1>1, <2>1, <2>2
  <2>4. ASSUME row.dup # 0
        PROVE  LET head == e.events[row.dup] IN
               /\ row.dup \in 1 .. j - 1
               /\ head.event.user = row.event.user
               /\ head.event.src = row.event.src
               /\ head.raw.content = row.raw.content
               /\ row.event.content # NoContent
    <3> DEFINE head == d.events[row.dup]
    <3>1. /\ row.dup \in DOMAIN d.events /\ row.fp # NoContent
          /\ head.event.user = row.event.user /\ head.fp = row.fp
          /\ head.event.src = row.event.src
      BY <1>1, <2>4, HeadOfGroup
    <3>2. Faithful(head) /\ head.event.id = head.raw.id
      BY <3>1, RowIs DEF EventsStand
    <3>3. row.raw.id # head.raw.id
      BY <1>1, <3>1, <3>2
    <3>4. row.raw.content = head.raw.content /\ row.event.content # NoContent
      BY <1>1, <3>1, <3>2, <3>3, SameText
    <3>5. row.dup \in 1 .. j - 1 /\ e.events[row.dup] = head
      BY <1>2, <1>4, <3>1
    <3>6. QED
      BY <3>1, <3>4, <3>5
  <2>5. ASSUME NEW i \in 1 .. j - 1,
               row.fp # NoContent, e.events[i].fp = row.fp,
               e.events[i].event.user = row.event.user,
               e.events[i].event.src = row.event.src,
               e.events[i].event.captured >= row.at - Day
        PROVE  row.dup # 0
    <3>1. GroupHead(d, row, n) \in DOMAIN d.events
      BY <1>1, <2>1, <2>5, HeadOfGroup
    <3>2. QED
      BY <1>1, <1>2, <3>1
  <2>6. DupStands(e, j)
    BY <2>1, <2>4, <2>5 DEF DupStands
  <2>7. QED
    BY <1>1, <2>1, <2>3, <2>6
<1>5. QED
  BY <1>3, <1>4

\* A call that finds its answer in the cache gives a true one.
LEMMA CachedIsTrue ==
    ASSUME NEW d, CacheStands(d), NEW r \in Requests, NEW out,
           \/ /\ r.kind = "turn" /\ Unwritten(d, out, Triple(r), TurnFingerprint(r))
           \/ /\ r.kind = "event"
              /\ Unwritten(d, out, EventTriple(r), EventFingerprint(Process(r)))
    PROVE  SaysTrue(d, r, out.answer)
<1>1. CASE r.kind = "turn" /\ Unwritten(d, out, Triple(r), TurnFingerprint(r))
  <2> DEFINE t == Triple(r)
             fp == TurnFingerprint(r)
  <2>1. /\ t[1] = r.user /\ t[2] = r.session
        /\ fp[1] = "turn.finalized" /\ fp[3] = r.host
    BY DEF Triple, TurnFingerprint
  <2> HIDE DEF t, fp
  <2>2. CASE out.answer.status # "ok"
    BY <2>2 DEF SaysTrue
  <2>3. CASE t \in DOMAIN d.cache /\ d.cache[t].fp = fp /\ out.answer.data = d.cache[t].data
    BY <1>1, <2>1, <2>3 DEF SaysTrue, CacheStands
  <2>4. QED
    BY <1>1, <2>2, <2>3 DEF Unwritten, t, fp
<1>2. CASE r.kind = "event" /\ Unwritten(d, out, EventTriple(r), EventFingerprint(Process(r)))
  <2> DEFINE t == EventTriple(r)
             e == Process(r).event
             fp == EventFingerprint(Process(r))
  <2>1. fp[1] = "event.ingest" /\ fp[2] = e.id /\ fp[3] = e.user
    BY DEF EventFingerprint
  <2>2. e.id = r.id /\ e.user = r.user
    BY <1>2, ProcessIs
  <2> HIDE DEF t, fp, e
  <2>3. CASE out.answer.status # "ok"
    BY <2>3 DEF SaysTrue
  <2>4. CASE t \in DOMAIN d.cache /\ d.cache[t].fp = fp /\ out.answer.data = d.cache[t].data
    BY <1>2, <2>1, <2>2, <2>4 DEF SaysTrue, CacheStands
  <2>5. QED
    BY <1>2, <2>3, <2>4 DEF Unwritten, t, fp
<1>3. QED
  BY <1>1, <1>2

\* turn.finalized keeps the tables in order and answers truly.
LEMMA TurnKeeps ==
    ASSUME NEW n \in Nat, NEW d, DbStands(d, n), NEW r \in Requests, r.kind = "turn"
    PROVE  LET out == TurnFinalized(d, r, n) IN
           DbStands(out.db, n) /\ Grown(d, out.db) /\ SaysTrue(out.db, r, out.answer)
<1> DEFINE t   == Triple(r)
           fp  == TurnFingerprint(r)
           out == TurnFinalized(d, r, n)
           e   == out.db
           data == out.answer.data
<1>0. /\ TableTypes(d) /\ Remembered(d, n) /\ Apart(d) /\ CacheStands(d) /\ EventsStand(d)
      /\ r.user \in Users /\ r.session \in Sessions
  BY RequestAssumption DEF DbStands
<1>1. \/ Unwritten(d, out, t, fp)
      \/ Written(d, out, t, fp, n) /\ TurnSaved(d, e, r, n, data)
  BY <1>0, TurnOutcome
<1>2. /\ t[1] = r.user /\ t[2] = r.session
      /\ fp[1] = "turn.finalized" /\ fp[3] = r.host
  BY DEF Triple, TurnFingerprint
<1> SUFFICES DbStands(e, n) /\ Grown(d, e) /\ SaysTrue(e, r, out.answer)
  OBVIOUS
<1> HIDE DEF out, fp
<1>3. CASE Unwritten(d, out, t, fp)
  <2>1. e = d
    BY <1>3 DEF Unwritten
  <2>2. SaysTrue(d, r, out.answer)
    BY <1>0, <1>3, CachedIsTrue DEF fp
  <2>3. Grown(d, d)
    BY DEF Grown
  <2>4. QED
    BY <2>1, <2>2, <2>3
<1>4. CASE Written(d, out, t, fp, n) /\ TurnSaved(d, e, r, n, data)
  <2>1. TableTypes(e) /\ Grown(d, e)
    BY <1>0, <1>4, TurnSavedGrows
  <2>2. /\ TurnIs(e, data[2], r.user, r.session, r.host)
        /\ EventsStand(e)
    BY <1>0, <1>4, EventsStay DEF TurnSaved, TurnIs, TableTypes
  <2>3. Kept(d, e, t, fp, data, n) /\ ~Cached(d, t, n)
    BY <1>4 DEF Written
  <2>4. CacheStands(e)
    BY <1>0, <1>2, <2>1, <2>2, <2>3, CacheKept
  <2>5. PICK q : e.outbox = Append(d.outbox, q) /\ q.triple = t /\ q.at = n
    BY <1>4 DEF TurnSaved
  <2> DEFINE y == <<"outbox", Len(d.outbox) + 1, t, n>>
  <2>6. Effects(e) \subseteq Effects(d) \cup {y}
    <3>1. IsList(d.outbox) /\ e.events = d.events
      BY <1>0, <1>4 DEF TableTypes, TurnSaved
    <3>2. /\ DOMAIN e.outbox = 1 .. Len(d.outbox) + 1
          /\ DOMAIN d.outbox = 1 .. Len(d.outbox) /\ Len(d.outbox) \in Nat
          /\ \A i \in 1 .. Len(d.outbox) : e.outbox[i] = d.outbox[i]
          /\ e.outbox[Len(d.outbox) + 1] = q
      BY <2>5, <3>1, Appended
    <3> HIDE DEF t
    <3>3. \A i \in DOMAIN e.outbox :
            \/ i \in DOMAIN d.outbox /\ e.outbox[i] = d.outbox[i]
            \/ <<"outbox", i, e.outbox[i].triple, e.outbox[i].at>> = y
      BY <2>5, <3>2
    <3>4. QED
      BY <3>1, <3>3 DEF Effects
  <2>7. y[3] = t /\ y[4] = n
    OBVIOUS
  <2> HIDE DEF y, t
  <2>8. Remembered(e, n) /\ Apart(e)
    BY <1>0, <2>3, <2>6, <2>7, EffectsKept
  <2>9. SaysTrue(e, r, out.answer)
    BY <2>2 DEF SaysTrue
  <2>10. QED
    BY <2>1, <2>2, <2>4, <2>8, <2>9 DEF DbStands
<1>5. QED
  BY <1>1, <1>3, <1>4

\* event.ingest keeps the tables in order and answers truly.
LEMMA EventKeeps ==
    ASSUME NEW n \in Nat, NEW d, DbStands(d, n), NEW r \in Requests, r.kind = "event"
    PROVE  LET out == EventIngest(d, r, n) IN
           DbStands(out.db, n) /\ Grown(d, out.db) /\ SaysTrue(out.db, r, out.answer)
<1> DEFINE t   == EventTriple(r)
           fp  == EventFingerprint(Process(r))
           out == EventIngest(d, r, n)
           e   == out.db
           data == out.answer.data
<1>0. TableTypes(d) /\ Remembered(d, n) /\ Apart(d) /\ CacheStands(d) /\ EventsStand(d)
  BY DEF DbStands
<1>1. \/ Unwritten(d, out, t, fp)
      \/ Written(d, out, t, fp, n) /\ EventSaved(d, e, r, n, data)
  BY <1>0, EventOutcome
<1>2. fp[1] = "event.ingest" /\ fp[2] = r.id /\ fp[3] = r.user
  BY ProcessIs DEF EventFingerprint
<1> SUFFICES DbStands(e, n) /\ Grown(d, e) /\ SaysTrue(e, r, out.answer)
  OBVIOUS
<1> HIDE DEF out, fp, t
<1>3. CASE Unwritten(d, out, t, fp)
  <2>1. e = d
    BY <1>3 DEF Unwritten
  <2>2. SaysTrue(d, r, out.answer)
    BY <1>0, <1>3, CachedIsTrue DEF fp, t
  <2>3. Grown(d, d)
    BY DEF Grown
  <2>4. QED
    BY <2>1, <2>2, <2>3
<1>4. CASE Written(d, out, t, fp, n) /\ EventSaved(d, e, r, n, data)
  <2>1. TableTypes(e) /\ Grown(d, e) /\ IsList(d.events) /\ e.outbox = d.outbox
    BY <1>0, <1>4, EventSavedGrows DEF TableTypes, EventSaved
  <2>2. Kept(d, e, t, fp, data, n) /\ ~Cached(d, t, n)
    BY <1>4 DEF Written
  <2> DEFINE y == <<"events", Len(d.events) + 1, t, n>>
  <2>3. /\ EventIs(e, data[2], r.id, r.user)
        /\ EventsStand(e)
        /\ Effects(e) \subseteq Effects(d) \cup {y}
    <3>1. CASE EventFound(d, e, r, data)
      BY <1>0, <2>1, <3>1, EventsStay DEF EventFound, EventIs, Effects
    <3>2. CASE EventStored(d, e, r, n, data)
      <4>1. PICK row : /\ e.events = Append(d.events, row)
                       /\ Faithful(row) /\ row.raw = r /\ row.at = n
                       /\ data[2] = Len(d.events) + 1
        BY <3>2 DEF EventStored
      <4>2. /\ DOMAIN e.events = 1 .. Len(d.events) + 1
            /\ DOMAIN d.events = 1 .. Len(d.events) /\ Len(d.events) \in Nat
            /\ \A i \in 1 .. Len(d.events) : e.events[i] = d.events[i]
            /\ e.events[Len(d.events) + 1] = row
        BY <2>1, <4>1, Appended
      <4>3. EventIs(e, data[2], r.id, r.user)
        <5>1. row.event.id = r.id /\ row.event.user = r.user
          BY <4>1, RowIs
        <5>2. QED
          BY <4>1, <4>2, <5>1 DEF EventIs
      <4>4. EventsStand(e)
        BY <1>0, <2>1, <3>2, EventsAdded
      <4>5. \A i \in DOMAIN e.events :
              \/ i \in DOMAIN d.events /\ e.events[i] = d.events[i]
              \/ <<"events", i, EventTriple(e.events[i].raw), e.events[i].at>> = y
        BY <4>1, <4>2 DEF t
      <4>6. Effects(e) \subseteq Effects(d) \cup {y}
        BY <2>1, <4>5 DEF Effects
      <4>7. QED
        BY <4>3, <4>4, <4>6
    <3>3. QED
      BY <1>4, <3>1, <3>2 DEF EventSaved
  <2>4. CacheStands(e)
    BY <1>0, <1>2, <2>1, <2>2, <2>3, CacheKept
  <2>5. y[3] = t /\ y[4] = n
    OBVIOUS
  <2> HIDE DEF y
  <2>6. Remembered(e, n) /\ Apart(e)
    BY <1>0, <2>2, <2>3, <2>5, EffectsKept
  <2>7. SaysTrue(e, r, out.answer)
    BY <2>3 DEF SaysTrue
  <2>8. QED
    BY <2>1, <2>3, <2>4, <2>6, <2>7 DEF DbStands
<1>5. QED
  BY <1>1, <1>3, <1>4

\* The key of an event has no part in its identity.
LEMMA SameIdentity ==
    ASSUME NEW a \in Requests, a.kind = "event", NEW b \in Requests, b.kind = "event",
           a.user = b.user, a.actor = b.actor, a.src = b.src, a.type = b.type,
           a.occurred = b.occurred, a.content = b.content, a.sens = b.sens,
           a.matched = b.matched, a.consent = b.consent, a.ignore = b.ignore,
           a.checked = b.checked
    PROVE  Identity(Process(a).event) = Identity(Process(b).event)
<1> DEFINE s == Scanned(a)
           q == Scanned(b)
<1>1. DOMAIN a = EventFields /\ DOMAIN b = EventFields
  BY RequestAssumption
<1>2. /\ s.sens = q.sens /\ s.matched = q.matched /\ s.ignore = q.ignore
      /\ s.src = q.src /\ s.checked = q.checked
      /\ DOMAIN s = EventFields /\ DOMAIN q = EventFields
  BY <1>1 DEF Scanned, EventFields
<1> HIDE DEF s, q
<1>3. /\ Process(a).event = IF SecurityGate(s) THEN [s EXCEPT !.ignore = TRUE, !.status = "ignored"]
                            ELSE s
      /\ Process(b).event = IF SecurityGate(q) THEN [q EXCEPT !.ignore = TRUE, !.status = "ignored"]
                            ELSE q
  BY DEF Process, s, q
<1>4. SecurityGate(s) <=> SecurityGate(q)
  BY <1>2 DEF SecurityGate
<1>5. /\ Process(a).event.sens = Process(b).event.sens
      /\ Process(a).event.matched = Process(b).event.matched
      /\ Process(a).event.ignore = Process(b).event.ignore
  <2>1. CASE SecurityGate(s)
    BY <1>2, <1>3, <1>4, <2>1 DEF EventFields
  <2>2. CASE ~SecurityGate(s)
    BY <1>2, <1>3, <1>4, <2>2
  <2>3. QED
    BY <2>1, <2>2
<1>6. /\ Process(a).event.user = Process(b).event.user
      /\ Process(a).event.actor = Process(b).event.actor
      /\ Process(a).event.src = Process(b).event.src
      /\ Process(a).event.type = Process(b).event.type
      /\ Process(a).event.occurred = Process(b).event.occurred
      /\ Process(a).event.content = Process(b).event.content
      /\ Process(a).event.consent = Process(b).event.consent
  BY ProcessIs
<1> DEFINE e == Process(a).event
           f == Process(b).event
<1> HIDE DEF e, f
<1>7. IdentityHidden(e) <=> IdentityHidden(f)
  BY <1>5, <1>6 DEF IdentityHidden, e, f
<1>8. QED
  BY <1>5, <1>6, <1>7 DEF Identity, e, f

\* An event that was stored and is sent again as it was is recognised.
LEMMA ReplayAccepted ==
    ASSUME NEW d, IsList(d.events), EventsStand(d), NEW n,
           NEW r \in Requests, r.kind = "event", NEW i \in DOMAIN d.events,
           [r EXCEPT !.key = d.events[i].raw.key] = d.events[i].raw
    PROVE  Ingest(d, Process(r), r, n).answer.status = "ok"
<1> DEFINE raw == d.events[i].raw
           e == Process(r).event
           mine == EventsOf(d, e)
           id == CHOOSE x \in mine : TRUE
<1>1. Faithful(d.events[i])
  BY DEF EventsStand
<1>2. /\ raw.id = r.id /\ raw.user = r.user /\ raw.actor = r.actor /\ raw.src = r.src
      /\ raw.type = r.type /\ raw.occurred = r.occurred /\ raw.content = r.content
      /\ raw.sens = r.sens /\ raw.matched = r.matched /\ raw.consent = r.consent
      /\ raw.ignore = r.ignore /\ raw.checked = r.checked
  BY RequestAssumption DEF EventFields
<1>3. Identity(Process(raw).event) = Identity(e)
  BY <1>1, <1>2, SameIdentity DEF Faithful
<1>4. Identity(d.events[i].event) = Identity(e)
  BY <1>1, <1>3, RowIs
<1>5. i \in mine
  BY <1>1, <1>2, RowIs, ProcessIs DEF EventsOf
<1>6. mine = {i}
  <2>1. \A j \in DOMAIN d.events : j # i => d.events[j].event.id # d.events[i].event.id
    <3>1. DOMAIN d.events = 1 .. Len(d.events) /\ Len(d.events) \in Nat
      BY Appended
    <3>2. QED
      BY <3>1 DEF EventsStand
  <2>2. d.events[i].event.id = e.id
    BY <1>5 DEF EventsOf
  <2>3. QED
    BY <1>5, <2>1, <2>2 DEF EventsOf
<1>7. id = i
  BY <1>6
<1> HIDE DEF id
<1>8. Ingest(d, Process(r), r, n) = Replay(d, Process(r), i)
  BY <1>5, <1>7 DEF Ingest, id
<1>9. Replay(d, Process(r), i) = Done(d, <<"replay", i, d.events[i].decision>>)
  BY <1>4 DEF Replay
<1>10. QED
  BY <1>8, <1>9, DoneIs

-----------------------------------------------------------------------------
(* Connections *)

ConnGood(d, con) == ConnTypes(con) /\ ConnStands(d, con)

\* The lists of a connection, one by one.
LEMMA ConnLists ==
    ASSUME NEW con, ConnTypes(con)
    PROVE  /\ con.wire \in Seq(Requests) /\ con.buf \in Seq(Requests)
           /\ con.asked \in Seq(Requests) /\ IsList(con.told)
           /\ Len(con.wire) \in Nat /\ DOMAIN con.wire = 1 .. Len(con.wire)
           /\ Len(con.buf) \in Nat /\ DOMAIN con.buf = 1 .. Len(con.buf)
           /\ Len(con.asked) \in Nat /\ DOMAIN con.asked = 1 .. Len(con.asked)
           /\ Len(con.told) \in Nat /\ DOMAIN con.told = 1 .. Len(con.told)
<1>1. IsList(con.told)
  BY DEF ConnTypes
<1>2. Len(con.told) \in Nat /\ DOMAIN con.told = 1 .. Len(con.told)
  BY <1>1, Appended
<1>3. QED
  BY <1>1, <1>2 DEF ConnTypes

\* The thread moves while its buffer is empty.
LEMMA MovesOn ==
    ASSUME NEW d, NEW con, ConnGood(d, con), con.phase # "busy", con.phase # "closed",
           NEW p \in {"check", "recv", "closed"}
    PROVE  ConnGood(d, [con EXCEPT !.phase = p])
<1> DEFINE q == [con EXCEPT !.phase = p]
<1>1. /\ DOMAIN q = DOMAIN con /\ q.phase = p
      /\ q.wire = con.wire /\ q.buf = con.buf /\ q.asked = con.asked
      /\ q.told = con.told /\ q.gone = con.gone
  BY DEF ConnGood, ConnTypes
<1> HIDE DEF q
<1>2. ConnTypes(q)
  BY <1>1 DEF ConnGood, ConnTypes
<1>3. ConnStands(d, q)
  BY <1>1 DEF ConnGood, ConnStands, Conserved
<1>4. QED
  BY <1>2, <1>3 DEF ConnGood, q

\* A connection stays in order when the peer hangs up,
LEMMA PeerGoes ==
    ASSUME NEW d, NEW con, ConnGood(d, con)
    PROVE  ConnGood(d, [con EXCEPT !.gone = TRUE])
<1> DEFINE q == [con EXCEPT !.gone = TRUE]
<1>1. /\ DOMAIN q = DOMAIN con /\ q.phase = con.phase
      /\ q.wire = con.wire /\ q.buf = con.buf /\ q.asked = con.asked
      /\ q.told = con.told /\ q.gone = TRUE
  BY DEF ConnGood, ConnTypes
<1> HIDE DEF q
<1>2. ConnTypes(q)
  BY <1>1 DEF ConnGood, ConnTypes
<1>3. ConnStands(d, q)
  BY <1>1 DEF ConnGood, ConnStands
<1>4. QED
  BY <1>2, <1>3 DEF ConnGood, q

\* when the peer writes one more request,
LEMMA PeerAsks ==
    ASSUME NEW d, NEW con, ConnGood(d, con), con.phase # "closed", ~con.gone,
           NEW r \in Requests
    PROVE  ConnGood(d, [con EXCEPT !.wire = Append(con.wire, r),
                                   !.asked = Append(con.asked, r)])
<1> DEFINE w == Append(con.wire, r)
           a == Append(con.asked, r)
           q == [con EXCEPT !.wire = w, !.asked = a]
<1>1. ConnTypes(con) /\ ConnStands(d, con) /\ Conserved(con)
  BY DEF ConnGood, ConnStands
<1>2. /\ w \in Seq(Requests) /\ a \in Seq(Requests)
      /\ Len(w) = Len(con.wire) + 1 /\ Len(a) = Len(con.asked) + 1
      /\ \A i \in 1 .. Len(con.wire) : w[i] = con.wire[i]
      /\ w[Len(con.wire) + 1] = r
      /\ \A i \in 1 .. Len(con.asked) : a[i] = con.asked[i]
      /\ a[Len(con.asked) + 1] = r
  <2>1. IsList(con.wire) /\ IsList(con.asked)
    BY <1>1, ConnLists, SeqIsList
  <2>2. w \in Seq(Requests) /\ a \in Seq(Requests)
    BY <1>1 DEF ConnTypes
  <2>3. QED
    BY <2>1, <2>2, Appended
<1> HIDE DEF w, a
<1>3. /\ DOMAIN q = DOMAIN con /\ q.phase = con.phase
      /\ q.wire = w /\ q.buf = con.buf /\ q.asked = a
      /\ q.told = con.told /\ q.gone = con.gone
  BY <1>1 DEF ConnTypes
<1> HIDE DEF q
<1>4. ConnTypes(q)
  BY <1>1, <1>2, <1>3 DEF ConnTypes
<1> DEFINE nt == Len(con.told)
           nb == Len(con.buf)
           nw == Len(con.wire)
           na == Len(con.asked)
<1>5. /\ nt \in Nat /\ nb \in Nat /\ nw \in Nat /\ na \in Nat
      /\ DOMAIN con.told = 1 .. nt
      /\ na = nt + nb + nw
  BY <1>1, ConnLists DEF Conserved
<1>6. /\ Len(q.told) = nt /\ Len(q.buf) = nb
      /\ Len(q.wire) = nw + 1 /\ Len(q.asked) = na + 1
      /\ \A i \in 1 .. nw : w[i] = con.wire[i]
      /\ w[nw + 1] = r
      /\ \A i \in 1 .. na : a[i] = con.asked[i]
      /\ a[na + 1] = r
      /\ \A k \in 1 .. nb : con.buf[k] = con.asked[nt + k]
      /\ \A k \in 1 .. nw : con.wire[k] = con.asked[nt + nb + k]
      /\ \A k \in 1 .. nt : SaysTrue(d, con.asked[k], con.told[k])
  BY <1>1, <1>2, <1>3, <1>5 DEF Conserved, ConnStands
<1> HIDE DEF nt, nb, nw, na
<1>7. ASSUME NEW k \in 1 .. nb
      PROVE  q.buf[k] = q.asked[nt + k]
  <2>1. nt + k \in 1 .. na
    BY <1>5
  <2>2. QED
    BY <1>3, <1>6, <2>1
<1>8. ASSUME NEW k \in 1 .. nw + 1
      PROVE  q.wire[k] = q.asked[nt + nb + k]
  <2>1. CASE k \in 1 .. nw
    <3>1. nt + nb + k \in 1 .. na
      BY <1>5, <2>1
    <3>2. QED
      BY <1>3, <1>6, <2>1, <3>1
  <2>2. CASE k = nw + 1
    <3>1. nt + nb + k = na + 1
      BY <1>5, <2>2
    <3>2. QED
      BY <1>3, <1>6, <2>2, <3>1
  <2>3. QED
    BY <1>5, <2>1, <2>2
<1>9. Conserved(q)
  BY <1>5, <1>6, <1>7, <1>8 DEF Conserved
<1>10. \A n \in DOMAIN q.told : SaysTrue(d, q.asked[n], q.told[n])
  <2>1. \A n \in 1 .. nt : n \in 1 .. na
    BY <1>5
  <2>2. QED
    BY <1>3, <1>5, <1>6, <2>1
<1>11. Len(q.told) <= Len(q.asked)
  BY <1>5, <1>6
<1>12. ConnStands(d, q)
  BY <1>1, <1>3, <1>9, <1>10, <1>11 DEF ConnStands
<1>13. QED
  BY <1>4, <1>12 DEF ConnGood, q, w, a

\* when the thread reads what is on the wire,
LEMMA BytesArrive ==
    ASSUME NEW d, NEW con, ConnGood(d, con), con.phase = "recv", con.wire # << >>
    PROVE  ConnGood(d, [con EXCEPT !.phase = "busy", !.buf = con.wire, !.wire = << >>])
<1> DEFINE q == [con EXCEPT !.phase = "busy", !.buf = con.wire, !.wire = << >>]
<1>1. /\ DOMAIN q = DOMAIN con /\ q.phase = "busy"
      /\ q.wire = << >> /\ q.buf = con.wire /\ q.asked = con.asked
      /\ q.told = con.told /\ q.gone = con.gone
  BY DEF ConnGood, ConnTypes
<1> HIDE DEF q
<1>2. ConnTypes(q)
  BY <1>1 DEF ConnGood, ConnTypes
<1>3. con.buf = << >> /\ Len(con.buf) = 0 /\ Len(q.wire) = 0
  BY <1>1 DEF ConnGood, ConnStands
<1>4. Conserved(con) => Conserved(q)
  BY <1>1, <1>3, ConnLists DEF ConnGood, Conserved
<1>5. ConnStands(d, q)
  BY <1>1, <1>4 DEF ConnGood, ConnStands
<1>6. QED
  BY <1>2, <1>5 DEF ConnGood, q

\* when the thread ends,
LEMMA ThreadEnds ==
    ASSUME NEW d, NEW con, ConnTypes(con), Len(con.told) <= Len(con.asked),
           \A n \in DOMAIN con.told : SaysTrue(d, con.asked[n], con.told[n])
    PROVE  ConnGood(d, Closed(con))
<1> DEFINE q == Closed(con)
<1>1. /\ DOMAIN q = DOMAIN con /\ q.phase = "closed"
      /\ q.wire = con.wire /\ q.buf = << >> /\ q.asked = con.asked
      /\ q.told = con.told /\ q.gone = con.gone
  BY DEF ConnTypes, Closed
<1> HIDE DEF q
<1>2. ConnTypes(q)
  BY <1>1 DEF ConnTypes
<1>3. ConnStands(d, q)
  BY <1>1 DEF ConnStands
<1>4. QED
  BY <1>2, <1>3 DEF ConnGood, q

\* The answer to the request at the head of the buffer is the next one due.
LEMMA Answered ==
    ASSUME NEW d, NEW con, ConnGood(d, con), con.phase = "busy",
           NEW answer, SaysTrue(d, Head(con.buf), answer), NEW late
    PROVE  LET q == Reply(con, answer, late) IN
           /\ ConnTypes(q)
           /\ q.phase = con.phase /\ q.gone = con.gone /\ q.buf = con.buf
           /\ q.wire = con.wire /\ q.asked = con.asked
           /\ Len(q.told) <= Len(q.asked)
           /\ \A n \in DOMAIN q.told : SaysTrue(d, q.asked[n], q.told[n])
           /\ ~con.gone => Len(q.told) = Len(con.told) + 1
<1> DEFINE q == Reply(con, answer, late)
           a == IF late /\ answer.status = "ok" THEN Refuse("TIMEOUT", "late") ELSE answer
<1>1. ConnTypes(con) /\ ConnStands(d, con) /\ con.buf # << >>
  BY DEF ConnGood, ConnStands
<1>2. CASE con.gone
  <2>1. q = con
    BY <1>2 DEF Reply
  <2>2. QED
    BY <1>1, <1>2, <2>1 DEF ConnStands
<1>3. CASE ~con.gone
  <2>1. q = [con EXCEPT !.told = Append(con.told, a)]
    BY <1>3 DEF Reply
  <2>2. SaysTrue(d, Head(con.buf), a)
    <3>1. CASE late /\ answer.status = "ok"
      <4>1. a = Refuse("TIMEOUT", "late")
        BY <3>1
      <4> HIDE DEF a
      <4>2. a.status # "ok"
        BY <4>1, RefuseIs
      <4>3. QED
        BY <4>2 DEF SaysTrue
    <3>2. CASE ~(late /\ answer.status = "ok")
      BY <3>2
    <3>3. QED
      BY <3>1, <3>2
  <2> HIDE DEF a, q
  <2> DEFINE t == Append(con.told, a)
             nt == Len(con.told)
             na == Len(con.asked)
             nb == Len(con.buf)
             nw == Len(con.wire)
  <2>3. /\ nt \in Nat /\ na \in Nat /\ nb \in Nat /\ nw \in Nat
        /\ IsList(t) /\ Len(t) = nt + 1 /\ DOMAIN t = 1 .. nt + 1
        /\ \A i \in 1 .. nt : t[i] = con.told[i]
        /\ t[nt + 1] = a
        /\ DOMAIN con.told = 1 .. nt
    <3>1. IsList(con.told)
      BY <1>1, ConnLists
    <3>2. QED
      BY <1>1, <3>1, ConnLists, Appended
  <2>4. /\ nb # 0 /\ Head(con.buf) = con.buf[1]
    BY <1>1 DEF ConnTypes
  <2>5. /\ na = nt + nb + nw
        /\ \A k \in 1 .. nb : con.buf[k] = con.asked[nt + k]
        /\ \A k \in 1 .. nt : SaysTrue(d, con.asked[k], con.told[k])
    BY <1>1, <1>3, <2>3 DEF ConnStands, Conserved
  <2>6. /\ DOMAIN q = DOMAIN con /\ q.phase = con.phase
        /\ q.wire = con.wire /\ q.buf = con.buf /\ q.asked = con.asked
        /\ q.told = t /\ q.gone = con.gone
    BY <1>1, <2>1 DEF ConnTypes
  <2>7. ConnTypes(q)
    BY <1>1, <2>3, <2>6 DEF ConnTypes
  <2> HIDE DEF t, nt, na, nb, nw
  <2>8. nt + 1 <= na /\ 1 \in 1 .. nb
    BY <2>3, <2>4, <2>5
  <2>9. SaysTrue(d, con.asked[nt + 1], t[nt + 1])
    BY <2>2, <2>3, <2>4, <2>5, <2>8
  <2>10. \A n \in 1 .. nt + 1 : SaysTrue(d, con.asked[n], t[n])
    <3>1. \A n \in 1 .. nt + 1 : n \in 1 .. nt \/ n = nt + 1
      BY <2>3
    <3>2. QED
      BY <2>3, <2>5, <2>9, <3>1
  <2>11. QED
    BY <2>3, <2>6, <2>7, <2>8, <2>10 DEF q, nt, na
<1>4. QED
  BY <1>2, <1>3

\* and when the request at the head of the buffer is answered.
LEMMA Served ==
    ASSUME NEW d, NEW con, ConnGood(d, con), con.phase = "busy",
           NEW answer, SaysTrue(d, Head(con.buf), answer), NEW late
    PROVE  ConnGood(d, Next1(Reply(con, answer, late)))
<1> DEFINE p == Reply(con, answer, late)
           rest == Tail(con.buf)
           q == Next1(p)
<1>1. ConnTypes(con) /\ ConnStands(d, con) /\ con.buf # << >>
  BY DEF ConnGood, ConnStands
<1>2. /\ ConnTypes(p)
      /\ p.phase = con.phase /\ p.gone = con.gone /\ p.buf = con.buf
      /\ p.wire = con.wire /\ p.asked = con.asked
      /\ Len(p.told) <= Len(p.asked)
      /\ \A n \in DOMAIN p.told : SaysTrue(d, p.asked[n], p.told[n])
      /\ ~con.gone => Len(p.told) = Len(con.told) + 1
  BY Answered
<1> HIDE DEF p
<1>3. /\ DOMAIN q = DOMAIN p /\ q.buf = rest
      /\ q.phase = IF rest = << >> THEN "check" ELSE "busy"
      /\ q.wire = con.wire /\ q.asked = con.asked
      /\ q.told = p.told /\ q.gone = con.gone
  BY <1>2 DEF ConnTypes, Next1
<1> HIDE DEF q
<1> DEFINE nt == Len(con.told)
           nb == Len(con.buf)
           nw == Len(con.wire)
           na == Len(con.asked)
<1>4. /\ nt \in Nat /\ nb \in Nat /\ nw \in Nat /\ na \in Nat /\ nb # 0
      /\ rest \in Seq(Requests) /\ Len(rest) = nb - 1
      /\ \A k \in 1 .. nb - 1 : rest[k] = con.buf[k + 1]
  <2>1. con.buf \in Seq(Requests) /\ con.buf # << >>
    BY <1>1, ConnLists
  <2>2. nt \in Nat /\ nb \in Nat /\ nw \in Nat /\ na \in Nat
    BY <1>1, ConnLists
  <2>3. QED
    BY <2>1, <2>2
<1>5. ConnTypes(q)
  BY <1>2, <1>3, <1>4 DEF ConnTypes
<1>6. ASSUME ~con.gone
      PROVE  Conserved(q)
  <2>1. /\ na = nt + nb + nw
        /\ \A k \in 1 .. nb : con.buf[k] = con.asked[nt + k]
        /\ \A k \in 1 .. nw : con.wire[k] = con.asked[nt + nb + k]
    BY <1>1, <1>6 DEF ConnStands, Conserved
  <2>2. /\ Len(q.told) = nt + 1 /\ Len(q.buf) = nb - 1
        /\ Len(q.wire) = nw /\ Len(q.asked) = na
    BY <1>2, <1>3, <1>4, <1>6
  <2> HIDE DEF nt, nb, nw, na, rest
  <2>3. Len(q.asked) = Len(q.told) + Len(q.buf) + Len(q.wire)
    BY <1>4, <2>1, <2>2
  <2>4. ASSUME NEW k \in 1 .. nb - 1
        PROVE  q.buf[k] = q.asked[nt + 1 + k]
    <3>1. k + 1 \in 1 .. nb /\ nt + (k + 1) = nt + 1 + k
      BY <1>4
    <3>2. con.buf[k + 1] = con.asked[nt + (k + 1)]
      BY <2>1, <3>1
    <3>3. QED
      BY <1>3, <1>4, <3>1, <3>2
  <2>5. ASSUME NEW k \in 1 .. nw
        PROVE  q.wire[k] = q.asked[nt + 1 + (nb - 1) + k]
    <3>1. nt + 1 + (nb - 1) + k = nt + nb + k
      BY <1>4
    <3>2. QED
      BY <1>3, <2>1, <3>1
  <2>6. QED
    BY <2>2, <2>3, <2>4, <2>5 DEF Conserved
<1>7. ConnStands(d, q)
  BY <1>2, <1>3, <1>6 DEF ConnStands
<1>8. QED
  BY <1>5, <1>7 DEF ConnGood, q, p

\* A connection stays good while rows are only added.
LEMMA GoodStays ==
    ASSUME NEW d, NEW e, Grown(d, e), NEW con, ConnGood(d, con)
    PROVE  ConnGood(e, con)
<1>1. \A n \in DOMAIN con.told : con.asked[n] \in Requests
  <2>1. /\ con.asked \in Seq(Requests) /\ Len(con.told) <= Len(con.asked)
        /\ Len(con.told) \in Nat /\ DOMAIN con.told = 1 .. Len(con.told)
        /\ Len(con.asked) \in Nat
    BY ConnLists DEF ConnGood, ConnStands
  <2>2. \A n \in 1 .. Len(con.told) : n \in 1 .. Len(con.asked)
    BY <2>1
  <2>3. QED
    BY <2>1, <2>2
<1>2. \A n \in DOMAIN con.told : SaysTrue(e, con.asked[n], con.told[n])
  BY <1>1, AnswersStay DEF ConnGood, ConnStands
<1>3. QED
  BY <1>2 DEF ConnGood, ConnStands

-----------------------------------------------------------------------------
(* The steps *)

\* The invariant, with each connection's part in one piece.
LEMMA Parts ==
    IInv <=> /\ now \in Nat /\ server \in {"new", "up", "stopped"}
             /\ DOMAIN conns = Conns
             /\ DbStands(db, now)
             /\ \A c \in Conns : ConnGood(db, conns[c])
BY DEF IInv, TypeOK, DbStands, ConnGood

\* Every method keeps the tables in order and answers truly.
LEMMA Handled ==
    ASSUME now \in Nat, DbStands(db, now),
           NEW r \in Requests, r.kind \notin {"frame", "large"}
    PROVE  LET out == Handle(r) IN
           DbStands(out.db, now) /\ Grown(db, out.db) /\ SaysTrue(out.db, r, out.answer)
<1>1. r.kind \in Methods
  BY RequestAssumption
<1>2. Grown(db, db)
  BY DEF Grown
<1>3. CASE r.kind = "turn"
  <2>1. Handle(r) = TurnFinalized(db, r, now)
    BY <1>3 DEF Handle
  <2>2. QED
    BY <1>3, <2>1, TurnKeeps
<1>4. CASE r.kind = "event"
  <2>1. Handle(r) = EventIngest(db, r, now)
    BY <1>4 DEF Handle
  <2>2. QED
    BY <1>4, <2>1, EventKeeps
<1>5. CASE r.kind \in {"echo", "retrieve", "health"}
  <2>1. Handle(r).db = db
    BY <1>5 DEF Handle
  <2>2. QED
    BY <1>2, <1>5, <2>1 DEF SaysTrue
<1>6. CASE r.kind \in {"version", "field", "unknown", "store"}
  <2>1. /\ Handle(r).db = db
        /\ \E code \in {"PROTOCOL_ERROR", "INVALID_REQUEST", "UNSUPPORTED_METHOD"} :
             Handle(r).answer = Refuse(code, r.kind)
    BY <1>6 DEF Handle
  <2>2. Handle(r).answer.status # "ok"
    BY <2>1, RefuseIs
  <2>3. QED
    BY <1>2, <2>1, <2>2 DEF SaysTrue
<1>7. QED
  BY <1>1, <1>3, <1>4, <1>5, <1>6 DEF Methods

\* A step of one connection.
LEMMA OneMoves ==
    ASSUME IInv, NEW c \in Conns, NEW con, conns' = [conns EXCEPT ![c] = con],
           Grown(db, db'), ConnGood(db', con),
           now' = now, server' = server, DbStands(db', now)
    PROVE  IInv'
<1>1. DOMAIN conns' = Conns
  BY Parts
<1>2. ASSUME NEW x \in Conns
      PROVE  ConnGood(db', conns'[x])
  <2>1. CASE x = c
    BY <2>1, Parts
  <2>2. CASE x # c
    <3>1. conns'[x] = conns[x] /\ ConnGood(db, conns[x])
      BY <2>2, Parts
    <3>2. QED
      BY <3>1, GoodStays
  <2>3. QED
    BY <2>1, <2>2
<1>3. DbStands(db', now')
  OBVIOUS
<1>4. IInv' <=> /\ now' \in Nat /\ server' \in {"new", "up", "stopped"}
                /\ DOMAIN conns' = Conns
                /\ DbStands(db', now')
                /\ \A x \in Conns : ConnGood(db', conns'[x])
  BY DEF IInv, TypeOK, DbStands, ConnGood
<1>5. QED
  BY <1>1, <1>2, <1>3, <1>4, Parts

\* The invariant holds before the server has started.
LEMMA InitEstablishes == Init => IInv
<1> SUFFICES ASSUME Init PROVE IInv
  OBVIOUS
<1> DEFINE con == [phase |-> "none", wire |-> << >>, buf |-> << >>,
                   asked |-> << >>, told |-> << >>, gone |-> FALSE]
<1>1. /\ DOMAIN db = Tables /\ db.conv = [s \in Sessions |-> Nobody]
      /\ db.turns = << >> /\ db.outbox = << >> /\ db.events = << >>
      /\ DOMAIN db.cache = {}
  BY DEF Init, EmptyDb, Tables
<1>2. << >> \in Seq(Requests) /\ IsList(<< >>)
  <2>1. << >> \in Seq(Requests)
    OBVIOUS
  <2>2. QED
    BY <2>1, SeqIsList
<1>3. TableTypes(db)
  BY <1>1, <1>2 DEF TableTypes
<1>4. Effects(db) = {}
  BY <1>1 DEF Effects
<1>5. DbStands(db, now)
  BY <1>1, <1>3, <1>4 DEF DbStands, Remembered, Apart, CacheStands, EventsStand
<1>6. /\ DOMAIN con = {"phase", "wire", "buf", "asked", "told", "gone"}
      /\ con.phase = "none" /\ con.wire = << >> /\ con.buf = << >>
      /\ con.asked = << >> /\ con.told = << >> /\ con.gone = FALSE
  OBVIOUS
<1> HIDE DEF con
<1>7. ConnTypes(con)
  BY <1>2, <1>6 DEF ConnTypes
<1>8. ConnStands(db, con)
  BY <1>6 DEF ConnStands, Conserved
<1>9. \A c \in Conns : conns[c] = con
  BY DEF Init, Fresh, con
<1>10. QED
  BY <1>5, <1>7, <1>8, <1>9, Parts DEF Init, ConnGood

\* Time goes by: what is a day old stays so.
LEMMA TickKeeps == IInv /\ Tick => IInv'
<1> SUFFICES ASSUME IInv, Tick PROVE IInv'
  OBVIOUS
<1>1. /\ now \in Nat /\ now' = now + 1 /\ db' = db /\ conns' = conns /\ server' = server
      /\ DbStands(db, now)
  BY Parts DEF Tick
<1>2. now + 1 \in Nat /\ now <= now + 1
  BY <1>1
<1>3. Remembered(db, now')
  <2>1. ASSUME NEW n \in Nat, n >= now
        PROVE  Remembered(db, n)
    <3> SUFFICES ASSUME NEW x \in Effects(db)
                 PROVE  /\ x[4] \in Nat /\ x[4] <= n
                        /\ n - x[4] >= 2
                           \/ (x[3] \in DOMAIN db.cache /\ db.cache[x[3]].until >= x[4] + 2)
      BY DEF Remembered, Day
    <3>1. /\ x[4] \in Nat /\ x[4] <= now
          /\ now - x[4] >= 2
             \/ (x[3] \in DOMAIN db.cache /\ db.cache[x[3]].until >= x[4] + 2)
      BY <1>1 DEF DbStands, Remembered, Day
    <3>2. x[4] <= n /\ (now - x[4] >= 2 => n - x[4] >= 2)
      BY <1>1, <2>1, <3>1
    <3>3. QED
      BY <3>1, <3>2
  <2>2. QED
    BY <1>1, <1>2, <2>1
<1>4. DbStands(db', now')
  BY <1>1, <1>3 DEF DbStands
<1>5. QED
  BY <1>1, <1>2, <1>4 DEF IInv, TypeOK, ConnStands

\* The cleaner forgets what has expired; what it belongs to is a day old.
LEMMA CleanUpKeeps == IInv /\ CleanUp => IInv'
<1> SUFFICES ASSUME IInv, CleanUp PROVE IInv'
  OBVIOUS
<1> DEFINE old == {t \in DOMAIN db.cache : db.cache[t].until < now}
           e == Dropped(db, old)
<1>1. /\ now \in Nat /\ db' = e /\ conns' = conns /\ server' = server /\ now' = now
      /\ DbStands(db, now)
  BY Parts DEF CleanUp, Cleaned
<1>2. /\ SameRows(db, e)
      /\ DOMAIN e.cache = DOMAIN db.cache \ old
      /\ \A x \in DOMAIN e.cache : e.cache[x] = db.cache[x]
  BY <1>1, DroppedIs DEF DbStands, TableTypes
<1> HIDE DEF e
<1>3. Grown(db, e) /\ Effects(e) = Effects(db) /\ TableTypes(e)
  BY <1>1, <1>2 DEF SameRows, Grown, Effects, DbStands, TableTypes
<1>4. Remembered(e, now)
  <2> SUFFICES ASSUME NEW x \in Effects(db)
               PROVE  /\ x[4] \in Nat /\ x[4] <= now
                      /\ now - x[4] >= 2
                         \/ (x[3] \in DOMAIN e.cache /\ e.cache[x[3]].until >= x[4] + 2)
    BY <1>3 DEF Remembered, Day
  <2>1. /\ x[4] \in Nat /\ x[4] <= now
        /\ now - x[4] >= 2
           \/ (x[3] \in DOMAIN db.cache /\ db.cache[x[3]].until >= x[4] + 2)
    BY <1>1 DEF DbStands, Remembered, Day
  <2>2. CASE x[3] \in old
    <3>1. x[3] \in DOMAIN db.cache /\ db.cache[x[3]].until \in Nat /\ db.cache[x[3]].until < now
      BY <1>1, <2>2 DEF DbStands, CacheStands
    <3>2. QED
      BY <1>1, <2>1, <3>1
  <2>3. CASE x[3] \notin old
    BY <1>2, <2>1, <2>3
  <2>4. QED
    BY <2>2, <2>3
<1>5. Apart(e) /\ EventsStand(e)
  BY <1>1, <1>2, <1>3, EventsStay DEF DbStands, Apart, SameRows
<1>6. CacheStands(e)
  BY <1>1, <1>2, <1>3, GrownKeeps DEF DbStands, CacheStands
<1>7. DbStands(db', now')
  BY <1>1, <1>3, <1>4, <1>5, <1>6 DEF DbStands
<1>8. \A c \in Conns : ConnGood(db', conns'[c])
  BY <1>1, <1>3, GoodStays, Parts
<1>9. QED
  BY <1>1, <1>7, <1>8, Parts DEF IInv, TypeOK, DbStands, ConnGood

\* One step of the server, of a thread or of a peer.
LEMMA StepPreserves == IInv /\ [Next]_vars => IInv'
<1> SUFFICES ASSUME IInv, [Next]_vars PROVE IInv'
  OBVIOUS
<1>0. /\ now \in Nat /\ server \in {"new", "up", "stopped"} /\ DOMAIN conns = Conns
      /\ DbStands(db, now) /\ Grown(db, db)
      /\ \A c \in Conns : ConnGood(db, conns[c])
  BY Parts DEF Grown
<1>1. CASE UNCHANGED vars
  BY <1>1 DEF vars, IInv, TypeOK
<1>2. CASE Start \/ Stop
  BY <1>2 DEF Start, Stop, IInv, TypeOK
<1>3. CASE Tick \/ CleanUp
  BY <1>3, TickKeeps, CleanUpKeeps
<1>4. ASSUME NEW c \in Conns, Accept(c) PROVE IInv'
  <2>1. ConnGood(db, [conns[c] EXCEPT !.phase = "check"])
    BY <1>0, <1>4, MovesOn DEF Accept
  <2>2. QED
    BY <1>0, <1>4, <2>1, OneMoves DEF Accept
<1>5. ASSUME NEW c \in Conns, HangUp(c) PROVE IInv'
  <2>1. ConnGood(db, [conns[c] EXCEPT !.gone = TRUE])
    BY <1>0, PeerGoes
  <2>2. QED
    BY <1>0, <1>5, <2>1, OneMoves DEF HangUp
<1>6. ASSUME NEW c \in Conns, NEW r \in Requests, Send(c, r) PROVE IInv'
  <2>1. ConnGood(db, [conns[c] EXCEPT !.wire = Append(conns[c].wire, r),
                                      !.asked = Append(conns[c].asked, r)])
    BY <1>0, <1>6, PeerAsks DEF Send
  <2>2. QED
    BY <1>0, <1>6, <2>1, OneMoves DEF Send
<1>7. ASSUME NEW c \in Conns, Look(c) PROVE IInv'
  <2> DEFINE p == IF server = "stopped" THEN "closed" ELSE "recv"
  <2>1. p \in {"check", "recv", "closed"}
    OBVIOUS
  <2>2. conns' = [conns EXCEPT ![c] = [conns[c] EXCEPT !.phase = p]]
    BY <1>7 DEF Look
  <2> HIDE DEF p
  <2>3. ConnGood(db, [conns[c] EXCEPT !.phase = p])
    BY <1>0, <1>7, <2>1, MovesOn DEF Look
  <2>4. QED
    BY <1>0, <1>7, <2>2, <2>3, OneMoves DEF Look
<1>8. ASSUME NEW c \in Conns, Recv(c) PROVE IInv'
  <2>1. CASE conns[c].wire # << >>
             /\ conns' = [conns EXCEPT ![c] = [conns[c] EXCEPT !.phase = "busy",
                                                              !.buf = conns[c].wire,
                                                              !.wire = << >>]]
    <3>1. ConnGood(db, [conns[c] EXCEPT !.phase = "busy", !.buf = conns[c].wire,
                                        !.wire = << >>])
      BY <1>0, <1>8, <2>1, BytesArrive DEF Recv
    <3>2. QED
      BY <1>0, <1>8, <2>1, <3>1, OneMoves DEF Recv
  <2>2. CASE conns' = [conns EXCEPT ![c] = [conns[c] EXCEPT !.phase = "closed"]]
    <3>1. ConnGood(db, [conns[c] EXCEPT !.phase = "closed"])
      BY <1>0, <1>8, MovesOn DEF Recv
    <3>2. QED
      BY <1>0, <1>8, <2>2, <3>1, OneMoves DEF Recv
  <2>3. QED
    BY <1>8, <2>1, <2>2 DEF Recv
<1>9. ASSUME NEW c \in Conns, conns[c].phase = "busy"
      PROVE  Head(conns[c].buf) \in Requests
  <2>1. conns[c].buf \in Seq(Requests) /\ conns[c].buf # << >>
    BY <1>0, <1>9, ConnLists DEF ConnGood, ConnStands
  <2>2. QED
    BY <2>1
<1>10. ASSUME NEW c \in Conns, BadFrame(c) PROVE IInv'
  <2> DEFINE a == Refuse("PROTOCOL_ERROR", "frame")
             p == Reply(conns[c], a, FALSE)
  <2>1. a.status # "ok"
    BY RefuseIs
  <2> HIDE DEF a
  <2>2. SaysTrue(db, Head(conns[c].buf), a)
    BY <2>1 DEF SaysTrue
  <2>3. /\ ConnTypes(p) /\ Len(p.told) <= Len(p.asked)
        /\ \A n \in DOMAIN p.told : SaysTrue(db, p.asked[n], p.told[n])
    BY <1>0, <1>10, <2>2, Answered DEF BadFrame
  <2> HIDE DEF p
  <2>4. ConnGood(db, Closed(p))
    BY <2>3, ThreadEnds
  <2>5. conns' = [conns EXCEPT ![c] = Closed(p)]
    BY <1>10 DEF BadFrame, p, a
  <2>6. QED
    BY <1>0, <1>10, <2>4, <2>5, OneMoves DEF BadFrame
<1>11. ASSUME NEW c \in Conns, TooLarge(c) PROVE IInv'
  <2>1. ConnGood(db, Closed(conns[c]))
    BY <1>0, ThreadEnds DEF ConnGood, ConnStands
  <2>2. QED
    BY <1>0, <1>11, <2>1, OneMoves DEF TooLarge
<1>12. ASSUME NEW c \in Conns, NEW late \in BOOLEAN, Dispatch(c, late) PROVE IInv'
  <2> DEFINE r == Head(conns[c].buf)
             out == Handle(r)
             p == Next1(Reply(conns[c], out.answer, late))
  <2>1. /\ conns[c].phase = "busy" /\ r.kind \notin {"frame", "large"}
        /\ db' = out.db /\ conns' = [conns EXCEPT ![c] = p]
        /\ now' = now /\ server' = server
    BY <1>12 DEF Dispatch
  <2>2. r \in Requests
    BY <1>9, <2>1
  <2> HIDE DEF r
  <2>3. DbStands(out.db, now) /\ Grown(db, out.db) /\ SaysTrue(out.db, r, out.answer)
    BY <1>0, <2>1, <2>2, Handled
  <2> HIDE DEF out
  <2>4. ConnGood(out.db, conns[c])
    BY <1>0, <2>3, GoodStays
  <2>5. ConnGood(out.db, p)
    BY <2>1, <2>3, <2>4, Served DEF r
  <2> HIDE DEF p
  <2>6. QED
    BY <1>0, <2>1, <2>3, <2>5, OneMoves
<1>13. QED
  BY <1>1, <1>2, <1>3, <1>4, <1>5, <1>6, <1>7, <1>8, <1>10, <1>11, <1>12 DEF Next, Thread

-----------------------------------------------------------------------------
(* The theorems *)

\* The invariant holds throughout.
THEOREM Invariance == Spec => []IInv
<1>1. QED
  BY InitEstablishes, StepPreserves, PTL DEF Spec

\* Types: the tables, the connections and what is in their buffers.
THEOREM TypeCorrect == Spec => []TypeOK
<1>1. IInv => TypeOK
  BY DEF IInv
<1>2. QED
  BY <1>1, Invariance, PTL

\* Retries: one effect for one key within a day.
THEOREM EffectIsOne == Spec => []OneEffect
<1>1. IInv => OneEffect
  BY DEF IInv, DbStands, OneEffect
<1>2. QED
  BY <1>1, Invariance, PTL

\* De-duplication: every mark is true and no true replay is refused.
THEOREM MarksAreTrue == Spec => []DuplicatesAreTrue
<1>1. IInv => DuplicatesAreTrue
  <2> SUFFICES ASSUME IInv PROVE DuplicatesAreTrue
    OBVIOUS
  <2>1. IsList(db.events) /\ EventsStand(db)
    BY DEF IInv, DbStands, TableTypes
  <2>2. \A j \in DOMAIN db.events : DupStands(db, j)
    BY <2>1 DEF EventsStand
  <2>3. ASSUME NEW i \in DOMAIN db.events, NEW r \in Requests, r.kind = "event",
               [r EXCEPT !.key = db.events[i].raw.key] = db.events[i].raw
        PROVE  Ingest(db, Process(r), r, now).answer.status = "ok"
    BY <2>1, <2>3, ReplayAccepted
  <2>4. QED
    BY <2>2, <2>3 DEF DuplicatesAreTrue
<1>2. QED
  BY <1>1, Invariance, PTL

\* What is conserved is what is left of the requests, in order.
LEMMA BuffersAreTheRest ==
    ASSUME NEW con, ConnTypes(con), Conserved(con)
    PROVE  con.buf \o con.wire = SubSeq(con.asked, Len(con.told) + 1, Len(con.asked))
<1> DEFINE nt == Len(con.told)
           nb == Len(con.buf)
           nw == Len(con.wire)
           na == Len(con.asked)
           left == con.buf \o con.wire
           right == SubSeq(con.asked, nt + 1, na)
<1>1. /\ nt \in Nat /\ nb \in Nat /\ nw \in Nat /\ na \in Nat
      /\ con.buf \in Seq(Requests) /\ con.wire \in Seq(Requests)
      /\ con.asked \in Seq(Requests)
  BY ConnLists
<1>2. /\ na = nt + nb + nw
      /\ \A k \in 1 .. nb : con.buf[k] = con.asked[nt + k]
      /\ \A k \in 1 .. nw : con.wire[k] = con.asked[nt + nb + k]
  BY DEF Conserved
<1>3. /\ left \in Seq(Requests) /\ Len(left) = nb + nw
      /\ \A k \in 1 .. nb + nw : left[k] = IF k <= nb THEN con.buf[k] ELSE con.wire[k - nb]
  <2>1. left \in Seq(Requests)
    BY <1>1
  <2>2. Len(left) = nb + nw
    BY <1>1
  <2>3. \A k \in 1 .. nb + nw : left[k] = IF k <= nb THEN con.buf[k] ELSE con.wire[k - nb]
    BY <1>1
  <2>4. QED
    BY <2>1, <2>2, <2>3
<1>4. /\ right \in Seq(Requests) /\ Len(right) = nb + nw
      /\ \A k \in 1 .. nb + nw : right[k] = con.asked[nt + k]
  <2>1. \A k \in nt + 1 .. na : con.asked[k] \in Requests
    BY <1>1
  <2>2. /\ right \in Seq(Requests)
        /\ Len(right) = IF nt + 1 <= na THEN na - (nt + 1) + 1 ELSE 0
        /\ \A k \in 1 .. na - (nt + 1) + 1 : right[k] = con.asked[nt + 1 + k - 1]
    <3>1. nt + 1 \in Int /\ na \in Int
      BY <1>1
    <3> HIDE DEF nt, na
    <3>2. QED
      BY <2>1, <3>1, SubSeqProperties
  <2> HIDE DEF right, nt, nb, nw, na
  <2>3. /\ (IF nt + 1 <= na THEN na - (nt + 1) + 1 ELSE 0) = nb + nw
        /\ na - (nt + 1) + 1 = nb + nw
        /\ \A k \in 1 .. nb + nw : nt + 1 + k - 1 = nt + k
    BY <1>1, <1>2
  <2>4. QED
    BY <2>2, <2>3
<1> HIDE DEF left, right, nt, nb, nw, na
<1>5. \A k \in 1 .. nb + nw : left[k] = right[k]
  <2> SUFFICES ASSUME NEW k \in 1 .. nb + nw PROVE left[k] = right[k]
    OBVIOUS
  <2>1. CASE k <= nb
    <3>1. k \in 1 .. nb
      BY <1>1, <2>1
    <3>2. QED
      BY <1>2, <1>3, <1>4, <2>1, <3>1
  <2>2. CASE k > nb
    <3>1. k - nb \in 1 .. nw /\ nt + nb + (k - nb) = nt + k
      BY <1>1, <2>2
    <3>2. con.wire[k - nb] = con.asked[nt + k]
      BY <1>2, <3>1
    <3>3. QED
      BY <1>1, <1>3, <1>4, <2>2, <3>2
  <2>3. QED
    BY <1>1, <2>1, <2>2
<1>6. left = right
  BY <1>1, <1>3, <1>4, <1>5
<1>7. QED
  BY <1>6 DEF left, right, nt, na

\* Answers: nothing is skipped, nothing is answered twice, and what is said is true.
THEOREM AnswersHold == Spec => []AnswersAreTrue
<1>1. IInv => AnswersAreTrue
  <2> SUFFICES ASSUME IInv, NEW c \in Conns
               PROVE  LET con == conns[c] IN
                      /\ Len(con.told) <= Len(con.asked)
                      /\ con.phase # "closed" /\ ~con.gone =>
                           con.buf \o con.wire =
                             SubSeq(con.asked, Len(con.told) + 1, Len(con.asked))
                      /\ \A n \in DOMAIN con.told : SaysTrue(db, con.asked[n], con.told[n])
    BY DEF AnswersAreTrue
  <2>1. ConnTypes(conns[c]) /\ ConnStands(db, conns[c])
    BY DEF IInv, TypeOK
  <2>2. QED
    BY <2>1, BuffersAreTheRest DEF ConnStands
<1>2. QED
  BY <1>1, Invariance, PTL
=============================================================================
