---------------------------- MODULE HostBridgeProofs ----------------------------
(***************************************************************************)
(* Proofs about HostBridge: a cursor that has seen the last reset passes   *)
(* no preference but those the service has and those the bridge jumped     *)
(* over or overlooked, for every chat database and any number of resets,   *)
(* lost calls, failed saves and crashes; and everything the bridge, the    *)
(* user and the forget plans do to the preference is a step of             *)
(* PreferenceVersions.                                                     *)
(***************************************************************************)
EXTENDS HostBridge, TLAPS

(***************************************************************************)
(* What holds of a row number and of a cursor after a step                 *)
(***************************************************************************)
AckedNext(n) ==
  /\ n <= Len(db')
  /\ \A r \in 1..n :
       \/ db'[r] \in passedBy' \cup overgrown' \cup told'
       \/ LanguageOf[db'[r]] \notin Languages

StandsNext(c) ==
  c # NoCursor =>
    /\ c.generation <= c.epoch
    /\ c.epoch <= c.seen
    /\ c.seen <= epoch'
    /\ c.seen = epoch' => c.identity = identity' /\ AckedNext(c.rowid)

\* The chat database has at most grown, and what was accounted for still is.
Grows ==
  /\ epoch' = epoch
  /\ identity' = identity
  /\ Len(db) <= Len(db')
  /\ \A r \in 1..Len(db) : db'[r] = db[r]
  /\ \A m \in Written : m \in passedBy \cup overgrown => m \in passedBy' \cup overgrown'
  /\ told \subseteq told'

\* An accounted row stays accounted for.
LEMMA AckedKept ==
  ASSUME TypeOK, Grows, NEW n \in Nat, Acked(n)
  PROVE  AckedNext(n)
BY DEF TypeOK, Grows, Acked, AckedNext, Written

\* So a cursor stands as long as the database is not reset.
LEMMA StandsKept ==
  ASSUME TypeOK, Grows, NEW c \in Cursor \cup {NoCursor}, CursorStands(c)
  PROVE  StandsNext(c)
<1> SUFFICES ASSUME c # NoCursor PROVE StandsNext(c)
  BY DEF StandsNext
<1>1. c \in Cursor
  OBVIOUS
<1>2. c.generation <= c.epoch /\ c.epoch <= c.seen /\ c.seen <= epoch
  BY DEF CursorStands
<1>3. ASSUME c.seen = epoch PROVE c.identity = identity /\ AckedNext(c.rowid)
  BY <1>1, <1>3, AckedKept DEF CursorStands, InStep, Cursor
<1>4. QED
  BY <1>2, <1>3 DEF StandsNext, Grows

\* After a reset every cursor is out of step.
LEMMA StandsReset ==
  ASSUME TypeOK, epoch' = epoch + 1, NEW c \in Cursor \cup {NoCursor}, CursorStands(c)
  PROVE  StandsNext(c)
<1> SUFFICES ASSUME c # NoCursor PROVE StandsNext(c)
  BY DEF StandsNext
<1>1. c.generation <= c.epoch /\ c.epoch <= c.seen /\ c.seen <= epoch
  BY DEF CursorStands
<1>2. c.seen \in Nat /\ epoch \in Nat
  BY DEF TypeOK, Cursor
<1>3. c.seen <= epoch' /\ c.seen # epoch'
  BY <1>1, <1>2
<1>4. QED
  BY <1>1, <1>3 DEF StandsNext

\* A cursor that is set at a row of the database stands when it has nothing
\* behind it, or every row there is is passed by.
LEMMA StandsSet ==
  ASSUME TypeOK, UNCHANGED dbVars, UNCHANGED told,
         NEW n \in Nat, n <= Len(db),
         NEW g \in Nat, g <= epoch,
         n = 0 \/ Written \subseteq passedBy'
  PROVE  At(n, g) \in Cursor /\ StandsNext(At(n, g))
<1>1. At(n, g) \in Cursor
  BY DEF At, Cursor, TypeOK
<1>2. n = 0 \/ \A r \in 1..n : db[r] \in passedBy'
  BY DEF Written, TypeOK
<1>3. AckedNext(n)
  BY <1>2 DEF AckedNext, dbVars
<1>4. StandsNext(At(n, g))
  BY <1>3 DEF StandsNext, At, dbVars, TypeOK
<1>5. QED
  BY <1>1, <1>4

\* A cursor that shows no reset stands after it was compared: what it was
\* behind is accounted for, or overgrown.
LEMMA StandsCompared ==
  ASSUME TypeOK, Grows, UNCHANGED dbVars,
         NEW c \in Cursor, CursorStands(c), ~ShowsReset(c),
         overgrown' = overgrown \cup Overgrown(c)
  PROVE  Compared(c) \in Cursor /\ StandsNext(Compared(c))
<1>1. /\ c.rowid \in Nat /\ c.generation \in Nat /\ c.epoch \in Nat /\ c.seen \in Nat
      /\ Len(db) \in Nat /\ epoch \in Nat
  BY DEF Cursor, TypeOK
<1>2. c # NoCursor
  BY <1>1 DEF NoCursor
<1>3. c.generation <= c.epoch /\ c.epoch <= c.seen /\ c.seen <= epoch
  BY <1>2 DEF CursorStands
<1>4. c.identity = identity /\ c.rowid <= Len(db)
  BY <1>1 DEF ShowsReset
<1>5. AckedNext(c.rowid)
  <2>1. CASE c.seen = epoch
    BY <1>1, <1>2, <2>1, AckedKept DEF CursorStands, InStep
  <2>2. CASE c.seen # epoch
    <3>1. overgrown' = overgrown \cup {db[r] : r \in 1..c.rowid}
      BY <1>4, <2>2 DEF Overgrown
    <3>2. QED
      BY <1>4, <3>1 DEF AckedNext, dbVars
  <2>3. QED
    BY <2>1, <2>2
<1>6. /\ Compared(c) \in Cursor
      /\ Compared(c).rowid = c.rowid /\ Compared(c).generation = c.generation
      /\ Compared(c).identity = c.identity /\ Compared(c).epoch = c.epoch
      /\ Compared(c).seen = epoch
  BY <1>1 DEF Compared, Cursor
<1>7. StandsNext(Compared(c))
  BY <1>1, <1>3, <1>4, <1>5, <1>6 DEF StandsNext, dbVars
<1>8. QED
  BY <1>6, <1>7

\* What is overgrown are messages.
LEMMA OvergrownType ==
  ASSUME TypeOK, NEW c \in Cursor \cup {NoCursor}
  PROVE  Overgrown(c) \subseteq Messages /\ Written \subseteq Messages
<1>1. Written \subseteq Messages
  BY DEF Written, TypeOK
<1>2. c.rowid \in Int
  BY DEF Cursor, NoCursor
<1>3. Overgrown(c) \subseteq Written
  BY <1>2 DEF Overgrown, Written, TypeOK
<1>4. QED
  BY <1>1, <1>3

\* The invariant after a step, in terms of what the step leaves behind.
LEMMA InvNext ==
  ASSUME TypeOK',
         StandsNext(cursor'), StandsNext(saved'),
         cursor' = NoCursor <=> pc' = "down",
         \A row \in batch' : row.rowid \in 1..MaxRows,
         pc' \in {"send", "save"} /\ cursor'.seen = epoch' => AckedNext(reached'),
         BatchStands',
         last' # "unknown" => sidecar' = last'
  PROVE  IInv'
BY DEF IInv, BridgeInv, CursorStands, StandsNext, Acked, AckedNext, InStep

(***************************************************************************)
(* The initial states                                                      *)
(***************************************************************************)
\* Nothing is written, sent or saved.
LEMMA InitEstablishes == Init => IInv
<1> SUFFICES ASSUME Init PROVE IInv
  OBVIOUS
<1>1. TypeOK
  BY BridgeAssumption DEF Init, TypeOK
<1>2. BridgeInv
  BY DEF Init, BridgeInv, CursorStands, BatchStands, InStep
<1>3. QED
  BY <1>1, <1>2 DEF IInv

(***************************************************************************)
(* The steps                                                               *)
(***************************************************************************)
\* The user's own changes and the context sync leave the bridge alone.
LEMMA OthersPreserve ==
  ASSUME IInv, UNCHANGED <<dbVars, bridgeVars, told>>,
         last' # "unknown" => sidecar' = last'
  PROVE  IInv'
BY DEF IInv, TypeOK, BridgeInv, CursorStands, BatchStands, Acked, InStep, dbVars, bridgeVars,
       historyVars, Cursor, Row

\* The context sync believes to have written what it has written.
LEMMA SyncPreserves ==
  ASSUME IInv, Sync \/ SyncCrash
  PROVE  IInv'
<1>1. last # "unknown" => sidecar = last
  BY DEF IInv, BridgeInv
<1>2. CASE Fetch
  BY <1>1, <1>2, OthersPreserve DEF Fetch
<1>3. CASE WriteContext
  <2>1. last' # "unknown" => sidecar' = last'
    BY <1>1, <1>3 DEF WriteContext
  <2>2. QED
    BY <1>3, <2>1, OthersPreserve DEF WriteContext
<1>4. CASE FetchFails
  <2>1. last' # "unknown" => sidecar' = last'
    BY <1>1, <1>4 DEF FetchFails
  <2>2. QED
    BY <1>4, <2>1, OthersPreserve DEF FetchFails
<1>5. CASE SyncCrash
  BY <1>5, OthersPreserve DEF SyncCrash
<1>6. QED
  BY <1>2, <1>3, <1>4, <1>5 DEF Sync

\* An insertion leaves every row that was read as it is; the batch in flight
\* ends at the last row there was.
LEMMA InsertPreserves ==
  ASSUME IInv, NEW m \in Messages, Insert(m)
  PROVE  IInv'
<1> USE DEF Insert, Anew
<1>1. db \in Seq(Messages) /\ Len(db) \in Nat
  BY DEF IInv, TypeOK
<1>2. Len(db') = Len(db) + 1 /\ \A r \in 1..Len(db) : db'[r] = db[r]
  BY <1>1
<1>3. Grows
  BY <1>1, <1>2 DEF Grows
<1>4. TypeOK'
  BY <1>1, <1>2, BridgeAssumption DEF IInv, TypeOK
<1>5. StandsNext(cursor) /\ StandsNext(saved)
  BY <1>3, StandsKept DEF IInv, TypeOK, BridgeInv
<1>6. pc \in {"send", "save"} /\ InStep(cursor) => AckedNext(reached)
  BY <1>3, AckedKept DEF IInv, BridgeInv, TypeOK
<1>7. BatchStands'
  <2> SUFFICES ASSUME pc = "send", InStep(cursor) PROVE BatchStands'
    BY DEF BatchStands, InStep
  <2>1. /\ high <= Len(db)
        /\ \A row \in batch : row.rowid \in (reached + 1)..high /\ row.message = db[row.rowid]
        /\ \A r \in (reached + 1)..high :
             LanguageOf[db[r]] \in Languages => [rowid |-> r, message |-> db[r]] \in batch
    BY DEF IInv, BridgeInv, BatchStands
  <2>2. high \in Nat /\ reached \in Nat
    BY DEF IInv, TypeOK
  <2>3. \A r \in (reached + 1)..high : db'[r] = db[r]
    BY <1>1, <1>2, <2>1, <2>2
  <2>4. QED
    BY <1>1, <1>2, <2>1, <2>2, <2>3 DEF BatchStands
<1>8. QED
  BY <1>4, <1>5, <1>6, <1>7, InvNext DEF IInv, BridgeInv, syncVars, InStep

\* After a reset no cursor is in step, so that nothing is claimed of the rows.
LEMMA ResetPreserves ==
  ASSUME IInv, epoch < MaxResets, epoch' = epoch + 1,
         db' \in Seq(Messages), Len(db') <= MaxRows, identity' \in Nat,
         passedBy' \in SUBSET Messages, overgrown' \in SUBSET Messages,
         UNCHANGED <<pc, cursor, saved, batch, high, reached, told, syncVars>>
  PROVE  IInv'
<1>1. epoch' \in 0..MaxResets
  BY BridgeAssumption DEF IInv, TypeOK
<1>2. TypeOK'
  BY <1>1 DEF IInv, TypeOK
<1>3. StandsNext(cursor) /\ StandsNext(saved)
  BY StandsReset DEF IInv, TypeOK, BridgeInv
<1>4. pc # "down" => cursor.seen # epoch'
  BY DEF IInv, TypeOK, BridgeInv, CursorStands, Cursor
<1>5. BatchStands'
  BY <1>4 DEF BatchStands, InStep
<1>6. QED
  BY <1>2, <1>3, <1>4, <1>5, InvNext DEF IInv, BridgeInv, syncVars

\* A cursor that is out of step can be given another generation.
LEMMA MayAdvance ==
  ASSUME TypeOK, NEW c \in Cursor, CursorStands(c),
         ShowsReset(c)
  PROVE  c.generation + 1 \in Nat /\ c.generation + 1 <= epoch
<1>1. c # NoCursor
  BY DEF Cursor, NoCursor
<1>2. c.seen # epoch
  BY <1>1 DEF CursorStands, InStep, Acked, Cursor, TypeOK, ShowsReset
<1>3. QED
  BY <1>1, <1>2 DEF CursorStands, Cursor, TypeOK

\* A bridge that only takes or sets a cursor is in no batch yet.
LEMMA CursorPreserves ==
  ASSUME IInv, pc' \in {"refresh", "reset", "read"},
         cursor' \in Cursor, StandsNext(cursor'),
         saved' \in Cursor \cup {NoCursor}, StandsNext(saved'),
         passedBy' \in SUBSET Messages, overgrown' \in SUBSET Messages,
         UNCHANGED <<dbVars, batch, high, reached, told, syncVars>>
  PROVE  IInv'
<1>1. TypeOK'
  BY DEF IInv, TypeOK, dbVars
<1>2. cursor' # NoCursor
  BY DEF Cursor, NoCursor
<1>3. BatchStands'
  BY DEF BatchStands
<1>4. QED
  BY <1>1, <1>2, <1>3, InvNext DEF IInv, BridgeInv, syncVars

\* The bridge starts with the saved cursor, or with one behind all there is.
LEMMA StartPreserves ==
  ASSUME IInv, Start
  PROVE  IInv'
<1>1. /\ UNCHANGED dbVars /\ UNCHANGED told /\ UNCHANGED <<batch, high, reached, syncVars>>
      /\ cursor' = Reconciled /\ saved' = Reconciled /\ pc' = "refresh"
      /\ passedBy' = IF StartsBehind THEN passedBy \cup Written ELSE passedBy
      /\ overgrown' = overgrown \cup Overgrown(saved)
  BY DEF Start
<1>2. /\ TypeOK /\ CursorStands(saved) /\ saved \in Cursor \cup {NoCursor}
      /\ Len(db) \in Nat /\ epoch \in Nat
  BY DEF IInv, BridgeInv, TypeOK
<1>3. passedBy' \in SUBSET Messages /\ overgrown' \in SUBSET Messages
  BY <1>1, <1>2, OvergrownType DEF TypeOK
<1>4. Reconciled \in Cursor /\ StandsNext(Reconciled)
  <2>1. CASE ~StartsBehind
    <3>1. saved \in Cursor /\ ~ShowsReset(saved) /\ Reconciled = Compared(saved)
      BY <1>2, <2>1 DEF StartsBehind, Reconciled
    <3>2. Grows
      BY <1>1 DEF Grows, dbVars
    <3>3. QED
      BY <1>1, <1>2, <3>1, <3>2, StandsCompared
  <2>2. CASE StartsBehind
    <3>1. PICK g \in Nat : g <= epoch /\ Reconciled = At(Len(db), g)
      <4>1. CASE saved = NoCursor
        BY <1>2, <4>1 DEF Reconciled
      <4>2. CASE saved # NoCursor
        <5>1. saved \in Cursor /\ ShowsReset(saved)
              /\ Reconciled = At(Len(db), saved.generation + 1)
          BY <1>2, <2>2, <4>2 DEF Reconciled, StartsBehind
        <5>2. QED
          BY <1>2, <5>1, MayAdvance
      <4>3. QED
        BY <4>1, <4>2
    <3>2. Written \subseteq passedBy'
      BY <1>1, <2>2
    <3>3. QED
      BY <1>1, <1>2, <3>1, <3>2, StandsSet
  <2>3. QED
    BY <2>1, <2>2
<1>5. QED
  BY <1>1, <1>3, <1>4, CursorPreserves

\* A running bridge keeps its cursor, or sets one behind all there is after
\* another file took the place of the database, or at its begin after it shrank.
LEMMA RefreshPreserves ==
  ASSUME IInv, Refresh
  PROVE  IInv'
<1>1. /\ UNCHANGED dbVars /\ UNCHANGED told /\ UNCHANGED <<saved, batch, high, reached, syncVars>>
      /\ cursor' = Refreshed /\ pc' \in {"read", "reset"}
      /\ passedBy' = IF cursor.identity # identity THEN passedBy \cup Written ELSE passedBy
      /\ overgrown' = overgrown \cup Overgrown(cursor)
  BY DEF Refresh
<1>2. /\ TypeOK /\ CursorStands(cursor) /\ CursorStands(saved)
      /\ cursor \in Cursor /\ saved \in Cursor \cup {NoCursor}
      /\ Len(db) \in Nat /\ epoch \in Nat
  BY DEF IInv, BridgeInv, TypeOK, Refresh
<1>3. passedBy' \in SUBSET Messages /\ overgrown' \in SUBSET Messages
  BY <1>1, <1>2, OvergrownType DEF TypeOK
<1>4. Grows
  BY <1>1 DEF Grows, dbVars
<1>5. StandsNext(saved)
  BY <1>2, <1>4, StandsKept
<1>6. Refreshed \in Cursor /\ StandsNext(Refreshed)
  <2>1. CASE ~ShowsReset(cursor)
    <3>1. Refreshed = Compared(cursor)
      BY <2>1 DEF Refreshed
    <3>2. QED
      BY <1>1, <1>2, <1>4, <2>1, <3>1, StandsCompared
  <2>2. CASE ShowsReset(cursor)
    <3>1. cursor.generation + 1 \in Nat /\ cursor.generation + 1 <= epoch
      BY <1>2, <2>2, MayAdvance
    <3>2. PICK n \in Nat : /\ n <= Len(db) /\ (n = 0 \/ Written \subseteq passedBy')
                          /\ Refreshed = At(n, cursor.generation + 1)
      <4>1. CASE cursor.identity # identity
        BY <1>1, <1>2, <2>2, <4>1 DEF Refreshed
      <4>2. CASE cursor.identity = identity
        BY <1>2, <2>2, <4>2 DEF Refreshed
      <4>3. QED
        BY <4>1, <4>2
    <3>3. QED
      BY <1>1, <1>2, <3>1, <3>2, StandsSet
  <2>3. QED
    BY <2>1, <2>2
<1>7. QED
  BY <1>1, <1>2, <1>3, <1>5, <1>6, CursorPreserves

\* A cursor that was set anew may be saved or not.
LEMMA SaveResetPreserves ==
  ASSUME IInv, SaveReset
  PROVE  IInv'
<1>1. /\ UNCHANGED <<dbVars, cursor, batch, high, reached, historyVars, told, syncVars>>
      /\ saved' \in {saved, cursor} /\ pc' = "refresh"
  BY DEF SaveReset
<1>2. /\ TypeOK /\ cursor \in Cursor /\ saved \in Cursor \cup {NoCursor}
      /\ passedBy' \in SUBSET Messages /\ overgrown' \in SUBSET Messages
  BY <1>1 DEF IInv, BridgeInv, TypeOK, SaveReset, historyVars
<1>3. Grows
  BY <1>1 DEF Grows, dbVars, historyVars
<1>4. StandsNext(cursor) /\ StandsNext(saved)
  BY <1>2, <1>3, StandsKept DEF IInv, BridgeInv
<1>5. QED
  BY <1>1, <1>2, <1>4, CursorPreserves

\* What every step of the loop that moves no cursor has in common.
LEMMA LoopPreserves ==
  ASSUME IInv, pc' \in {"refresh", "send", "save"}, pc # "down",
         batch' \in SUBSET Row, \A row \in batch' : row.rowid \in 1..MaxRows,
         high' \in Nat, reached' \in Nat,
         told \subseteq told', told' \in SUBSET Messages,
         pc' \in {"send", "save"} /\ InStep(cursor) => AckedNext(reached'),
         BatchStands',
         UNCHANGED <<dbVars, cursor, saved, historyVars, syncVars>>
  PROVE  IInv'
<1>1. TypeOK'
  BY DEF IInv, TypeOK, dbVars, historyVars
<1>2. Grows
  BY DEF Grows, dbVars, historyVars
<1>3. StandsNext(cursor) /\ StandsNext(saved)
  BY <1>2, StandsKept DEF IInv, TypeOK, BridgeInv
<1>4. cursor # NoCursor
  BY DEF IInv, BridgeInv
<1>5. cursor' = NoCursor <=> pc' = "down"
  BY <1>4
<1>6. pc' \in {"send", "save"} /\ cursor'.seen = epoch' => AckedNext(reached')
  BY DEF InStep, dbVars
<1>7. last' # "unknown" => sidecar' = last'
  BY DEF IInv, BridgeInv, syncVars
<1>8. QED
  BY <1>1, <1>3, <1>5, <1>6, <1>7, InvNext

\* What is read behind the cursor is every row of the user there is.
LEMMA ReadPreserves ==
  ASSUME IInv, Read
  PROVE  IInv'
<1>1. /\ pc = "read"
      /\ UNCHANGED <<dbVars, cursor, saved, historyVars, told, syncVars>>
  BY DEF Read
<1>2. /\ db \in Seq(Messages) /\ Len(db) \in Nat /\ Len(db) <= MaxRows
      /\ cursor \in Cursor /\ cursor.rowid \in Nat
      /\ batch \in SUBSET Row /\ high \in Nat /\ reached \in Nat /\ told \in SUBSET Messages
      /\ \A row \in batch : row.rowid \in 1..MaxRows
  BY <1>1 DEF IInv, TypeOK, BridgeInv, Cursor
<1>3. CASE identity # cursor.identity \/ Blocked
  <2>1. pc' = "refresh" /\ UNCHANGED <<batch, high, reached>>
    BY <1>3 DEF Read
  <2>2. BatchStands'
    BY <2>1 DEF BatchStands
  <2>3. QED
    BY <1>1, <1>2, <2>1, <2>2, LoopPreserves
<1>4. CASE ~(identity # cursor.identity \/ Blocked)
  <2>1. /\ pc' = "send" /\ batch' = UserRows(cursor.rowid) /\ reached' = cursor.rowid
        /\ high' = IF Len(db) > cursor.rowid THEN Len(db) ELSE cursor.rowid
    BY <1>4 DEF Read
  <2>2. high' \in Nat /\ reached' \in Nat
    BY <1>2, <2>1
  <2>3. \A row \in batch' : /\ row.rowid \in 1..Len(db) /\ row.rowid > cursor.rowid
                            /\ row.message = db[row.rowid] /\ row \in Row
    BY <1>2, <2>1 DEF UserRows, Row
  <2>4. batch' \in SUBSET Row /\ \A row \in batch' : row.rowid \in 1..MaxRows
    BY <1>2, <2>3, BridgeAssumption
  <2>5. \A r \in 1..Len(db) :
          r > cursor.rowid /\ LanguageOf[db[r]] \in Languages =>
            [rowid |-> r, message |-> db[r]] \in batch'
    <3>1. NotUser \notin Languages
      BY MessageAssumption
    <3>2. QED
      BY <1>2, <2>1, <3>1 DEF UserRows
  <2>6. ASSUME InStep(cursor) PROVE AckedNext(reached') /\ high' = Len(db)
    <3>1. Acked(cursor.rowid)
      BY <1>1, <2>6 DEF IInv, BridgeInv, CursorStands
    <3>2. Grows
      BY <1>1 DEF Grows, dbVars, historyVars
    <3>3. AckedNext(cursor.rowid)
      BY <1>2, <3>1, <3>2, AckedKept DEF IInv
    <3>4. QED
      BY <1>2, <2>1, <3>1, <3>3 DEF Acked
  <2>7. BatchStands'
    <3> SUFFICES ASSUME InStep(cursor) PROVE BatchStands'
      BY <1>1 DEF BatchStands, InStep, dbVars
    <3>1. high' = Len(db')
      BY <1>1, <2>6 DEF dbVars
    <3>2. \A row \in batch' : row.rowid \in (reached' + 1)..high' /\ row.message = db'[row.rowid]
      BY <1>1, <1>2, <2>1, <2>3, <2>6 DEF dbVars
    <3>3. \A r \in (reached' + 1)..high' :
            LanguageOf[db'[r]] \in Languages => [rowid |-> r, message |-> db'[r]] \in batch'
      BY <1>1, <1>2, <2>1, <2>5, <2>6 DEF dbVars
    <3>4. QED
      BY <1>1, <1>2, <3>1, <3>2, <3>3 DEF BatchStands, dbVars
  <2>8. QED
    BY <1>1, <1>2, <2>1, <2>2, <2>4, <2>6, <2>7, LoopPreserves
<1>5. QED
  BY <1>3, <1>4

\* The next row of the batch is acknowledged when the service has its message or
\* it holds no preference: between it and the row before it there is none.
LEMMA AcknowledgedPreserves ==
  ASSUME IInv, pc = "send", NEW row \in batch, IsNext(row), Acknowledged(row),
         UNCHANGED <<dbVars, pc, cursor, saved, historyVars, syncVars>>,
         told' \in SUBSET Messages, told \subseteq told',
         row.message \in told' \/ LanguageOf[row.message] \notin Languages
  PROVE  IInv'
<1>1. batch' = batch \ {row} /\ reached' = row.rowid /\ high' = high
  BY DEF Acknowledged
<1>2. /\ db \in Seq(Messages) /\ Len(db) \in Nat /\ batch \in SUBSET Row
      /\ high \in Nat /\ reached \in Nat
      /\ \A other \in batch : other.rowid \in 1..MaxRows
  BY DEF IInv, TypeOK, BridgeInv
<1>3. row \in Row /\ row.rowid \in Nat /\ row = [rowid |-> row.rowid, message |-> row.message]
  BY <1>2 DEF Row
<1>4. ASSUME InStep(cursor)
      PROVE  /\ AckedNext(reached')
             /\ BatchStands'
  <2>1. /\ high <= Len(db)
        /\ \A other \in batch :
             other.rowid \in (reached + 1)..high /\ other.message = db[other.rowid]
        /\ \A r \in (reached + 1)..high :
             LanguageOf[db[r]] \in Languages => [rowid |-> r, message |-> db[r]] \in batch
        /\ Acked(reached)
    BY <1>4 DEF IInv, BridgeInv, BatchStands
  <2>2. \A r \in (reached + 1)..(row.rowid - 1) : LanguageOf[db[r]] \notin Languages
    <3> SUFFICES ASSUME NEW r \in (reached + 1)..(row.rowid - 1),
                        LanguageOf[db[r]] \in Languages
                 PROVE  FALSE
      OBVIOUS
    <3>1. r \in (reached + 1)..high
      BY <1>2, <1>3, <2>1
    <3>2. [rowid |-> r, message |-> db[r]] \in batch
      BY <2>1, <3>1
    <3>3. row.rowid <= r
      BY <3>2 DEF IsNext
    <3>4. QED
      BY <1>2, <1>3, <3>3
  <2>3. Grows
    BY DEF Grows, dbVars, historyVars
  <2>4. AckedNext(reached)
    BY <1>2, <2>1, <2>3, AckedKept DEF IInv
  <2>5. AckedNext(row.rowid)
    <3>1. row.rowid \in (reached + 1)..high /\ row.message = db[row.rowid]
      BY <2>1
    <3>2. ASSUME NEW r \in 1..row.rowid
          PROVE  db[r] \in passedBy' \cup overgrown' \cup told' \/ LanguageOf[db[r]] \notin Languages
      <4>1. CASE r <= reached
        BY <1>2, <1>3, <2>4, <4>1 DEF AckedNext, dbVars
      <4>2. CASE r > reached /\ r < row.rowid
        BY <1>2, <1>3, <2>2, <4>2
      <4>3. CASE r = row.rowid
        BY <3>1, <4>3
      <4>4. QED
        BY <1>2, <1>3, <4>1, <4>2, <4>3
    <3>3. QED
      BY <1>2, <1>3, <2>1, <3>1, <3>2 DEF AckedNext, dbVars, historyVars
  <2>6. \A other \in batch' :
          other.rowid \in (row.rowid + 1)..high /\ other.message = db[other.rowid]
    <3> SUFFICES ASSUME NEW other \in batch, other # row
                 PROVE  /\ other.rowid \in (row.rowid + 1)..high
                        /\ other.message = db[other.rowid]
      BY <1>1
    <3>1. row.rowid <= other.rowid
      BY DEF IsNext
    <3>2. other = [rowid |-> other.rowid, message |-> other.message] /\ other.rowid \in Nat
      BY <1>2 DEF Row
    <3>3. other.rowid # row.rowid
      BY <1>3, <2>1, <3>2
    <3>4. QED
      BY <1>2, <1>3, <2>1, <3>1, <3>2, <3>3
  <2>7. \A r \in (row.rowid + 1)..high :
          LanguageOf[db[r]] \in Languages => [rowid |-> r, message |-> db[r]] \in batch'
    <3> SUFFICES ASSUME NEW r \in (row.rowid + 1)..high, LanguageOf[db[r]] \in Languages
                 PROVE  [rowid |-> r, message |-> db[r]] \in batch'
      OBVIOUS
    <3>1. r \in (reached + 1)..high /\ r # row.rowid
      BY <1>2, <1>3, <2>1
    <3>2. [rowid |-> r, message |-> db[r]] \in batch
      BY <2>1, <3>1
    <3>3. [rowid |-> r, message |-> db[r]] # row
      BY <1>3, <3>1
    <3>4. QED
      BY <1>1, <3>2, <3>3
  <2>8. BatchStands'
    BY <1>1, <2>1, <2>6, <2>7 DEF BatchStands, dbVars
  <2>9. QED
    BY <1>1, <2>5, <2>8
<1>5. BatchStands'
  BY <1>4 DEF BatchStands, InStep, dbVars
<1>6. QED
  BY <1>1, <1>2, <1>3, <1>4, <1>5, LoopPreserves

\* A row that has to wait ends the batch at the rows before it, one that raises
\* ends the round.
LEMMA RetryPreserves ==
  ASSUME IInv, pc = "send", RetryLater \/ RoundEnds, UNCHANGED dbVars,
         told' \in SUBSET Messages, told \subseteq told'
  PROVE  IInv'
<1>1. /\ UNCHANGED <<dbVars, cursor, saved, historyVars, syncVars, high, reached>>
      /\ \/ pc' = "save" /\ batch' = batch
         \/ pc' = "refresh" /\ batch' = {}
  BY DEF RetryLater, RoundEnds
<1>2. /\ batch \in SUBSET Row /\ high \in Nat /\ reached \in Nat
      /\ \A row \in batch : row.rowid \in 1..MaxRows
  BY DEF IInv, TypeOK, BridgeInv
<1>3. ASSUME InStep(cursor) PROVE AckedNext(reached')
  BY <1>1, <1>2, <1>3, AckedKept DEF IInv, BridgeInv, Grows, dbVars, historyVars
<1>4. BatchStands'
  BY <1>1 DEF BatchStands
<1>5. QED
  BY <1>1, <1>2, <1>3, <1>4, LoopPreserves

\* The rows of the batch, one by one.
LEMMA SendPreserves ==
  ASSUME IInv, PassRow \/ Stored \/ CallFails \/ CallRefused
  PROVE  IInv'
<1>1. told \in SUBSET Messages /\ batch \in SUBSET Row
  BY DEF IInv, TypeOK
<1>2. CASE PassRow
  <2>1. PICK row \in batch :
          IsNext(row) /\ LanguageOf[row.message] = NoLanguage /\ Acknowledged(row)
    BY <1>2 DEF PassRow
  <2>2. LanguageOf[row.message] \notin Languages
    BY <2>1, MessageAssumption
  <2>3. pc = "send" /\ UNCHANGED <<dbVars, pc, cursor, saved, historyVars, told, syncVars>>
    BY <1>2, <2>1 DEF PassRow, Acknowledged
  <2>4. QED
    BY <1>1, <2>1, <2>2, <2>3, AcknowledgedPreserves
<1>3. CASE Stored
  <2>1. PICK row \in batch :
          Sends(row) /\ told' = told \cup {row.message} /\ Acknowledged(row)
    BY <1>3 DEF Stored
  <2>2. pc = "send" /\ IsNext(row)
    BY <2>1 DEF Sends
  <2>3. row.message \in Messages
    BY <1>1 DEF Row
  <2>4. UNCHANGED <<dbVars, pc, cursor, saved, historyVars, syncVars>>
    BY <2>1 DEF Acknowledged
  <2>5. QED
    BY <1>1, <2>1, <2>2, <2>3, <2>4, AcknowledgedPreserves
<1>4. CASE CallFails
  <2>1. PICK row \in batch :
          /\ Sends(row)
          /\ told' = told \cup {row.message} \/ UNCHANGED told
          /\ RetryLater \/ RoundEnds
    BY <1>4 DEF CallFails
  <2>2. row.message \in Messages
    BY <1>1 DEF Row
  <2>3. pc = "send" /\ UNCHANGED dbVars
    BY <2>1 DEF Sends, RetryLater, RoundEnds
  <2>4. QED
    BY <1>1, <2>1, <2>2, <2>3, RetryPreserves
<1>5. CASE CallRefused
  <2>1. PICK row \in batch : Sends(row) /\ RetryLater /\ UNCHANGED told
    BY <1>5 DEF CallRefused
  <2>2. pc = "send" /\ UNCHANGED dbVars
    BY <2>1 DEF Sends, RetryLater
  <2>3. QED
    BY <1>1, <2>1, <2>2, RetryPreserves
<1>6. QED
  BY <1>2, <1>3, <1>4, <1>5

\* When the batch is empty, the rows up to the last one there was hold no
\* preference.
LEMMA BatchDonePreserves ==
  ASSUME IInv, BatchDone
  PROVE  IInv'
<1>1. /\ pc = "send" /\ batch = {} /\ pc' = "save"
      /\ reached' = IF high > reached THEN high ELSE reached
      /\ UNCHANGED <<dbVars, cursor, saved, batch, high, historyVars, told, syncVars>>
  BY DEF BatchDone
<1>2. /\ batch \in SUBSET Row /\ high \in Nat /\ reached \in Nat /\ told \in SUBSET Messages
      /\ Len(db) \in Nat /\ \A row \in batch : row.rowid \in 1..MaxRows
  BY DEF IInv, TypeOK, BridgeInv
<1>3. reached' \in Nat
  BY <1>1, <1>2
<1>4. ASSUME InStep(cursor) PROVE AckedNext(reached')
  <2>1. /\ high <= Len(db) /\ Acked(reached)
        /\ \A r \in (reached + 1)..high : LanguageOf[db[r]] \notin Languages
    BY <1>1, <1>4 DEF IInv, BridgeInv, BatchStands
  <2>2. \A r \in 1..reached' :
          db[r] \in passedBy \cup overgrown \cup told \/ LanguageOf[db[r]] \notin Languages
    BY <1>1, <1>2, <2>1 DEF Acked
  <2>3. reached' <= Len(db)
    BY <1>1, <1>2, <2>1 DEF Acked
  <2>4. QED
    BY <1>1, <2>2, <2>3 DEF AckedNext, dbVars, historyVars
<1>5. BatchStands'
  BY <1>1 DEF BatchStands
<1>6. QED
  BY <1>1, <1>2, <1>3, <1>4, <1>5, LoopPreserves

\* A cursor that moves on, in memory and in the file, only passes rows that are
\* accounted for.
LEMMA SavePreserves ==
  ASSUME IInv, Save
  PROVE  IInv'
<1>1. /\ pc = "save" /\ pc' = "refresh" /\ batch' = {}
      /\ UNCHANGED <<dbVars, high, reached, historyVars, told, syncVars>>
      /\ \/ /\ cursor' = [cursor EXCEPT !.rowid = reached]
            /\ saved' \in {saved, cursor'}
         \/ UNCHANGED <<cursor, saved>>
  BY DEF Save
<1>2. /\ TypeOK /\ cursor \in Cursor /\ saved \in Cursor \cup {NoCursor}
      /\ CursorStands(cursor) /\ CursorStands(saved)
      /\ InStep(cursor) => Acked(reached)
      /\ reached \in Nat
  BY <1>1 DEF IInv, BridgeInv, TypeOK
<1>3. Grows
  BY <1>1 DEF Grows, dbVars, historyVars
<1>4. StandsNext(cursor) /\ StandsNext(saved)
  BY <1>2, <1>3, StandsKept
<1>5. DEFINE moved == [cursor EXCEPT !.rowid = reached]
<1>6. moved \in Cursor /\ moved.rowid = reached /\ moved.generation = cursor.generation
      /\ moved.epoch = cursor.epoch /\ moved.seen = cursor.seen
      /\ moved.identity = cursor.identity
  BY <1>2 DEF Cursor
<1> HIDE DEF moved
<1>7. StandsNext(moved)
  <2>1. cursor # NoCursor
    BY <1>2 DEF Cursor, NoCursor
  <2>2. cursor.generation <= cursor.epoch /\ cursor.epoch <= cursor.seen /\ cursor.seen <= epoch'
    BY <1>4, <2>1 DEF StandsNext
  <2>3. ASSUME cursor.seen = epoch'
        PROVE  cursor.identity = identity' /\ AckedNext(reached)
    <3>1. Acked(reached)
      BY <1>1, <1>2, <2>3 DEF InStep, dbVars
    <3>2. AckedNext(reached)
      BY <1>2, <1>3, <3>1, AckedKept
    <3>3. QED
      BY <1>4, <2>1, <2>3, <3>2 DEF StandsNext
  <2>4. QED
    BY <1>6, <2>2, <2>3 DEF StandsNext
<1>8. /\ cursor' \in Cursor /\ StandsNext(cursor')
      /\ saved' \in Cursor \cup {NoCursor} /\ StandsNext(saved')
  <2>1. CASE cursor' = moved /\ saved' \in {saved, cursor'}
    BY <1>2, <1>4, <1>6, <1>7, <2>1
  <2>2. CASE UNCHANGED <<cursor, saved>>
    BY <1>2, <1>4, <2>2
  <2>3. QED
    BY <1>1, <2>1, <2>2 DEF moved
<1>9. TypeOK'
  BY <1>1, <1>8 DEF IInv, TypeOK, dbVars, historyVars
<1>10. cursor' # NoCursor
  BY <1>8 DEF Cursor, NoCursor
<1>11. BatchStands'
  BY <1>1 DEF BatchStands
<1>12. QED
  BY <1>1, <1>8, <1>9, <1>10, <1>11, InvNext DEF IInv, BridgeInv, syncVars

\* What is left of a bridge that dies is the saved cursor.
LEMMA CrashPreserves ==
  ASSUME IInv, BridgeCrash
  PROVE  IInv'
<1>1. /\ pc' = "down" /\ cursor' = NoCursor /\ batch' = {} /\ high' = 0 /\ reached' = 0
      /\ UNCHANGED <<dbVars, saved, historyVars, told, syncVars>>
  BY DEF BridgeCrash
<1>2. TypeOK'
  BY <1>1 DEF IInv, TypeOK, dbVars, historyVars
<1>3. Grows
  BY <1>1 DEF Grows, dbVars, historyVars
<1>4. StandsNext(saved) /\ StandsNext(NoCursor)
  BY <1>3, StandsKept DEF IInv, TypeOK, BridgeInv, StandsNext
<1>5. BatchStands'
  BY <1>1 DEF BatchStands
<1>6. QED
  BY <1>1, <1>2, <1>4, <1>5, InvNext DEF IInv, BridgeInv, syncVars

\* Every step preserves the invariant.
LEMMA StepPreserves == IInv /\ [Next]_vars => IInv'
<1> SUFFICES ASSUME IInv, [Next]_vars PROVE IInv'
  OBVIOUS
<1>1. CASE \E m \in Messages : Insert(m)
  BY <1>1, InsertPreserves
<1>2. CASE Clear
  <2>1. << >> \in Seq(Messages) /\ Len(<< >>) <= MaxRows
    BY BridgeAssumption
  <2>2. QED
    BY <1>2, <2>1, ResetPreserves DEF Clear, IInv, TypeOK, bridgeVars, historyVars
<1>3. CASE Replace(<< >>) \/ \E m \in Messages : Replace(<<m>>)
  <2>1. PICK history \in Seq(Messages) : Len(history) <= MaxRows /\ Replace(history)
    <3>1. << >> \in Seq(Messages) /\ Len(<< >>) = 0 /\ 0 <= MaxRows /\ 1 <= MaxRows
      BY BridgeAssumption
    <3>2. \A m \in Messages : <<m>> \in Seq(Messages) /\ Len(<<m>>) = 1
      OBVIOUS
    <3>3. CASE Replace(<< >>)
      BY <3>1, <3>3
    <3>4. CASE \E m \in Messages : Replace(<<m>>)
      BY <3>1, <3>2, <3>4
    <3>5. QED
      BY <1>3, <3>3, <3>4
  <2>2. identity' \in Nat /\ passedBy' \in SUBSET Messages /\ overgrown' \in SUBSET Messages
    BY <2>1 DEF Replace, Anew, IInv, TypeOK
  <2>3. QED
    BY <2>1, <2>2, ResetPreserves DEF Replace, Anew
<1>4. CASE Bridge
  BY <1>4, StartPreserves, RefreshPreserves, SaveResetPreserves, ReadPreserves, SendPreserves,
     BatchDonePreserves, SavePreserves DEF Bridge
<1>5. CASE BridgeCrash
  BY <1>5, CrashPreserves
<1>6. CASE (\E v \in Languages : Edit(v)) \/ Forget
  BY <1>6, OthersPreserve DEF Edit, Forget, syncVars, IInv, BridgeInv
<1>7. CASE Sync \/ SyncCrash
  BY <1>7, SyncPreserves
<1>8. CASE UNCHANGED vars
  BY <1>8, OthersPreserve DEF vars, syncVars, IInv, BridgeInv
<1>9. QED
  BY <1>1, <1>2, <1>3, <1>4, <1>5, <1>6, <1>7, <1>8 DEF Next

(***************************************************************************)
(* The theorems                                                            *)
(***************************************************************************)
\* In every behaviour of the host integration the invariant holds.
THEOREM Invariance == Spec => []IInv
BY InitEstablishes, StepPreserves, PTL DEF Spec

\* The variables of the bridge keep their types.
THEOREM TypeCorrect == Spec => []TypeOK
<1>1. IInv => TypeOK
  BY DEF IInv
<1>2. QED
  BY <1>1, Invariance, PTL

\* A cursor of the bridge, once it was compared with the database after the last
\* reset, is past no preference but those the service was told, those the cursor
\* jumped over (what was there at the first start, in another file, or at a start
\* after a reset) and those up to the cursor when a reset was overlooked because
\* the table had grown back to it, whatever calls are lost, saves fail and
\* processes die; and the context file is what its writer takes it to be.
THEOREM NothingIsLost == Spec => []AckedIsStored
<1>1. IInv => AckedIsStored
  BY DEF IInv, BridgeInv, CursorStands, Acked, AckedIsStored
<1>2. QED
  BY <1>1, Invariance, PTL

(***************************************************************************)
(* The service behind the bridge                                           *)
(***************************************************************************)
\* The key of a row is a key of the service: there are no more generations than
\* resets.
LEMMA KeysAreKeys ==
  ASSUME IInv, pc = "send", NEW row \in batch
  PROVE  KeyOf(row) \in RowKeys
<1>1. cursor \in Cursor /\ CursorStands(cursor) /\ cursor # NoCursor /\ epoch \in 0..MaxResets
  BY DEF IInv, TypeOK, BridgeInv
<1>2. cursor.generation \in 0..MaxResets
  BY <1>1, BridgeAssumption DEF CursorStands, Cursor
<1>3. row.rowid \in 1..MaxRows
  BY DEF IInv, BridgeInv
<1>4. QED
  BY <1>2, <1>3 DEF KeyOf, RowKeys

\* A call of the bridge that arrives is a preference.create of the service.
LEMMA CallsCreate ==
  ASSUME IInv, NEW row \in batch, Sends(row), Service!AppendVersion(RequestOf(row))
  PROVE  Service!ChainNext
<1>1. KeyOf(row) \in RowKeys /\ LanguageOf[row.message] \in Languages
  BY KeysAreKeys DEF Sends
<1>2. Service!Create(LanguageOf[row.message], "active", KeyOf(row), KeyOf(row))
  BY DEF RequestOf, Service!Create
<1>3. QED
  BY <1>1, <1>2 DEF Service!ChainNext

\* Every step of the integration is a step of the service or leaves it alone.
LEMMA StepSimulates == IInv /\ [Next]_vars => [Service!ChainNext]_serviceVars
<1> SUFFICES ASSUME IInv, [Next]_vars PROVE Service!ChainNext \/ UNCHANGED serviceVars
  OBVIOUS
<1>1. CASE (\E m \in Messages : Insert(m)) \/ Clear \/ Replace(<< >>)
           \/ \E m \in Messages : Replace(<<m>>)
  BY <1>1 DEF Insert, Clear, Replace
<1>2. CASE Start \/ Refresh \/ SaveReset \/ Read
  BY <1>2 DEF Start, Refresh, SaveReset, Read
<1>3. CASE PassRow \/ CallRefused \/ BatchDone \/ Save
  BY <1>3 DEF PassRow, CallRefused, BatchDone, Save
<1>4. CASE Stored
  BY <1>4, CallsCreate DEF Stored
<1>5. CASE CallFails
  BY <1>5, CallsCreate DEF CallFails
<1>6. CASE \E v \in Languages : Edit(v)
  BY <1>6 DEF Edit, Service!ChainNext
<1>7. CASE Forget
  BY <1>7 DEF Forget, Service!ChainNext
<1>8. CASE BridgeCrash \/ Sync \/ SyncCrash
  BY <1>8 DEF BridgeCrash, Sync, SyncCrash, Fetch, WriteContext, FetchFails
<1>9. CASE UNCHANGED vars
  BY <1>9 DEF vars
<1>10. QED
  BY <1>1, <1>2, <1>3, <1>4, <1>5, <1>6, <1>7, <1>8, <1>9 DEF Next, Bridge

\* What the integration does to the preference is a behaviour of
\* PreferenceVersions: what is proved of the service there holds behind the
\* bridge, with its retries and the keys it makes up.
THEOREM ServiceBehaves == Spec => Service!ChainSpec
<1>1. Init => Service!ChainInit
  BY DEF Init
<1>2. QED
  BY <1>1, Invariance, StepSimulates, PTL
     DEF Spec, Service!ChainSpec, serviceVars, Service!chainVars
===============================================================================
