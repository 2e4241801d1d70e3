------------------------------- MODULE HostBridge -------------------------------
(***************************************************************************)
(* The host integration: host_memory_bridge.py follows the chat database   *)
(* of the assistant and sends what the user says about the language of a   *)
(* project to preference.create; memory_context_sync.py polls              *)
(* preference.list and keeps the file the pre-chat hook injects.           *)
(*                                                                         *)
(* The two are processes of their own: either may die between any two      *)
(* steps.  The assistant inserts, clears and replaces its database         *)
(* whenever it likes.  The service is PreferenceVersions.                  *)
(*                                                                         *)
(* Not everything the user says is sent.  The bridge jumps over what it    *)
(* finds when it starts without a cursor, or finds its database replaced,  *)
(* or starts after a reset (passedBy).  A reset it can only tell by a      *)
(* table that is shorter than its cursor: one that has grown back by the   *)
(* next look is overlooked, with the rows up to the cursor (overgrown).    *)
(* And one message that is JSON but no object holds up every row that was  *)
(* not read before it.                                                     *)
(***************************************************************************)
EXTENDS Integers, Sequences, FiniteSets

CONSTANTS
  Messages,    \* records of the chat database
  LanguageOf,  \* what extract_preferences finds in a message, or one of the next three
  Languages,
  NoLanguage,  \* a message of the user without a preference
  NotUser,     \* a message of the assistant, or one that is no JSON
  NotObject,   \* a message that is JSON, but no object: 123, [] or null
  NoEvents, NoKey, Plans,  \* see PreferenceVersions
  MaxRows,     \* bound on the length of the chat database
  MaxResets,   \* bound on how often it is cleared or replaced
  MaxFaults,   \* bound on lost calls and failed saves of the bridge
  MaxCrashes   \* bound on crashes of the two processes

ASSUME MessageAssumption ==
  /\ IsFiniteSet(Messages)
  /\ LanguageOf \in [Messages -> Languages \cup {NoLanguage, NotUser, NotObject}]
  /\ {NoLanguage, NotUser, NotObject} \cap Languages = {}

ASSUME BridgeAssumption ==
  /\ MaxRows \in Nat \ {0}
  /\ MaxResets \in Nat
  /\ {NoEvents, NoKey} \cap ((0..MaxResets) \X (1..MaxRows)) = {}

VARIABLES
  db,        \* RECORD, by rowid
  identity,  \* st_dev:st_ino of the database file
  epoch,     \* history: how often the content was cleared or replaced
  pc,        \* where the loop of the bridge is
  cursor,    \* last_rowid, generation and db_identity in memory
  saved,     \* bridge.cursor
  batch,     \* the user rows that were read and not yet sent
  high,      \* high_watermark
  reached,   \* new_last_rowid
  passedBy,  \* history: messages the cursor started behind
  overgrown, \* history: messages up to the cursor when a reset was overlooked
  told,      \* history: messages that reached the service
  versions, pointer, versionReceipts, answer, answered,  \* PreferenceVersions
  fetched,   \* the context that was just fetched, or nothing
  last,      \* last in the loop of the context sync
  sidecar,   \* active-context.txt
  faults, crashes

dbVars == <<db, identity, epoch>>
historyVars == <<passedBy, overgrown>>
bridgeVars == <<pc, cursor, saved, batch, high, reached, historyVars>>
serviceVars == <<versions, pointer, versionReceipts, answer, answered>>
syncVars == <<fetched, last, sidecar>>
vars == <<dbVars, bridgeVars, told, serviceVars, syncVars, faults, crashes>>

RowKeys == (0..MaxResets) \X (1..MaxRows)

Service == INSTANCE PreferenceVersions WITH
  Values <- Languages, SentStatuses <- {"active"}, EvidenceEvents <- RowKeys,
  NoEvents <- NoEvents, RequestKeys <- RowKeys, NoKey <- NoKey,
  Plans <- Plans, MaxVersions <- Cardinality(Messages) + 2

-------------------------------------------------------------------------------
(* The chat database *)

Written == {db[r] : r \in DOMAIN db}

\* A message that was cleared before it was sent may be said once more.
Anew(M) ==
  /\ passedBy' = passedBy \ M
  /\ overgrown' = overgrown \ M
  /\ UNCHANGED <<pc, cursor, saved, batch, high, reached>>

Insert(m) ==
  /\ m \notin told
  /\ m \notin Written
  /\ Len(db) < MaxRows
  /\ db' = Append(db, m)
  /\ Anew({m})
  /\ UNCHANGED <<identity, epoch, told, serviceVars, syncVars, faults, crashes>>

\* RECORD is cleared in place, and rowids begin again at 1.
Clear ==
  /\ epoch < MaxResets
  /\ db # << >>
  /\ db' = << >>
  /\ epoch' = epoch + 1
  /\ UNCHANGED <<identity, bridgeVars, told, serviceVars, syncVars, faults, crashes>>

\* Another file takes the place of the database, perhaps with a history.
Replace(history) ==
  /\ epoch < MaxResets
  /\ db' = history
  /\ identity' = identity + 1
  /\ epoch' = epoch + 1
  /\ Anew({history[r] : r \in DOMAIN history})
  /\ UNCHANGED <<told, serviceVars, syncVars, faults, crashes>>

-------------------------------------------------------------------------------
(* The bridge *)

\* epoch and seen are history: the content the cursor was set in, and the one it
\* was last compared with.
NoCursor == [rowid |-> -1, generation |-> 0, identity |-> -1, epoch |-> -1, seen |-> -1]

\* A cursor at rowid r of the database as it is now.
At(r, generation) ==
  [rowid |-> r, generation |-> generation, identity |-> identity, epoch |-> epoch, seen |-> epoch]

Compared(c) == [c EXCEPT !.seen = epoch]

\* Mutant: a table that is shorter than the cursor is not noticed.
MutShowsReset(c) == c.identity # identity

\* What reconcile_cursor and refresh_cursor_for_db tell a reset by.
ShowsReset(c) == c.identity # identity \/ Len(db) < c.rowid

\* What cannot be told: the same file, grown back to the cursor.
Overgrown(c) ==
  IF c.seen # epoch /\ c.identity = identity /\ c.rowid <= Len(db)
  THEN {db[r] : r \in 1..c.rowid} ELSE {}

\* reconcile_cursor, at the start: behind the last row, or where it was.
StartsBehind == saved = NoCursor \/ ShowsReset(saved)

Reconciled ==
  IF saved = NoCursor THEN At(Len(db), 0)
  ELSE IF ShowsReset(saved) THEN At(Len(db), saved.generation + 1) ELSE Compared(saved)

\* main up to the loop: the first thing it does is to save the cursor.
Start ==
  /\ pc = "down"
  /\ cursor' = Reconciled
  /\ saved' = Reconciled
  /\ passedBy' = IF StartsBehind THEN passedBy \cup Written ELSE passedBy
  /\ overgrown' = overgrown \cup Overgrown(saved)
  /\ pc' = "refresh"
  /\ UNCHANGED <<dbVars, batch, high, reached, told, serviceVars, syncVars, faults, crashes>>

\* Mutant: the rows of a cleared database keep the generation.
MutRefreshed ==
  IF ~ShowsReset(cursor) THEN Compared(cursor)
  ELSE IF cursor.identity # identity THEN At(Len(db), cursor.generation + 1)
  ELSE At(0, cursor.generation)

\* refresh_cursor_for_db, in every round: behind the last row of another file,
\* before the first row of a table that was cleared.
Refreshed ==
  IF ~ShowsReset(cursor) THEN Compared(cursor)
  ELSE IF cursor.identity # identity THEN At(Len(db), cursor.generation + 1)
  ELSE At(0, cursor.generation + 1)

Refresh ==
  /\ pc = "refresh"
  /\ cursor' = Refreshed
  /\ passedBy' = IF cursor.identity # identity THEN passedBy \cup Written ELSE passedBy
  /\ overgrown' = overgrown \cup Overgrown(cursor)
  /\ pc' = IF ShowsReset(cursor) THEN "reset" ELSE "read"
  /\ UNCHANGED <<dbVars, saved, batch, high, reached, told, serviceVars, syncVars, faults, crashes>>

\* The new cursor is saved; a save that fails leaves it in memory.
SaveReset ==
  /\ pc = "reset"
  /\ \/ saved' = cursor /\ UNCHANGED faults
     \/ faults < MaxFaults /\ faults' = faults + 1 /\ UNCHANGED saved
  /\ pc' = "refresh"
  /\ UNCHANGED <<dbVars, cursor, batch, high, reached, historyVars, told, serviceVars, syncVars,
                 crashes>>

\* The rows of the user behind rowid r.
UserRows(r) ==
  {[rowid |-> i, message |-> db[i]] :
     i \in {j \in DOMAIN db : j > r /\ LanguageOf[db[j]] # NotUser}}

\* A row behind the cursor that obj.get raises on.
Blocked ==
  cursor # NoCursor /\ \E r \in DOMAIN db : r > cursor.rowid /\ LanguageOf[db[r]] = NotObject

\* read_new_user_rows; it raises when the file is another one, or on a message
\* that is no object, and the loop begins another round.
Read ==
  /\ pc = "read"
  /\ IF identity # cursor.identity \/ Blocked
     THEN pc' = "refresh" /\ UNCHANGED <<batch, high, reached>>
     ELSE /\ batch' = UserRows(cursor.rowid)
          /\ high' = IF Len(db) > cursor.rowid THEN Len(db) ELSE cursor.rowid
          /\ reached' = cursor.rowid
          /\ pc' = "send"
  /\ UNCHANGED <<dbVars, cursor, saved, historyVars, told, serviceVars, syncVars, faults, crashes>>

\* The identifiers of write_preference.
KeyOf(row) == <<cursor.generation, row.rowid>>

RequestOf(row) ==
  Service!WriteRequest("create", LanguageOf[row.message], "active", KeyOf(row), KeyOf(row))

\* The rest of the batch has to wait.
RetryLater ==
  /\ pc' = "save"
  /\ UNCHANGED <<dbVars, cursor, saved, batch, high, reached, historyVars, syncVars, crashes>>

\* write_preference raises: the round ends before the cursor is saved, although
\* rows of it were acknowledged.
RoundEnds ==
  /\ pc' = "refresh"
  /\ batch' = {}
  /\ UNCHANGED <<dbVars, cursor, saved, high, reached, historyVars, syncVars, crashes>>

Acknowledged(row) ==
  /\ batch' = batch \ {row}
  /\ reached' = row.rowid
  /\ UNCHANGED <<dbVars, pc, cursor, saved, high, historyVars, syncVars, crashes>>

\* process_rows takes the rows by rowid.
IsNext(row) == row \in batch /\ \A other \in batch : row.rowid <= other.rowid

\* Most rows have no preference.
PassRow ==
  /\ pc = "send"
  /\ \E row \in batch :
       /\ IsNext(row)
       /\ LanguageOf[row.message] = NoLanguage
       /\ Acknowledged(row)
  /\ UNCHANGED <<told, serviceVars, faults>>

Sends(row) == pc = "send" /\ IsNext(row) /\ LanguageOf[row.message] \in Languages

\* write_preference: the service takes the request and the bridge reads ok.
Stored ==
  \E row \in batch :
    /\ Sends(row)
    /\ Service!AppendVersion(RequestOf(row))
    /\ told' = told \cup {row.message}
    /\ Acknowledged(row)
    /\ UNCHANGED faults

\* The answer comes too late, not at all or is none, or the request never arrives.
CallFails ==
  \E row \in batch :
    /\ Sends(row)
    /\ faults < MaxFaults
    /\ faults' = faults + 1
    /\ \/ /\ Service!AppendVersion(RequestOf(row))
          /\ told' = told \cup {row.message}
       \/ UNCHANGED <<serviceVars, told>>
    /\ RetryLater \/ RoundEnds

Refused(q) ==
  \/ \E r \in Service!KeyReceipts(q) : r.request # q.request
  \/ /\ Service!KeyReceipts(q) = {}
     /\ \E r \in Service!EvidenceReceipts(q) : r.value # q.value \/ r.status # q.status

\* The service refuses the key, which stands for another request.
CallRefused ==
  \E row \in batch :
    /\ Sends(row)
    /\ Refused(RequestOf(row))
    /\ RetryLater
    /\ UNCHANGED <<serviceVars, told, faults>>

\* All rows are done: the cursor may pass the rows that are nobody's.
BatchDone ==
  /\ pc = "send"
  /\ batch = {}
  /\ reached' = IF high > reached THEN high ELSE reached
  /\ pc' = "save"
  /\ UNCHANGED <<dbVars, cursor, saved, batch, high, historyVars, told, serviceVars, syncVars,
                 faults, crashes>>

\* save_cursor by a temporary file and os.replace; a save that fails keeps the
\* old cursor, in the file and in memory.
Save ==
  /\ pc = "save"
  /\ \/ /\ cursor' = [cursor EXCEPT !.rowid = reached]
        /\ saved' = IF reached = cursor.rowid THEN saved ELSE cursor'
        /\ UNCHANGED faults
     \/ /\ reached # cursor.rowid
        /\ faults < MaxFaults
        /\ faults' = faults + 1
        /\ UNCHANGED <<cursor, saved>>
  /\ pc' = "refresh"
  /\ batch' = {}
  /\ UNCHANGED <<dbVars, high, reached, historyVars, told, serviceVars, syncVars, crashes>>

\* Restart=on-failure: only the file is left.
BridgeCrash ==
  /\ crashes < MaxCrashes
  /\ pc # "down"
  /\ pc' = "down"
  /\ crashes' = crashes + 1
  /\ cursor' = NoCursor
  /\ batch' = {}
  /\ high' = 0
  /\ reached' = 0
  /\ UNCHANGED <<dbVars, saved, historyVars, told, serviceVars, syncVars, faults>>

-------------------------------------------------------------------------------
(* The user's own changes, by the pages of the memory client *)

Edit(v) ==
  /\ pointer < Cardinality(Messages) + 2
  /\ pointer # 0
  /\ versions[pointer].value # v
  /\ ~ \E r \in versionReceipts : r.key = NoKey
  /\ Service!Update(v, "active", NoEvents, NoKey)
  /\ UNCHANGED <<dbVars, bridgeVars, told, syncVars, faults, crashes>>

Forget ==
  /\ \E p \in Plans : Service!ForgetPreference(p)
  /\ UNCHANGED <<dbVars, bridgeVars, told, syncVars, faults, crashes>>

-------------------------------------------------------------------------------
(* The context sync *)

\* fetch_language: the active current version, if it names a known language.
Context ==
  IF pointer # 0 /\ versions[pointer].status = "active" THEN versions[pointer].value ELSE "empty"

Fetch ==
  /\ fetched = "nothing"
  /\ fetched' = Context
  /\ UNCHANGED <<dbVars, bridgeVars, told, serviceVars, last, sidecar, faults, crashes>>

WriteContext ==
  /\ fetched # "nothing"
  /\ sidecar' = IF fetched # last THEN fetched ELSE sidecar
  /\ last' = fetched
  /\ fetched' = "nothing"
  /\ UNCHANGED <<dbVars, bridgeVars, told, serviceVars, faults, crashes>>

\* No answer: a stale context must not survive.
FetchFails ==
  /\ fetched = "nothing"
  /\ faults < MaxFaults
  /\ faults' = faults + 1
  /\ sidecar' = IF last = "empty" THEN sidecar ELSE "empty"
  /\ last' = "empty"
  /\ UNCHANGED <<dbVars, bridgeVars, told, serviceVars, fetched, crashes>>

\* The process dies and is started again; the file stays.
SyncCrash ==
  /\ crashes < MaxCrashes
  /\ crashes' = crashes + 1
  /\ fetched' = "nothing"
  /\ last' = "unknown"
  /\ UNCHANGED <<dbVars, bridgeVars, told, serviceVars, sidecar, faults>>

-------------------------------------------------------------------------------
Init ==
  /\ db = << >> /\ identity = 1 /\ epoch = 0
  /\ pc = "down"
  /\ cursor = NoCursor /\ saved = NoCursor
  /\ batch = {} /\ high = 0 /\ reached = 0
  /\ passedBy = {} /\ overgrown = {} /\ told = {}
  /\ Service!ChainInit
  /\ fetched = "nothing" /\ last = "unknown" /\ sidecar = "empty"
  /\ faults = 0 /\ crashes = 0

Bridge ==
  \/ Start \/ Refresh \/ SaveReset \/ Read
  \/ PassRow \/ Stored \/ CallFails \/ CallRefused \/ BatchDone \/ Save

Sync == Fetch \/ WriteContext \/ FetchFails

\* The database that takes the place of another one is empty, or has a history
\* with a preference nobody has told the service.
Next ==
  \/ \E m \in Messages : Insert(m)
  \/ Clear
  \/ Replace(<< >>)
  \/ \E m \in {n \in Messages \ told : LanguageOf[n] \in Languages} : Replace(<<m>>)
  \/ Bridge \/ BridgeCrash
  \/ \E v \in Languages : Edit(v)
  \/ Forget
  \/ Sync \/ SyncCrash

Spec == Init /\ [][Next]_vars

\* The bridge is started again after a crash, and its loop runs for ever.
FairSpec == Spec /\ WF_vars(Start \/ Refresh \/ SaveReset \/ Read \/ PassRow \/ Stored
                              \/ CallRefused \/ BatchDone \/ Save)

-------------------------------------------------------------------------------
(* Properties *)

\* The bridge has looked at the database since it was last reset.
InStep(c) == c.seen = epoch

\* A reset was taken for no reset, because the table had grown back.
Overlooked(c) == c.epoch # c.seen

\* Once the bridge has looked at the database after a reset, no cursor of it, in
\* memory or in the file, is at or past a preference the service does not have,
\* whatever call was lost, whatever save failed and wherever the process died.
\* What is lost all the same is, and is no more than: the rows that were there when
\* a cursor was set behind the last row, by a first start, another file or a
\* start after a reset (passedBy); and the rows up to the cursor when a look
\* found the table grown back to it (overgrown).  Rows that come later are kept,
\* also after a reset that was overlooked.  Nor does the context sync believe to
\* have written what the file does not hold, so that a context that changed, or came
\* back after a failure, is written, and a preference that was removed leaves the file.
AckedIsStored ==
  /\ \A c \in {cursor, saved} : c # NoCursor /\ InStep(c) =>
       \A r \in DOMAIN db : r <= c.rowid =>
         db[r] \in passedBy \cup overgrown \cup told \/ LanguageOf[db[r]] \notin Languages
  /\ last # "unknown" => sidecar = last

\* A preference in the database is in the end sent to the service, unless it is
\* cleared first, is one of those the cursor has jumped over or overgrown, or
\* there is a message that is no object, which blocks it for ever.  This is so if
\* no reset stays overlooked: the rows behind one keep the generation, and a key
\* that stood for another message before is refused for ever as well.
EventuallySent ==
  <>[]~Overlooked(cursor) =>
    \A m \in {n \in Messages : LanguageOf[n] \in Languages} :
      m \in Written ~> m \in told \cup passedBy \cup overgrown \/ m \notin Written \/ Blocked

-------------------------------------------------------------------------------
(* The inductive invariant *)

Cursor == [rowid : Nat, generation : Nat, identity : Nat, epoch : Nat, seen : Nat]
Row == [rowid : Nat, message : Messages]

TypeOK ==
  /\ db \in Seq(Messages) /\ Len(db) <= MaxRows
  /\ identity \in Nat
  /\ epoch \in 0..MaxResets
  /\ pc \in {"down", "refresh", "reset", "read", "send", "save"}
  /\ cursor \in Cursor \cup {NoCursor}
  /\ saved \in Cursor \cup {NoCursor}
  /\ batch \in SUBSET Row
  /\ high \in Nat
  /\ reached \in Nat
  /\ passedBy \in SUBSET Messages
  /\ overgrown \in SUBSET Messages
  /\ told \in SUBSET Messages

\* The rows up to n are there, and those with a preference are accounted for.
Acked(n) ==
  /\ n <= Len(db)
  /\ \A r \in 1..n :
       db[r] \in passedBy \cup overgrown \cup told \/ LanguageOf[db[r]] \notin Languages

\* A cursor has its generation for each time it fell out of step, and a cursor
\* in step names the file there is and has only accounted rows behind it.
CursorStands(c) ==
  c # NoCursor =>
    /\ c.generation <= c.epoch
    /\ c.epoch <= c.seen
    /\ c.seen <= epoch
    /\ InStep(c) => c.identity = identity /\ Acked(c.rowid)

\* Between reading and saving, while the database has not been reset: the batch
\* holds every preference between the row reached and the last row there was,
\* and nothing but rows as they are.
BatchStands ==
  pc = "send" /\ InStep(cursor) =>
    /\ high <= Len(db)
    /\ \A row \in batch : row.rowid \in (reached + 1)..high /\ row.message = db[row.rowid]
    /\ \A r \in (reached + 1)..high :
         LanguageOf[db[r]] \in Languages => [rowid |-> r, message |-> db[r]] \in batch

BridgeInv ==
  /\ CursorStands(cursor)
  /\ CursorStands(saved)
  /\ cursor = NoCursor <=> pc = "down"
  /\ \A row \in batch : row.rowid \in 1..MaxRows
  /\ pc \in {"send", "save"} /\ InStep(cursor) => Acked(reached)
  /\ BatchStands
  /\ last # "unknown" => sidecar = last

IInv == TypeOK /\ BridgeInv

===============================================================================
