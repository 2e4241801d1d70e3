--------------------------- MODULE PreferenceVersions ---------------------------
(***************************************************************************)
(* The version chain of one preference: preference.create, .update,        *)
(* .rollback and the removal by a forget plan.                             *)
(*                                                                         *)
(* A chain is addressed by (user, key, scope), and no operation reads or   *)
(* writes two of them, so the module describes one.  Values are never      *)
(* overwritten: every change appends a version and moves the pointer of    *)
(* memory_items.  Every accepted request leaves an immutable receipt, by   *)
(* which a repeated request (same idempotency key) and a repeated          *)
(* observation (same evidence) are recognised.  A request is one           *)
(* transaction under the write lock; one that is refused rolls back.       *)
(***************************************************************************)
EXTENDS Integers, Sequences, FiniteSets

CONSTANTS
  Values,          \* preference_value
  SentStatuses,    \* memory_status of a write, given or derived from its flags
  EvidenceEvents,  \* evidence_event_ids, when the caller has any
  NoEvents,        \* a write without evidence events
  RequestKeys,     \* idempotency_key, chosen by the caller
  NoKey,           \* a request without idempotency_key
  Plans,           \* forget plans whose target is this preference
  MaxVersions      \* bound on the length of the chain

ASSUME RequestAssumption ==
  /\ SentStatuses \subseteq {"active", "superseded", "deprecated", "expired",
                             "removed", "candidate"}
  /\ NoEvents \notin EvidenceEvents
  /\ NoKey \notin RequestKeys
  /\ MaxVersions \in Nat \ {0}

VARIABLES
  versions,         \* memory_versions of the item, by version number
  pointer,          \* memory_items.current_version_id; 0 is NULL
  versionReceipts,  \* memory_version_receipts of the item
  answer,           \* the last answer: its kind, the value asked for, the version
  answered          \* answered[x]: the requests made with key x, and their versions

chainVars == <<versions, pointer, versionReceipts, answer, answered>>

-------------------------------------------------------------------------------
(* Rows and requests *)

Statuses == {"active", "superseded", "deprecated", "expired", "removed", "candidate"}

Version == [value : Values, status : Statuses, previous : Nat, restores : Nat,
            current : BOOLEAN]

\* _evidence_fingerprint: the events when there are any, else the value.  A
\* rollback has a fresh identifier, of which the place in the chain stands
\* for the uuid4; a removal has its plan.
EvidenceOf(v, e) == IF e = NoEvents THEN <<"value", v>> ELSE <<"events", e>>

\* preference.create and preference.update: the status is part of the request
\* fingerprint but not of the evidence.
WriteRequest(op, v, s, e, x) ==
  [kind |-> "write", value |-> v, status |-> s, events |-> e,
   evidence |-> EvidenceOf(v, e), key |-> x, request |-> <<op, v, s>>, restores |-> 0]

\* preference.rollback: the value of version t, active again.
RollbackRequest(t, x) ==
  [kind |-> "rollback", value |-> versions[t].value, status |-> "active",
   events |-> NoEvents, evidence |-> <<"rollback", t, Len(versions)>>,
   key |-> x, request |-> <<"rollback", t>>, restores |-> t]

\* _current_version_for_item: the pointer and the flag must agree; 0 is none.
CurrentVersion == IF pointer # 0 /\ versions[pointer].current THEN pointer ELSE 0

\* soft_delete_preference_item
RemovalRequest(p) ==
  [kind |-> "write", value |-> versions[CurrentVersion].value, status |-> "removed",
   events |-> NoEvents, evidence |-> <<"forget", p>>, key |-> NoKey,
   request |-> <<"forget", p>>, restores |-> 0]

\* _return_existing_idempotent
KeyReceipts(q) == {r \in versionReceipts : q.key # NoKey /\ r.key = q.key}

\* Mutant: evidence is not looked up.
MutEvidenceReceipts(q) == {}

\* _return_existing_evidence_or_fail; a rollback does not ask.
EvidenceReceipts(q) == {r \in versionReceipts : q.kind # "rollback" /\ r.evidence = q.evidence}

-------------------------------------------------------------------------------
(* The constraints of the schema *)

\* Trigger memory_versions_bi_chain
ChainAccepts(previous, n, restores) ==
  /\ previous = 0 => n = 1
  /\ previous # 0 => previous = n - 1
  /\ restores # 0 => restores \in DOMAIN versions

\* Trigger memory_version_receipts_bi_consistency and the two unique indexes,
\* for a receipt of version n, whose row then is row.
ReceiptAccepted(q, row) ==
  /\ row.value = q.value
  /\ row.status = q.status
  /\ \A r \in versionReceipts : /\ r.evidence # q.evidence
                                /\ q.key # NoKey => r.key # q.key

-------------------------------------------------------------------------------
(* _append_preference_version *)

\* Mutant: a receipt of a new version points to the one it replaces.
MutReceipt(kind, n, q) ==
  [kind |-> kind, version |-> IF kind = "no_op" THEN n ELSE CurrentVersion, value |-> q.value,
   status |-> q.status, evidence |-> q.evidence, key |-> q.key, request |-> q.request]

\* _record_operation_receipt
Receipt(kind, n, q) ==
  [kind |-> kind, version |-> n, value |-> q.value, status |-> q.status,
   evidence |-> q.evidence, key |-> q.key, request |-> q.request]

Answers(kind, n, q) ==
  /\ answer' = [kind |-> kind, value |-> q.value, version |-> n]
  /\ answered' = IF q.key = NoKey THEN answered
                 ELSE [answered EXCEPT ![q.key] =
                         @ \cup {[request |-> q.request, events |-> q.events, version |-> n]}]

\* The same key: the receipt answers, when it is the same request.
ReplayKey(q) ==
  \E r \in KeyReceipts(q) :
    /\ r.request = q.request
    /\ Answers("replayed", r.version, q)
    /\ UNCHANGED <<versions, pointer, versionReceipts>>

\* The same evidence for the same value and status: the version it made then.
ReplayEvidence(q) ==
  /\ KeyReceipts(q) = {}
  /\ \E r \in EvidenceReceipts(q) :
       /\ r.value = q.value
       /\ r.status = q.status
       /\ Answers("observed", r.version, q)
  /\ UNCHANGED <<versions, pointer, versionReceipts>>

IsNew(q) == KeyReceipts(q) = {} /\ EvidenceReceipts(q) = {}

IsNoOp(q) ==
  /\ q.kind # "rollback"
  /\ CurrentVersion # 0
  /\ versions[CurrentVersion].value = q.value
  /\ versions[CurrentVersion].status = q.status

\* What the current version has already: a receipt, and no version.
NoOp(q) ==
  /\ IsNew(q)
  /\ IsNoOp(q)
  /\ ReceiptAccepted(q, versions[CurrentVersion])
  /\ versionReceipts' = versionReceipts \cup {Receipt("no_op", CurrentVersion, q)}
  /\ Answers("no_op", CurrentVersion, q)
  /\ UNCHANGED <<versions, pointer>>

NewVersionRow(q) == [value |-> q.value, status |-> q.status, previous |-> CurrentVersion,
              restores |-> q.restores, current |-> TRUE]

\* Mutant: the replaced version keeps its flag.
MutSuperseded(n) == [versions[n] EXCEPT !.status = "superseded"]

\* Mutant: the value of the replaced version is overwritten.
MutOverwritten(n) == [versions[n] EXCEPT !.current = FALSE, !.status = "superseded",
                                         !.value = versions[1].value]

\* The version that is replaced: history from now on.
Superseded(n) == [versions[n] EXCEPT !.current = FALSE, !.status = "superseded"]

\* The new version is inserted, the old one superseded; the triggers activate
\* the successor and move the pointer.
NewVersion(q) ==
  LET n == Len(versions) + 1 IN
  /\ IsNew(q)
  /\ ~IsNoOp(q)
  /\ n <= MaxVersions
  /\ ChainAccepts(CurrentVersion, n, q.restores)
  /\ ReceiptAccepted(q, NewVersionRow(q))
  /\ versions' = Append([m \in DOMAIN versions |->
                           IF m = CurrentVersion THEN Superseded(m) ELSE versions[m]],
                        NewVersionRow(q))
  /\ pointer' = n
  /\ versionReceipts' = versionReceipts \cup {Receipt(q.kind, n, q)}
  /\ Answers("created", n, q)

\* Anything else (a key or evidence that stands for another request) is
\* refused, and nothing changes.
AppendVersion(q) ==
  \/ ReplayKey(q)
  \/ ReplayEvidence(q)
  \/ NoOp(q)
  \/ NewVersion(q)

-------------------------------------------------------------------------------
(* The handlers *)

\* preference.create: the chain may exist already.
Create(v, s, e, x) == AppendVersion(WriteRequest("create", v, s, e, x))

\* preference.update: the chain has to exist.
Update(v, s, e, x) ==
  /\ CurrentVersion # 0
  /\ AppendVersion(WriteRequest("update", v, s, e, x))

\* rollback_preference_version: only to an older version of the chain.
MayRestore(t) ==
  /\ CurrentVersion # 0
  /\ t < CurrentVersion

\* preference.rollback
Rollback(t, x) ==
  /\ t \in DOMAIN versions
  /\ MayRestore(t)
  /\ AppendVersion(RollbackRequest(t, x))

\* forget.execute with this preference among the targets; a plan is carried
\* out once, and what is removed already stays as it is.
ForgetPreference(p) ==
  /\ CurrentVersion # 0
  /\ versions[CurrentVersion].status # "removed"
  /\ \A r \in versionReceipts : r.evidence # <<"forget", p>>
  /\ AppendVersion(RemovalRequest(p))

-------------------------------------------------------------------------------
NoAnswer == [kind |-> "none", value |-> "none", version |-> 0]

ChainInit ==
  /\ versions = << >>
  /\ pointer = 0
  /\ versionReceipts = {}
  /\ answer = NoAnswer
  /\ answered = [x \in RequestKeys |-> {}]

ChainNext ==
  \/ \E v \in Values, s \in SentStatuses, e \in EvidenceEvents \cup {NoEvents},
        x \in RequestKeys \cup {NoKey} :
       \/ Create(v, s, e, x)
       \/ Update(v, s, e, x)
  \/ \E t \in 1..MaxVersions, x \in RequestKeys \cup {NoKey} : Rollback(t, x)
  \/ \E p \in Plans : ForgetPreference(p)

ChainSpec == ChainInit /\ [][ChainNext]_chainVars

-------------------------------------------------------------------------------
(* Properties *)

ReceiptKinds == {"write", "rollback", "no_op"}

\* Types of the tables and of the answers.
ChainTypeOK ==
  /\ versions \in Seq(Version)
  /\ pointer \in 0..Len(versions)
  /\ \A r \in versionReceipts :
                         /\ r.kind \in ReceiptKinds
                         /\ r.version \in DOMAIN versions
                         /\ r.value \in Values
                         /\ r.status \in Statuses
                         /\ r.key \in RequestKeys \cup {NoKey}
  /\ answer.version \in 0..Len(versions)
  /\ answered = [x \in RequestKeys |-> answered[x]]
  /\ \A x \in RequestKeys : \A u \in answered[x] : u.version \in DOMAIN versions

\* Whatever was written, restored, repeated and forgotten: every version but
\* the first replaces the one before it, the newest is the only current one
\* and the one the item points to, and all others are marked superseded.
OneChain ==
  /\ pointer = Len(versions)
  /\ \A n \in DOMAIN versions :
       /\ versions[n].previous = n - 1
       /\ versions[n].restores < n
       /\ versions[n].current <=> n = Len(versions)
       /\ n < Len(versions) => versions[n].status = "superseded"

\* A version, once written, keeps its value and its links; it changes at most
\* once, from current to superseded, and never disappears: a rollback appends
\* and does not rewrite.
HistoryKept ==
  [][\A n \in DOMAIN versions :
       /\ n \in DOMAIN versions'
       /\ versions'[n].value = versions[n].value
       /\ versions'[n].previous = versions[n].previous
       /\ versions'[n].restores = versions[n].restores
       /\ versions'[n] # versions[n] => /\ versions[n].current
                                        /\ ~versions'[n].current
                                        /\ versions'[n].status = "superseded"]_chainVars

\* What a caller is told holds.  "created" and "no_op" tell of the present: the
\* version shown is the current one and has the value that was asked for.  And
\* however late a request is repeated, whatever was written in between, if its
\* key was used for nothing else it is answered with the version of the first
\* time.
EveryAnswerHolds ==
  /\ answer.kind \in {"created", "no_op"} =>
       /\ answer.version = CurrentVersion
       /\ versions[answer.version].value = answer.value
  /\ \A x \in RequestKeys :
       LET U == answered[x] IN
       (\A u, w \in U : u.request = w.request /\ u.events = w.events) =>
         \A u, w \in U : u.version = w.version

\* The checks of the code come before the constraints of the schema: no
\* request that passed them is aborted by a trigger or a unique index.
ConstraintsNeverBite ==
  \A v \in Values, s \in SentStatuses, e \in EvidenceEvents \cup {NoEvents},
     x \in RequestKeys \cup {NoKey} :
  \A q \in {WriteRequest("create", v, s, e, x)}
             \cup {RollbackRequest(t, x) : t \in {m \in DOMAIN versions : MayRestore(m)}} :
    IsNew(q) =>
      IF IsNoOp(q) THEN ReceiptAccepted(q, versions[CurrentVersion])
      ELSE /\ ChainAccepts(CurrentVersion, Len(versions) + 1, q.restores)
           /\ ReceiptAccepted(q, NewVersionRow(q))

-------------------------------------------------------------------------------
(* The inductive invariant *)

\* One receipt per evidence, and one per key.
ReceiptsUnique ==
  \A r, o \in versionReceipts :
    \/ r.evidence = o.evidence
    \/ r.key = o.key /\ r.key # NoKey
    => r = o

\* What the evidence of a receipt can be: that of a rollback names the length
\* the chain had, and the chain has grown since.
EvidenceIsOld ==
  \A r \in versionReceipts :
    \/ \E v \in Values, e \in EvidenceEvents \cup {NoEvents} : r.evidence = EvidenceOf(v, e)
    \/ \E p \in Plans : r.evidence = <<"forget", p>>
    \/ \E t \in DOMAIN versions, n \in 0..(Len(versions) - 1) : r.evidence = <<"rollback", t, n>>

\* The write that asked u, when u is a write.
Asked(u, v) == \E op \in {"create", "update"}, s \in SentStatuses : u.request = <<op, v, s>>

\* A receipt was left by a request with its key, which got its version; and
\* that of a write has the evidence of the request.
ReceiptsAreAnswered ==
  \A r \in versionReceipts : r.key # NoKey =>
    \E u \in answered[r.key] :
      /\ u.version = r.version
      /\ u.request = r.request
      /\ \A v \in Values : Asked(u, v) => r.evidence = EvidenceOf(v, u.events)

\* An answer was given by the receipt of its key, or by that of its evidence.
AnswersAreRecorded ==
  \A x \in RequestKeys : \A u \in answered[x] :
    \E r \in versionReceipts :
      /\ r.version = u.version
      /\ \/ r.key = x
         \/ \E v \in Values : Asked(u, v) /\ r.evidence = EvidenceOf(v, u.events)

\* The first part of EveryAnswerHolds.
AnswerIsCurrent ==
  answer.kind \in {"created", "no_op"} =>
    /\ answer.version = CurrentVersion
    /\ versions[answer.version].value = answer.value

ChainInv ==
  /\ ChainTypeOK
  /\ OneChain
  /\ ReceiptsUnique
  /\ EvidenceIsOld
  /\ ReceiptsAreAnswered
  /\ AnswersAreRecorded
  /\ AnswerIsCurrent

===============================================================================
