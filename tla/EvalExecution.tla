---------------------------- MODULE EvalExecution -----------------------------
(***************************************************************************)
(* The execution of the evaluation samples                                 *)
(* (evaluation/d13d_execution_adapter.py, driven as                        *)
(* scripts/tmp_d13d_formal_raw_runner.py drives it).  Two validated        *)
(* executions share one evidence root and keep a state root each, because  *)
(* a state root takes one binding only.  Every sample is dispatched        *)
(* through the program's own code and leaves a receipt on the disk and a   *)
(* record in memory; the records of all samples become the raw package.    *)
(* The process may die at any point: what it held in memory is gone and    *)
(* its roots exist, so nothing can continue its work.                      *)
(*                                                                         *)
(* The first part is the database an evaluation of forgetting works on, the*)
(* second what has to hold before an execution may run                     *)
(* (d13d_execution_adapter.py, d13d_forget_state_binding.py). A path is the*)
(* sequence of its parts; a directory exists when it, or anything below it,*)
(* is on the disk.                                                         *)
(***************************************************************************)
EXTENDS Naturals, Sequences, FiniteSets

LOCAL INSTANCE SequencesExt
LOCAL INSTANCE Functions
LOCAL INSTANCE TLC

CONSTANTS Worktree,  \* the repository: its path, head, ancestors of the head,
                     \* whether it is clean, and the content of the testset
          Official,  \* OFFICIAL_D13E_TESTSET_SHA256, as a content
          Artifact,  \* the binding artifact of the forget samples
          Sealed,    \* the sealed source database it names
          None

CONSTANTS Subject,       \* the user whose memories are forgotten
          ForeignUser    \* user_d13e_beta

ASSUME UsersDiffer == Subject # ForeignUser

-----------------------------------------------------------------------------
(* What an evaluation of forgetting sees of one restored database           *)
(* (evaluation/d13d_forget_fts_observer.py,                                 *)
(* d13d_forget_dual_channel_observer.py, d13d_forget_index_producer.py,     *)
(* service/d13d_forget_observability.py): the tables, an index of words and *)
(* an index of vectors that are built before the forgetting, cleaned by its *)
(* deletion consumer, searched, built anew and searched again.              *)

VARIABLE prepared \* what was prepared: the documents of the sealed database, and
                  \* whether the retrieval profile observes vectors too

Source == prepared.source
Dual == prepared.dual

Kinds(D) == {d.kind : d \in D}
KnowledgeOf(D) == {d \in D : d.kind = "knowledge"}

\* A runtime clone: the tables, the FTS file, the serving vector collection and
\* its ledger, the event of the execution.
Restored == [live |-> Source, fts |-> {}, vector |-> {}, ledger |-> {},
             event |-> "none", previewed |-> FALSE]

\* _active_docs: a document without text is not indexed.
ActiveDocs(rt) == {d \in rt.live : d.user = Subject /\ d.text}

\* _active_ids, for the kinds at stake.
ActiveIds(rt, user, kinds) == {d \in rt.live : d.user = user /\ d.kind \in kinds}

\* D13DForgetFtsObserver.initialize.
FtsInitialized(rt) == [rt EXCEPT !.fts = @ \cup ActiveDocs(rt)]

\* index_knowledge_docs: every document is put in the outbox and handed to a
\* worker that keeps the failure of its consumer to itself, so some of them may
\* be missing, or be in the collection and not in the ledger.
IndexOutcomes(rt) ==
    LET wanted == KnowledgeOf(ActiveDocs(rt)) IN
    UNION {{[rt EXCEPT !.vector = V, !.ledger = L] : L \in SUBSET V} : V \in SUBSET wanted}

\* What forget.preview resolves: one entry, everything, or the entries of a
\* session, a topic or a time window.
Selections(rt, mode) ==
    LET own == {d \in rt.live : d.user = Subject} IN
    (CASE mode = "single_item" -> {{d} : d \in KnowledgeOf(own)}
       [] mode = "full_reset"  -> {own}
       [] OTHER                -> SUBSET KnowledgeOf(own)) \ {{}}

\* Mutant: the probe asks the index of vectors only.
MutProbeHits(rt, docs, targets) == Dual => KnowledgeOf(targets) \subseteq rt.vector

\* probe_pre_delete: what cannot be found before cannot prove anything after.
ProbeHits(rt, docs, targets) ==
    /\ targets \subseteq docs \cap rt.fts
    /\ Dual => KnowledgeOf(targets) \subseteq rt.vector

\* capture_forget_execution_snapshot.
Snapshot(rt, targets) ==
    [targets |-> targets,
     own     |-> ActiveIds(rt, Subject, Kinds(targets)) \ targets,
     foreign |-> ActiveIds(rt, ForeignUser, Kinds(targets))]

SnapshotHolds(rt, snapshot) ==
    /\ snapshot.targets \subseteq ActiveIds(rt, Subject, Kinds(snapshot.targets))
    /\ Kinds(snapshot.foreign) = Kinds(snapshot.targets)

\* forget.execute (module ForgetPlan): the targets are gone from the tables and
\* the execution is announced.
AfterForgetting(rt, targets) == [rt EXCEPT !.live = @ \ targets, !.event = "pending"]

\* D13DForgetFtsDeletionProvider.delete takes the targets one by one and stops
\* at the first that fails.
FtsDeletions(rt, targets) == {[rt EXCEPT !.fts = @ \ D] : D \in SUBSET targets}

\* D13DForgetVectorDeletionProvider.delete, with SqliteVectorProvider.delete
\* behind it: what the ledger knows is deleted, in one call that may fail.
VectorDeletions(rt, targets) ==
    LET known == KnowledgeOf(targets) \cap rt.ledger IN
    {[rt EXCEPT !.vector = @ \ D, !.ledger = @ \ D] : D \in {{}, known}}

\* The counts of the vector deletion are those of the confirmed targets.
VectorIsDeleted(before, after, targets) ==
    KnowledgeOf(targets) \subseteq before.ledger \ after.ledger

\* realtime: what the searches for the targets still return.
RealtimeRanked(rt, targets) ==
    (rt.fts \cap targets) \cup (IF Dual THEN rt.vector ELSE {})

\* rebuild: both indexes are built anew from the tables and searched.
Rebuilt(rt) ==
    IF Dual THEN [rt EXCEPT !.vector = KnowledgeOf(ActiveDocs(rt)), !.ledger = KnowledgeOf(ActiveDocs(rt))]
    ELSE rt

RebuildRanked(rt, targets) ==
    (ActiveDocs(rt) \cap targets) \cup (IF Dual THEN Rebuilt(rt).vector ELSE {})

\* observe_forget_execution.
Observed(rt, snapshot, realtime, rebuild) ==
    LET kinds == Kinds(snapshot.targets)
        owned == ActiveIds(rt, Subject, kinds)
        foreign == ActiveIds(rt, ForeignUser, kinds)
    IN [missed_target_items |-> Cardinality(snapshot.targets \cap owned),
        wrongly_deleted_items |-> Cardinality(snapshot.own \ owned),
        cross_user_violation_count |-> Cardinality(snapshot.foreign \ foreign),
        residual_after_realtime_query |-> Cardinality(snapshot.targets \cap realtime),
        residual_after_full_rebuild |-> Cardinality(snapshot.targets \cap rebuild)]

-----------------------------------------------------------------------------
(* What has to hold before an execution may run                             *)

Metrics == {"preference", "conflict", "safety", "forget"}

SampleModes == {"single_item", "session", "topic", "time_window", "full_reset"}

\* _is_under.
IsUnder(path, root) == IsPrefix(root, path)

\* _paths_overlap.
PathsOverlap(left, right) == IsUnder(left, right) \/ IsUnder(right, left)

Exists(disk, path) == \E p \in disk : IsUnder(p, path)

\* _validate_isolation: neither root exists, and neither overlaps the other or
\* the repository.
IsolationHolds(disk, request) ==
    LET roots == {request.evidence, request.state} IN
    /\ \A p \in roots : ~Exists(disk, p) /\ ~PathsOverlap(request.repository, p)
    /\ ~PathsOverlap(request.evidence, request.state)

\* _validate_git_identity.
GitIdentityHolds(request) ==
    /\ Worktree.clean
    /\ request.commit = Worktree.head

\* validate_execution_request.  The digest pins the content of the testset, so
\* the shape of its records (_parse_jsonl, _validate_records) is a fact about
\* that one content.
RequestIsValid(disk, request) ==
    /\ request.repository = Worktree.path
    /\ IsolationHolds(disk, request)
    /\ request.testset = Official /\ Worktree.testset = Official
    /\ GitIdentityHolds(request)

\* _validate_v2 and _sha_and_sample_checks: the digest covers the content, each
\* forget sample has an entry with its mode, with controls and with what is
\* known of both retrievals.
ArtifactIsValid(samples, mode) ==
    /\ Artifact.version = "v2"
    /\ Artifact.digest = Artifact.content
    /\ Artifact.covered = samples
    /\ \A s \in samples :
          /\ Artifact.mode[s] = mode[s]
          /\ Artifact.foreign_controls[s] # {}
          /\ mode[s] # "full_reset" => Artifact.own_controls[s] # {}

\* _verify_sealed_source.
SourceIsSealed ==
    /\ ~Sealed.symlink
    /\ Sealed.digest = Artifact.source
    /\ Sealed.schema = Artifact.schema
    /\ Sealed.intact

\* The checks of prepare_forget_runtime_bindings ahead of the clones.
ForgetIsPrepared(samples, mode) ==
    /\ ArtifactIsValid(samples, mode)
    /\ Artifact.policy = "descendant-and-contract-compatible"
    /\ {Artifact.prepared_at, Artifact.minimum} \subseteq Worktree.ancestors
    /\ SourceIsSealed

-------------------------------------------------------------------------------
(* Execution *)

CONSTANTS Requests,   \* what the executions are asked with
          Samples,    \* the samples of the testset
          Metric,     \* [Samples -> Metrics]
          Mode,       \* the forget mode of a forget sample
          Fields,     \* D13E_RAW_RESULT_SCHEMA_V1: [Metrics -> required, allowed]
          Candidates, \* the sets of candidates the extraction may find in a sample
          Resolution, \* what the conflict policy decides of a sample
          Traces,     \* what ingesting an event may leave behind
          Asks,       \* what a safety sample is about: "event", "read" or "counters"
          Preparations, \* [source, dual]: what may have been prepared
          MaxDispatch \* bound on the dispatches

ForgetSamples == {s \in Samples : Metric[s] = "forget"}

ASSUME SamplesAssumption ==
    /\ Metric \in [Samples -> Metrics]
    /\ Mode \in [ForgetSamples -> SampleModes]
    /\ MaxDispatch \in Nat

VARIABLES disk,       \* the directories that exist
          executions, \* the requests that were validated, in memory
          bindings,   \* the runtime binding of an execution, in memory
          job,        \* the dispatch that is under way
          receipts,   \* <evidence>/dispatch/<sample>.json
          records,    \* what dispatches returned, in memory
          raw,        \* <evidence>/raw, once it has that name
          dispatches  \* how many dispatches were begun

executionVars == <<prepared, disk, executions, bindings, job, receipts, records, raw, dispatches>>

NoBinding == [kind |-> "none"]
Idle == [step |-> "idle"]

ExecutionInit ==
    /\ prepared \in Preparations
    /\ disk = {Worktree.path}
    /\ executions = {}
    /\ bindings = [q \in Requests |-> NoBinding]
    /\ job = Idle
    /\ receipts = [s \in {} |-> None]
    /\ records = {}
    /\ raw = None
    /\ dispatches = 0

\* validate_execution_request creates nothing.
Validate(q) ==
    /\ q \notin executions
    /\ RequestIsValid(disk, q)
    /\ executions' = executions \cup {q}
    /\ UNCHANGED <<disk, bindings, job, receipts, records, raw, dispatches>>

-----------------------------------------------------------------------------
(* Bindings: the runtime root of an execution is created once.             *)

RuntimeRoot(q) == Append(q.state, "runtime")

Bind(q, binding) ==
    /\ q \in executions /\ job = Idle
    /\ ~Exists(disk, RuntimeRoot(q))
    /\ disk' = disk \cup {RuntimeRoot(q)}
    /\ bindings' = [bindings EXCEPT ![q] = binding]
    /\ UNCHANGED <<executions, job, receipts, records, raw, dispatches>>

\* build_runtime_binding; whether the caller stores a memory of the foreign
\* user, without which the safety samples cannot be observed.
BuildSafety(q) ==
    \E control \in BOOLEAN :
        Bind(q, [kind |-> "safety", control |-> control, ingested |-> {}])

\* prepare_forget_runtime_bindings: a clone of the sealed source per sample.
PrepareForget(q) ==
    /\ ForgetIsPrepared(ForgetSamples, Mode)
    /\ Bind(q, [kind |-> "forget", runtimes |-> [s \in ForgetSamples |-> Restored]])

-----------------------------------------------------------------------------
(* Receipts and records.                                                   *)

\* _validate_actual: a whitelist of fields, no counter below zero.
ActualIsValid(s, actual) ==
    /\ Fields[Metric[s]].required \subseteq DOMAIN actual
    /\ DOMAIN actual \subseteq Fields[Metric[s]].allowed

\* runtime_scope: the id of a binding names the commit and its database, and
\* not the execution it is of.
Scope(q, s) == IF Metric[s] \in {"preference", "conflict"} THEN <<"stateless", Metric[s]>>
               ELSE <<q.commit, bindings[q].kind>>

Record(q, s, actual) == [sample |-> s, actual |-> actual, scope |-> Scope(q, s)]

\* _write_execution_receipt: exclusive create.
WriteReceipt(s, receipt) ==
    /\ s \notin DOMAIN receipts
    /\ receipts' = [t \in DOMAIN receipts \cup {s} |->
                      IF t = s THEN receipt ELSE receipts[t]]

\* The receipt is written first; the record follows when its fields are those
\* of the schema.
Concludes(q, s, actual, evidence) ==
    /\ WriteReceipt(s, [record |-> Record(q, s, actual), commit |-> q.commit,
                        utc |-> dispatches, evidence |-> evidence])
    /\ disk' = disk \cup {Append(q.evidence, "dispatch")}
    /\ records' = IF ActualIsValid(s, actual) THEN records \cup {Record(q, s, actual)}
                  ELSE records
    /\ job' = Idle

\* _preference_actual: more than one candidate cannot be projected.
PreferenceActual(candidates) ==
    IF candidates = {} THEN [record_count |-> 0, should_persist |-> FALSE]
    ELSE (CHOOSE c \in candidates : TRUE) @@ ("record_count" :> 1)

StatelessActuals(s) ==
    IF Metric[s] = "conflict" THEN {Resolution[s]}
    ELSE {PreferenceActual(c) : c \in {d \in Candidates[s] : Cardinality(d) <= 1}}

Count(p) == IF p THEN 1 ELSE 0

\* observe_safety_execution.
SafetyCounters(t) ==
    [critical_gate_bypass_count |->
        Count(t.sensitivity = "critical" /\ t.admission = "allow_extraction"),
     audit_plaintext_leak_count |-> Count(t.sensitivity = "critical" /\ t.plaintext),
     normal_memory_write_count  |-> t.writes,
     cross_user_violation_count |-> Count(t.foreign_read)]

\* _project_safety_actual.
SafetyActual(s, t) ==
    LET counters == SafetyCounters(t) IN
    CASE Asks[s] = "event" ->
            counters @@ [sensitivity |-> t.sensitivity, admission |-> t.admission]
      [] Asks[s] = "read" ->
            counters @@ [operation |-> "read",
                         admission |-> IF t.foreign_read THEN "allow" ELSE "reject"]
      [] OTHER -> counters

\* dispatch_stateless_sample: preference and conflict samples.  An answer that
\* cannot be projected leaves nothing behind.
DispatchStateless(q, s) ==
    /\ q \in executions /\ job = Idle /\ dispatches < MaxDispatch
    /\ Metric[s] \in {"preference", "conflict"}
    /\ dispatches' = dispatches + 1
    /\ \E actual \in StatelessActuals(s) : Concludes(q, s, actual, None)
    /\ UNCHANGED <<executions, bindings, raw>>

\* _validate_binding: the binding was built in this process for this execution,
\* with its own engine, registry, token and handlers.
BindingHolds(q, kind) == q \in executions /\ bindings[q].kind = kind

\* dispatch_safety_sample: the event goes through event.ingest, which answers
\* once per key, and is observed with the control in the same runtime.
DispatchSafety(q, s) ==
    /\ BindingHolds(q, "safety") /\ job = Idle /\ dispatches < MaxDispatch
    /\ Metric[s] = "safety"
    /\ s \notin bindings[q].ingested
    /\ dispatches' = dispatches + 1
    /\ bindings' = [bindings EXCEPT ![q].ingested = @ \cup {s}]
    /\ \/ /\ bindings[q].control
          /\ \E t \in Traces : Concludes(q, s, SafetyActual(s, t), None)
       \/ /\ ~bindings[q].control
          /\ UNCHANGED <<receipts, disk, records, job>>
    /\ UNCHANGED <<executions, raw>>

-----------------------------------------------------------------------------
(* dispatch_forget_sample.  A step that raises ends the dispatch; what it  *)
(* did to the runtime stays.                                               *)

Runtime == bindings[job.q].runtimes[job.sample]

\* The dispatch goes on with a runtime rt and with what it knows.
Continue(rt, then) ==
    /\ bindings' = [bindings EXCEPT ![job.q].runtimes[job.sample] = rt]
    /\ job' = then
    /\ UNCHANGED <<disk, executions, receipts, records, raw, dispatches>>

At(step) == job.step = step

DispatchForget(q, s) ==
    /\ BindingHolds(q, "forget") /\ job = Idle /\ dispatches < MaxDispatch
    /\ Metric[s] = "forget"
    /\ dispatches' = dispatches + 1
    /\ job' = [step |-> "observer", q |-> q, sample |-> s, docs |-> {},
               snapshot |-> None, proven |-> None]
    /\ UNCHANGED <<disk, executions, bindings, receipts, records, raw>>

\* The builder of the profile: both indexes from the tables as they are.
BuildObserver ==
    /\ At("observer")
    /\ \E rt \in (IF Dual THEN IndexOutcomes(FtsInitialized(Runtime))
                  ELSE {FtsInitialized(Runtime)}) :
          Continue(rt, [job EXCEPT !.step = "preview", !.docs = ActiveDocs(Runtime)])

\* forget.preview commits on its own; another dispatch of the sample comes with
\* the same key and another plan, and is refused.
PreviewForget ==
    /\ At("preview") /\ ~Runtime.previewed
    /\ \E targets \in Selections(Runtime, Mode[job.sample]) :
          LET rt == [Runtime EXCEPT !.previewed = TRUE]
              snapshot == Snapshot(rt, targets)
          IN Continue(rt,
                IF ProbeHits(rt, job.docs, targets) /\ SnapshotHolds(rt, snapshot)
                THEN [job EXCEPT !.step = "execute", !.snapshot = snapshot,
                                 !.proven = [fts |-> rt.fts, vector |-> rt.vector]]
                ELSE Idle)

ExecuteForget ==
    /\ At("execute")
    /\ Continue(AfterForgetting(Runtime, job.snapshot.targets), [job EXCEPT !.step = "words"])

\* _consume_forget_executed: one poll of a worker that does not retry, through
\* the deletion consumer of the profile.  The words go first.
ConsumeWords ==
    /\ At("words")
    /\ \E rt \in FtsDeletions(Runtime, job.snapshot.targets) :
          IF rt.fts \cap job.snapshot.targets = {}
          THEN Continue(rt, [job EXCEPT !.step = "vectors"])
          ELSE Continue([rt EXCEPT !.event = "dead"], Idle)

\* Then the vectors, whose counts must be those of the targets: only then does
\* the worker delete the row of the event, which is what is asked for.
ConsumeVectors ==
    /\ At("vectors")
    /\ \E rt \in (IF Dual THEN VectorDeletions(Runtime, job.snapshot.targets) ELSE {Runtime}) :
          IF Dual => VectorIsDeleted(Runtime, rt, job.snapshot.targets)
          THEN Continue([rt EXCEPT !.event = "acked"], [job EXCEPT !.step = "observe"])
          ELSE Continue([rt EXCEPT !.event = "dead"], Idle)

\* realtime, rebuild, observe_forget_execution and the receipt.
Observe ==
    /\ At("observe")
    /\ LET q == job.q  s == job.sample  targets == job.snapshot.targets
           actual == Observed(Runtime, job.snapshot, RealtimeRanked(Runtime, targets),
                              RebuildRanked(Runtime, targets))
       IN Concludes(q, s, [f \in DOMAIN actual \cup {"forget_mode"} |->
                             IF f = "forget_mode" THEN Mode[s] ELSE actual[f]],
                    [targets |-> targets, proven |-> job.proven,
                     runtime |-> Runtime, after |-> Rebuilt(Runtime)])
    /\ bindings' = [bindings EXCEPT ![job.q].runtimes[job.sample] = Rebuilt(Runtime)]
    /\ UNCHANGED <<executions, raw, dispatches>>

\* An embedding, a search, the rebuild or the request itself fails.
StepRaises ==
    /\ job # Idle
    /\ job' = Idle
    /\ UNCHANGED <<disk, executions, bindings, receipts, records, raw, dispatches>>

-----------------------------------------------------------------------------
(* _write_raw_records.                                                     *)

\* _verify_execution_receipt, for an execution q.
ReceiptBacks(q, record) ==
    /\ record.sample \in DOMAIN receipts
    /\ receipts[record.sample].commit = q.commit
    /\ receipts[record.sample].record = record

\* _validate_receipt of each record, every sample once.
RecordsAreAll(q) ==
    /\ \A r \in records : ActualIsValid(r.sample, r.actual) /\ ReceiptBacks(q, r)
    /\ {r.sample : r \in records} = Samples
    /\ Cardinality(records) = Cardinality(Samples)

\* The four files are written beside and get their name in one step; what was
\* written is removed when one of them fails.
WriteRaw(q) ==
    /\ q \in executions /\ job = Idle
    /\ RecordsAreAll(q)
    /\ ~Exists(disk, Append(q.evidence, "raw"))
    /\ job' = [step |-> "rename", q |-> q]
    /\ disk' = disk \cup {Append(q.evidence, "raw.tmp")}
    /\ UNCHANGED <<executions, bindings, receipts, records, raw, dispatches>>

Rename ==
    /\ At("rename")
    /\ \/ /\ raw' = [m \in Metrics |-> {r \in records : Metric[r.sample] = m}]
          /\ disk' = (disk \cup {Append(job.q.evidence, "raw")}) \ {Append(job.q.evidence, "raw.tmp")}
       \/ /\ disk' = disk \ {Append(job.q.evidence, "raw.tmp")}
          /\ UNCHANGED raw
    /\ job' = Idle
    /\ UNCHANGED <<executions, bindings, receipts, records, dispatches>>

\* The process dies; the registered engines, the credentials and the validated
\* executions die with it.
Die ==
    /\ executions # {}
    /\ executions' = {} /\ records' = {} /\ job' = Idle
    /\ bindings' = [q \in Requests |-> NoBinding]
    /\ UNCHANGED <<disk, receipts, raw, dispatches>>

ExecutionNext ==
    /\ UNCHANGED prepared
    /\ \/ \E q \in Requests : Validate(q)
       \/ \E q \in executions : BuildSafety(q)
       \/ \E q \in executions : PrepareForget(q)
       \/ \E q \in executions, s \in Samples : DispatchStateless(q, s)
       \/ \E q \in executions, s \in Samples : DispatchSafety(q, s)
       \/ \E q \in executions, s \in Samples : DispatchForget(q, s)
       \/ BuildObserver
       \/ PreviewForget
       \/ ExecuteForget
       \/ ConsumeWords
       \/ ConsumeVectors
       \/ Observe
       \/ StepRaises
       \/ \E q \in executions : WriteRaw(q)
       \/ Rename
       \/ Die

ExecutionSpec == ExecutionInit /\ [][ExecutionNext]_executionVars

-----------------------------------------------------------------------------
(* Properties                                                              *)

ResidualFree(actual) ==
    /\ actual.missed_target_items = 0
    /\ actual.residual_after_realtime_query = 0
    /\ actual.residual_after_full_rebuild = 0

\* A receipt that counts no residue proves something: what was forgotten was
\* found in every channel before it was forgotten, and is in no table, no index
\* and no ledger after, neither before the rebuild nor after it; and the event
\* of the execution was acknowledged.
ZeroIsProven ==
    \A s \in DOMAIN receipts \cap ForgetSamples :
        LET e == receipts[s].evidence
            known == IF Dual THEN KnowledgeOf(e.targets) ELSE {}
        IN ResidualFree(receipts[s].record.actual) =>
             /\ e.targets # {}
             /\ e.targets \subseteq e.proven.fts /\ known \subseteq e.proven.vector
             /\ e.targets \cap (e.runtime.live \cup e.runtime.fts) = {}
             /\ known \cap (e.runtime.vector \cup e.runtime.ledger \cup e.after.vector) = {}
             /\ e.runtime.event = "acked"

-----------------------------------------------------------------------------
(* The invariant behind it.                                                *)

OwnDocs == {d \in Source : d.user = Subject}

Runtimes == [live : SUBSET Source, fts : SUBSET Source, vector : SUBSET Source,
             ledger : SUBSET Source, event : {"none", "pending", "acked", "dead"},
             previewed : BOOLEAN]

Bindings == {NoBinding}
              \cup [kind : {"safety"}, control : BOOLEAN, ingested : SUBSET Samples]
              \cup [kind : {"forget"}, runtimes : [ForgetSamples -> Runtimes]]

\* Nothing is gone from the tables of a runtime before its preview, and where
\* vectors are not observed there are none.
RuntimeStands(rt) ==
    /\ ~rt.previewed => rt.live = Source
    /\ ~Dual => rt.vector = {}

BindingsStand ==
    /\ executions \subseteq Requests
    /\ bindings \in [Requests -> Bindings]
    /\ \A q \in Requests : bindings[q].kind = "forget" =>
          \A s \in ForgetSamples : RuntimeStands(bindings[q].runtimes[s])

ForgettingSteps == {"execute", "words", "vectors", "observe"}

Dispatches ==
    [step : {"observer", "preview"} \cup ForgettingSteps, q : Requests, sample : ForgetSamples,
     docs : SUBSET Source,
     snapshot : {None} \cup [targets : SUBSET Source, own : SUBSET Source, foreign : SUBSET Source],
     proven : {None} \cup [fts : SUBSET Source, vector : SUBSET Source]]

\* Targets are the user's own and were found in every channel that is observed.
TargetsProven(targets, proven) ==
    /\ targets # {} /\ targets \subseteq OwnDocs
    /\ targets \subseteq proven.fts
    /\ Dual => KnowledgeOf(targets) \subseteq proven.vector

\* How far a dispatch has cleaned the runtime of its targets.
Cleaned(step, targets, rt) ==
    /\ rt.previewed
    /\ rt.live = IF step = "execute" THEN Source ELSE Source \ targets
    /\ step \in {"vectors", "observe"} => rt.fts \cap targets = {}
    /\ step = "observe" =>
          /\ rt.event = "acked"
          /\ Dual => KnowledgeOf(targets) \cap (rt.vector \cup rt.ledger) = {}

JobStands ==
    \/ job.step \in {"idle", "rename"}
    \/ /\ job \in Dispatches
       /\ job.q \in executions /\ bindings[job.q].kind = "forget"
       /\ job.step \in ForgettingSteps =>
             /\ TargetsProven(job.snapshot.targets, job.proven)
             /\ Cleaned(job.step, job.snapshot.targets, Runtime)

EvidenceStands(e) ==
    /\ TargetsProven(e.targets, e.proven)
    /\ Cleaned("observe", e.targets, e.runtime)
    /\ KnowledgeOf(e.targets) \cap e.after.vector = {}
    /\ e.after.live = Source \ e.targets

\* A record is the one of its sample's receipt.
Backed(r) == r.sample \in DOMAIN receipts /\ receipts[r.sample].record = r

ReceiptsStand ==
    /\ \A r \in records : Backed(r)
    /\ \A s \in DOMAIN receipts \cap ForgetSamples : EvidenceStands(receipts[s].evidence)
    /\ raw # None => \A m \in Metrics : \A r \in raw[m] : Backed(r)

ExecutionInv == BindingsStand /\ JobStands /\ ReceiptsStand

===============================================================================
