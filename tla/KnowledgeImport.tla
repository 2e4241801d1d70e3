--------------------------- MODULE KnowledgeImport ---------------------------
(***************************************************************************)
(* How knowledge authored elsewhere enters the store: source events are    *)
(* provisioned and bound for a batch of candidates                         *)
(* (service/main_to_data_binding.py), and the files made from a batch are  *)
(* imported record by record (service/main_to_data_import.py).             *)
(***************************************************************************)
EXTENDS Knowledge

CONSTANTS
    Principals, ScopeOf,    \* who imports, and for which users
    Owner,                  \* the user candidates are provisioned for
    Batches, CandidatesOf,  \* batch -> sequence of [event, text, reference, pending]
    Files, FileOf,          \* a file, named by its digest -> its records
    BatchOf                 \* file -> the batch it was made from, or None

\* What a record is answered when it is not accepted.
Objections == {"duplicate_data_record", "invalid_input", "unauthorized_scope",
               "idempotency_conflict", "source_not_admitted", "replayed"}

ASSUME NoneIsNoObjection == None \notin Objections

\* What the checks of a file and of a candidate leave: a file holds at least one
\* record, of a user of the deployment and of an input the schema knows.
ASSUME FilesAreParsed ==
    \A file \in Files :
        /\ Len(FileOf[file]) \in Nat \ {0}
        /\ DOMAIN FileOf[file] = 1 .. Len(FileOf[file])
        /\ \A i \in DOMAIN FileOf[file] :
              /\ FileOf[file][i].user \in Users /\ FileOf[file][i].event \in Events
              /\ FileOf[file][i].input \in Inputs

ASSUME CandidatesAreParsed ==
    \A b \in Batches :
        /\ Len(CandidatesOf[b]) \in Nat
        /\ DOMAIN CandidatesOf[b] = 1 .. Len(CandidatesOf[b])
        /\ \A i \in DOMAIN CandidatesOf[b] : CandidatesOf[b][i].event \in Events

\* A record made from a batch copies the source that binding reported for its
\* candidate (the records of a binding response).
ASSUME FilesCopyBinding ==
    \A file \in Files : BatchOf[file] \in Batches =>
        \A i \in DOMAIN FileOf[file] :
            LET r == FileOf[file][i] IN
            r.wellFormed =>
                /\ \E j \in DOMAIN CandidatesOf[BatchOf[file]] :
                      CandidatesOf[BatchOf[file]][j].event = r.event
                /\ r.user = EventOf[r.event].user
                /\ r.type = EventOf[r.event].type
                /\ r.status = EventOf[r.event].status
                /\ r.reference = EventOf[r.event].reference

VARIABLES
    progress,   \* batch -> candidates provisioned by the provisioner's pass
    bound,      \* batches whose binding was reported complete
    registry,   \* <<user, idempotency key>> -> [record, id]
    manifests,  \* <<user, file, data record id>> -> [record, id]
    importing,  \* process -> the import request under way
    told        \* history: the acceptances reported

importVars == << progress, bound, registry, manifests, importing, told >>

vars == << knowledgeVars, importVars >>

-----------------------------------------------------------------------------
(* Provisioning and binding                                                *)

\* parse_candidate_jsonl: every candidate has an identity of its own, from
\* which its event id is made, and is not bound yet.
Parsed(b) ==
    \A i, j \in DOMAIN CandidatesOf[b] :
        /\ CandidatesOf[b][i].pending
        /\ CandidatesOf[b][i].event = CandidatesOf[b][j].event => i = j

\* Where a candidate says it comes from.
ExpectedReference(c) == c.reference

\* What provisioning and binding compare of the event row and its candidate.
Matches(c) ==
    /\ EventOf[c.event].user = Owner
    /\ EventOf[c.event].admitted
    /\ EventOf[c.event].text = c.text
    /\ EventOf[c.event].reference = ExpectedReference(c)

\* ControlledSourceProvisioner.provision, one candidate: an event that exists
\* is taken as it is, otherwise event.ingest makes it; a candidate whose
\* event does not match ends the pass.
Provision(b) ==
    LET c == CandidatesOf[b][progress[b] + 1] IN
    /\ Parsed(b)
    /\ progress[b] < Len(CandidatesOf[b])
    /\ c.event \notin sources => EventOf[c.event].text = c.text
    /\ sources' = sources \cup {c.event}
    /\ progress' = [progress EXCEPT ![b] = IF Matches(c) THEN @ + 1 ELSE 0]
    /\ UNCHANGED << now, entries, relations, conflicts, receipts, outbox, doing,
                    bound, registry, manifests, importing, told >>

\* The descriptor of a controlled source, the same for all of them.
Controlled(e) == EventOf[e].type = "manual_config" /\ EventOf[e].status = "success"

\* _validate_provisioning_results: a pass reports all candidates or nothing.
Provisioned(b) == progress[b] = Len(CandidatesOf[b])

\* M2BindingService.bind, for a principal that may bind for the owner: a
\* read-only pass over the events a provisioning pass reported.
Bindable(c) == c.event \in sources /\ Matches(c) /\ Controlled(c.event)

Bind(principal, b) ==
    /\ b \notin bound
    /\ Parsed(b) /\ Provisioned(b) /\ Owner \in ScopeOf[principal]
    /\ \A i \in DOMAIN CandidatesOf[b] : Bindable(CandidatesOf[b][i])
    /\ bound' = bound \cup {b}
    /\ UNCHANGED << knowledgeVars, progress, registry, manifests, importing, told >>

-----------------------------------------------------------------------------
(* Importing                                                               *)

\* import_request: the principal resolves to a scope, and the manifest's
\* digests and count are those of the file.
StartImport(p, principal, file) ==
    /\ importing[p] = None
    /\ ScopeOf[principal] # {}
    /\ importing' = [importing EXCEPT ![p] =
           [by |-> principal, file |-> file, at |-> 1, try |-> 1, cleared |-> FALSE]]
    /\ UNCHANGED << knowledgeVars, progress, bound, registry, manifests, told >>

Current(p) == FileOf[importing[p].file][importing[p].at]

Earlier(p) == {FileOf[importing[p].file][j].data : j \in 1 .. importing[p].at - 1}

\* The current record is answered, with the row's id if it is accepted or
\* replayed, and the next one is taken up.
Reply(p, id) ==
    LET job == importing[p] IN
    /\ told' = IF id = None THEN told
               ELSE told \cup {[record |-> Current(p), id |-> id]}
    /\ importing' = [importing EXCEPT ![p] =
           IF job.at = Len(FileOf[job.file]) THEN None
           ELSE [job EXCEPT !.at = @ + 1, !.try = 1, !.cleared = FALSE]]

\* _validate_record_shape: required fields, known values, a candidate of its user.
ShapeHolds(r) == r.wellFormed

\* The source a record names is the event Main holds, and is admitted.
SourceHolds(r) ==
    /\ r.event \in sources
    /\ EventOf[r.event].user = r.user /\ EventOf[r.event].admitted
    /\ r.type = EventOf[r.event].type /\ r.status = EventOf[r.event].status
    /\ r.reference = EventOf[r.event].reference

\* What the registries already know of a record.  The canonical digest of a
\* request is that of all its fields.
Known(table, key, r, mismatch) ==
    IF key \notin DOMAIN table THEN None
    ELSE IF table[key].record = r THEN "replayed" ELSE mismatch

ByKey(r) == Known(registry, <<r.user, r.key>>, r, "idempotency_conflict")
ByFile(r, file) ==
    Known(manifests, <<r.user, file, r.data>>, r, "duplicate_data_record")

\* The checks of one record, in order; None lets it through to the insert.
Objection(p) ==
    LET r == Current(p)
        job == importing[p]
    IN Decision(<<
        Rule(r.data \in Earlier(p), "duplicate_data_record"),
        Rule(~ShapeHolds(r), "invalid_input"),
        Rule(r.user \notin ScopeOf[job.by], "unauthorized_scope"),
        Rule(ByKey(r) # None, ByKey(r)),
        Rule(ByFile(r, job.file) # None, ByFile(r, job.file)),
        Rule(~SourceHolds(r), "source_not_admitted"),
        Rule(~MayPersist(r.user, r.event, r.input), "source_not_admitted"),
        Rule(TRUE, None) >>)

\* A knowledge id nobody uses (uuid4).
Fresh(k) == \A u \in Users : ~Exists(u, k)

\* The reads of _import_one, outside any transaction.
LookUp(p) ==
    /\ importing[p] # None /\ ~importing[p].cleared
    /\ \/ /\ Objection(p) # None
          /\ Reply(p, IF Objection(p) = "replayed"
                      THEN registry[<<Current(p).user, Current(p).key>>].id ELSE None)
       \/ /\ Objection(p) = None
          /\ importing' = [importing EXCEPT ![p].cleared = TRUE]
          /\ UNCHANGED told
    /\ UNCHANGED << knowledgeVars, progress, bound, registry, manifests >>

\* Mutant: the registries have no unique keys.
MutRegistryFits(r, file) == TRUE

\* The primary keys of the two registries.
RegistryFits(r, file) ==
    /\ <<r.user, r.key>> \notin DOMAIN registry
    /\ <<r.user, file, r.data>> \notin DOMAIN manifests

\* The writes of _import_one: five rows in one transaction.
Accept(p, k) ==
    LET r == Current(p)
        row == [record |-> r, id |-> k]
    IN
    /\ importing[p] # None /\ importing[p].cleared
    /\ Fresh(k)
    /\ RegistryFits(r, importing[p].file)
    /\ Persist(r.user, k, r.event, r.input)
    /\ registry' = Put(registry, <<r.user, r.key>>, row)
    /\ manifests' = Put(manifests, <<r.user, importing[p].file, r.data>>, row)
    /\ Reply(p, k)
    /\ UNCHANGED << now, sources, conflicts, receipts, doing, progress, bound >>

\* The loser of a race for a registry key rolls back and looks once more.
LoseRace(p) ==
    /\ importing[p] # None /\ importing[p].cleared
    /\ ~RegistryFits(Current(p), importing[p].file)
    /\ importing[p].try = 1
    /\ importing' = [importing EXCEPT ![p].try = 2, ![p].cleared = FALSE]
    /\ UNCHANGED << knowledgeVars, progress, bound, registry, manifests, told >>

\* Any other failure of the transaction, a locked database among them, is
\* reported for the record alone.
FailRecord(p) ==
    /\ importing[p] # None
    /\ Reply(p, None)
    /\ UNCHANGED << knowledgeVars, progress, bound, registry, manifests >>

\* The process dies between two transactions; the caller sends the file again.
Crash(p) ==
    /\ importing[p] # None
    /\ importing' = [importing EXCEPT ![p] = None]
    /\ progress' = [b \in Batches |-> 0]
    /\ UNCHANGED << knowledgeVars, bound, registry, manifests, told >>

\* readback: what an authorized principal is told of a knowledge row.
Readable(principal, u, k) == u \in ScopeOf[principal] /\ Exists(u, k)

Readback(principal, u, k) ==
    IF Readable(principal, u, k)
    THEN [version |-> entries[<<u, k>>].revision, status |-> entries[<<u, k>>].status]
    ELSE None

ImportStep(p) ==
    \/ \E principal \in Principals, file \in Files : StartImport(p, principal, file)
    \/ \E k \in Ids : Accept(p, k)
    \/ LookUp(p) \/ LoseRace(p) \/ FailRecord(p) \/ Crash(p)

-----------------------------------------------------------------------------
(* The specification                                                       *)

Init ==
    /\ KnowledgeInit
    /\ progress = [b \in Batches |-> 0] /\ bound = {}
    /\ registry = [x \in {} |-> x] /\ manifests = [x \in {} |-> x]
    /\ importing = [p \in Processes |-> None] /\ told = {}

Next ==
    \/ KnowledgeNext /\ UNCHANGED importVars
    \/ \E b \in Batches :
          Provision(b) \/ \E principal \in Principals : Bind(principal, b)
    \/ \E p \in Processes : ImportStep(p)

Spec == Init /\ [][Next]_vars

-----------------------------------------------------------------------------
(* Properties                                                              *)

\* However requests are repeated, race in two processes, fail half way or die,
\* one idempotency key makes one knowledge row, of the request that was
\* registered for it; the rows of an acceptance are there together; and every
\* acceptance reported, also after the row was forgotten, names that row, which
\* a principal of its user can read back.
RegistriesAgree ==
    /\ \A a, b \in DOMAIN registry : registry[a].id = registry[b].id => a = b
    /\ \A a \in DOMAIN registry :
          LET r == registry[a].record IN
          /\ Replays(r.user, registry[a].id, r.event, r.input)
          /\ \E m \in DOMAIN manifests : manifests[m] = registry[a]
    /\ \A m \in DOMAIN manifests :
          LET r == manifests[m].record IN registry[<<r.user, r.key>>] = manifests[m]
    /\ \A t \in told :
          /\ registry[<<t.record.user, t.record.key>>] = t
          /\ \E principal \in Principals :
                Readable(principal, t.record.user, t.id)

\* A batch that binding reported complete keeps its promise: no record of the
\* files made from it is turned away for its source.
BindingKeeps ==
    \A p \in Processes :
       importing[p] # None /\ BatchOf[importing[p].file] \in bound
         => Objection(p) # "source_not_admitted"

\* Both: what was imported stays imported once, and what was bound can be imported.
ImportedOnce == RegistriesAgree /\ BindingKeeps

\* What it rests on.  An import request is at a record of its file; a record that
\* was cleared stays acceptable, for events are never taken back; what the
\* registries hold is found under its own keys; and a batch that was reported bound
\* could be bound again.
Job ==
    [by : Principals, file : Files, at : Nat, try : {1, 2}, cleared : BOOLEAN]

ImportTypeOK ==
    /\ progress \in [Batches -> Nat]
    /\ bound \subseteq Batches
    /\ importing \in [Processes -> Job \cup {None}]
    /\ \A p \in Processes : importing[p] # None =>
          importing[p].at \in 1 .. Len(FileOf[importing[p].file])

ClearedStays ==
    \A p \in Processes : importing[p] # None /\ importing[p].cleared =>
        LET r == Current(p) IN
        /\ r.user \in ScopeOf[importing[p].by]
        /\ MayPersist(r.user, r.event, r.input)

RegistriesKeyed ==
    /\ \A a \in DOMAIN registry :
          LET r == registry[a].record IN
          /\ a = <<r.user, r.key>> /\ r.user \in Users
          /\ registry[a] = [record |-> r, id |-> registry[a].id]
    /\ \A m \in DOMAIN manifests :
          <<manifests[m].record.user, manifests[m].record.key>> \in DOMAIN registry
    /\ \A t \in told :
          <<t.record.user, t.record.key>> \in DOMAIN registry

BoundStands ==
    \A b \in bound : \A i \in DOMAIN CandidatesOf[b] : Bindable(CandidatesOf[b][i])

ImportInv ==
    /\ ImportTypeOK
    /\ ClearedStays
    /\ RegistriesKeyed
    /\ BoundStands
    /\ RegistriesAgree

IInv == KnowledgeInv /\ ImportInv

=============================================================================
