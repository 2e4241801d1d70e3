------------------------------ MODULE ForgetPlan ------------------------------
(***************************************************************************)
(* Precise forgetting: forget.preview and forget.execute.                  *)
(*                                                                         *)
(* A preview resolves what is to be forgotten, stores the result as a plan *)
(* together with the hash of a one-time credential, and returns the        *)
(* credential once.  An execution presents the credential and, in the same *)
(* transaction, removes what the plan names, closes the plan, writes an    *)
(* audit row and enqueues forget.executed.  Both run behind the            *)
(* idempotency cache.  Every handler is one transaction under the write    *)
(* lock; a request that is refused rolls back and leaves no trace.  Later   *)
(* the consumer of forget.executed empties the caches and asks the vector  *)
(* index to delete what the event names; either may fail, and so may an    *)
(* event of which no request can be made.                                  *)
(***************************************************************************)
EXTENDS Integers, FiniteSets

CONSTANTS
  Users,
  Knowledge,     \* rows of memory_entries
  Preferences,   \* rows of memory_items
  Owner,         \* the user a row belongs to
  PlanIds,       \* forget_plan_id, chosen by the host
  Keys,          \* idempotency_key, chosen by the caller
  TokenTTL,      \* CONFIRMATION_TOKEN_TTL_SECONDS
  KeyTTL,        \* IDEMPOTENCY_TTL
  MaxPlans,      \* bound on the plans
  MaxTime,       \* bound on the clock
  MaxRevision    \* bound on the revisions of a row

ASSUME OwnerAssumption ==
  /\ Knowledge \cap Preferences = {}
  /\ Owner \in [Knowledge \cup Preferences -> Users]

ASSUME TimeAssumption ==
  /\ TokenTTL \in Nat \ {0}
  /\ KeyTTL \in Nat \ {0}
  /\ MaxTime \in Nat /\ MaxPlans \in Nat
  /\ MaxRevision \in Nat \ {0}

VARIABLES
  entries,   \* memory_entries: status, version and row_revision
  prefs,     \* the current version of every preference
  plans,     \* forget_plan, by user and plan id
  cache,     \* idempotency_cache, by user and key
  audits,    \* audits[r]: rows of forget_audit for plan r
  events,    \* the forget.executed payload of plan r
  held,      \* plans whose credential reached a client
  told,      \* what executions were answered: <<plan, status>>
  clock

storeVars == <<entries, prefs>>
planVars  == <<plans, audits, events>>
vars == <<storeVars, planVars, cache, held, told, clock>>

-------------------------------------------------------------------------------
Memories == Knowledge \cup Preferences
Rows == Users \X PlanIds

ForgetModes == {"single_item", "session", "topic", "time_window", "full_reset"}
TargetTypes == {"knowledge", "preference", "all"}

Entry == [status : {"absent", "live", "deleted"}, version : {1}, revision : Nat]
Pref  == [status : {"absent", "active", "removed"}, version : Nat]

NoPlan == [status |-> "none", targets |-> {}, type |-> "all", soft |-> TRUE,
           tokenLive |-> FALSE, expires |-> 0]
Plan == [status    : {"awaiting_confirmation", "completed", "failed"},
         targets   : SUBSET Memories,
         type      : TargetTypes,
         soft      : BOOLEAN,  \* neither hard nor cascading
         tokenLive : BOOLEAN,
         expires   : Nat]

\* The request fingerprint of a call: its method and the fields it binds.
Fingerprints == {<<"forget.preview", p>> : p \in PlanIds}
                  \cup {<<"forget.execute", p>> : p \in PlanIds}
Responses == {"none", "awaiting_confirmation", "completed", "failed"}
NoEntry == [request |-> <<"none", "none">>, plan |-> "none", response |-> "none", expires |-> 0]

CacheEntry == [request : Fingerprints \cup {<<"none", "none">>}, plan : PlanIds \cup {"none"},
               response : Responses, expires : Nat]

\* state: how far the event has come: in the outbox, acted on, a dead letter.
Event == [targets : SUBSET Memories, versions : SUBSET Memories,
          state : {"none", "pending", "deleted", "dead"}]
NoEvent == [targets |-> {}, versions |-> {}, state |-> "none"]

Visible(t) == IF t \in Knowledge THEN entries[t].status = "live"
                                 ELSE prefs[t].status = "active"

CacheLive(u, x) == cache[<<u, x>>].expires > clock

-------------------------------------------------------------------------------
(* forget.preview *)

\* What a request may ask for; anything else is refused by the handler or by the
\* resolver, target_type "event" always.
Previewable(mode, type) ==
  \/ mode = "single_item" /\ type \in {"knowledge", "preference"}
  \/ mode \in {"session", "topic", "time_window"} /\ type = "knowledge"
  \/ mode = "full_reset" /\ type = "all"

Own(u) == {t \in Memories : Owner[t] = u}

\* One entry, or those of a session, a topic or a time window: live knowledge.
SingleKnowledge(u) == {{}} \cup {{t} : t \in {e \in Own(u) \cap Knowledge : Visible(e)}}
ScopedKnowledge(u) == SUBSET {t \in Own(u) \cap Knowledge : Visible(t)}

\* A preference is resolved by its item alone, removed or not.
SinglePreference(u) ==
  {{}} \cup {{t} : t \in {q \in Own(u) \cap Preferences : prefs[q].status # "absent"}}

\* Everything that is visible.
FullReset(u) == {t \in Own(u) : Visible(t)}

\* resolve_forget_targets: what a request may resolve to.
Resolutions(u, mode, type) ==
  CASE mode = "single_item" /\ type = "knowledge" -> SingleKnowledge(u)
    [] mode = "single_item" /\ type = "preference" -> SinglePreference(u)
    [] mode \in {"session", "topic", "time_window"} -> ScopedKnowledge(u)
    [] OTHER -> {FullReset(u)}

\* The row a preview leaves: inserted and updated in one transaction, with the
\* snapshot, and the hash and the deadline of the credential.
Previewed(type, soft, S) ==
  [status |-> "awaiting_confirmation", targets |-> S, type |-> type, soft |-> soft,
   tokenLive |-> TRUE, expires |-> clock + TokenTTL]

\* preview_forget_plan.  The answer with the credential may be lost on its way;
\* asking again with the same key never returns it a second time.
Preview(u, x, p) ==
  /\ ~CacheLive(u, x)
  /\ plans[<<u, p>>] = NoPlan
  /\ Cardinality({r \in Rows : plans[r] # NoPlan}) < MaxPlans
  /\ \E mode \in ForgetModes, type \in TargetTypes, soft \in BOOLEAN :
       /\ Previewable(mode, type)
       /\ \E S \in Resolutions(u, mode, type) :
            plans' = [plans EXCEPT ![<<u, p>>] = Previewed(type, soft, S)]
  /\ cache' = [cache EXCEPT ![<<u, x>>] =
                 [request |-> <<"forget.preview", p>>, plan |-> p,
                  response |-> "awaiting_confirmation", expires |-> clock + KeyTTL]]
  /\ held' \in {held, held \cup {<<u, p>>}}
  /\ UNCHANGED <<storeVars, audits, events, told, clock>>

-------------------------------------------------------------------------------
(* forget.execute *)

\* Mutant: the state of the plan and the consumed credential are not looked at.
MutTokenAccepted(r, token) ==
  /\ plans[r].expires > clock
  /\ token = r

\* consume_confirmation_token
TokenAccepted(r, token) ==
  /\ plans[r].status = "awaiting_confirmation"
  /\ plans[r].tokenLive
  /\ plans[r].expires > clock
  /\ token = r

\* soft_delete_memory_entry, given the row_revision just read.
Deletes(t) == entries[t].status = "live"

\* What soft_delete_resolved_targets counts as executed.
Executed(S) ==
  {t \in S : IF t \in Knowledge THEN Deletes(t) \/ entries[t].status = "deleted"
                                ELSE prefs[t].status # "absent"}

\* Mutant: only entries have version ids.
MutVersioned(S) == {t \in S \cap Knowledge : entries[t].status = "live"}

\* The targets a version id is appended for: not those deleted before.
Versioned(S) ==
  {t \in S : IF t \in Knowledge THEN entries[t].status = "live"
                                ELSE prefs[t].status # "absent"}

\* Mutant: a full reset leaves the preferences alone.
MutForgotten(r) ==
  IF plans[r].type = "all" THEN plans[r].targets \cap Knowledge ELSE plans[r].targets

\* The rows the dispatcher is handed.
Forgotten(r) == plans[r].targets

\* An entry gets is_deleted = 1, a preference a new version that is removed.
SoftDelete(S) ==
  /\ entries' = [t \in Knowledge |->
       IF t \in S /\ Deletes(t)
       THEN [entries[t] EXCEPT !.status = "deleted", !.revision = @ + 1] ELSE entries[t]]
  /\ prefs' = [t \in Preferences |->
       IF t \in S /\ prefs[t].status = "active"
       THEN [status |-> "removed", version |-> prefs[t].version + 1] ELSE prefs[t]]

TerminalStatus(r) ==
  IF Cardinality(Executed(Forgotten(r))) = Cardinality(plans[r].targets)
  THEN "completed" ELSE "failed"

\* The credential consumed and the plan closed, in one transaction.
Closed(r) == [plans[r] EXCEPT !.status = TerminalStatus(r), !.tokenLive = FALSE]

\* insert_forget_audit: one more row, without any text.
Audited(r) == [audits EXCEPT ![r] = @ + 1]

\* _assert_execute_supported: no hard and no cascading deletion.
Supported(r) == plans[r].soft

\* execute_forget_plan, not in the cache.
Execute(u, x, p, token) ==
  LET r == <<u, p>> IN
  /\ ~CacheLive(u, x)
  /\ token \in held
  /\ Supported(r)
  /\ TokenAccepted(r, token)
  /\ SoftDelete(Forgotten(r))
  /\ plans' = [plans EXCEPT ![r] = Closed(r)]
  /\ audits' = Audited(r)
  /\ events' = [events EXCEPT ![r] =
       [targets |-> plans[r].targets, versions |-> Versioned(Forgotten(r)), state |-> "pending"]]
  /\ cache' = [cache EXCEPT ![<<u, x>>] =
       [request |-> <<"forget.execute", p>>, plan |-> p,
        response |-> TerminalStatus(r), expires |-> clock + KeyTTL]]
  /\ told' \in {told, told \cup {<<r, TerminalStatus(r)>>}}
  /\ UNCHANGED <<held, clock>>

\* Mutant: a hit is returned whatever it was stored for.
MutSameRequest(u, x, request) == cache[<<u, x>>].response \in {"completed", "failed"}

\* _unwrap_response: another fingerprint under the same key is a conflict.
SameRequest(u, x, request) == cache[<<u, x>>].request = request

\* execute_forget_plan, in the cache: the stored answer, whatever the token.
ExecuteReplay(u, x, p) ==
  /\ CacheLive(u, x)
  /\ SameRequest(u, x, <<"forget.execute", p>>)
  /\ told' = told \cup {<<<<u, p>>, cache[<<u, x>>].response>>}
  /\ UNCHANGED <<storeVars, planVars, cache, held, clock>>

-------------------------------------------------------------------------------
(* forget.executed *)

\* _build_delete_request: there are targets, and a version id for each.
Deletable(event) ==
  event.targets # {} /\ Cardinality(event.versions) = Cardinality(event.targets)

\* The deletion consumer, called once.  It raises when the caches cannot be
\* emptied, when there is no vector index, when the event makes no request, and
\* when the index answers that it is not ready, that the watermark is stale or
\* any other error; an event that was raised on is tried again or, its retries
\* used up, a dead letter.
DeliverForget(r) ==
  /\ events[r].state = "pending"
  /\ \E reached \in {"pending", "dead"} \cup (IF Deletable(events[r]) THEN {"deleted"} ELSE {}) :
       events' = [events EXCEPT ![r].state = reached]
  /\ UNCHANGED <<storeVars, plans, audits, cache, held, told, clock>>

-------------------------------------------------------------------------------
(* Everybody else. *)

\* insert_memory_entry, insert_knowledge_entry
InsertKnowledge(t) ==
  /\ entries[t].status = "absent"
  /\ entries' = [entries EXCEPT ![t] = [status |-> "live", version |-> 1, revision |-> 1]]
  /\ UNCHANGED <<prefs, planVars, cache, held, told, clock>>

\* evaluate_lifecycle: the revision moves, the version does not.
UpdateLifecycle(t) ==
  /\ entries[t].status = "live"
  /\ entries[t].revision < MaxRevision
  /\ entries' = [entries EXCEPT ![t].revision = @ + 1]
  /\ UNCHANGED <<prefs, planVars, cache, held, told, clock>>

\* save_preference_version: a new version, active again if it was removed.
SavePreference(t) ==
  /\ prefs[t].version < MaxRevision
  /\ prefs' = [prefs EXCEPT ![t] = [status |-> "active", version |-> @.version + 1]]
  /\ UNCHANGED <<entries, planVars, cache, held, told, clock>>

Tick ==
  /\ clock < MaxTime
  /\ clock' = clock + 1
  /\ UNCHANGED <<storeVars, planVars, cache, held, told>>

-------------------------------------------------------------------------------
Init ==
  /\ entries = [t \in Knowledge |-> [status |-> "absent", version |-> 1, revision |-> 0]]
  /\ prefs = [t \in Preferences |-> [status |-> "absent", version |-> 0]]
  /\ plans = [r \in Rows |-> NoPlan]
  /\ cache = [c \in Users \X Keys |-> NoEntry]
  /\ audits = [r \in Rows |-> 0]
  /\ events = [r \in Rows |-> NoEvent]
  /\ held = {}
  /\ told = {}
  /\ clock = 0

Next ==
  \/ \E u \in Users, x \in Keys, p \in PlanIds : Preview(u, x, p)
  \/ \E u \in Users, x \in Keys, p \in PlanIds, token \in Rows : Execute(u, x, p, token)
  \/ \E u \in Users, x \in Keys, p \in PlanIds : ExecuteReplay(u, x, p)
  \/ \E r \in Rows : DeliverForget(r)
  \/ \E t \in Knowledge : InsertKnowledge(t)
  \/ \E t \in Knowledge : UpdateLifecycle(t)
  \/ \E t \in Preferences : SavePreference(t)
  \/ Tick

Spec == Init /\ [][Next]_vars

-------------------------------------------------------------------------------
(* Correctness. *)

TypeOK ==
  /\ entries \in [Knowledge -> Entry]
  /\ prefs \in [Preferences -> Pref]
  /\ plans \in [Rows -> Plan \cup {NoPlan}]
  /\ cache \in [Users \X Keys -> CacheEntry]
  /\ audits \in [Rows -> Nat]
  /\ events \in [Rows -> Event]
  /\ held \in SUBSET Rows
  /\ clock \in Nat

\* A credential is good for one execution, and that one is complete: through
\* retries with the same key or another one, answers that got lost and cache rows
\* that expired, a plan is audited and announced exactly once if it was carried
\* out, and never otherwise; and no lifecycle change, insert or other plan between
\* preview and execution makes it fail half-way on the optimistic lock.
ExecutedOnce ==
  \A r \in Rows :
    /\ plans[r].status # "failed"
    /\ audits[r] = IF plans[r].status = "completed" THEN 1 ELSE 0
    /\ events[r].state # "none" <=> audits[r] = 1

\* The client is told the truth: an answer "completed" for a plan, fresh or
\* from the cache, means that this very plan has been carried out.
AnswersAreTrue ==
  \A a \in told : plans[a[1]].status = a[2]

\* Preview and execution implement the promise.
Promise == INSTANCE ForgetPromise WITH
  visible  <- {t \in Memories : Visible(t)},
  snapshot <- [r \in {s \in Rows : plans[s] # NoPlan} |-> plans[r].targets],
  done     <- {r \in Rows : plans[r].status = "completed"}

KeepsPromise == Promise!PromiseSpec

\* An event whose content makes no delete request, so that every attempt fails
\* and the vectors it names stay, belongs to a plan that named nothing or that
\* overlaps another executed plan of the same user in an entry: no other order
\* of previews, executions and writes gives an event with a version missing.
\* Any event may also become a dead letter because a cache or the index failed
\* whenever it was tried; the stale watermark of VectorIndex is one such failure.
RefusedOnlyAfterOverlap ==
  \A r \in Rows : events[r].state # "none" /\ ~Deletable(events[r]) =>
    \/ plans[r].targets = {}
    \/ \E q \in Rows \ {r} :
         /\ q[1] = r[1]
         /\ plans[q].status = "completed"
         /\ plans[q].targets \cap plans[r].targets \cap Knowledge # {}

-------------------------------------------------------------------------------
(* The inductive invariant *)

Present(t) == IF t \in Knowledge THEN entries[t].status # "absent"
                                 ELSE prefs[t].status # "absent"

\* What a plan has frozen exists, if only as a removed row, and belongs to its
\* user: so everything it names counts as executed.
TargetsStand ==
  \A r \in Rows : \A t \in plans[r].targets : Owner[t] = r[1] /\ Present(t)

\* A cached answer of an execution, and one that was given, is of a plan that
\* was carried out.
CachedIsDone ==
  \A u \in Users, x \in Keys, p \in PlanIds :
    cache[<<u, x>>].request = <<"forget.execute", p>> =>
      cache[<<u, x>>].response = "completed" /\ plans[<<u, p>>].status = "completed"

ToldIsDone ==
  \A a \in told : a[1] \in Rows /\ a[2] = "completed" /\ plans[a[1]].status = "completed"

\* An entry is deleted by a plan of its owner and by nothing else.
NamedBy(t, q) == plans[q].status = "completed" /\ t \in plans[q].targets

DeletedByPlan ==
  \A t \in Knowledge : entries[t].status = "deleted" =>
    \E q \in Rows : q[1] = Owner[t] /\ NamedBy(t, q)

\* An event names the targets of its plan; the versions it lacks are those of
\* entries that another plan has deleted before.
EventsTell ==
  \A r \in Rows : events[r].state # "none" =>
    /\ events[r].targets = plans[r].targets
    /\ events[r].versions \subseteq plans[r].targets
    /\ \A t \in plans[r].targets \ events[r].versions :
         /\ t \in Knowledge
         /\ \E q \in Rows \ {r} : q[1] = r[1] /\ NamedBy(t, q)
    /\ events[r].state = "deleted" => Deletable(events[r])

IInv ==
  /\ TypeOK
  /\ ExecutedOnce
  /\ TargetsStand
  /\ CachedIsDone
  /\ ToldIsDone
  /\ DeletedByPlan
  /\ EventsTell

===============================================================================
