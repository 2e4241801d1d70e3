-------------------------- MODULE ForgetPlanProofs --------------------------
(***************************************************************************)
(* For every set of users, memories, plan ids and keys, every lifetime of  *)
(* credentials and cache rows and every bound: a plan is carried out at    *)
(* most once and completely, executions are answered with the truth, an    *)
(* event its consumer refuses is of an empty or an overlapping plan, and   *)
(* preview and execution implement the promise of ForgetPromise.  And for  *)
(* every sealed database and every set of samples: an evaluation of        *)
(* forgetting that passes stands on proofs and on what was approved.       *)
(***************************************************************************)
EXTENDS ForgetPlan, FormalEval, TLAPS

USE OwnerAssumption, TimeAssumption

-----------------------------------------------------------------------------
(* The operators of the handlers *)

\* A resolver returns rows of the user that exist.
LEMMA ResolutionFacts ==
  ASSUME TypeOK, NEW u \in Users, NEW mode \in ForgetModes, NEW type \in TargetTypes,
         Previewable(mode, type), NEW S \in Resolutions(u, mode, type)
  PROVE  S \in SUBSET Memories /\ \A t \in S : Owner[t] = u /\ Present(t)
<1>1. \A t \in Memories : Visible(t) => Present(t)
  BY DEF Visible, Present, Memories
<1>2. CASE S \in SingleKnowledge(u)
  BY <1>1, <1>2 DEF SingleKnowledge, Own, Memories
<1>3. CASE S \in SinglePreference(u)
  BY <1>3 DEF SinglePreference, Own, Memories, Present
<1>4. CASE S \in ScopedKnowledge(u)
  BY <1>1, <1>4 DEF ScopedKnowledge, Own, Memories
<1>5. CASE S = FullReset(u)
  BY <1>1, <1>5 DEF FullReset, Own, Memories
<1>6. QED
  BY <1>2, <1>3, <1>4, <1>5 DEF Resolutions, Previewable

\* Every target of a plan counts as executed, so an execution completes.
LEMMA ExecutionCompletes ==
  ASSUME TypeOK, TargetsStand, NEW r \in Rows
  PROVE  Executed(Forgotten(r)) = plans[r].targets /\ TerminalStatus(r) = "completed"
<1>1. plans[r].targets \subseteq Memories
  BY DEF TypeOK, Plan, NoPlan
<1>2. ASSUME NEW t \in plans[r].targets
      PROVE  IF t \in Knowledge THEN Deletes(t) \/ entries[t].status = "deleted"
                                ELSE prefs[t].status # "absent"
  BY <1>1 DEF TargetsStand, Present, Deletes, TypeOK, Entry, Memories
<1>3. Executed(Forgotten(r)) = plans[r].targets
  BY <1>2 DEF Executed, Forgotten
<1>4. QED
  BY <1>3 DEF TerminalStatus

\* What SoftDelete leaves of the rows: nothing that existed ceases to, what is
\* named and visible disappears, and nothing else changes its status.
LEMMA SoftDeleteFacts ==
  ASSUME TypeOK, NEW S \in SUBSET Memories, SoftDelete(S)
  PROVE  /\ entries' \in [Knowledge -> Entry]
         /\ prefs' \in [Preferences -> Pref]
         /\ \A t \in Memories : Present(t) => Present(t)'
         /\ \A t \in Memories : Visible(t)' <=> Visible(t) /\ t \notin S
         /\ \A t \in Knowledge : entries'[t].status = "deleted" =>
              entries[t].status = "deleted" \/ t \in S
<1>1. ASSUME NEW t \in Knowledge
      PROVE  /\ entries'[t] \in Entry
             /\ entries'[t].status = IF t \in S /\ entries[t].status = "live" THEN "deleted"
                                     ELSE entries[t].status
  <2>1. entries[t] \in Entry
    BY DEF TypeOK
  <2>2. entries'[t] = IF t \in S /\ entries[t].status = "live"
                      THEN [entries[t] EXCEPT !.status = "deleted",
                                              !.revision = entries[t].revision + 1]
                      ELSE entries[t]
    BY DEF SoftDelete, Deletes
  <2>3. ASSUME NEW e \in Entry
        PROVE  LET d == [e EXCEPT !.status = "deleted", !.revision = e.revision + 1]
               IN  d \in Entry /\ d.status = "deleted"
    <3>1. e.revision + 1 \in Nat
      BY DEF Entry
    <3>2. QED
      BY <3>1, Zenon DEF Entry
  <2>4. QED
    BY <2>1, <2>2, <2>3
<1>2. ASSUME NEW t \in Preferences
      PROVE  /\ prefs'[t] \in Pref
             /\ prefs'[t].status = IF t \in S /\ prefs[t].status = "active" THEN "removed"
                                   ELSE prefs[t].status
  <2>1. prefs[t] \in Pref
    BY DEF TypeOK
  <2>2. prefs'[t] = IF t \in S /\ prefs[t].status = "active"
                    THEN [status |-> "removed", version |-> prefs[t].version + 1]
                    ELSE prefs[t]
    BY DEF SoftDelete
  <2>3. QED
    BY <2>1, <2>2 DEF Pref
<1>3. entries' \in [Knowledge -> Entry] /\ prefs' \in [Preferences -> Pref]
  BY <1>1, <1>2 DEF SoftDelete
<1>4. \A t \in Memories : Present(t) => Present(t)'
  BY <1>1, <1>2 DEF Present, Memories
<1>5. \A t \in Memories : Visible(t)' <=> Visible(t) /\ t \notin S
  BY <1>1, <1>2 DEF Visible, Memories
<1>6. QED
  BY <1>1, <1>3, <1>4, <1>5

-----------------------------------------------------------------------------
(* Every step preserves the invariant *)

\* The empty tables satisfy the invariant.
LEMMA InitEstablishes == Init => IInv
<1> SUFFICES ASSUME Init PROVE IInv
  OBVIOUS
<1> USE DEF Init
<1>1. TypeOK
  BY DEF TypeOK, Entry, Pref, CacheEntry, NoEntry, Responses, Event, NoEvent
<1>2. ExecutedOnce /\ TargetsStand /\ EventsTell
  BY DEF ExecutedOnce, TargetsStand, EventsTell, NoPlan, NoEvent
<1>3. CachedIsDone
  BY DEF CachedIsDone, NoEntry
<1>4. ToldIsDone /\ DeletedByPlan
  BY DEF ToldIsDone, DeletedByPlan
<1>5. QED
  BY <1>1, <1>2, <1>3, <1>4 DEF IInv

\* A preview adds a plan that was not there, with targets that exist.
LEMMA PreviewPreserves ==
  ASSUME IInv, NEW u \in Users, NEW x \in Keys, NEW p \in PlanIds, Preview(u, x, p)
  PROVE  IInv'
<1> DEFINE r == <<u, p>>
<1>1. PICK mode \in ForgetModes, type \in TargetTypes, soft \in BOOLEAN :
        /\ Previewable(mode, type)
        /\ \E S \in Resolutions(u, mode, type) :
             plans' = [plans EXCEPT ![r] = Previewed(type, soft, S)]
  BY DEF Preview
<1>2. PICK S \in Resolutions(u, mode, type) :
        plans' = [plans EXCEPT ![r] = Previewed(type, soft, S)]
  BY <1>1
<1>3. S \in SUBSET Memories /\ \A t \in S : Owner[t] = u /\ Present(t)
  BY <1>1, ResolutionFacts DEF IInv
<1>4. Previewed(type, soft, S) \in Plan
  BY <1>3 DEF Previewed, Plan, IInv, TypeOK
<1>5. r \in Rows /\ plans[r] = NoPlan /\ r[1] = u
  BY DEF Preview, Rows
<1>6. /\ plans'[r].status = "awaiting_confirmation" /\ plans'[r].targets = S
      /\ \A q \in Rows : q # r => plans'[q] = plans[q]
  BY <1>2, <1>5 DEF IInv, TypeOK, Previewed
<1>7. \A q \in Rows : plans[q].status = "completed" =>
        plans'[q].status = "completed" /\ plans'[q].targets = plans[q].targets
  BY <1>5, <1>6 DEF NoPlan
<1>8. /\ UNCHANGED <<entries, prefs, audits, events, told, clock>>
      /\ held' \in {held, held \cup {r}}
      /\ cache' = [cache EXCEPT ![<<u, x>>] =
                     [request |-> <<"forget.preview", p>>, plan |-> p,
                      response |-> "awaiting_confirmation", expires |-> clock + KeyTTL]]
  BY DEF Preview, storeVars
<1>9. TypeOK'
  <2>1. plans' \in [Rows -> Plan \cup {NoPlan}]
    BY <1>2, <1>4 DEF IInv, TypeOK
  <2>2. cache' \in [Users \X Keys -> CacheEntry]
    <3>1. [request |-> <<"forget.preview", p>>, plan |-> p,
           response |-> "awaiting_confirmation", expires |-> clock + KeyTTL] \in CacheEntry
      BY DEF CacheEntry, Fingerprints, Responses, IInv, TypeOK
    <3>2. QED
      BY <1>8, <3>1 DEF IInv, TypeOK
  <2>3. QED
    BY <1>5, <1>8, <2>1, <2>2 DEF IInv, TypeOK
<1>10. ExecutedOnce'
  BY <1>5, <1>6, <1>8 DEF IInv, ExecutedOnce, NoPlan
<1>11. TargetsStand'
  BY <1>3, <1>5, <1>6, <1>8 DEF IInv, TargetsStand, Present
<1>12. CachedIsDone'
  <2>1. ASSUME NEW v \in Users, NEW y \in Keys, NEW o \in PlanIds,
               cache'[<<v, y>>].request = <<"forget.execute", o>>
        PROVE  cache'[<<v, y>>] = cache[<<v, y>>]
    BY <1>8, <2>1 DEF IInv, TypeOK
  <2>2. ASSUME NEW v \in Users, NEW y \in Keys, NEW o \in PlanIds,
               cache'[<<v, y>>].request = <<"forget.execute", o>>
        PROVE  cache'[<<v, y>>].response = "completed" /\ plans'[<<v, o>>].status = "completed"
    <3>1. /\ cache[<<v, y>>].response = "completed" /\ plans[<<v, o>>].status = "completed"
          /\ <<v, o>> \in Rows
      BY <2>1, <2>2 DEF IInv, CachedIsDone, Rows
    <3>2. QED
      BY <1>7, <2>1, <2>2, <3>1
  <2>3. QED
    BY <2>2 DEF CachedIsDone
<1>13. ToldIsDone' /\ DeletedByPlan'
  BY <1>7, <1>8 DEF IInv, ToldIsDone, DeletedByPlan, NamedBy
<1>14. EventsTell'
  <2>1. events[r].state = "none"
    BY <1>5 DEF IInv, ExecutedOnce, NoPlan, TypeOK
  <2>2. ASSUME NEW q \in Rows, events'[q].state # "none"
        PROVE  q # r /\ plans'[q] = plans[q] /\ events'[q] = events[q]
    BY <1>6, <1>8, <2>1, <2>2
  <2>3. QED
    BY <1>7, <2>2 DEF IInv, EventsTell, NamedBy, Deletable
<1>15. QED
  BY <1>9, <1>10, <1>11, <1>12, <1>13, <1>14 DEF IInv

\* An execution closes one plan that was awaiting confirmation; its targets
\* disappear, and one audit row and one event are left.
LEMMA ExecutePreserves ==
  ASSUME IInv, NEW u \in Users, NEW x \in Keys, NEW p \in PlanIds, NEW token \in Rows,
         Execute(u, x, p, token)
  PROVE  IInv'
<1> DEFINE r == <<u, p>>
           S == plans[r].targets
<1>1. /\ r \in Rows /\ r[1] = u
      /\ plans[r].status = "awaiting_confirmation"
      /\ plans[r] \in Plan
  BY DEF Execute, TokenAccepted, Rows, IInv, TypeOK, NoPlan
<1>2. S \in SUBSET Memories /\ SoftDelete(S) /\ TerminalStatus(r) = "completed"
  BY <1>1, ExecutionCompletes DEF Execute, Forgotten, IInv, Plan
<1>3. /\ plans'[r].status = "completed" /\ plans'[r].targets = S /\ plans'[r] \in Plan
      /\ \A q \in Rows : q # r => plans'[q] = plans[q]
      /\ plans' \in [Rows -> Plan \cup {NoPlan}]
  <2>1. plans' = [plans EXCEPT ![r] = [plans[r] EXCEPT !.status = "completed",
                                                       !.tokenLive = FALSE]]
    BY <1>2 DEF Execute, Closed
  <2>2. [plans[r] EXCEPT !.status = "completed", !.tokenLive = FALSE] \in Plan
    BY <1>1 DEF Plan
  <2>3. QED
    BY <1>1, <2>1, <2>2 DEF IInv, TypeOK, Plan
<1>4. \A q \in Rows : plans'[q].targets = plans[q].targets
                      /\ (plans[q].status = "completed" => plans'[q].status = "completed")
  BY <1>1, <1>3
<1>5. /\ audits[r] = 0 /\ audits' = [audits EXCEPT ![r] = @ + 1]
      /\ events' = [events EXCEPT ![r] = [targets |-> S, versions |-> Versioned(S),
                                          state |-> "pending"]]
      /\ cache' = [cache EXCEPT ![<<u, x>>] =
                     [request |-> <<"forget.execute", p>>, plan |-> p,
                      response |-> "completed", expires |-> clock + KeyTTL]]
      /\ told' \in {told, told \cup {<<r, "completed">>}}
      /\ UNCHANGED <<held, clock>>
  BY <1>1, <1>2 DEF Execute, Audited, Forgotten, IInv, ExecutedOnce
<1>6. /\ entries' \in [Knowledge -> Entry] /\ prefs' \in [Preferences -> Pref]
      /\ \A t \in Memories : Present(t) => Present(t)'
      /\ \A t \in Knowledge : entries'[t].status = "deleted" =>
           entries[t].status = "deleted" \/ t \in S
  BY <1>2, SoftDeleteFacts DEF IInv
<1>7. \A q \in Rows, t \in Memories : NamedBy(t, q) => NamedBy(t, q)'
  BY <1>4 DEF NamedBy
<1>8. \A t \in S : NamedBy(t, r)'
  BY <1>3 DEF NamedBy
<1>9. Versioned(S) \in SUBSET S
  BY DEF Versioned
<1>10. TypeOK'
  <2>1. [request |-> <<"forget.execute", p>>, plan |-> p,
         response |-> "completed", expires |-> clock + KeyTTL] \in CacheEntry
    BY DEF CacheEntry, Fingerprints, Responses, IInv, TypeOK
  <2>2. [targets |-> S, versions |-> Versioned(S), state |-> "pending"] \in Event
    BY <1>2, <1>9 DEF Event
  <2>3. events' \in [Rows -> Event]
    BY <1>1, <1>5, <2>2 DEF IInv, TypeOK
  <2>4. cache' \in [Users \X Keys -> CacheEntry]
    BY <1>5, <2>1 DEF IInv, TypeOK
  <2>5. audits' \in [Rows -> Nat]
    BY <1>1, <1>5 DEF IInv, TypeOK
  <2>6. QED
    BY <1>3, <1>5, <1>6, <2>3, <2>4, <2>5 DEF IInv, TypeOK
<1>11. ExecutedOnce'
  <2>1. ASSUME NEW q \in Rows, q # r
        PROVE  plans'[q] = plans[q] /\ audits'[q] = audits[q] /\ events'[q] = events[q]
    BY <1>3, <1>5, <2>1 DEF IInv, TypeOK
  <2>2. audits'[r] = 1 /\ events'[r].state = "pending"
    BY <1>1, <1>5 DEF IInv, TypeOK
  <2>3. QED
    BY <1>3, <2>1, <2>2 DEF IInv, ExecutedOnce
<1>12. TargetsStand'
  <2>1. \A q \in Rows : plans[q].targets \subseteq Memories
    BY DEF IInv, TypeOK, Plan, NoPlan
  <2>2. QED
    BY <1>4, <1>6, <2>1 DEF IInv, TargetsStand
<1>13. CachedIsDone'
  <2>1. ASSUME NEW v \in Users, NEW y \in Keys, NEW o \in PlanIds,
               cache'[<<v, y>>].request = <<"forget.execute", o>>
        PROVE  cache'[<<v, y>>].response = "completed" /\ plans'[<<v, o>>].status = "completed"
    <3>1. <<v, o>> \in Rows /\ <<v, y>> \in Users \X Keys
      BY DEF Rows
    <3>2. CASE v = u /\ y = x
      <4>1. cache'[<<v, y>>].request = <<"forget.execute", p>>
            /\ cache'[<<v, y>>].response = "completed"
        BY <1>5, <3>1, <3>2 DEF IInv, TypeOK
      <4>2. o = p
        BY <2>1, <4>1
      <4>3. QED
        BY <1>3, <3>2, <4>1, <4>2
    <3>3. CASE ~(v = u /\ y = x)
      <4>1. cache'[<<v, y>>] = cache[<<v, y>>]
        BY <1>5, <3>1, <3>3 DEF IInv, TypeOK
      <4>2. cache[<<v, y>>].response = "completed" /\ plans[<<v, o>>].status = "completed"
        BY <2>1, <4>1 DEF IInv, CachedIsDone
      <4>3. QED
        BY <1>4, <3>1, <4>1, <4>2
    <3>4. QED
      BY <3>2, <3>3
  <2>2. QED
    BY <2>1 DEF CachedIsDone
<1>14. ToldIsDone'
  BY <1>1, <1>3, <1>4, <1>5 DEF IInv, ToldIsDone
<1>15. DeletedByPlan'
  <2>1. ASSUME NEW t \in Knowledge, entries'[t].status = "deleted"
        PROVE  \E q \in Rows : q[1] = Owner[t] /\ NamedBy(t, q)'
    <3>1. t \in Memories
      BY DEF Memories
    <3>2. CASE entries[t].status = "deleted"
      BY <1>7, <3>1, <3>2 DEF IInv, DeletedByPlan
    <3>3. CASE t \in S
      <4>1. Owner[t] = r[1]
        BY <1>1, <3>3 DEF IInv, TargetsStand
      <4>2. QED
        BY <1>1, <1>8, <3>3, <4>1
    <3>4. QED
      BY <1>6, <2>1, <3>2, <3>3
  <2>2. QED
    BY <2>1 DEF DeletedByPlan
<1>16. EventsTell'
  <2>1. ASSUME NEW q \in Rows, q # r, events'[q].state # "none"
        PROVE  /\ events'[q] = events[q] /\ events[q].state # "none"
               /\ plans'[q].targets = plans[q].targets
    BY <1>4, <1>5, <2>1 DEF IInv, TypeOK
  <2>2. ASSUME NEW t \in S \ Versioned(S)
        PROVE  /\ t \in Knowledge
               /\ \E q \in Rows \ {r} : q[1] = r[1] /\ NamedBy(t, q)'
    <3>1. Present(t) /\ Owner[t] = r[1] /\ t \in Memories
      BY <1>1, <1>2 DEF IInv, TargetsStand
    <3>2. t \in Knowledge /\ entries[t].status = "deleted"
      BY <3>1 DEF Versioned, Present, IInv, TypeOK, Entry
    <3>3. PICK q \in Rows : q[1] = Owner[t] /\ NamedBy(t, q)
      BY <3>2 DEF IInv, DeletedByPlan
    <3>4. q # r
      BY <1>1, <3>3 DEF NamedBy
    <3>5. QED
      BY <1>7, <3>1, <3>2, <3>3, <3>4
  <2>3. /\ events'[r].targets = S /\ events'[r].versions = Versioned(S)
        /\ events'[r].state = "pending"
    BY <1>1, <1>5 DEF IInv, TypeOK
  <2>4. \A q \in Rows : plans[q].targets \subseteq Memories
    BY DEF IInv, TypeOK, Plan, NoPlan
  <2>5. ASSUME NEW q \in Rows, events'[q].state # "none"
        PROVE  /\ events'[q].targets = plans'[q].targets
               /\ events'[q].versions \subseteq plans'[q].targets
               /\ \A t \in plans'[q].targets \ events'[q].versions :
                    /\ t \in Knowledge
                    /\ \E o \in Rows \ {q} : o[1] = q[1] /\ NamedBy(t, o)'
               /\ events'[q].state = "deleted" => Deletable(events'[q])
    <3>1. CASE q = r
      BY <1>3, <1>9, <2>2, <2>3, <3>1
    <3>2. CASE q # r
      BY <1>7, <2>1, <2>4, <2>5, <3>2 DEF IInv, EventsTell
    <3>3. QED
      BY <3>1, <3>2
  <2>6. QED
    BY <2>5 DEF EventsTell
<1>17. QED
  BY <1>10, <1>11, <1>12, <1>13, <1>14, <1>15, <1>16 DEF IInv

\* A step that leaves plans, events, rows and cache alone keeps all of the
\* invariant that speaks of them.
LEMMA Unmoved ==
  ASSUME IInv, UNCHANGED <<entries, prefs, plans, audits, events, cache, held>>, clock' \in Nat
  PROVE  TypeOK' /\ ExecutedOnce' /\ TargetsStand' /\ CachedIsDone' /\ DeletedByPlan' /\ EventsTell'
<1>1. TypeOK'
  BY DEF IInv, TypeOK
<1>2. ExecutedOnce'
  BY DEF IInv, ExecutedOnce
<1>3. TargetsStand'
  BY DEF IInv, TargetsStand, Present
<1>4. CachedIsDone'
  BY DEF IInv, CachedIsDone
<1>5. DeletedByPlan'
  BY DEF IInv, DeletedByPlan, NamedBy
<1>6. EventsTell'
  BY DEF IInv, EventsTell, NamedBy, Deletable
<1>7. QED
  BY <1>1, <1>2, <1>3, <1>4, <1>5, <1>6

\* A replay repeats what the cache holds of an execution of the same plan.
LEMMA ReplayPreserves ==
  ASSUME IInv, NEW u \in Users, NEW x \in Keys, NEW p \in PlanIds, ExecuteReplay(u, x, p)
  PROVE  IInv'
<1>1. /\ UNCHANGED <<storeVars, planVars, cache, held, clock>>
      /\ told' = told \cup {<<<<u, p>>, cache[<<u, x>>].response>>}
      /\ cache[<<u, x>>].request = <<"forget.execute", p>>
  BY DEF ExecuteReplay, SameRequest
<1>2. ToldIsDone'
  BY <1>1 DEF IInv, ToldIsDone, CachedIsDone, planVars, Rows
<1>3. UNCHANGED <<entries, prefs, plans, audits, events, cache, held>> /\ clock' \in Nat
  BY <1>1 DEF storeVars, planVars, IInv, TypeOK
<1>4. QED
  BY <1>2, <1>3, Unmoved DEF IInv

\* The deletion consumer moves an event on, or raises and leaves it for another
\* attempt; only an event that makes a request is acted on.
LEMMA DeliveryPreserves ==
  ASSUME IInv, NEW r \in Rows, DeliverForget(r)
  PROVE  IInv'
<1>1. /\ UNCHANGED <<storeVars, plans, audits, cache, held, told, clock>>
      /\ events[r].state = "pending" /\ events[r] \in Event
  BY DEF DeliverForget, IInv, TypeOK
<1>2. /\ events' \in [Rows -> Event]
      /\ events'[r].targets = events[r].targets /\ events'[r].versions = events[r].versions
      /\ events'[r].state # "none"
      /\ events'[r].state = "deleted" => Deletable(events[r])
      /\ \A q \in Rows : q # r => events'[q] = events[q]
  <2>1. PICK reached \in {"pending", "dead", "deleted"} :
          /\ events' = [events EXCEPT ![r] = [events[r] EXCEPT !.state = reached]]
          /\ reached = "deleted" => Deletable(events[r])
    BY DEF DeliverForget
  <2>2. [events[r] EXCEPT !.state = reached] \in Event
    BY <1>1, <2>1 DEF Event
  <2>3. QED
    BY <1>1, <2>1, <2>2 DEF IInv, TypeOK, Event
<1>3. Deletable(events'[r]) <=> Deletable(events[r])
  BY <1>2 DEF Deletable
<1>4. TypeOK'
  BY <1>1, <1>2 DEF storeVars, IInv, TypeOK
<1>5. ExecutedOnce'
  BY <1>1, <1>2 DEF IInv, ExecutedOnce
<1>6. TargetsStand' /\ CachedIsDone' /\ ToldIsDone' /\ DeletedByPlan'
  <2>1. UNCHANGED <<entries, prefs, plans, cache, told>>
    BY <1>1 DEF storeVars
  <2>2. TargetsStand'
    BY <2>1 DEF IInv, TargetsStand, Present
  <2>3. CachedIsDone' /\ ToldIsDone'
    BY <2>1 DEF IInv, CachedIsDone, ToldIsDone
  <2>4. DeletedByPlan'
    BY <2>1 DEF IInv, DeletedByPlan, NamedBy
  <2>5. QED
    BY <2>2, <2>3, <2>4
<1>7. EventsTell'
  <2>1. ASSUME NEW q \in Rows, events'[q].state # "none"
        PROVE  /\ events[q].state # "none"
               /\ events'[q].targets = events[q].targets /\ events'[q].versions = events[q].versions
               /\ events'[q].state = "deleted" => Deletable(events'[q])
    BY <1>1, <1>2, <1>3, <2>1 DEF IInv, EventsTell
  <2>2. QED
    BY <1>1, <2>1 DEF IInv, EventsTell, NamedBy
<1>8. QED
  BY <1>4, <1>5, <1>6, <1>7 DEF IInv

\* The other writers insert entries, move revisions and write preferences; no
\* row ceases to exist, and none is deleted.
LEMMA WritersPreserve ==
  ASSUME IInv, \/ \E t \in Knowledge : InsertKnowledge(t) \/ UpdateLifecycle(t)
               \/ \E t \in Preferences : SavePreference(t)
  PROVE  IInv'
<1>1. UNCHANGED <<planVars, cache, held, told, clock>>
  BY DEF InsertKnowledge, UpdateLifecycle, SavePreference
<1>2. /\ entries' \in [Knowledge -> Entry]
      /\ \A t \in Knowledge : /\ entries[t].status # "absent" => entries'[t].status # "absent"
                              /\ entries'[t].status = "deleted" => entries[t].status = "deleted"
  <2>1. ASSUME NEW t \in Knowledge, InsertKnowledge(t)
        PROVE  /\ entries' \in [Knowledge -> Entry]
               /\ \A k \in Knowledge : entries'[k] = entries[k] \/ entries'[k].status = "live"
    BY <2>1 DEF InsertKnowledge, IInv, TypeOK, Entry
  <2>2. ASSUME NEW t \in Knowledge, UpdateLifecycle(t)
        PROVE  /\ entries' \in [Knowledge -> Entry]
               /\ \A k \in Knowledge : entries'[k] = entries[k] \/ entries'[k].status = "live"
    <3>1. entries[t] \in Entry /\ entries[t].status = "live"
      BY <2>2 DEF UpdateLifecycle, IInv, TypeOK
    <3>2. LET e == [entries[t] EXCEPT !.revision = entries[t].revision + 1]
          IN  e \in Entry /\ e.status = "live" /\ entries' = [entries EXCEPT ![t] = e]
      BY <2>2, <3>1 DEF UpdateLifecycle, Entry
    <3>3. QED
      BY <3>2 DEF IInv, TypeOK
  <2>3. ASSUME NEW t \in Preferences, SavePreference(t)
        PROVE  entries' = entries
    BY <2>3 DEF SavePreference
  <2>4. QED
    BY <2>1, <2>2, <2>3 DEF IInv, TypeOK
<1>3. /\ prefs' \in [Preferences -> Pref]
      /\ \A t \in Preferences : prefs[t].status # "absent" => prefs'[t].status # "absent"
  <2>1. ASSUME NEW t \in Preferences, SavePreference(t)
        PROVE  /\ prefs' \in [Preferences -> Pref]
               /\ \A q \in Preferences : prefs'[q] = prefs[q] \/ prefs'[q].status = "active"
    BY <2>1 DEF SavePreference, IInv, TypeOK, Pref
  <2>2. ASSUME NEW t \in Knowledge, InsertKnowledge(t) \/ UpdateLifecycle(t)
        PROVE  prefs' = prefs
    BY <2>2 DEF InsertKnowledge, UpdateLifecycle
  <2>3. QED
    BY <2>1, <2>2 DEF IInv, TypeOK
<1>4. TypeOK'
  BY <1>1, <1>2, <1>3 DEF planVars, IInv, TypeOK
<1>5. TargetsStand'
  <2>1. \A r \in Rows : plans[r].targets \subseteq Memories
    BY DEF IInv, TypeOK, Plan, NoPlan
  <2>2. QED
    BY <1>1, <1>2, <1>3, <2>1 DEF planVars, IInv, TargetsStand, Present, Memories
<1>6. DeletedByPlan'
  BY <1>1, <1>2 DEF planVars, IInv, DeletedByPlan, NamedBy
<1>7. ExecutedOnce' /\ CachedIsDone' /\ ToldIsDone' /\ EventsTell'
  <2>1. UNCHANGED <<plans, audits, events, cache, told>>
    BY <1>1 DEF planVars
  <2>2. ExecutedOnce'
    BY <2>1 DEF IInv, ExecutedOnce
  <2>3. CachedIsDone' /\ ToldIsDone'
    BY <2>1 DEF IInv, CachedIsDone, ToldIsDone
  <2>4. EventsTell'
    BY <2>1 DEF IInv, EventsTell, NamedBy, Deletable
  <2>5. QED
    BY <2>2, <2>3, <2>4
<1>8. QED
  BY <1>4, <1>5, <1>6, <1>7 DEF IInv

\* Every step of the service preserves it.
LEMMA StepPreserves == IInv /\ [Next]_vars => IInv'
<1> SUFFICES ASSUME IInv, [Next]_vars PROVE IInv'
  OBVIOUS
<1>1. CASE \E u \in Users, x \in Keys, p \in PlanIds : Preview(u, x, p)
  BY <1>1, PreviewPreserves
<1>2. CASE \E u \in Users, x \in Keys, p \in PlanIds, token \in Rows : Execute(u, x, p, token)
  BY <1>2, ExecutePreserves
<1>3. CASE \E u \in Users, x \in Keys, p \in PlanIds : ExecuteReplay(u, x, p)
  BY <1>3, ReplayPreserves
<1>4. CASE \E r \in Rows : DeliverForget(r)
  BY <1>4, DeliveryPreserves
<1>5. CASE \/ \E t \in Knowledge : InsertKnowledge(t) \/ UpdateLifecycle(t)
           \/ \E t \in Preferences : SavePreference(t)
  BY <1>5, WritersPreserve
<1>6. CASE Tick \/ UNCHANGED vars
  <2>1. /\ UNCHANGED <<entries, prefs, plans, audits, events, cache, held, told>>
        /\ clock' \in Nat
    BY <1>6 DEF Tick, vars, storeVars, planVars, IInv, TypeOK
  <2>2. ToldIsDone'
    BY <2>1 DEF IInv, ToldIsDone
  <2>3. QED
    BY <2>1, <2>2, Unmoved DEF IInv
<1>7. QED
  BY <1>1, <1>2, <1>3, <1>4, <1>5, <1>6 DEF Next

-----------------------------------------------------------------------------
(* The theorems *)

\* The inductive invariant holds in every reachable state.
THEOREM Invariance == Spec => []IInv
<1>1. Init => IInv
  BY InitEstablishes
<1>2. IInv /\ [Next]_vars => IInv'
  BY StepPreserves
<1>3. QED
  BY <1>1, <1>2, PTL DEF Spec

\* Plans, cache rows, events and the rows they name keep their types.
THEOREM TypeCorrect == Spec => []TypeOK
<1>1. IInv => TypeOK
  BY DEF IInv
<1>2. QED
  BY <1>1, Invariance, PTL

\* execute_forget_plan carries a plan out at most once, with one audit row and
\* one event, and never half-way.
THEOREM OnceOnly == Spec => []ExecutedOnce
<1>1. IInv => ExecutedOnce
  BY DEF IInv
<1>2. QED
  BY <1>1, Invariance, PTL

\* What an execution is answered, fresh or from the cache, holds of its plan.
THEOREM TruthTold == Spec => []AnswersAreTrue
<1>1. IInv => AnswersAreTrue
  BY DEF IInv, ToldIsDone, AnswersAreTrue
<1>2. QED
  BY <1>1, Invariance, PTL

\* The event of a plan makes a delete request, unless the plan was empty:
\* versions are missing only for what another plan deleted.
THEOREM RefusalsExplained == Spec => []RefusedOnlyAfterOverlap
<1>1. ASSUME IInv PROVE RefusedOnlyAfterOverlap
  <2>1. SUFFICES ASSUME NEW r \in Rows, events[r].state # "none", ~Deletable(events[r]),
                        plans[r].targets # {}
                 PROVE  \E q \in Rows \ {r} :
                          /\ q[1] = r[1]
                          /\ plans[q].status = "completed"
                          /\ plans[q].targets \cap plans[r].targets \cap Knowledge # {}
    BY DEF RefusedOnlyAfterOverlap
  <2>2. /\ events[r].targets = plans[r].targets
        /\ events[r].versions \subseteq plans[r].targets
        /\ ~Deletable(events[r])
    BY <1>1, <2>1 DEF IInv, EventsTell
  <2>3. events[r].versions # plans[r].targets
    BY <2>1, <2>2 DEF Deletable
  <2>4. PICK t \in plans[r].targets : t \notin events[r].versions
    BY <2>2, <2>3
  <2>5. t \in Knowledge /\ \E q \in Rows \ {r} : q[1] = r[1] /\ NamedBy(t, q)
    BY <1>1, <2>1, <2>4 DEF IInv, EventsTell
  <2>6. QED
    BY <2>4, <2>5 DEF NamedBy
<1>2. QED
  BY <1>1, Invariance, PTL

-----------------------------------------------------------------------------
(* Refinement *)

\* The refinement mapping of Promise.
visibleNow == {t \in Memories : Visible(t)}
snapshotNow == [r \in {s \in Rows : plans[s] # NoPlan} |-> plans[r].targets]
doneNow == {r \in Rows : plans[r].status = "completed"}

\* A preview freezes the set it resolves.
LEMMA PreviewFreezes ==
  ASSUME IInv, NEW u \in Users, NEW x \in Keys, NEW p \in PlanIds, Preview(u, x, p)
  PROVE  Promise!PromiseNext
<1> DEFINE r == <<u, p>>
<1>1. PICK mode \in ForgetModes, type \in TargetTypes, soft \in BOOLEAN :
        /\ Previewable(mode, type)
        /\ \E S \in Resolutions(u, mode, type) :
             plans' = [plans EXCEPT ![r] = Previewed(type, soft, S)]
  BY DEF Preview
<1>2. PICK S \in Resolutions(u, mode, type) :
        plans' = [plans EXCEPT ![r] = Previewed(type, soft, S)]
  BY <1>1
<1>3. r \in Rows /\ plans[r] = NoPlan /\ S \in SUBSET Memories
  BY <1>1, ResolutionFacts DEF Preview, Rows, IInv
<1>4. /\ plans'[r].status = "awaiting_confirmation" /\ plans'[r].targets = S
      /\ plans'[r] # NoPlan
      /\ \A q \in Rows : q # r => plans'[q] = plans[q]
  BY <1>2, <1>3 DEF IInv, TypeOK, Previewed, NoPlan
<1>5. r \notin DOMAIN snapshotNow /\ DOMAIN snapshotNow' = DOMAIN snapshotNow \cup {r}
  BY <1>3, <1>4 DEF snapshotNow
<1>6. /\ snapshotNow' \in [DOMAIN snapshotNow' -> SUBSET Memories]
      /\ \A q \in DOMAIN snapshotNow : snapshotNow'[q] = snapshotNow[q]
  <2>1. \A q \in Rows : plans[q].targets \in SUBSET Memories
    BY DEF IInv, TypeOK, Plan, NoPlan
  <2>2. \A q \in Rows : plans'[q].targets \in SUBSET Memories
    BY <1>3, <1>4, <2>1
  <2>3. QED
    BY <1>3, <1>4, <2>2 DEF snapshotNow
<1>7. visibleNow' = visibleNow /\ doneNow' = doneNow
  <2>1. UNCHANGED <<entries, prefs>>
    BY DEF Preview, storeVars
  <2>2. QED
    BY <1>3, <1>4, <2>1 DEF visibleNow, doneNow, Visible, NoPlan
<1>8. Promise!Freeze(r)
  BY <1>5, <1>6, <1>7 DEF Promise!Freeze, visibleNow, snapshotNow, doneNow
<1>9. QED
  BY <1>3, <1>8 DEF Promise!PromiseNext

\* An execution carries its plan out: what it froze disappears, and only that.
LEMMA ExecuteCarriesOut ==
  ASSUME IInv, NEW u \in Users, NEW x \in Keys, NEW p \in PlanIds, NEW token \in Rows,
         Execute(u, x, p, token)
  PROVE  Promise!PromiseNext
<1> DEFINE r == <<u, p>>
<1>1. /\ r \in Rows
      /\ plans[r].status = "awaiting_confirmation" /\ plans[r] \in Plan
      /\ plans[r] # NoPlan
  BY DEF Execute, TokenAccepted, Rows, IInv, TypeOK, NoPlan
<1>2. plans[r].targets \in SUBSET Memories /\ SoftDelete(plans[r].targets)
      /\ TerminalStatus(r) = "completed"
  BY <1>1, ExecutionCompletes DEF Execute, Forgotten, IInv, Plan
<1>3. /\ plans'[r].status = "completed" /\ plans'[r].targets = plans[r].targets
      /\ plans'[r] # NoPlan
      /\ \A q \in Rows : q # r => plans'[q] = plans[q]
  <2>1. plans' = [plans EXCEPT ![r] = [plans[r] EXCEPT !.status = "completed",
                                                       !.tokenLive = FALSE]]
    BY <1>2 DEF Execute, Closed
  <2>2. QED
    BY <1>1, <2>1 DEF IInv, TypeOK, Plan, NoPlan
<1>4. visibleNow' = visibleNow \ plans[r].targets
  BY <1>2, SoftDeleteFacts DEF visibleNow, IInv
<1>5. r \in DOMAIN snapshotNow /\ snapshotNow' = snapshotNow /\ snapshotNow[r] = plans[r].targets
  BY <1>1, <1>3 DEF snapshotNow
<1>6. r \notin doneNow /\ doneNow' = doneNow \cup {r}
  BY <1>1, <1>3 DEF doneNow
<1>7. Promise!CarryOut(r)
  BY <1>4, <1>5, <1>6 DEF Promise!CarryOut, visibleNow, snapshotNow, doneNow
<1>8. QED
  BY <1>1, <1>7 DEF Promise!PromiseNext

\* Another writer adds one memory or changes nothing that is visible.
LEMMA WritersWrite ==
  ASSUME IInv, \/ \E t \in Knowledge : InsertKnowledge(t) \/ UpdateLifecycle(t)
               \/ \E t \in Preferences : SavePreference(t)
  PROVE  Promise!PromiseNext \/ UNCHANGED <<visibleNow, snapshotNow, doneNow>>
<1>1. plans' = plans /\ snapshotNow' = snapshotNow /\ doneNow' = doneNow
  BY DEF InsertKnowledge, UpdateLifecycle, SavePreference, planVars, snapshotNow, doneNow
<1>2. ASSUME NEW t \in Knowledge, InsertKnowledge(t)
      PROVE  visibleNow' = visibleNow \cup {t} /\ t \in Memories
  <2>1. \A m \in Memories : Visible(m)' <=> Visible(m) \/ m = t
    BY <1>2 DEF InsertKnowledge, Visible, Memories, IInv, TypeOK
  <2>2. QED
    BY <2>1 DEF visibleNow, Memories
<1>3. ASSUME NEW t \in Knowledge, UpdateLifecycle(t)
      PROVE  visibleNow' = visibleNow
  <2>1. entries[t] \in Entry /\ prefs' = prefs
    BY <1>3 DEF UpdateLifecycle, IInv, TypeOK
  <2>2. entries' = [entries EXCEPT ![t] = [entries[t] EXCEPT !.revision = entries[t].revision + 1]]
    BY <1>3 DEF UpdateLifecycle
  <2>3. \A k \in Knowledge : entries'[k].status = entries[k].status
    BY <2>1, <2>2 DEF IInv, TypeOK, Entry
  <2>4. QED
    BY <2>1, <2>3 DEF visibleNow, Visible
<1>4. ASSUME NEW t \in Preferences, SavePreference(t)
      PROVE  visibleNow' = visibleNow \cup {t} /\ t \in Memories
  <2>1. \A m \in Memories : Visible(m)' <=> Visible(m) \/ m = t
    BY <1>4 DEF SavePreference, Visible, Memories, IInv, TypeOK
  <2>2. QED
    BY <2>1 DEF visibleNow, Memories
<1>5. ASSUME NEW t \in Memories, visibleNow' = visibleNow \cup {t}
      PROVE  Promise!PromiseNext
  BY <1>1, <1>5 DEF Promise!PromiseNext, Promise!Write, visibleNow, snapshotNow, doneNow
<1>6. QED
  BY <1>1, <1>2, <1>3, <1>4, <1>5

\* Every step of preview and execution is a step of the promise or a stutter.
LEMMA StepRefines ==
  IInv /\ [Next]_vars => Promise!PromiseNext \/ UNCHANGED <<visibleNow, snapshotNow, doneNow>>
<1> SUFFICES ASSUME IInv, [Next]_vars
             PROVE  Promise!PromiseNext \/ UNCHANGED <<visibleNow, snapshotNow, doneNow>>
  OBVIOUS
<1>1. CASE \E u \in Users, x \in Keys, p \in PlanIds : Preview(u, x, p)
  BY <1>1, PreviewFreezes
<1>2. CASE \E u \in Users, x \in Keys, p \in PlanIds, token \in Rows : Execute(u, x, p, token)
  BY <1>2, ExecuteCarriesOut
<1>3. CASE \/ \E t \in Knowledge : InsertKnowledge(t) \/ UpdateLifecycle(t)
           \/ \E t \in Preferences : SavePreference(t)
  BY <1>3, WritersWrite
<1>4. CASE \/ \E u \in Users, x \in Keys, p \in PlanIds : ExecuteReplay(u, x, p)
           \/ \E r \in Rows : DeliverForget(r)
           \/ Tick \/ UNCHANGED vars
  <2>1. UNCHANGED <<entries, prefs, plans>>
    BY <1>4 DEF ExecuteReplay, DeliverForget, Tick, vars, storeVars, planVars
  <2>2. QED
    BY <2>1 DEF visibleNow, snapshotNow, doneNow, Visible
<1>5. QED
  BY <1>1, <1>2, <1>3, <1>4 DEF Next

\* Preview and execution implement the promise of ForgetPromise.
THEOREM Implementation == Spec => KeepsPromise
<1>1. Init => Promise!PromiseInit
  BY DEF Init, Promise!PromiseInit, Visible, NoPlan, Memories
<1>2. IInv /\ [Next]_vars => [Promise!PromiseNext]_<<visibleNow, snapshotNow, doneNow>>
  BY StepRefines
<1>3. QED
  BY <1>1, <1>2, Invariance, PTL DEF Spec, KeepsPromise, Promise!PromiseSpec,
     Promise!promiseVars, visibleNow, snapshotNow, doneNow

-----------------------------------------------------------------------------
(* The execution of the evaluation samples                                   *)

DispatchSteps == {"observer", "preview"} \cup ForgettingSteps

\* The runtime of a dispatch under way.
LEMMA RuntimeFacts ==
    ASSUME BindingsStand, JobStands, job.step \in DispatchSteps
    PROVE  /\ job \in Dispatches /\ job.q \in Requests /\ job.sample \in ForgetSamples
           /\ job.q \in executions /\ bindings[job.q].kind = "forget"
           /\ bindings[job.q].runtimes \in [ForgetSamples -> Runtimes]
           /\ Runtime \in Runtimes /\ RuntimeStands(Runtime)
<1>1. job \in Dispatches /\ job.q \in executions /\ bindings[job.q].kind = "forget"
  BY DEF JobStands, DispatchSteps, ForgettingSteps
<1>2. job.q \in Requests /\ job.sample \in ForgetSamples
  BY <1>1 DEF Dispatches
<1>3. bindings[job.q] \in Bindings /\ \A s \in ForgetSamples : RuntimeStands(bindings[job.q].runtimes[s])
  BY <1>1, <1>2 DEF BindingsStand
<1>4. bindings[job.q] \in [kind : {"forget"}, runtimes : [ForgetSamples -> Runtimes]]
  BY <1>1, <1>3 DEF Bindings, NoBinding
<1>5. QED
  BY <1>1, <1>2, <1>3, <1>4 DEF Runtime

\* A dispatch that goes on with another state of its runtime.
LEMMA RuntimeMoves ==
    ASSUME BindingsStand, JobStands, job.step \in DispatchSteps,
           NEW rt \in Runtimes, RuntimeStands(rt),
           bindings' = [bindings EXCEPT ![job.q].runtimes[job.sample] = rt],
           UNCHANGED <<prepared, executions>>
    PROVE  /\ BindingsStand'
           /\ bindings'[job.q].kind = "forget"
           /\ bindings'[job.q].runtimes[job.sample] = rt
<1> DEFINE q == job.q  s == job.sample
           old == bindings[q]
           moved == [old.runtimes EXCEPT ![s] = rt]
           new == [old EXCEPT !.runtimes = moved]
<1>1. /\ q \in Requests /\ s \in ForgetSamples
      /\ old.kind = "forget" /\ old.runtimes \in [ForgetSamples -> Runtimes]
  BY RuntimeFacts
<1>2. bindings \in [Requests -> Bindings] /\ old \in Bindings
  BY <1>1 DEF BindingsStand
<1>3. old \in [kind : {"forget"}, runtimes : [ForgetSamples -> Runtimes]]
  BY <1>1, <1>2 DEF Bindings, NoBinding
<1>4. moved \in [ForgetSamples -> Runtimes] /\ moved[s] = rt
        /\ \A t \in ForgetSamples : t # s => moved[t] = old.runtimes[t]
  BY <1>1
<1>5. bindings' = [bindings EXCEPT ![q] = new]
  OBVIOUS
<1> HIDE DEF moved
<1>6. new.kind = "forget" /\ new.runtimes = moved
        /\ new \in [kind : {"forget"}, runtimes : [ForgetSamples -> Runtimes]]
  BY <1>3, <1>4
<1> HIDE DEF new
<1>7. bindings'[q] = new /\ bindings' \in [Requests -> Bindings]
        /\ \A p \in Requests : p # q => bindings'[p] = bindings[p]
  <2>1. new \in Bindings
    BY <1>6 DEF Bindings
  <2>2. QED
    BY <1>1, <1>2, <1>5, <2>1
<1>8. UNCHANGED <<Source, Dual, Runtimes, Bindings>>
  BY DEF Source, Dual, Runtimes, Bindings
<1>9. \A r : RuntimeStands(r)' <=> RuntimeStands(r)
  BY <1>8 DEF RuntimeStands
<1>10. \A t \in ForgetSamples : RuntimeStands(moved[t])
  BY <1>1, <1>4 DEF BindingsStand
<1>11. \A p \in Requests : bindings'[p].kind = "forget" =>
          \A t \in ForgetSamples : RuntimeStands(bindings'[p].runtimes[t])
  BY <1>6, <1>7, <1>10 DEF BindingsStand
<1>12. BindingsStand'
  BY <1>7, <1>8, <1>9, <1>11 DEF BindingsStand
<1>13. QED
  BY <1>4, <1>6, <1>7, <1>12

\* What the disk holds stands as long as it only loses what memory held.
LEMMA ReceiptsStay ==
    ASSUME ReceiptsStand, UNCHANGED <<prepared, receipts, raw>>, records' \subseteq records
    PROVE  ReceiptsStand'
<1>1. \A e : EvidenceStands(e)' <=> EvidenceStands(e)
  BY DEF EvidenceStands, TargetsProven, Cleaned, OwnDocs, Source, Dual, KnowledgeOf
<1>2. \A r : Backed(r)' <=> Backed(r)
  BY DEF Backed
<1>3. QED
  BY <1>1, <1>2 DEF ReceiptsStand

\* So do the bindings while nothing is bound.
LEMMA BindingsStay ==
    ASSUME BindingsStand, UNCHANGED <<prepared, bindings>>, executions' \subseteq Requests
    PROVE  BindingsStand'
<1>1. UNCHANGED <<Source, Dual, Runtimes, Bindings>>
  BY DEF Source, Dual, Runtimes, Bindings
<1>2. \A r : RuntimeStands(r)' <=> RuntimeStands(r)
  BY <1>1 DEF RuntimeStands
<1>3. QED
  BY <1>1, <1>2 DEF BindingsStand

LEMMA IdleStands ==
    ASSUME job' = Idle PROVE JobStands'
BY DEF JobStands, Idle

\* A step of a dispatch: what the next step may rely on.
LEMMA Continues ==
    ASSUME ExecutionInv, job.step \in DispatchSteps, UNCHANGED prepared,
           NEW rt \in Runtimes, RuntimeStands(rt), NEW then, Continue(rt, then),
           \/ then = Idle
           \/ /\ then \in Dispatches /\ then.q = job.q /\ then.sample = job.sample
              /\ then.step \in ForgettingSteps =>
                    /\ TargetsProven(then.snapshot.targets, then.proven)
                    /\ Cleaned(then.step, then.snapshot.targets, rt)
    PROVE  ExecutionInv'
<1>1. /\ BindingsStand /\ JobStands /\ ReceiptsStand
      /\ job' = then
      /\ bindings' = [bindings EXCEPT ![job.q].runtimes[job.sample] = rt]
      /\ UNCHANGED <<executions, receipts, records, raw>>
  BY DEF ExecutionInv, Continue
<1>2. /\ BindingsStand' /\ bindings'[job.q].kind = "forget"
      /\ bindings'[job.q].runtimes[job.sample] = rt
  BY <1>1, RuntimeMoves
<1>3. ReceiptsStand'
  BY <1>1, ReceiptsStay
<1>4. CASE then = Idle
  BY <1>1, <1>2, <1>3, <1>4, IdleStands DEF ExecutionInv
<1>5. CASE then # Idle
  <2>1. job.q \in executions
    BY <1>1, RuntimeFacts
  <2>2. Runtime' = rt
    BY <1>1, <1>2, <1>5 DEF Runtime
  <2>3. Dispatches' = Dispatches
    BY DEF Dispatches, Source
  <2>4. \A T, p : TargetsProven(T, p)' <=> TargetsProven(T, p)
    BY DEF TargetsProven, OwnDocs, Source, Dual, KnowledgeOf
  <2>5. \A w, T, r : Cleaned(w, T, r)' <=> Cleaned(w, T, r)
    BY DEF Cleaned, Source, Dual, KnowledgeOf
  <2>6. JobStands'
    BY <1>1, <1>2, <1>5, <2>1, <2>2, <2>3, <2>4, <2>5 DEF JobStands
  <2>7. QED
    BY <1>2, <1>3, <2>6 DEF ExecutionInv
<1>6. QED
  BY <1>4, <1>5

\* The steps of a dispatch.
LEMMA BuildPreserves == ASSUME ExecutionInv, UNCHANGED prepared, BuildObserver PROVE ExecutionInv'
<1> DEFINE rt0 == Runtime
           then == [job EXCEPT !.step = "preview", !.docs = ActiveDocs(Runtime)]
<1>1. /\ job.step = "observer" /\ job.step \in DispatchSteps
      /\ job \in Dispatches /\ rt0 \in Runtimes /\ RuntimeStands(rt0)
  BY RuntimeFacts DEF ExecutionInv, BuildObserver, At, DispatchSteps
<1>2. ActiveDocs(rt0) \in SUBSET Source
  BY <1>1 DEF ActiveDocs, Runtimes
<1>3. then \in Dispatches /\ then.q = job.q /\ then.sample = job.sample /\ then.step = "preview"
  BY <1>1, <1>2 DEF Dispatches
<1>4. FtsInitialized(rt0) \in Runtimes /\ RuntimeStands(FtsInitialized(rt0))
  BY <1>1, <1>2 DEF FtsInitialized, Runtimes, RuntimeStands
<1>5. ASSUME Dual, NEW rt \in IndexOutcomes(FtsInitialized(rt0))
      PROVE  rt \in Runtimes /\ RuntimeStands(rt)
  <2> DEFINE built == FtsInitialized(rt0)
  <2>1. PICK V \in SUBSET KnowledgeOf(ActiveDocs(built)) : \E L \in SUBSET V :
            rt = [built EXCEPT !.vector = V, !.ledger = L]
    BY <1>5 DEF IndexOutcomes
  <2>2. PICK L \in SUBSET V : rt = [built EXCEPT !.vector = V, !.ledger = L]
    BY <2>1
  <2>3. V \subseteq Source /\ L \subseteq Source
    BY <1>4, <2>1, <2>2 DEF KnowledgeOf, ActiveDocs, Runtimes
  <2> HIDE DEF built
  <2>4. rt \in Runtimes /\ rt.previewed = built.previewed /\ rt.live = built.live
    BY <1>4, <2>2, <2>3 DEF Runtimes, built
  <2>5. RuntimeStands(built)
    BY <1>4 DEF built
  <2>6. QED
    BY <1>5, <2>4, <2>5 DEF RuntimeStands
<1>6. PICK rt \in (IF Dual THEN IndexOutcomes(FtsInitialized(rt0)) ELSE {FtsInitialized(rt0)}) :
          Continue(rt, then)
  BY DEF BuildObserver
<1>7. rt \in Runtimes /\ RuntimeStands(rt)
  BY <1>4, <1>5, <1>6
<1> HIDE DEF then
<1>8. QED
  BY <1>1, <1>3, <1>6, <1>7, Continues DEF ForgettingSteps

LEMMA ProbePreserves == ASSUME ExecutionInv, UNCHANGED prepared, PreviewForget PROVE ExecutionInv'
<1> DEFINE rt == [Runtime EXCEPT !.previewed = TRUE]
<1>1. /\ job.step = "preview" /\ job.step \in DispatchSteps
      /\ job \in Dispatches /\ Runtime \in Runtimes /\ RuntimeStands(Runtime)
  BY RuntimeFacts DEF ExecutionInv, PreviewForget, At, DispatchSteps
<1>2. ~Runtime.previewed
  BY DEF PreviewForget
<1>3. /\ rt \in Runtimes /\ rt.previewed /\ rt.live = Source
      /\ rt.fts = Runtime.fts /\ rt.vector = Runtime.vector /\ RuntimeStands(rt)
  BY <1>1, <1>2 DEF Runtimes, RuntimeStands
<1>4. PICK T \in Selections(Runtime, Mode[job.sample]) :
        Continue(rt, IF ProbeHits(rt, job.docs, T) /\ SnapshotHolds(rt, Snapshot(rt, T))
                     THEN [job EXCEPT !.step = "execute", !.snapshot = Snapshot(rt, T),
                                      !.proven = [fts |-> rt.fts, vector |-> rt.vector]]
                     ELSE Idle)
  BY DEF PreviewForget
<1> DEFINE next == [job EXCEPT !.step = "execute", !.snapshot = Snapshot(rt, T),
                               !.proven = [fts |-> rt.fts, vector |-> rt.vector]]
           own == {d \in Runtime.live : d.user = Subject}
<1>5. T # {} /\ T \subseteq OwnDocs
  <2>1. own \subseteq OwnDocs /\ KnowledgeOf(own) \subseteq own
    BY <1>1 DEF OwnDocs, KnowledgeOf, Runtimes
  <2>2. T \in Selections(Runtime, Mode[job.sample]) => T # {} /\ T \subseteq own
    <3> HIDE DEF own
    <3>1. Selections(Runtime, Mode[job.sample]) =
            (CASE Mode[job.sample] = "single_item" -> {{d} : d \in KnowledgeOf(own)}
               [] Mode[job.sample] = "full_reset"  -> {own}
               [] OTHER                -> SUBSET KnowledgeOf(own)) \ {{}}
      BY DEF Selections, own
    <3>2. QED
      BY <2>1, <3>1
  <2>3. QED
    BY <1>4, <2>1, <2>2
<1> HIDE DEF rt
<1>6. Snapshot(rt, T).targets = T
      /\ Snapshot(rt, T) \in [targets : SUBSET Source, own : SUBSET Source, foreign : SUBSET Source]
  <2>1. ActiveIds(rt, Subject, Kinds(T)) \subseteq Source /\ ActiveIds(rt, ForeignUser, Kinds(T)) \subseteq Source
    BY <1>3 DEF ActiveIds
  <2>2. T \subseteq Source
    BY <1>5 DEF OwnDocs
  <2>3. QED
    BY <2>1, <2>2 DEF Snapshot
<1>7. CASE ProbeHits(rt, job.docs, T) /\ SnapshotHolds(rt, Snapshot(rt, T))
  <2>1. Continue(rt, next)
    BY <1>4, <1>7
  <2>2. rt.fts \in SUBSET Source /\ rt.vector \in SUBSET Source
    BY <1>3 DEF Runtimes
  <2>3. /\ next \in Dispatches /\ next.q = job.q /\ next.sample = job.sample
        /\ next.step = "execute" /\ next.snapshot = Snapshot(rt, T)
        /\ next.proven = [fts |-> rt.fts, vector |-> rt.vector]
    BY <1>1, <1>6, <2>2 DEF Dispatches, ForgettingSteps
  <2> HIDE DEF next
  <2>4. TargetsProven(T, next.proven)
    BY <1>5, <1>7, <2>3 DEF TargetsProven, ProbeHits
  <2>5. Cleaned("execute", T, rt)
    BY <1>3 DEF Cleaned
  <2>6. QED
    BY <1>1, <1>3, <1>6, <2>1, <2>3, <2>4, <2>5, Continues
<1>8. CASE ~(ProbeHits(rt, job.docs, T) /\ SnapshotHolds(rt, Snapshot(rt, T)))
  <2>1. Continue(rt, Idle)
    BY <1>4, <1>8
  <2>2. QED
    BY <1>1, <1>3, <2>1, Continues
<1>9. QED
  BY <1>7, <1>8

\* What holds while a dispatch forgets.
LEMMA ForgettingFacts ==
    ASSUME ExecutionInv, job.step \in ForgettingSteps
    PROVE  /\ job \in Dispatches /\ Runtime \in Runtimes /\ RuntimeStands(Runtime)
           /\ TargetsProven(job.snapshot.targets, job.proven)
           /\ Cleaned(job.step, job.snapshot.targets, Runtime)
           /\ \A w \in ForgettingSteps : LET then == [job EXCEPT !.step = w] IN
                 /\ then \in Dispatches /\ then.q = job.q /\ then.sample = job.sample
                 /\ then.step = w /\ then.snapshot = job.snapshot /\ then.proven = job.proven
<1>1. job \in Dispatches /\ Runtime \in Runtimes /\ RuntimeStands(Runtime)
  BY RuntimeFacts DEF ExecutionInv, DispatchSteps
<1>2. /\ TargetsProven(job.snapshot.targets, job.proven)
      /\ Cleaned(job.step, job.snapshot.targets, Runtime)
  BY DEF ExecutionInv, JobStands, ForgettingSteps
<1>3. \A w \in ForgettingSteps : LET then == [job EXCEPT !.step = w] IN
                 /\ then \in Dispatches /\ then.q = job.q /\ then.sample = job.sample
                 /\ then.step = w /\ then.snapshot = job.snapshot /\ then.proven = job.proven
  BY <1>1 DEF Dispatches
<1>4. QED
  BY <1>1, <1>2, <1>3

LEMMA ForgetPreserves == ASSUME ExecutionInv, UNCHANGED prepared, ExecuteForget PROVE ExecutionInv'
<1> DEFINE T == job.snapshot.targets
           rt == AfterForgetting(Runtime, T)
           then == [job EXCEPT !.step = "words"]
<1>1. job.step = "execute" /\ Continue(rt, then)
  BY DEF ExecuteForget, At
<1>2. /\ job \in Dispatches /\ Runtime \in Runtimes /\ RuntimeStands(Runtime)
      /\ TargetsProven(T, job.proven) /\ Runtime.previewed /\ Runtime.live = Source
      /\ then \in Dispatches /\ then.q = job.q /\ then.sample = job.sample
      /\ then.step = "words" /\ then.snapshot = job.snapshot /\ then.proven = job.proven
  BY <1>1, ForgettingFacts DEF ForgettingSteps, Cleaned
<1>3. /\ rt \in Runtimes /\ rt.previewed /\ rt.live = Source \ T /\ rt.vector = Runtime.vector
  BY <1>2 DEF AfterForgetting, Runtimes
<1> HIDE DEF rt, then
<1>4. RuntimeStands(rt) /\ Cleaned("words", T, rt)
  BY <1>2, <1>3 DEF RuntimeStands, Cleaned
<1>5. QED
  BY <1>1, <1>2, <1>3, <1>4, Continues DEF DispatchSteps, ForgettingSteps

\* A runtime whose event is given up.
LEMMA DeadStands ==
    ASSUME NEW rt \in Runtimes, RuntimeStands(rt)
    PROVE  LET dead == [rt EXCEPT !.event = "dead"] IN dead \in Runtimes /\ RuntimeStands(dead)
BY DEF Runtimes, RuntimeStands

LEMMA WordsPreserve == ASSUME ExecutionInv, UNCHANGED prepared, ConsumeWords PROVE ExecutionInv'
<1> DEFINE T == job.snapshot.targets
           then == [job EXCEPT !.step = "vectors"]
<1>1. job.step = "words" /\ job.step \in DispatchSteps
  BY DEF ConsumeWords, At, DispatchSteps, ForgettingSteps
<1>2. /\ job \in Dispatches /\ Runtime \in Runtimes /\ RuntimeStands(Runtime)
      /\ TargetsProven(T, job.proven) /\ Runtime.previewed /\ Runtime.live = Source \ T
      /\ then \in Dispatches /\ then.q = job.q /\ then.sample = job.sample
      /\ then.step = "vectors" /\ then.snapshot = job.snapshot /\ then.proven = job.proven
  BY <1>1, ForgettingFacts DEF ForgettingSteps, Cleaned
<1>3. PICK rt \in FtsDeletions(Runtime, T) :
          IF rt.fts \cap T = {} THEN Continue(rt, then) ELSE Continue([rt EXCEPT !.event = "dead"], Idle)
  BY DEF ConsumeWords
<1>4. /\ rt \in Runtimes /\ rt.previewed /\ rt.live = Source \ T /\ rt.vector = Runtime.vector
  BY <1>2, <1>3 DEF FtsDeletions, Runtimes
<1> HIDE DEF then
<1>5. RuntimeStands(rt) /\ (rt.fts \cap T = {} => Cleaned("vectors", T, rt))
  BY <1>2, <1>4 DEF RuntimeStands, Cleaned
<1>6. CASE rt.fts \cap T = {}
  BY <1>1, <1>2, <1>3, <1>4, <1>5, <1>6, Continues
<1>7. CASE rt.fts \cap T # {}
  BY <1>1, <1>3, <1>4, <1>5, <1>7, Continues, DeadStands
<1>8. QED
  BY <1>6, <1>7

LEMMA VectorsPreserve == ASSUME ExecutionInv, UNCHANGED prepared, ConsumeVectors PROVE ExecutionInv'
<1> DEFINE T == job.snapshot.targets
           K == KnowledgeOf(T)
           then == [job EXCEPT !.step = "observe"]
<1>1. job.step = "vectors" /\ job.step \in DispatchSteps
  BY DEF ConsumeVectors, At, DispatchSteps, ForgettingSteps
<1>2. /\ job \in Dispatches /\ Runtime \in Runtimes /\ RuntimeStands(Runtime)
      /\ TargetsProven(T, job.proven) /\ Runtime.previewed /\ Runtime.live = Source \ T
      /\ Runtime.fts \cap T = {}
      /\ then \in Dispatches /\ then.q = job.q /\ then.sample = job.sample
      /\ then.step = "observe" /\ then.snapshot = job.snapshot /\ then.proven = job.proven
  BY <1>1, ForgettingFacts DEF ForgettingSteps, Cleaned
<1>3. PICK rt \in (IF Dual THEN VectorDeletions(Runtime, T) ELSE {Runtime}) :
          IF Dual => VectorIsDeleted(Runtime, rt, T)
          THEN Continue([rt EXCEPT !.event = "acked"], then)
          ELSE Continue([rt EXCEPT !.event = "dead"], Idle)
  BY DEF ConsumeVectors
<1> HIDE DEF then
<1>4. /\ rt \in Runtimes /\ RuntimeStands(rt) /\ rt.previewed /\ rt.live = Source \ T
      /\ rt.fts \cap T = {}
  <2>1. CASE Dual
    <3>1. PICK D \in {{}, K \cap Runtime.ledger} : rt = [Runtime EXCEPT !.vector = @ \ D, !.ledger = @ \ D]
      BY <1>3, <2>1 DEF VectorDeletions
    <3>2. /\ rt \in Runtimes /\ rt.previewed = Runtime.previewed /\ rt.live = Runtime.live
          /\ rt.fts = Runtime.fts
      BY <1>2, <3>1 DEF Runtimes
    <3>3. QED
      BY <1>2, <2>1, <3>2 DEF RuntimeStands
  <2>2. CASE ~Dual
    BY <1>2, <1>3, <2>2
  <2>3. QED
    BY <2>1, <2>2
<1> DEFINE acked == [rt EXCEPT !.event = "acked"]
<1>5. /\ acked \in Runtimes /\ acked.previewed /\ acked.live = Source \ T /\ acked.event = "acked"
      /\ acked.fts \cap T = {} /\ acked.vector = rt.vector /\ acked.ledger = rt.ledger
  BY <1>4 DEF Runtimes
<1> HIDE DEF acked
<1>6. RuntimeStands(acked)
  BY <1>4, <1>5 DEF RuntimeStands
<1>7. ASSUME Dual, VectorIsDeleted(Runtime, rt, T) PROVE K \cap (rt.vector \cup rt.ledger) = {}
  <2>1. PICK D \in {{}, K \cap Runtime.ledger} : rt = [Runtime EXCEPT !.vector = @ \ D, !.ledger = @ \ D]
    BY <1>3, <1>7 DEF VectorDeletions
  <2>2. rt.vector = Runtime.vector \ D /\ rt.ledger = Runtime.ledger \ D
    BY <1>2, <2>1 DEF Runtimes
  <2>3. K \subseteq Runtime.ledger \ rt.ledger
    BY <1>7 DEF VectorIsDeleted
  <2> HIDE DEF K
  <2>4. K \subseteq D
    BY <2>2, <2>3
  <2>5. QED
    BY <2>2, <2>4
<1>8. CASE Dual => VectorIsDeleted(Runtime, rt, T)
  <2>1. Cleaned("observe", T, acked)
    BY <1>5, <1>7, <1>8 DEF Cleaned
  <2>2. Continue(acked, then)
    BY <1>3, <1>8 DEF acked
  <2>3. QED
    BY <1>1, <1>2, <1>5, <1>6, <2>1, <2>2, Continues
<1>9. CASE ~(Dual => VectorIsDeleted(Runtime, rt, T))
  BY <1>1, <1>3, <1>4, <1>9, Continues, DeadStands
<1>10. QED
  BY <1>8, <1>9

\* A receipt that is written joins those that stand, and its record with it.
LEMMA ConcludesFacts ==
    ASSUME ReceiptsStand, UNCHANGED <<prepared, raw>>, NEW q, NEW s, NEW actual, NEW evidence,
           Concludes(q, s, actual, evidence),
           s \in ForgetSamples => EvidenceStands(evidence)
    PROVE  ReceiptsStand' /\ job' = Idle
<1> DEFINE receipt == [record |-> Record(q, s, actual), commit |-> q.commit,
                       utc |-> dispatches, evidence |-> evidence]
<1>1. /\ s \notin DOMAIN receipts
      /\ receipts' = [t \in DOMAIN receipts \cup {s} |-> IF t = s THEN receipt ELSE receipts[t]]
      /\ records' \subseteq records \cup {Record(q, s, actual)}
      /\ job' = Idle
  BY DEF Concludes, WriteReceipt
<1>2. PICK record : record = Record(q, s, actual)
  OBVIOUS
<1>3. record.sample = s
  BY <1>2 DEF Record
<1>4. /\ DOMAIN receipts' = DOMAIN receipts \cup {s}
      /\ receipts'[s].record = record /\ receipts'[s].evidence = evidence
      /\ \A t \in DOMAIN receipts : receipts'[t] = receipts[t]
  BY <1>1, <1>2
<1>5. \A r : Backed(r) => Backed(r)'
  BY <1>4 DEF Backed
<1>6. \A e : EvidenceStands(e)' <=> EvidenceStands(e)
  BY DEF EvidenceStands, TargetsProven, Cleaned, OwnDocs, Source, Dual, KnowledgeOf
<1> HIDE DEF receipt
<1>7. \A r \in records' : Backed(r)'
  <2>1. Backed(record)'
    BY <1>4, <1>3 DEF Backed
  <2>2. \A r \in records : Backed(r)'
    BY <1>5 DEF ReceiptsStand
  <2>3. records' \subseteq records \cup {record}
    BY <1>1, <1>2
  <2>4. QED
    BY <2>1, <2>2, <2>3
<1>8. \A t \in DOMAIN receipts' \cap ForgetSamples : EvidenceStands(receipts[t].evidence)'
  <2>1. \A t \in DOMAIN receipts \cap ForgetSamples : EvidenceStands(receipts[t].evidence)
    BY DEF ReceiptsStand
  <2>2. \A t \in DOMAIN receipts' \cap ForgetSamples : EvidenceStands(receipts[t].evidence)' <=>
            IF t = s THEN EvidenceStands(evidence) ELSE EvidenceStands(receipts[t].evidence)
    BY <1>4, <1>6
  <2>3. QED
    BY <1>4, <2>1, <2>2
<1>9. raw' # None => \A m \in Metrics : \A r \in raw'[m] : Backed(r)'
  BY <1>5 DEF ReceiptsStand
<1>10. QED
  BY <1>1, <1>7, <1>8, <1>9 DEF ReceiptsStand

LEMMA ObservePreserves == ASSUME ExecutionInv, UNCHANGED prepared, Observe PROVE ExecutionInv'
<1> DEFINE T == job.snapshot.targets
           K == KnowledgeOf(T)
           after == Rebuilt(Runtime)
           evidence == [targets |-> T, proven |-> job.proven, runtime |-> Runtime, after |-> after]
<1>1. job.step = "observe" /\ job.step \in DispatchSteps
  BY DEF Observe, At, DispatchSteps, ForgettingSteps
<1>2. /\ Runtime \in Runtimes /\ RuntimeStands(Runtime) /\ TargetsProven(T, job.proven)
      /\ Cleaned("observe", T, Runtime) /\ Runtime.previewed /\ Runtime.live = Source \ T
  BY <1>1, ForgettingFacts DEF ForgettingSteps, Cleaned
<1>3. /\ after \in Runtimes /\ RuntimeStands(after) /\ after.live = Source \ T
      /\ K \cap after.vector = {}
  <2>1. CASE Dual
    <3> DEFINE left == KnowledgeOf(ActiveDocs(Runtime))
    <3>1. left \subseteq Source \ T
      BY <1>2 DEF KnowledgeOf, ActiveDocs
    <3>2. after = [Runtime EXCEPT !.vector = left, !.ledger = left]
      BY <2>1 DEF Rebuilt
    <3> HIDE DEF left, after
    <3>3. left \in SUBSET Source
      BY <3>1
    <3>4. after \in Runtimes /\ after.live = Runtime.live /\ after.vector = left
            /\ after.previewed = Runtime.previewed
      BY <1>2, <3>2, <3>3 DEF Runtimes
    <3>5. RuntimeStands(after)
      BY <1>2, <2>1, <3>4 DEF RuntimeStands
    <3>6. K \cap left = {}
      BY <3>1 DEF KnowledgeOf
    <3>7. QED
      BY <1>2, <3>4, <3>5, <3>6
  <2>2. CASE ~Dual
    BY <1>2, <2>2 DEF Rebuilt, RuntimeStands
  <2>3. QED
    BY <2>1, <2>2
<1>4. EvidenceStands(evidence)
  BY <1>2, <1>3 DEF EvidenceStands
<1>5. PICK actual : Concludes(job.q, job.sample, actual, evidence)
  BY DEF Observe
<1>6. UNCHANGED <<executions, raw>> /\ bindings' = [bindings EXCEPT ![job.q].runtimes[job.sample] = after]
  BY DEF Observe
<1> HIDE DEF after, evidence
<1>7. BindingsStand'
  BY <1>1, <1>3, <1>6, RuntimeMoves DEF ExecutionInv
<1>8. ReceiptsStand' /\ job' = Idle
  BY <1>4, <1>5, <1>6, ConcludesFacts DEF ExecutionInv
<1>9. QED
  BY <1>7, <1>8, IdleStands DEF ExecutionInv

\* An execution is bound, with no runtime touched.
LEMMA BindPreserves ==
    ASSUME ExecutionInv, UNCHANGED prepared, NEW q \in executions, NEW binding \in Bindings,
           binding.kind = "forget" => \A s \in ForgetSamples : RuntimeStands(binding.runtimes[s]),
           Bind(q, binding)
    PROVE  ExecutionInv'
<1>1. /\ job = Idle /\ job' = Idle /\ bindings' = [bindings EXCEPT ![q] = binding]
      /\ UNCHANGED <<executions, receipts, records, raw>>
      /\ executions \subseteq Requests /\ bindings \in [Requests -> Bindings]
  BY DEF Bind, ExecutionInv, BindingsStand
<1>2. UNCHANGED <<Source, Dual, Runtimes, Bindings>>
  BY DEF Source, Dual, Runtimes, Bindings
<1>3. \A r : RuntimeStands(r)' <=> RuntimeStands(r)
  BY <1>2 DEF RuntimeStands
<1>4. bindings' \in [Requests -> Bindings] /\ bindings'[q] = binding
        /\ \A p \in Requests : p # q => bindings'[p] = bindings[p]
  BY <1>1
<1>5. \A p \in Requests : bindings'[p].kind = "forget" =>
          \A s \in ForgetSamples : RuntimeStands(bindings'[p].runtimes[s])
  BY <1>4 DEF ExecutionInv, BindingsStand
<1>6. BindingsStand'
  BY <1>1, <1>2, <1>3, <1>4, <1>5 DEF BindingsStand
<1>7. QED
  BY <1>1, <1>6, ReceiptsStay, IdleStands DEF ExecutionInv

LEMMA BindingPreserves ==
    ASSUME ExecutionInv, UNCHANGED prepared, NEW q \in executions, BuildSafety(q) \/ PrepareForget(q)
    PROVE  ExecutionInv'
<1>1. CASE BuildSafety(q)
  <2>1. PICK control \in BOOLEAN : Bind(q, [kind |-> "safety", control |-> control, ingested |-> {}])
    BY <1>1 DEF BuildSafety
  <2>2. [kind |-> "safety", control |-> control, ingested |-> {}] \in Bindings
    BY DEF Bindings
  <2>3. QED
    BY <2>1, <2>2, BindPreserves
<1>2. CASE PrepareForget(q)
  <2> DEFINE runtimes == [s \in ForgetSamples |-> Restored]
             binding == [kind |-> "forget", runtimes |-> runtimes]
  <2>1. Restored \in Runtimes /\ RuntimeStands(Restored)
    BY DEF Restored, Runtimes, RuntimeStands
  <2>2. runtimes \in [ForgetSamples -> Runtimes] /\ \A s \in ForgetSamples : RuntimeStands(runtimes[s])
    BY <2>1
  <2>3. Bind(q, binding)
    BY <1>2 DEF PrepareForget
  <2> HIDE DEF runtimes
  <2>4. binding \in Bindings /\ binding.runtimes = runtimes
    BY <2>2 DEF Bindings
  <2> HIDE DEF binding
  <2>5. QED
    BY <2>2, <2>3, <2>4, BindPreserves
<1>3. QED
  BY <1>1, <1>2

\* The samples that need no runtime, or the one of safety, are none of forgetting.
LEMMA StatelessPreserves ==
    ASSUME ExecutionInv, UNCHANGED prepared, NEW q \in executions, NEW s \in Samples,
           DispatchStateless(q, s)
    PROVE  ExecutionInv'
<1>1. PICK actual \in StatelessActuals(s) : Concludes(q, s, actual, None)
  BY DEF DispatchStateless
<1>2. s \notin ForgetSamples /\ UNCHANGED <<executions, bindings, raw>>
  BY DEF DispatchStateless, ForgetSamples
<1>3. ReceiptsStand' /\ job' = Idle
  BY <1>1, <1>2, ConcludesFacts DEF ExecutionInv
<1>4. BindingsStand'
  BY <1>2, BindingsStay DEF ExecutionInv, BindingsStand
<1>5. QED
  BY <1>3, <1>4, IdleStands DEF ExecutionInv

LEMMA SafetyPreserves ==
    ASSUME ExecutionInv, UNCHANGED prepared, NEW q \in executions, NEW s \in Samples,
           DispatchSafety(q, s)
    PROVE  ExecutionInv'
<1> DEFINE old == bindings[q]
           new == [old EXCEPT !.ingested = @ \cup {s}]
<1>1. /\ q \in Requests /\ old \in Bindings /\ old.kind = "safety" /\ s \notin ForgetSamples
      /\ bindings \in [Requests -> Bindings]
  BY DEF DispatchSafety, BindingHolds, ExecutionInv, BindingsStand, ForgetSamples
<1>2. old \in [kind : {"safety"}, control : BOOLEAN, ingested : SUBSET Samples]
  BY <1>1 DEF Bindings, NoBinding
<1>3. new \in [kind : {"safety"}, control : BOOLEAN, ingested : SUBSET Samples]
  BY <1>2
<1>4. bindings' = [bindings EXCEPT ![q] = new] /\ UNCHANGED <<executions, raw>>
  BY DEF DispatchSafety
<1> HIDE DEF new
<1>5. new \in Bindings /\ new.kind # "forget"
  BY <1>3 DEF Bindings
<1>6. BindingsStand'
  <2>1. UNCHANGED <<Source, Dual, Runtimes, Bindings>>
    BY DEF Source, Dual, Runtimes, Bindings
  <2>2. \A r : RuntimeStands(r)' <=> RuntimeStands(r)
    BY <2>1 DEF RuntimeStands
  <2>3. bindings' \in [Requests -> Bindings] /\ bindings'[q] = new
          /\ \A p \in Requests : p # q => bindings'[p] = bindings[p]
    BY <1>1, <1>4, <1>5
  <2>4. QED
    BY <1>4, <1>5, <2>1, <2>2, <2>3 DEF ExecutionInv, BindingsStand
<1>7. CASE \E t \in Traces : Concludes(q, s, SafetyActual(s, t), None)
  BY <1>1, <1>4, <1>6, <1>7, ConcludesFacts, IdleStands DEF ExecutionInv
<1>8. CASE UNCHANGED <<receipts, records, job>> /\ job = Idle
  BY <1>4, <1>6, <1>8, ReceiptsStay, IdleStands DEF ExecutionInv
<1>9. QED
  BY <1>7, <1>8 DEF DispatchSafety

LEMMA DispatchPreserves ==
    ASSUME ExecutionInv, UNCHANGED prepared, NEW q \in executions, NEW s \in Samples,
           DispatchForget(q, s)
    PROVE  ExecutionInv'
<1>1. /\ job' = [step |-> "observer", q |-> q, sample |-> s, docs |-> {},
                 snapshot |-> None, proven |-> None]
      /\ bindings[q].kind = "forget" /\ s \in ForgetSamples /\ q \in Requests
      /\ UNCHANGED <<executions, bindings, receipts, records, raw>>
  BY DEF DispatchForget, BindingHolds, ForgetSamples, ExecutionInv, BindingsStand
<1>2. job' \in Dispatches' /\ job'.q = q /\ job'.step = "observer"
  BY <1>1 DEF Dispatches
<1>3. JobStands'
  BY <1>1, <1>2 DEF JobStands, ForgettingSteps
<1>4. QED
  BY <1>1, <1>3, ReceiptsStay, BindingsStay DEF ExecutionInv, BindingsStand

\* The package, and what ends: only memory is lost.
LEMMA RawPreserves ==
    ASSUME ExecutionInv, UNCHANGED prepared, Rename \/ \E q \in executions : WriteRaw(q)
    PROVE  ExecutionInv'
<1>1. BindingsStand' /\ UNCHANGED <<receipts, records>>
  BY BindingsStay DEF ExecutionInv, BindingsStand, Rename, WriteRaw
<1>2. JobStands'
  BY DEF JobStands, Rename, WriteRaw, Idle
<1>3. ReceiptsStand'
  <2>1. CASE UNCHANGED raw
    BY <1>1, <2>1, ReceiptsStay DEF ExecutionInv
  <2>2. CASE raw' = [m \in Metrics |-> {r \in records : Metric[r.sample] = m}]
    <3>1. \A r : Backed(r)' <=> Backed(r)
      BY <1>1 DEF Backed
    <3>2. \A e : EvidenceStands(e)' <=> EvidenceStands(e)
      BY DEF EvidenceStands, TargetsProven, Cleaned, OwnDocs, Source, Dual, KnowledgeOf
    <3>3. \A m \in Metrics : raw'[m] \subseteq records
      BY <2>2
    <3>4. QED
      BY <1>1, <3>1, <3>2, <3>3 DEF ExecutionInv, ReceiptsStand
  <2>3. QED
    BY <2>1, <2>2 DEF Rename, WriteRaw
<1>4. QED
  BY <1>1, <1>2, <1>3 DEF ExecutionInv

LEMMA EndPreserves ==
    ASSUME ExecutionInv, UNCHANGED prepared, StepRaises \/ Die \/ \E q \in Requests : Validate(q)
    PROVE  ExecutionInv'
<1>1. CASE StepRaises
  BY <1>1, BindingsStay, ReceiptsStay, IdleStands DEF StepRaises, ExecutionInv, BindingsStand
<1>2. CASE Die
  <2>1. BindingsStand'
    BY <1>2 DEF Die, BindingsStand, Bindings, NoBinding
  <2>2. QED
    BY <1>2, <2>1, ReceiptsStay, IdleStands DEF Die, ExecutionInv
<1>3. CASE \E q \in Requests : Validate(q)
  <2>1. /\ executions \subseteq executions' /\ executions' \subseteq Requests
        /\ UNCHANGED <<bindings, job, receipts, records, raw>>
    BY <1>3 DEF Validate, ExecutionInv, BindingsStand
  <2>2. UNCHANGED <<Dispatches, Runtime>>
    BY <2>1 DEF Dispatches, Source, Runtime
  <2>3. \A T, p : TargetsProven(T, p)' <=> TargetsProven(T, p)
    BY DEF TargetsProven, OwnDocs, Source, Dual, KnowledgeOf
  <2>4. \A w, T, r : Cleaned(w, T, r)' <=> Cleaned(w, T, r)
    BY DEF Cleaned, Source, Dual, KnowledgeOf
  <2>5. JobStands'
    BY <2>1, <2>2, <2>3, <2>4 DEF ExecutionInv, JobStands
  <2>6. QED
    BY <2>1, <2>5, BindingsStay, ReceiptsStay DEF ExecutionInv
<1>4. QED
  BY <1>1, <1>2, <1>3

LEMMA ExecutionPreserves == ExecutionInv /\ ExecutionNext => ExecutionInv'
<1> SUFFICES ASSUME ExecutionInv, ExecutionNext PROVE ExecutionInv'
  OBVIOUS
<1>1. UNCHANGED prepared
  BY DEF ExecutionNext
<1>2. CASE BuildObserver \/ PreviewForget \/ ExecuteForget \/ ConsumeWords \/ ConsumeVectors \/ Observe
  BY <1>1, <1>2, BuildPreserves, ProbePreserves, ForgetPreserves, WordsPreserve,
     VectorsPreserve, ObservePreserves
<1>3. CASE \E q \in executions : BuildSafety(q) \/ PrepareForget(q)
  BY <1>1, <1>3, BindingPreserves
<1>4. CASE \E q \in executions, s \in Samples :
             DispatchStateless(q, s) \/ DispatchSafety(q, s) \/ DispatchForget(q, s)
  BY <1>1, <1>4, StatelessPreserves, SafetyPreserves, DispatchPreserves
<1>5. CASE Rename \/ \E q \in executions : WriteRaw(q)
  BY <1>1, <1>5, RawPreserves
<1>6. CASE StepRaises \/ Die \/ \E q \in Requests : Validate(q)
  BY <1>1, <1>6, EndPreserves
<1>7. QED
  BY <1>2, <1>3, <1>4, <1>5, <1>6 DEF ExecutionNext

LEMMA ExecutionStays == ExecutionInv /\ UNCHANGED executionVars => ExecutionInv'
<1> SUFFICES ASSUME ExecutionInv, UNCHANGED executionVars PROVE ExecutionInv'
  OBVIOUS
<1>1. /\ UNCHANGED <<prepared, executions, bindings, job, receipts, records, raw>>
      /\ UNCHANGED <<Dispatches, Runtime>>
  BY DEF executionVars, Dispatches, Source, Runtime
<1>2. BindingsStand' /\ ReceiptsStand'
  BY <1>1, BindingsStay, ReceiptsStay DEF ExecutionInv, BindingsStand
<1>3. \A T, p : TargetsProven(T, p)' <=> TargetsProven(T, p)
  BY <1>1 DEF TargetsProven, OwnDocs, Source, Dual, KnowledgeOf
<1>4. \A w, T, r : Cleaned(w, T, r)' <=> Cleaned(w, T, r)
  BY <1>1 DEF Cleaned, Source, Dual, KnowledgeOf
<1>5. JobStands'
  BY <1>1, <1>3, <1>4 DEF ExecutionInv, JobStands
<1>6. QED
  BY <1>2, <1>5 DEF ExecutionInv

-----------------------------------------------------------------------------
(* The formal evaluation                                                     *)

LEMMA RecordMatches ==
    ASSUME NEW package, RawIsComplete("forget", package), MetricReport("forget", package).gate = "PASS"
    PROVE  \A s \in ForgetSamples : \E r \in package["forget"] :
              r.sample = s /\ \A f \in HardZero["forget"] : r.actual[f] = 0
<1> DEFINE expected(r) == Expected[files["gold"]][r.sample]
           wrong == {r \in package["forget"] : ~Matches("forget", expected(r), r.actual)}
<1>1. wrong = {}
  BY DEF MetricReport
<1>2. \A r \in package["forget"] : \A f \in HardZero["forget"] : r.actual[f] = 0
  BY <1>1 DEF Matches
<1>3. {r.sample : r \in package["forget"]} = ForgetSamples
  BY DEF RawIsComplete, SamplesOf, ForgetSamples
<1>4. QED
  BY <1>2, <1>3

LEMMA ReportPreserved == ~Executing /\ Evaluate => ReportStands'
<1> SUFFICES ASSUME ~Executing, Evaluate PROVE ReportStands'
  OBVIOUS
<1>1. /\ RawIsComplete("forget", files["raw"])
      /\ report'.files = files
      /\ report'.metrics["forget"] = MetricReport("forget", files["raw"])
      /\ ~Executing'
  BY DEF Evaluate, Metrics, Executing, executionVars
<1>2. QED
  BY <1>1, RecordMatches DEF ReportStands

LEMMA EvaluationPreserves == EvaluationInv /\ [FormalNext]_allVars => EvaluationInv'
<1> SUFFICES ASSUME EvaluationInv, [FormalNext]_allVars PROVE EvaluationInv'
  OBVIOUS
<1>1. CASE Executing /\ ExecutionNext /\ UNCHANGED formalVars
  <2>1. ExecutionInv'
    BY <1>1, ExecutionPreserves DEF EvaluationInv
  <2>2. ReportStands'
    BY <1>1 DEF EvaluationInv, ReportStands, formalVars
  <2>3. QED
    BY <2>1, <2>2 DEF EvaluationInv
<1>2. CASE UNCHANGED <<executionVars, report>>
  <2>1. ExecutionInv'
    BY <1>2, ExecutionStays DEF EvaluationInv
  <2>2. ReportStands'
    BY <1>2 DEF EvaluationInv, ReportStands, Executing, executionVars
  <2>3. QED
    BY <2>1, <2>2 DEF EvaluationInv
<1>3. CASE ~Executing /\ Evaluate
  <2>1. ExecutionInv'
    BY <1>3, ExecutionStays DEF Evaluate, EvaluationInv
  <2>2. ReportStands'
    BY <1>3, ReportPreserved
  <2>3. QED
    BY <2>1, <2>2 DEF EvaluationInv
<1>4. QED
  <2>1. CASE UNCHANGED allVars
    BY <1>2, <2>1 DEF allVars, formalVars
  <2>2. CASE FormalNext
    BY <1>1, <1>2, <1>3, <2>2
       DEF FormalNext, Revise, WriteManifest, Attest, Assemble, Review, Freeze, Edit
  <2>3. QED
    BY <2>1, <2>2

\* In every state of an evaluation: the runtime of a dispatch is as far cleaned
\* of the targets as its step says, and the targets were found in every channel
\* before; a record is the one of its receipt, in memory and in the package.
THEOREM EvaluationInvariant == FormalSpec => []EvaluationInv
<1>1. FormalInit => EvaluationInv
  <2> SUFFICES ASSUME FormalInit PROVE EvaluationInv
    OBVIOUS
  <2>1. ExecutionInit
    BY DEF FormalInit
  <2>2. bindings \in [Requests -> Bindings] /\ \A q \in Requests : bindings[q].kind = "none"
    BY <2>1 DEF ExecutionInit, Bindings, NoBinding
  <2>3. BindingsStand
    BY <2>1, <2>2 DEF BindingsStand, ExecutionInit
  <2>4. JobStands
    BY <2>1 DEF ExecutionInit, JobStands, Idle
  <2>5. ReceiptsStand
    BY <2>1 DEF ExecutionInit, ReceiptsStand
  <2>6. ReportStands
    BY DEF FormalInit, ReportStands
  <2>7. QED
    BY <2>3, <2>4, <2>5, <2>6 DEF EvaluationInv, ExecutionInv
<1>2. QED
  BY <1>1, EvaluationPreserves, PTL DEF FormalSpec

\* A gate of forgetting that passes on the package of this execution stands on
\* proofs (`dispatch_forget_sample', `_metric_report'): whatever steps failed,
\* were repeated or were cut off by the end of the process, every sample has a
\* receipt whose targets were found before, and whose runtime holds nothing of
\* them, and everything else, after.
THEOREM PassedGateIsProven == FormalSpec => []PassedForgettingIsProven
<1>1. EvaluationInv => ZeroIsProven
  <2> SUFFICES ASSUME EvaluationInv, NEW s \in DOMAIN receipts \cap ForgetSamples
               PROVE  LET e == receipts[s].evidence
                          known == IF Dual THEN KnowledgeOf(e.targets) ELSE {}
                      IN /\ e.targets # {}
                         /\ e.targets \subseteq e.proven.fts /\ known \subseteq e.proven.vector
                         /\ e.targets \cap (e.runtime.live \cup e.runtime.fts) = {}
                         /\ known \cap (e.runtime.vector \cup e.runtime.ledger \cup e.after.vector) = {}
                         /\ e.runtime.event = "acked"
    BY DEF ZeroIsProven
  <2>1. EvidenceStands(receipts[s].evidence)
    BY DEF EvaluationInv, ExecutionInv, ReceiptsStand
  <2>2. QED
    BY <2>1 DEF EvidenceStands, TargetsProven, Cleaned
<1>2. EvaluationInv => PassedForgettingIsProven
  <2> SUFFICES ASSUME EvaluationInv, report # None, report.files["raw"] = raw,
                      report.metrics["forget"].gate = "PASS", NEW s \in ForgetSamples
               PROVE  LET r == receipts[s]  e == r.evidence
                          user(u) == {d \in Source : d.user = u}
                      IN /\ ResidualFree(r.record.actual)
                         /\ e.targets # {} /\ e.targets \subseteq e.proven.fts
                         /\ KnowledgeOf(e.targets) \cap e.after.vector = {}
                         /\ user(ForeignUser) \subseteq e.after.live
                         /\ user(Subject) \ e.targets \subseteq e.after.live
    BY <1>1 DEF PassedForgettingIsProven
  <2>1. PICK r \in raw["forget"] : r.sample = s /\ \A f \in HardZero["forget"] : r.actual[f] = 0
    BY DEF EvaluationInv, ReportStands
  <2>2. Backed(r)
    BY <2>1 DEF EvaluationInv, ReportStands, Executing, ExecutionInv, ReceiptsStand, Metrics
  <2>3. EvidenceStands(receipts[s].evidence)
    BY <2>1, <2>2 DEF Backed, EvaluationInv, ExecutionInv, ReceiptsStand
  <2>4. ResidualFree(r.actual)
    BY <2>1 DEF ResidualFree, HardZero
  <2>5. QED
    BY <2>1, <2>2, <2>3, <2>4, UsersDiffer DEF Backed, EvidenceStands, TargetsProven, OwnDocs
<1>3. QED
  BY <1>2, EvaluationInvariant, PTL

\* When a report is written, its four files are those of one signed review and
\* its raw results those of the frozen attestation, in whatever order people
\* filled the directory (`_validate_approved_artifact_hashes',
\* `_validated_raw_files').
THEOREM ReportsAreApproved == FormalSpec => ReportIsApproved
<1> DEFINE Approved == /\ \A f \in Written : report'.files[f] = review.approved[f]
                       /\ report'.files["raw"] = seal.attestation.raw
<1>1. [FormalNext]_allVars => [report' # report => Approved]_report
  <2> SUFFICES ASSUME [FormalNext]_allVars, report' # report PROVE Approved
    OBVIOUS
  <2>1. Evaluate
    BY DEF FormalNext, allVars, formalVars, Revise, WriteManifest, Attest, Assemble, Review, Freeze, Edit
  <2>2. report'.files = files /\ ApprovedHolds /\ RawFilesHold
    BY <2>1 DEF Evaluate, GatesHold
  <2>3. QED
    BY <2>2 DEF ApprovedHolds, RawFilesHold, Written
<1>2. QED
  BY <1>1, PTL DEF FormalSpec, ReportIsApproved

=============================================================================
