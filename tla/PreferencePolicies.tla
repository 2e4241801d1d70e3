--------------------------- MODULE PreferencePolicies ---------------------------
(***************************************************************************)
(* What the business policies say between a source event and the version   *)
(* chain of a preference: which candidates an event admits, which of them  *)
(* are long-term, and what a write or a rollback should do to the chain.   *)
(*                                                                         *)
(* The policies are pure: they decide on rows that a caller has read and   *)
(* leave the writing to the store (module PreferenceVersions), which takes *)
(* its own decision when it is asked.  No caller is part of the program    *)
(* yet: the flow of this module is that of the tests, with any request of  *)
(* another caller between the plan and its execution.                      *)
(***************************************************************************)
EXTENDS PreferenceVersions, Rules

CONSTANTS
  User, Key, Scope,              \* whose chain it is, and of which preference
  Contents, NoContent, TextLevel,  \* texts of events, see EventPipeline
  SourceEvents,                  \* the events candidates are extracted from
  Candidates,                    \* what extraction may give
  Elsewhere                      \* rows of other chains a caller may have read

Pipeline == INSTANCE EventPipeline

\* What is active can be written; a candidate for a preference has one of its
\* values; rows are told apart by their ids, and those of other chains by what
\* addresses them; an event has a level and a text that the scan knows.
ASSUME PolicyAssumption ==
  /\ "active" \in SentStatuses
  /\ \A c \in Candidates : c.kind = "preference" => c.value \in Values
  /\ \A p \in Elsewhere : /\ <<p.user, p.key, p.scope>> # <<User, Key, Scope>>
                          /\ p.id \notin {<<Key, Scope, n>> : n \in 1..MaxVersions}
  /\ TextLevel \in [Contents \cup {NoContent} -> Pipeline!Levels]
  /\ \A e \in SourceEvents : /\ {"user", "ignore", "status", "sens"} \subseteq DOMAIN e
                            /\ e.content \in Contents \cup {NoContent}

VARIABLE flow  \* the candidate or the plan that is being dealt with

policyVars == <<chainVars, flow>>

-------------------------------------------------------------------------------
(* CandidateGovernanceService *)

\* CandidateAdmissionError: the code of the objection, or none.
Admitted == "none"

\* _validate_event_admission: the first objection to a candidate of event e.
EventRefusal(c, e, user) == Decision(<<
  Rule(c.source # e.id, "source_event_id_mismatch"),
  Rule(user # e.user, "user_id_mismatch"),
  Rule(e.ignore, "event_should_ignore"),
  Rule(e.status = "ignored", "event_status_ignored"),
  Rule(e.sens \in {"high", "critical"}, "event_sensitive_blocked"),
  Rule(e.status = "cancelled", "event_status_cancelled"),
  Rule(e.status = "timeout", "event_status_timeout"),
  Rule(e.status = "failed" /\ c.kind = "preference", "failed_event_preference_blocked"),
  Rule(e.status = "failed" /\ c.category # "failure_experience",
       "failed_event_success_knowledge_forbidden"),
  Rule(TRUE, Admitted) >>)

\* _admit: what is asked of the candidate itself.
ConversionRefusal(c) == Decision(<<
  Rule(c.status # "candidate", "candidate_status_violation"),
  Rule(c.kind = "knowledge" /\ c.tier = "none", "missing_knowledge_memory_type"),
  Rule(TRUE, Admitted) >>)

\* admit_with_event
Refusal(c, e, user) ==
  IF EventRefusal(c, e, user) # Admitted THEN EventRefusal(c, e, user)
  ELSE ConversionRefusal(c)

\* _build_preference and _build_knowledge: whatever the candidate claims, the
\* entity belongs to the user of the request, has the event as its evidence and
\* waits for a confirmation.
BuildPreference(c, user) ==
  [user |-> user, key |-> c.key, scope |-> c.scope, value |-> c.value,
   evidence |-> {c.source}, status |-> "candidate", confirm |-> TRUE, version |-> 1,
   temporary |-> c.temporary, persist |-> c.persist]

BuildKnowledge(c, user) ==
  [user |-> user, type |-> c.category, tier |-> c.tier, evidence |-> {c.source},
   status |-> "candidate"]

-------------------------------------------------------------------------------
(* PreferenceBusinessPolicy.decide *)

\* PreferenceBusinessDecision, of which the rest only echoes the candidate.
BusinessDecision(store, why, key, scope) ==
  [store |-> store, confirm |-> store, why |-> why, key |-> key, scope |-> scope]

\* _decision: what is stored waits for a confirmation, too.
Judgement(store, why, c) ==
  IF c.kind = "preference" THEN BusinessDecision(store, why, c.key, c.scope)
  ELSE BusinessDecision(store, why, "none", "none")

LongTerm(c) == Decision(<<
  Rule(c.kind # "preference", Judgement(FALSE, "invalid_candidate_type", c)),
  Rule(c.status # "candidate", Judgement(FALSE, "candidate_status_violation", c)),
  Rule(c.temporary, Judgement(FALSE, "temporary_not_persistent", c)),
  Rule(~c.persist, Judgement(FALSE, "should_persist_false", c)),
  Rule(~c.explicit, Judgement(TRUE, "implicit_candidate_requires_confirmation", c)),
  Rule(TRUE, Judgement(TRUE, "explicit_long_term_candidate", c)) >>)

-------------------------------------------------------------------------------
(* PreferenceVersionPolicy *)

\* PreferenceVersionAction
Actions == {"create", "coexist", "update", "no_op", "rollback", "rejected"}

\* PreferenceVersionIntent: what a caller wants the chain to say.
Intent(u, k, s, v, decision) ==
  [user |-> u, key |-> k, scope |-> s, value |-> v, decision |-> decision]

\* PreferenceVersionPlan; 0 is an absent number.
Plan(action, why) == [action |-> action, why |-> why, next |-> 0, previous |-> 0, target |-> 0]

Rejected(why) == Plan("rejected", why)

InChain(P, u, k, s) == {p \in P : p.user = u /\ p.key = k /\ p.scope = s}

\* _has_any_active
AnyActive(P, u) == \E p \in P : p.user = u /\ p.status = "active"

NoRow == [id |-> <<>>, version |-> 0, value |-> "none", user |-> "none", key |-> "none",
          scope |-> "none", status |-> "none"]

\* _find_active_same_key_scope: the newest active row of the chain.
CurrentRow(P, u, k, s) ==
  LET active == {p \in InChain(P, u, k, s) : p.status = "active"} IN
  IF active = {} THEN NoRow
  ELSE CHOOSE p \in active : \A o \in active : o.version <= p.version

\* _find_active_same_key_diff_scope_scopes
ScopesBeside(P, u, k, s) ==
  {p.scope : p \in {o \in P : /\ o.user = u /\ o.key = k /\ o.scope # s
                              /\ o.status = "active"}}

\* _find_max_version_in_chain, whatever the status of the rows.
MaxVersion(P, u, k, s) ==
  LET numbers == {p.version : p \in InChain(P, u, k, s)} IN
  IF numbers = {} THEN 0 ELSE CHOOSE n \in numbers : \A m \in numbers : m <= n

\* _no_op
NoOpPlan == Plan("no_op", "no_op_same_value")

\* _update
UpdatePlan(q, P) ==
  [Plan("update", "update_value_changed") EXCEPT
     !.next = MaxVersion(P, q.user, q.key, q.scope) + 1,
     !.previous = CurrentRow(P, q.user, q.key, q.scope).version]

\* plan_preference
PlanPreference(q, P) ==
  LET current == CurrentRow(P, q.user, q.key, q.scope) IN Decision(<<
  Rule(~q.decision.store, Rejected("rejected_not_persistable")),
  Rule(\E p \in P : p.user # q.user, Rejected("rejected_cross_user")),
  Rule(q.decision.key # q.key \/ q.decision.scope # q.scope,
       Rejected("rejected_intent_decision_inconsistent")),
  Rule(current # NoRow /\ current.value = q.value, NoOpPlan),
  Rule(current # NoRow, UpdatePlan(q, P)),
  Rule(ScopesBeside(P, q.user, q.key, q.scope) # {},
       [Plan("coexist", "coexist_different_scope") EXCEPT !.next = 1]),
  Rule(TRUE, [Plan("create", "create_first_version") EXCEPT !.next = 1]) >>)

\* _find_by_id
ById(P, id) == IF \E p \in P : p.id = id THEN CHOOSE p \in P : p.id = id ELSE NoRow

\* Mutant: the current version is taken for an older one.
MutIsHistory(target, current) == target.version <= current.version

IsHistory(target, current) == target.version < current.version

\* plan_rollback
PlanRollback(u, id, P) ==
  LET target == ById(P, id)
      current == CurrentRow(P, u, target.key, target.scope)
  IN Decision(<<
  Rule(target = NoRow, Rejected("rejected_rollback_target_not_found")),
  Rule(\E p \in P : p.user # u, Rejected("rejected_cross_user")),
  Rule(current = NoRow /\ AnyActive(P, u),
       Rejected("rejected_rollback_unrelated_version")),
  Rule(current = NoRow, Rejected("rejected_no_active_chain")),
  Rule(~IsHistory(target, current), Rejected("rejected_rollback_future_or_current_version")),
  Rule(TRUE, [Plan("rollback", "rollback_to_history_version") EXCEPT
                !.target = target.version]) >>)

-------------------------------------------------------------------------------
(* The flow of one candidate, and of one wish to roll back *)

NoFlow == [stage |-> "idle"]

\* The versions of the chain, as rows of Preference.
Preferences ==
  {[id |-> <<Key, Scope, n>>, version |-> n, value |-> versions[n].value, user |-> User,
    key |-> Key, scope |-> Scope, status |-> versions[n].status] : n \in DOMAIN versions}

\* A candidate of an event comes before the governance and the business policy.
Judge(c, e, user) ==
  /\ flow = NoFlow
  /\ flow' = [stage |-> "judged", candidate |-> c, event |-> e, user |-> user,
              refusal |-> Refusal(c, e, user), decision |-> LongTerm(c)]
  /\ UNCHANGED chainVars

\* The chain is read, with other rows or without, and a plan is made.
PlanWrite(extra) ==
  LET built == BuildPreference(flow.candidate, flow.user) IN
  /\ flow.stage = "judged"
  /\ flow.refusal = Admitted
  /\ flow.candidate.kind = "preference"
  /\ built.user = User
  /\ flow' = [stage |-> "planned", value |-> built.value, read |-> Len(versions),
              plan |-> PlanPreference(Intent(User, Key, Scope, built.value, flow.decision),
                                      Preferences \cup extra)]
  /\ UNCHANGED chainVars

PlanRestore(user, n, extra) ==
  /\ flow = NoFlow
  /\ flow' = [stage |-> "planned", value |-> "none", read |-> Len(versions),
              plan |-> PlanRollback(user, <<Key, Scope, n>>, Preferences \cup extra)]
  /\ UNCHANGED chainVars

\* What the store is asked for on behalf of a plan.
Request ==
  IF flow.plan.action = "rollback" THEN RollbackRequest(flow.plan.target, NoKey)
  ELSE WriteRequest("update", flow.value, "active", NoEvents, NoKey)

\* The store is asked for what was planned, after the confirmation that every
\* candidate waits for.
CarryOut ==
  /\ flow.stage = "planned"
  /\ \/ /\ flow.plan.action \in {"create", "coexist"}
        /\ Create(flow.value, "active", NoEvents, NoKey)
     \/ /\ flow.plan.action = "update"
        /\ Update(flow.value, "active", NoEvents, NoKey)
     \/ /\ flow.plan.action = "rollback"
        /\ Rollback(flow.plan.target, NoKey)
  /\ flow' = NoFlow

\* Nothing to do, refused by a policy or by the store, or given up.
Drop ==
  /\ flow # NoFlow
  /\ flow' = NoFlow
  /\ UNCHANGED chainVars

PolicyInit == ChainInit /\ flow = NoFlow

\* The steps of the flow alone.
FlowNext ==
  \/ \E c \in Candidates, e \in SourceEvents : \E user \in {User, e.user} : Judge(c, e, user)
  \/ \E extra \in SUBSET Elsewhere : PlanWrite(extra)
  \/ \E user \in {User} \cup {p.user : p \in Elsewhere}, n \in 1..MaxVersions,
        extra \in SUBSET Elsewhere : PlanRestore(user, n, extra)
  \/ CarryOut
  \/ Drop

PolicyNext == FlowNext \/ (ChainNext /\ UNCHANGED flow)

PolicySpec == PolicyInit /\ [][PolicyNext]_policyVars

-------------------------------------------------------------------------------
(* Properties *)

ExtractionKind(c) ==
  IF c.kind = "preference" THEN "preference"
  ELSE IF c.category = "failure_experience" THEN "failure_experience" ELSE "success_knowledge"

\* The two gates agree: what the admission of the pipeline lets be extracted
\* from an event, the governance does not refuse on account of that event.
GatesAgree ==
  flow.stage = "judged" /\ flow.candidate.source = flow.event.id =>
    LET admission == Pipeline!Decide(Pipeline!Process(flow.event), flow.user) IN
    ExtractionKind(flow.candidate) \in admission.kinds =>
      EventRefusal(flow.candidate, flow.event, flow.user) = Admitted

Untouched == flow.read = Len(versions)

\* The plan and the store agree.  As long as nothing was written in between, a
\* planned update gets the number and the predecessor of the plan, a planned
\* no_op changes nothing, and a first version is the first.  When something was
\* written the plan can be told by its number, which is taken; and a rollback
\* stays possible however late it is carried out.
PlanFits ==
  flow.stage = "planned" =>
    LET plan == flow.plan IN
    /\ plan.action = "update" =>
         IF Untouched
         THEN /\ plan.next = Len(versions) + 1
              /\ plan.previous = CurrentVersion
              /\ ~IsNoOp(Request)
         ELSE plan.next \in DOMAIN versions
    /\ plan.action = "no_op" /\ Untouched => IsNoOp(Request)
    /\ plan.action \in {"create", "coexist"} /\ flow.read = 0 =>
         IF Untouched THEN CurrentVersion = 0 /\ plan.next = Len(versions) + 1
         ELSE plan.next \in DOMAIN versions
    /\ plan.action = "rollback" =>
         /\ plan.target \in DOMAIN versions
         /\ MayRestore(plan.target)

\* From the event to the version: no gate undoes what the one before it allowed,
\* and no plan contradicts the store that carries it out.
HandOversFit == GatesAgree /\ PlanFits

\* The inductive invariant: what is dealt with comes from the events, the
\* candidates and a chain that may have grown since it was read.
FlowInv ==
  \/ flow = NoFlow
  \/ flow.stage = "judged" /\ flow.candidate \in Candidates /\ flow.event \in SourceEvents
  \/ /\ flow.stage = "planned"
     /\ flow.plan.action \in Actions
     /\ flow.read \in 0..Len(versions)
     /\ flow.plan.action \in {"create", "coexist", "update"} => flow.value \in Values
     /\ flow.plan.action \in {"create", "coexist"} => flow.plan.next = 1
     /\ flow.plan.action = "update" => flow.plan.next = flow.read + 1
     /\ PlanFits

===============================================================================
