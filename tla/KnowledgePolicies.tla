-------------------------- MODULE KnowledgePolicies ---------------------------
(***************************************************************************)
(* Two pure decisions about knowledge rows. Who wins when two rows of one  *)
(* user contradict each other (service/conflict_resolution_policy.py), from*)
(* their evidence tiers, scopes and recording times; and what becomes of a *)
(* row as it ages (service/lifecycle_policy.py), from a snapshot of the    *)
(* row, the time and a configuration that holds every threshold.           *)
(***************************************************************************)
EXTENDS Integers, Sequences, Rules

CONSTANT None

\* EvidenceTier, the most trusted first.
Tiers == << "user_explicit_config_latest", "user_confirmed",
            "tool_execution_result", "consistent_behavior_multiple",
            "behavior_inference_single", "model_inference" >>

EvidenceTier == {Tiers[i] : i \in DOMAIN Tiers}

\* Smaller is more trusted.
Priority(tier) == CHOOSE i \in DOMAIN Tiers : Tiers[i] = tier

DecisionAction == {"keep_left", "keep_right", "coexist", "defer", "reject"}

Ruling(action, reason, winner) ==
    [action |-> action, reason |-> reason, winner |-> winner]

\* Strictly later, when both times are known.
Latest(left, right) ==
    /\ left.recorded # None /\ right.recorded # None
    /\ left.recorded > right.recorded

\* ConflictResolutionPolicy.resolve: a side is [id, user, tier, scope,
\* recorded]; scope and recorded may be None.
Resolve(left, right) ==
    LET explicit == left.tier = Tiers[1] IN
    Decision(<<
        Rule(left.user # right.user,
             Ruling("reject", "cross_user_blocked", None)),
        Rule(None \notin {left.scope, right.scope} /\ left.scope # right.scope,
             Ruling("coexist", "scope_distinguishable", None)),
        Rule(Priority(left.tier) < Priority(right.tier),
             Ruling("keep_left", "evidence_tier_priority", left.id)),
        Rule(Priority(right.tier) < Priority(left.tier),
             Ruling("keep_right", "evidence_tier_priority", right.id)),
        Rule(explicit /\ Latest(left, right),
             Ruling("keep_left", "latest_explicit_config_wins", left.id)),
        Rule(explicit /\ Latest(right, left),
             Ruling("keep_right", "latest_explicit_config_wins", right.id)),
        Rule(TRUE, Ruling("defer", "same_tier_undecidable", None)) >>)

-------------------------------------------------------------------------------
(* Lifecycle *)

MemoryStatus == {"active", "candidate", "superseded", "deprecated",
                 "expired", "removed"}

MemoryType == {"short_term", "medium_term", "long_term", "ephemeral"}

\* The tiers an automatic decision moves a row up to and down to.
Above(type) == CASE type = "short_term"  -> "medium_term"
                 [] type = "medium_term" -> "long_term"
                 [] OTHER                -> None

Below(type) == CASE type = "long_term"   -> "medium_term"
                 [] type = "medium_term" -> "short_term"
                 [] OTHER                -> None

\* LifecycleAction, but for the refusal of an argument of another type.
LifecycleAction == {"promote", "demote", "expire", "archive_request", "hold"}

\* The reason codes of a LifecycleDecision.
LifecycleReason ==
    {"inactivity_threshold", "low_usage_threshold", "confidence_decay_threshold",
     "removed_cold_data", "expired_cold_data", "expired_pending_archive",
     "candidate_requires_confirmation", "superseded_no_auto_recovery",
     "deprecated_no_auto_recovery", "credible_evidence_threshold",
     "age_threshold_reached", "no_threshold_met"}

Verdict(action, reason) ==
    [action |-> action, reason |-> reason, type |-> None]

\* _check_promotion: old enough, used enough, sure enough and trusted enough.
\* Unknown use counts as no use.
Promotable(s, now, config) ==
    /\ Above(s.type) # None
    /\ now - s.created >= config.promoteAge
    /\ s.access # None /\ s.access >= config.promoteAccess
    /\ s.confidence >= config.promoteConfidence
    /\ Priority(s.tier) <= Priority(config.promoteTier)

\* _check_demotion: unused for long, or little used, or doubtful.
Idle(s, now, config) ==
    now - (IF s.last = None THEN s.created ELSE s.last) >= config.demoteIdle

LittleUsed(s, config) == s.access # None /\ s.access <= config.demoteAccess

Demotion(s, now, config) ==
    Decision(<<
        Rule(Idle(s, now, config), "inactivity_threshold"),
        Rule(LittleUsed(s, config), "low_usage_threshold"),
        Rule(s.confidence <= config.demoteConfidence,
             "confidence_decay_threshold"),
        Rule(TRUE, None) >>)

\* decide for a row that is not active: never back to active.
Dormant(s, now, config) ==
    Decision(<<
        Rule(s.status = "removed", Verdict("archive_request", "removed_cold_data")),
        Rule(s.status = "expired" /\ now - s.updated >= config.archiveAge,
             Verdict("archive_request", "expired_cold_data")),
        Rule(s.status = "expired", Verdict("hold", "expired_pending_archive")),
        Rule(s.status = "candidate",
             Verdict("hold", "candidate_requires_confirmation")),
        Rule(s.status = "superseded",
             Verdict("hold", "superseded_no_auto_recovery")),
        Rule(TRUE, Verdict("hold", "deprecated_no_auto_recovery")) >>)

\* LifecyclePolicy.decide: promote before expire before demote.
Decide(s, now, config) ==
    Decision(<<
        Rule(s.status # "active", Dormant(s, now, config)),
        Rule(Promotable(s, now, config),
             [Verdict("promote", "credible_evidence_threshold")
                EXCEPT !.type = Above(s.type)]),
        Rule(now - s.created >= config.expireAge,
             Verdict("expire", "age_threshold_reached")),
        Rule(Below(s.type) # None /\ Demotion(s, now, config) # None,
             [Verdict("demote", Demotion(s, now, config))
                EXCEPT !.type = Below(s.type)]),
        Rule(TRUE, Verdict("hold", "no_threshold_met")) >>)

\* PolicyConfig: a promotion never rests on what the model guessed.
IsConfig(config) == config.promoteTier # "model_inference"

===============================================================================
