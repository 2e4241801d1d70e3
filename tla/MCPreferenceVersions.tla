-------------------------- MODULE MCPreferenceVersions --------------------------
(***************************************************************************)
(* Instances of PreferenceVersions and PreferencePolicies for the model    *)
(* checker: either callers send requests of every kind, or one flow of the *)
(* policies is at work, among requests without keys and events.            *)
(***************************************************************************)
EXTENDS PreferencePolicies, TLC

CONSTANTS a, b, event, key, forgetting, text, secret
CONSTANT Movers  \* which of the two a behaviour is about

MCValues == {a, b}
MCStatuses == {"active", "candidate"}
MCEvents == {event}
MCRequestKeys == {key}
MCPlans == {forgetting}

-------------------------------------------------------------------------------
(* Events and candidates of the flow *)

MCContents == {text, secret}
MCTextLevel == [c \in {text, secret, NoContent} |-> IF c = secret THEN "high" ELSE "none"]

Chat == [user |-> "u1", id |-> "s1", key |-> "k1", session |-> "s", src |-> "manual_config",
         type |-> "system_message", status |-> "completed", consent |-> "memory_only",
         sens |-> "low", matched |-> FALSE, ignore |-> FALSE, checked |-> TRUE, call |-> TRUE,
         turn |-> TRUE, structured |-> TRUE, content |-> text, age |-> "today",
         occurred |-> 0, captured |-> 0]

MCSourceEvents ==
  {Chat, [Chat EXCEPT !.user = "u2"], [Chat EXCEPT !.sens = "critical"],
   [Chat EXCEPT !.content = secret]}
  \cup {[Chat EXCEPT !.src = "tool_result", !.status = s] :
          s \in {"failed", "partial", "cancelled", "timeout"}}
  \cup {[Chat EXCEPT !.ignore = TRUE, !.status = "ignored"]}

Wish(v) == [kind |-> "preference", source |-> "s1", status |-> "candidate", temporary |-> FALSE,
            persist |-> TRUE, explicit |-> TRUE, key |-> "language", scope |-> "global",
            value |-> v, category |-> "presentation", tier |-> "none"]

Fact == [Wish(a) EXCEPT !.kind = "knowledge", !.category = "fact", !.tier = "long_term"]

MCCandidates ==
  {Wish(a), Wish(b), [Wish(a) EXCEPT !.temporary = TRUE], [Wish(b) EXCEPT !.explicit = FALSE],
   [Wish(a) EXCEPT !.scope = "session"], [Wish(a) EXCEPT !.source = "s2"],
   Fact, [Fact EXCEPT !.category = "failure_experience"], [Fact EXCEPT !.tier = "none"]}

Row(u, s) == [id |-> <<u, "language", s, 1>>, version |-> 1, value |-> a, user |-> u,
              key |-> "language", scope |-> s, status |-> "active"]

MCElsewhere == {Row("u1", "topic"), Row("u2", "global")}

-------------------------------------------------------------------------------
VARIABLE moving

MCInit == moving \in Movers /\ PolicyInit

\* Candidates are judged on a chain of every length, but plans of every kind are
\* made only for the events that admit them.
MCNext ==
  /\ \/ moving = "requests" /\ ChainNext /\ UNCHANGED flow
     \/ /\ moving = "flow"
        /\ \/ FlowNext
           \/ /\ \E v \in Values, s \in SentStatuses :
                    Create(v, s, NoEvents, NoKey) \/ Update(v, s, NoEvents, NoKey)
              /\ UNCHANGED flow
           \/ (\E t \in 1..MaxVersions : Rollback(t, NoKey)) /\ UNCHANGED flow
           \/ (\E p \in Plans : ForgetPreference(p)) /\ UNCHANGED flow
  /\ UNCHANGED moving

MCSpec == MCInit /\ [][MCNext]_<<policyVars, moving>>

\* Values are only compared with each other.
MCValueSymmetry == Permutations(Values)

===============================================================================
