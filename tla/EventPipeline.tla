--------------------------- MODULE EventPipeline ---------------------------
(***************************************************************************)
(* The pure part of event ingestion: what one submitted event becomes      *)
(* before anything is written (memory-service/pipeline/*.py) and whether   *)
(* it may be extracted (security/source_admission.py).                     *)
(*                                                                         *)
(* An event is a record.  Its text is a member of Contents or NoContent;   *)
(* the sensitivity the detector finds in a text is a constant function,    *)
(* because the patterns themselves are wording.  Scores are integers in    *)
(* hundredths and weights in hundredths, so an overall score is in ten-    *)
(* thousandths.                                                            *)
(***************************************************************************)
EXTENDS Integers, FiniteSets, Rules

CONSTANTS Contents,     \* texts an event may carry
          NoContent,    \* content_summary and raw_payload_ref both absent
          TextLevel     \* what detect_sensitivity finds in a text

Levels == {"none", "low", "medium", "high", "critical"}
SourceTypes == {"chat", "tool_result", "manual_config", "recollect",
                "file", "meeting", "voice"}
EventTypes == {"user_message", "agent_response", "system_message"}
Statuses == {"raw", "completed", "success", "partial",
             "failed", "cancelled", "timeout", "ignored"}
Consents == {"memory_only", "memory_and_analytics", "none"}

ASSUME TextLevelAssumption == TextLevel \in [Contents \cup {NoContent} -> Levels]

Rank == [none |-> 0, low |-> 1, medium |-> 2, high |-> 3, critical |-> 4]

\* MemorySourceEvent: the cross-field rules that refuse an event whose single
\* fields are well formed.
WellFormed(e) ==
    /\ e.src = "tool_result" => e.call
    /\ e.status = "ignored" => e.ignore

\* The scan may only raise the declared level, and marks every match.
Scanned(e) ==
    LET level == TextLevel[e.content] IN
    IF level = "none" THEN e
    ELSE [e EXCEPT !.matched = TRUE,
                   !.sens = IF Rank[level] > Rank[@] THEN level ELSE @]

\* The fingerprint of the text, or of the identifiers of an event without one.
ContentFingerprint(e) ==
    IF e.content # NoContent THEN <<"text", e.content>>
    ELSE <<"ids", e.id, e.key, e.session>>

Completeness(e) ==
    100 - (IF e.src = "tool_result" /\ ~e.call THEN 30 ELSE 0)
        - (IF e.type \in {"user_message", "agent_response"} /\ ~e.turn
             THEN 10 ELSE 0)
        - (IF e.content = NoContent THEN 20 ELSE 0)

Validity(e) ==
    100 - (IF e.occurred > e.captured THEN 40 ELSE 0)
        - (IF e.sens = "critical" THEN 20 ELSE 0)

SourceReliability ==
    [manual_config |-> 95, tool_result |-> 90, chat |-> 45, recollect |-> 30,
     file |-> 50, meeting |-> 55, voice |-> 45]

Reliability(e) ==
    IF e.src = "tool_result" /\ e.status \in {"failed", "cancelled", "timeout"}
      THEN SourceReliability[e.src] \div 2
      ELSE SourceReliability[e.src]

\* Half a week of decay is not told apart: an event is of today, a week old
\* or of long ago.
Freshness(e) == CASE e.age = "today" -> 100
                  [] e.age = "week"  -> 50
                  [] e.age = "old"   -> 0

UsualTypes == {<<"chat", "user_message">>, <<"chat", "agent_response">>,
               <<"tool_result", "agent_response">>}
              \cup ({"manual_config", "recollect", "file", "meeting", "voice"}
                      \X {"system_message"})

Consistency(e) == IF <<e.src, e.type>> \in UsualTypes THEN 100 ELSE 40

Extractability(e) ==
    CASE e.structured -> 100
      [] ~e.structured /\ e.content # NoContent -> 60
      [] OTHER -> 20

Overall(e) == 25 * Completeness(e) + 20 * Validity(e) + 20 * Reliability(e)
              + 10 * Freshness(e) + 10 * Consistency(e) + 15 * Extractability(e)

QualityEligible(e) == Overall(e) >= 5000 /\ Reliability(e) >= 40

\* What stops an event whatever its quality.
SecurityGate(e) ==
    \/ e.sens \in {"high", "critical"}
    \/ e.ignore
    \/ e.src = "tool_result" /\ ~e.checked

\* EventPipeline.process: scan, score, then the gate closes.
Process(raw) ==
    LET e == Scanned(raw)
        gate == SecurityGate(e)
    IN  [event |-> IF gate THEN [e EXCEPT !.ignore = TRUE, !.status = "ignored"]
                   ELSE e,
         gate |-> gate,
         eligible |-> QualityEligible(e) /\ ~gate]

Kinds == {"preference", "success_knowledge", "failure_experience"}

Rejected(why) == [decision |-> "reject", why |-> why, kinds |-> {}]

Allowed(why, kinds) ==
    [decision |-> "allow_extraction", why |-> why, kinds |-> kinds]

\* SourceAdmissionPolicy.evaluate.
Admission(r, user) ==
    LET e == r.event IN Decision(<<
      Rule(user # e.user, Rejected("user_id_mismatch")),
      Rule(e.ignore, Rejected("event_should_ignore")),
      Rule(e.status = "ignored", Rejected("event_status_ignored")),
      Rule(r.gate, Rejected("security_gate_triggered")),
      Rule(e.sens \in {"high", "critical"}, Rejected("event_sensitive")),
      Rule(e.src = "tool_result" /\ ~e.checked, Rejected("tool_payload_unchecked")),
      Rule(e.status \in {"cancelled", "timeout"}, Rejected("event_status_unfinished")),
      Rule(~r.eligible, [decision |-> "audit_only", why |-> "quality_not_eligible",
                         kinds |-> {}]),
      Rule(e.status = "failed", Allowed("failed_tool", {"failure_experience"})),
      Rule(e.status = "partial", Allowed("partial", {"preference"})),
      Rule(TRUE, Allowed("ok", Kinds)) >>)

\* The consent rule of the handler goes before the policy.
Decide(r, user) == IF r.event.consent = "none" THEN Rejected("consent_not_granted")
                   ELSE Admission(r, user)

SecurityReasons == {"event_should_ignore", "event_status_ignored",
                    "security_gate_triggered", "event_sensitive",
                    "tool_payload_unchecked", "consent_not_granted"}

\* Whether the stored row keeps its text and its fingerprint.
Suppressed(r, d) ==
    \/ r.event.consent = "none"
    \/ r.event.matched
    \/ r.event.sens \in {"high", "critical"}
    \/ r.event.ignore \/ r.gate
    \/ d.decision = "reject" /\ d.why \in SecurityReasons
=============================================================================
