-------------------------------- MODULE MCCaches ------------------------------
(***************************************************************************)
(* Instances of CacheInvalidator for the model checker.                     *)
(***************************************************************************)
EXTENDS CacheInvalidator, TLC

CONSTANTS r1, r2, r3, t1, e1, x1, x2, x3, d1, d2

MCTextOf == [r \in Requests |-> t1]
\* Two connections; r3 follows r2 on the second one.
MCEarlier == [r \in Requests |-> IF r = r3 THEN {r2} ELSE {}]
MCSourceOf == [x \in Extractions |-> e1]
MCKindOf == [x \in Extractions |-> IF x = x3 THEN "knowledge" ELSE "preference"]

\* "In future, mainly Chinese": two explicit phrases; an instruction for this
\* once; a secret after an explicit phrase; and nothing that a pattern finds.
MCText(content, phrases, orders, times) ==
  [content |-> content, phrases |-> phrases, tool |-> <<>>, orders |-> orders,
   topics |-> {}, scopes |-> {}, times |-> times, styles |-> {"language"}, scenes |-> {}]
MCStates == MCText("plain", <<"chinese", "english">>, <<"short">>, {"long_term", "temporary"})
MCOnce == MCText("plain", <<>>, <<"chinese">>, {"temporary"})
MCLeaks == MCText("secret", <<"chinese">>, <<>>, {})
MCSilent == [MCText("plain", <<>>, <<>>, {}) EXCEPT !.tool = <<"">>]

MCTool(status, result, length) ==
  [name |-> "grep", status |-> status, result |-> result, length |-> length,
   error |-> "failed", arguments |-> "none", topics |-> {"case"}]
MCWorked == MCTool("success", "found", 9)
MCBrief == MCTool("success", "ok", 2)
MCFailed == MCTool("failure", "", 0)
MCCancelled == MCTool("cancelled", "", 0)

MCPlain == [said |-> MCStates, tools |-> <<MCFailed, MCWorked>>]
MCTurns == {MCPlain,
            [said |-> MCOnce, tools |-> <<MCBrief, MCCancelled>>],
            [said |-> MCLeaks, tools |-> <<MCTool("success", "secret", 9), MCFailed>>],
            [said |-> MCSilent, tools |-> <<MCFailed>>]}

\* A model that repeats a key, calls something temporary and persistent, names
\* its own source, leaves a field out, fills one with nonsense, repeats a secret.
MCPreference(fields) == [dict |-> TRUE, invalid |-> {}, fields |-> fields]
MCBase == [key |-> <<"response", "language">>, value |-> "german", evidence |-> "plain",
           confidence |-> 80]
MCFields(more) == [f \in DOMAIN MCBase \cup DOMAIN more |->
                     IF f \in DOMAIN more THEN more[f] ELSE MCBase[f]]
MCRawPreferences ==
  {<<MCPreference(MCBase),
     MCPreference(MCFields([key |-> <<"scene", "any">>, is_temporary |-> TRUE,
                            source_event_id |-> "other"])),
     MCPreference(MCFields([key |-> <<"scene", "any">>, value |-> "formal"]))>>,
   <<[dict |-> FALSE, invalid |-> {}, fields |-> [f \in {} |-> ""]],
     [MCPreference(MCFields([scope |-> "nowhere"])) EXCEPT !.invalid = {"scope"}],
     MCPreference(MCFields([key |-> <<"scene", "any">>, value |-> "secret"])),
     [MCPreference(MCBase) EXCEPT !.invalid = {"confidence"}]>>}
MCRawKnowledge ==
  {<<[dict |-> TRUE, invalid |-> {},
      fields |-> [fact |-> "claimed", confidence |-> 90, evidence |-> "invented",
                  memory_status |-> "verified"]],
     [dict |-> TRUE, invalid |-> {"category"},
      fields |-> [fact |-> "claimed", confidence |-> 90, category |-> "gossip"]],
     [dict |-> TRUE, invalid |-> {},
      fields |-> [fact |-> "claimed", confidence |-> 90, steps |-> "secret"]],
     [dict |-> TRUE, invalid |-> {}, fields |-> [fact |-> "claimed"]]>>}
MCRawAnswers == [preference |-> MCRawPreferences, knowledge |-> MCRawKnowledge]

\* Embedding and extraction share no state, a deletion touches one after the
\* other: a behaviour exercises one of the two services; the full reset d2 comes
\* only beside extractions, with a deletion by content if nothing fails, and the
\* deletion by id alone; and there are three embed requests, or two and a deletion
\* by content.  What an event holds is varied where nothing is deleted.
MCDeleting == failures > 0 \/ processed # {} \/ \E d \in Deletions : step[d] # "idle"
MCBound ==
  /\ \/ \A r \in Requests : pc[r] = "start"
     \/ /\ \A x \in Extractions : stage[x] = "start"
        /\ \A d \in Deletions \ {d1} : askedAt[d] = NotAsked
        /\ turn[e1] = MCPlain
  /\ MCDeleting => \A r \in Requests : Earlier[r] # {} => pc[r] = "start"
  /\ MCDeleting => turn[e1] = MCPlain /\ stage[x3] = "start"
  /\ failures > 0 => NotAsked \in {askedAt[d1], askedAt[d2]}
  /\ askedAt[e1] # NotAsked => \A d \in Deletions \ {e1} : askedAt[d] = NotAsked

\* Two of the extractions differ in nothing.
MCSymmetry == Permutations({x1, x2})

MCReset == {d2}
\* d1 names contents, under an id of its own; the third is the deletion of the
\* source event e1 by its id, and names no contents.
MCTextsOf == [d \in Deletions |-> IF d = e1 THEN {} ELSE {t1}]
MCSourcesOf == [d \in Deletions |-> IF d = e1 THEN {} ELSE {e1}]

===============================================================================
