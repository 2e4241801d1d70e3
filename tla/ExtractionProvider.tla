-------------------------- MODULE ExtractionProvider --------------------------
(***************************************************************************)
(* ExtractionProvider: candidates are extracted from an event by rules and *)
(* a language model, and cached per kind and event.  The model runs on one *)
(* worker; a call that has timed out keeps it busy, and later extractions  *)
(* go without the model until it ends or is given up as hung.              *)
(*                                                                         *)
(* Deleting an event leaves a tombstone beside the generation counter.  One*)
(* caller extracts at a time; the cache is larger than the set of events.  *)
(*                                                                         *)
(* The first part is what it makes of an event: candidates for preferences *)
(* from what the user said, candidates for knowledge from what the tools   *)
(* returned (providers/preference_rules.py, knowledge_rules.py), and what  *)
(* it lets through of the answer of a language model                       *)
(* (providers/extraction_provider.py).                                     *)
(*                                                                         *)
(* A text is what the patterns find in it: the values that follow an       *)
(* explicit phrase, the tool it opens with, the values that follow an      *)
(* instruction, and the families of words it contains. The answer of a     *)
(* model is a sequence of raw candidates: their fields, and which of them  *)
(* hold something that is not allowed there.                               *)
(***************************************************************************)
EXTENDS Integers, FiniteSets, Rules

CONSTANT Sensitive  \* contents of high or critical sensitivity

\* The lists of phrases, tools and answers.
IsList(s) == s \in Seq({s[i] : i \in DOMAIN s})

\* What a loop appends that makes one candidate or none at every place of a list.
Joined(made) ==
    LET present == {i \in DOMAIN made : made[i] # <<>>}
        place == [i \in present |-> 1 + Cardinality({j \in present : j < i})]
    IN [n \in 1..Cardinality(present) |-> made[CHOOSE i \in present : place[i] = n][1]]

\* The first of an ordered list of patterns that the text contains.
FirstOf(order, found, default) ==
    Decision([i \in DOMAIN order |-> Rule(order[i] \in found, order[i])] \o <<Rule(TRUE, default)>>)

-----------------------------------------------------------------------------
(* Preferences, by rules.                                                  *)

Category(text) ==
    FirstOf(<<"scene_specific", "tool_selection", "safety", "environment", "workflow">>,
            text.topics, "presentation")

Scope(text) == FirstOf(<<"time_window", "session", "tool", "topic", "global">>,
                       text.scopes, "session")

LongTerm(text) == "long_term" \in text.times
Temporary(text) == "temporary" \in text.times /\ ~LongTerm(text)

Key(text) ==
    CASE Category(text) = "presentation" ->
            <<"response", FirstOf(<<"language", "conciseness", "detail", "length", "style">>,
                                  text.styles, "style")>>
      [] Category(text) = "scene_specific" ->
            <<"scene", FirstOf(<<"meeting", "study", "writing", "email", "work">>,
                               text.scenes, "any")>>
      [] Category(text) = "safety" -> <<"safety", "confirmation">>
      [] OTHER -> <<Category(text), "preference">>

Confidence(text) == Decision(<<Rule(Temporary(text), 60), Rule(LongTerm(text), 75), Rule(TRUE, 70)>>)

\* _build_preference_rule_candidate: one candidate or none.
RuleCandidate(value, text, source) ==
    IF value = "" \/ {value, text.content} \cap Sensitive # {} THEN <<>>
    ELSE <<[key |-> Key(text), value |-> value, category |-> Category(text),
            scope |-> Scope(text), explicitness |-> "explicit",
            is_temporary |-> Temporary(text), should_persist |-> ~Temporary(text),
            confidence |-> Confidence(text), evidence |-> text.content, source |-> source]>>

\* _extract_preferences_rules: the first kind of expression that occurs is the
\* only one that is read, even when nothing comes of it.
PreferencesByRules(text, source) ==
    LET values == Decision(<<Rule(text.phrases # <<>>, text.phrases),
                             Rule(text.tool # <<>>, text.tool),
                             Rule(TRUE, text.orders)>>)
    IN Joined([i \in DOMAIN values |-> RuleCandidate(values[i], text, source)])

-----------------------------------------------------------------------------
(* Knowledge, by rules: tools that succeeded, and tools that failed.       *)

KnowledgeCategory(topics) ==
    FirstOf(<<"failure_experience", "constraint", "template", "case", "workflow">>, topics, "fact")

\* build_failure_experience.
FailureExperience(tool, source) ==
    [fact |-> <<tool.name, tool.error>>, category |-> "failure_experience",
     conditions |-> tool.arguments, evidence |-> tool.error, source |-> source, confidence |-> 60]

SuccessKnowledge(tool, source) ==
    [fact |-> tool.result, category |-> KnowledgeCategory(tool.topics),
     conditions |-> tool.name, evidence |-> tool.result, source |-> source, confidence |-> 85]

\* tool_status_knowledge_policy and the branches of _extract_knowledge_rules: a
\* call that was cancelled, or of an unknown status, says nothing.
ToolKnowledge(tool, source) ==
    Decision(<<
        Rule(/\ tool.status = "failure"
             /\ {tool.name, tool.error, tool.arguments} \cap Sensitive = {},
             <<FailureExperience(tool, source)>>),
        Rule(tool.status = "success" /\ tool.length >= 8 /\ tool.result \notin Sensitive,
             <<SuccessKnowledge(tool, source)>>),
        Rule(TRUE, <<>>)>>)

KnowledgeByRules(tools, source) ==
    Joined([i \in DOMAIN tools |-> ToolKnowledge(tools[i], source)])

\* is_success_tool_result: what a model may build knowledge on.
HasEvidence(tools) == \E i \in DOMAIN tools : tools[i].status = "success" /\ tools[i].length > 0

-----------------------------------------------------------------------------
(* The answer of a model.                                                  *)

\* Required fields, and those that have a default.
Required == [preference |-> {"key", "value", "evidence", "confidence"},
             knowledge  |-> {"fact", "confidence"}]

Defaults ==
    [preference |-> [category |-> "presentation", scope |-> "session", explicitness |-> "explicit",
                     is_temporary |-> FALSE, should_persist |-> TRUE],
     knowledge  |-> [category |-> "fact", conditions |-> "", steps |-> "", expected_result |-> "",
                     problem |-> "", outcome |-> "", reproducible |-> "", template_body |-> "",
                     parameters |-> "", priority |-> "", failure_reason |-> "",
                     avoid_condition |-> "", alternative |-> ""]]

\* Fields the system fills in itself, whatever the model says.
Stripped(kind) == {"source_event_id", "memory_status"} \cup
                  (IF kind = "knowledge" THEN {"evidence"} ELSE {})

\* _degrade_optional_fields, _degrade_knowledge_fields and the defaults of the
\* candidate models.
Degraded(kind, raw) ==
    [f \in Required[kind] \cup DOMAIN Defaults[kind] |->
        IF f \in DOMAIN raw.fields /\ f \notin raw.invalid THEN raw.fields[f]
        ELSE Defaults[kind][f]]

ContentsOf(kind, candidate) ==
    IF kind = "preference" THEN {candidate.value, candidate.evidence}
    ELSE {candidate[f] : f \in {"fact"} \cup (DOMAIN Defaults.knowledge \ {"category"})}

\* What is temporary is not to be persisted.
Normalised(kind, candidate) ==
    IF kind = "preference" /\ candidate.is_temporary
    THEN [candidate EXCEPT !.should_persist = FALSE] ELSE candidate

\* _validate_candidate: one candidate or none.
Validated(kind, raw, source) ==
    LET fields == DOMAIN raw.fields \ Stripped(kind)
        sound == /\ raw.dict
                 /\ Required[kind] \subseteq fields \ raw.invalid
                 /\ fields \subseteq Required[kind] \cup DOMAIN Defaults[kind]
    IN IF ~sound THEN <<>>
       ELSE LET candidate == Normalised(kind, Degraded(kind, raw)) IN
            IF ContentsOf(kind, candidate) \cap Sensitive # {} THEN <<>>
            ELSE <<[f \in DOMAIN candidate \cup {"source"} |->
                      IF f = "source" THEN source ELSE candidate[f]]>>

Answer(kind, raws, source) ==
    Joined([i \in DOMAIN raws |-> Validated(kind, raws[i], source)])

\* _merge_rule_and_llm: the rules win, and between two candidates of the model
\* the first.
Merged(rules, answers) ==
    LET Known(i) == \/ \E r \in DOMAIN rules : rules[r].key = answers[i].key
                    \/ \E j \in 1..i - 1 : answers[j].key = answers[i].key
    IN rules \o Joined([i \in DOMAIN answers |-> IF Known(i) THEN <<>> ELSE <<answers[i]>>])

-------------------------------------------------------------------------------
(* The cache *)

CONSTANTS
  Extractions,  \* calls of extract_preferences / extract_knowledge
  KindOf,       \* KindOf[x]: what x asks for, "preference" or "knowledge"
  Sources,      \* source events (with their content)
  SourceOf,     \* SourceOf[x]: the event x extracts from
  Turns,        \* what an event may hold: [said, tools]
  RawAnswers,   \* RawAnswers[k]: what the model may answer when asked for k
  MaxHangs      \* bound on recoveries from a hung model

ASSUME ExtractionAssumption ==
  /\ KindOf \in [Extractions -> {"preference", "knowledge"}]
  /\ SourceOf \in [Extractions -> Sources]
  /\ MaxHangs \in Nat
  /\ \A t \in Turns : /\ IsList(t.said.phrases) /\ IsList(t.said.tool) /\ IsList(t.said.orders)
                     /\ IsList(t.tools)
  /\ \A kind \in {"preference", "knowledge"} : \A raws \in RawAnswers[kind] : IsList(raws)

VARIABLES
  turn,         \* turn[e]: what event e holds
  extracted,    \* the cache: <<kind, event>> |-> [gen, candidates]
  xgeneration,  \* its generation
  tombstones,   \* _event_tombstones
  llm,          \* the worker: "idle", "busy" (a caller waits), "late" or "hung"
  hangs,        \* recoveries so far
  stage,        \* where an extraction stands
  xgen,         \* generation it has read
  model,        \* the candidates of the model that passed the validation
  outcome,      \* "none", "hit", "ok" or "discarded"
  given         \* the candidates handed to the caller

extractVars ==
  <<turn, extracted, xgeneration, tombstones, llm, hangs, stage, xgen, model, outcome, given>>

NoneExtracted == [e \in {} |-> [gen |-> 0, candidates |-> <<>>]]

ExtractInit ==
  /\ turn \in [Sources -> Turns]
  /\ extracted = NoneExtracted
  /\ xgeneration = 0
  /\ tombstones = {}
  /\ llm = "idle"
  /\ hangs = 0
  /\ stage = [x \in Extractions |-> "start"]
  /\ xgen = [x \in Extractions |-> 0]
  /\ model = [x \in Extractions |-> <<>>]
  /\ outcome = [x \in Extractions |-> "none"]
  /\ given = [x \in Extractions |-> <<>>]

-------------------------------------------------------------------------------
Gone(E) == [k \in {q \in DOMAIN extracted : q[2] \notin E} |-> extracted[k]]
Rest == <<turn, llm, hangs, stage, xgen, model, outcome, given>>

\* invalidate_by_content.
ForgetContent(E) ==
  /\ extracted' = Gone(E)
  /\ xgeneration' = xgeneration + 1
  /\ UNCHANGED <<tombstones, Rest>>

\* invalidate_by_event: one id, whether or not there is anything of it.
ForgetEvent(id) ==
  /\ extracted' = Gone({id})
  /\ xgeneration' = xgeneration + 1
  /\ tombstones' = tombstones \cup {id}
  /\ UNCHANGED <<Rest>>

\* clear: the tombstones go as well.
ClearExtracted ==
  /\ extracted' = NoneExtracted
  /\ xgeneration' = xgeneration + 1
  /\ tombstones' = {}
  /\ UNCHANGED Rest

-------------------------------------------------------------------------------
Enters(x, s) == stage' = [stage EXCEPT ![x] = s]
Alone(x) == \A y \in Extractions \ {x} : stage[y] \in {"start", "end"}

\* Mutant: the kind is no part of the key.
MutKeyOf(x) == <<"candidates", SourceOf[x]>>

\* _preference_cache_key, and the key of extract_knowledge_with_meta.
KeyOf(x) == <<KindOf[x], SourceOf[x]>>

Gives(x, result, candidates) ==
  /\ outcome' = [outcome EXCEPT ![x] = result]
  /\ given' = [given EXCEPT ![x] = candidates]
  /\ Enters(x, "end")

ExtractLookup(x) ==
  /\ stage[x] = "start"
  /\ Alone(x)
  /\ IF KeyOf(x) \in DOMAIN extracted
     THEN Gives(x, "hit", extracted[KeyOf(x)].candidates)
     ELSE Enters(x, "capture") /\ UNCHANGED <<outcome, given>>
  /\ UNCHANGED <<turn, extracted, xgeneration, tombstones, llm, hangs, xgen, model>>

ExtractCapture(x) ==
  /\ stage[x] = "capture"
  /\ xgen' = [xgen EXCEPT ![x] = xgeneration]
  /\ Enters(x, "call")
  /\ UNCHANGED <<turn, extracted, xgeneration, tombstones, llm, hangs, model, outcome, given>>

\* The model is asked for knowledge only on the ground of a tool that succeeded.
MayAsk(x) == KindOf[x] = "preference" \/ HasEvidence(turn[SourceOf[x]].tools)

\* _run_llm: submit, skip a busy worker, or replace a hung one (and skip).
RunLlm(x) ==
  /\ stage[x] = "call"
  /\ IF MayAsk(x) /\ llm = "idle"
     THEN llm' = "busy" /\ Enters(x, "model") /\ UNCHANGED hangs
     ELSE /\ IF MayAsk(x) /\ llm = "hung"
             THEN llm' = "idle" /\ hangs' = hangs + 1
             ELSE UNCHANGED <<llm, hangs>>
          /\ Enters(x, "store")
  /\ UNCHANGED <<turn, extracted, xgeneration, tombstones, xgen, model, outcome, given>>

\* The model answers, raises, or the caller stops waiting for it.
LlmReturns(x) ==
  /\ stage[x] = "model"
  /\ \/ /\ llm' = "idle"
        /\ \E raws \in RawAnswers[KindOf[x]] :
              model' = [model EXCEPT ![x] = Answer(KindOf[x], raws, SourceOf[x])]
     \/ llm' \in {"idle", "late"} /\ UNCHANGED model
  /\ Enters(x, "store")
  /\ UNCHANGED <<turn, extracted, xgeneration, tombstones, hangs, xgen, outcome, given>>

\* A call that timed out ends after all, or exceeds the hang threshold.
LlmLate ==
  /\ \/ llm \in {"late", "hung"} /\ llm' = "idle"
     \/ llm = "late" /\ hangs < MaxHangs /\ llm' = "hung"
  /\ UNCHANGED <<turn, extracted, xgeneration, tombstones, hangs, stage, xgen, model, outcome,
                 given>>

ByRules(kind, source) ==
  IF kind = "preference" THEN PreferencesByRules(turn[source].said, source)
  ELSE KnowledgeByRules(turn[source].tools, source)

\* What the rules and the model have found together.
Together(kind, rules, answers) ==
  IF kind = "preference" THEN Merged(rules, answers) ELSE rules \o answers

Found(x) == Together(KindOf[x], ByRules(KindOf[x], SourceOf[x]), model[x])

Cached(x) == [k \in DOMAIN extracted \cup {KeyOf(x)} |->
                IF k = KeyOf(x) THEN [gen |-> xgen[x], candidates |-> Found(x)]
                ELSE extracted[k]]

\* set: refused under another generation or a tombstone; the caller gets nothing.
ExtractStore(x) ==
  /\ stage[x] = "store"
  /\ IF xgen[x] = xgeneration /\ SourceOf[x] \notin tombstones
     THEN extracted' = Cached(x) /\ Gives(x, "ok", Found(x))
     ELSE Gives(x, "discarded", <<>>) /\ UNCHANGED extracted
  /\ UNCHANGED <<turn, xgeneration, tombstones, llm, hangs, xgen, model>>

ExtractStep(x) ==
  ExtractLookup(x) \/ ExtractCapture(x) \/ RunLlm(x) \/ LlmReturns(x) \/ ExtractStore(x)

-------------------------------------------------------------------------------
\* A candidate of the kind and the event, founded on none of these texts if it is
\* sensitive, and not at once temporary and to be persisted.
Fit(kind, source, candidate, texts) ==
  /\ ("key" \in DOMAIN candidate) = (kind = "preference")
  /\ candidate.source = source
  /\ texts \cap Sensitive = {}
  /\ kind = "preference" => ~(candidate.is_temporary /\ candidate.should_persist)

\* What the rules looked at before they made a candidate, and what the model's
\* candidate holds.
RuleTexts(kind, candidate) ==
  IF kind = "knowledge" THEN {candidate.evidence} ELSE ContentsOf(kind, candidate)

\* Candidates of one kind from one event that deserve to be trusted: they begin
\* with everything the rules find; none is founded on something sensitive, or is
\* temporary and would be persisted; the model adds nothing that holds something
\* sensitive, no second value for a key, and no knowledge without a tool that
\* succeeded.
Trusted(kind, source, list) ==
  LET rules == ByRules(kind, source)
      ByRule(i) == i <= Len(rules)
  IN /\ Len(rules) <= Len(list) /\ SubSeq(list, 1, Len(rules)) = rules
     /\ \A i \in DOMAIN list :
          Fit(kind, source, list[i],
              IF ByRule(i) THEN RuleTexts(kind, list[i]) ELSE ContentsOf(kind, list[i]))
     /\ \A i \in Len(rules) + 1 .. Len(list) :
          IF kind = "preference" THEN \A j \in 1 .. (i - 1) : list[j].key # list[i].key
          ELSE HasEvidence(turn[source].tools)

\* What a caller is given, fresh or from the cache, is of the kind and the event
\* it asked about, and to be trusted.
CandidatesAreTrusted ==
  \A x \in Extractions :
    outcome[x] \in {"hit", "ok"} => Trusted(KindOf[x], SourceOf[x], given[x])

-------------------------------------------------------------------------------
(* The inductive invariant of what an extraction gives *)

ExtractTypes ==
  /\ turn \in [Sources -> Turns]
  /\ stage \in [Extractions -> {"start", "capture", "call", "model", "store", "end"}]
  /\ outcome \in [Extractions -> {"none", "hit", "ok", "discarded"}]
  /\ DOMAIN model = Extractions /\ DOMAIN given = Extractions

\* Only who may ask waits for the model, and what it has said has passed the
\* validation.
AnswersAreFit ==
  \A x \in Extractions :
    /\ stage[x] = "model" => MayAsk(x)
    /\ model[x] # <<>> => MayAsk(x)
    /\ IsList(model[x])
    /\ \A i \in DOMAIN model[x] :
         Fit(KindOf[x], SourceOf[x], model[x][i], ContentsOf(KindOf[x], model[x][i]))

\* An entry is of the kind and the event it is kept under.
CacheIsTrusted ==
  \A k \in DOMAIN extracted :
    /\ k \in {"preference", "knowledge"} \X Sources
    /\ Trusted(k[1], k[2], extracted[k].candidates)

ExtractInv == ExtractTypes /\ AnswersAreFit /\ CacheIsTrusted /\ CandidatesAreTrusted

===============================================================================
