-------------------------------- MODULE Fusion --------------------------------
(***************************************************************************)
(* Fusing the hits of two channels into one ranked context                 *)
(* (retrieval/fusion.py, rrf.py, preference_scope.py): de-duplicate, look  *)
(* each hit up in the truth, drop what the filter forbids and what is not  *)
(* the current version, add reciprocal ranks per memory, order, cut to the *)
(* number and to the tokens asked for, and count what was dropped.         *)
(*                                                                         *)
(* Scores are fractions <<numerator, denominator>>, so that two equal sums *)
(* are equal; the code adds floating-point numbers.  The lists of hits are *)
(* sets: within a channel the providers number them from 1, so no two have *)
(* the same rank.                                                          *)
(*                                                                         *)
(* The first part is what the parts of retrieval hand to each other        *)
(* (retrieval/contracts.py): records of the truth, typed filters, hits and *)
(* rerank policies, and which of them the validators let through.          *)
(***************************************************************************)
EXTENDS Integers, Sequences, FiniteSets, FiniteSetsExt, Rules

CONSTANTS Users, MemoryIds, VersionIds,  \* MemoryIds are numbers: ties are
          None                           \* broken in their order

ASSUME MemoriesAreOrdered == MemoryIds \subseteq Nat

Channel == {"fts5", "vector"}

ObjectType == {"preference", "knowledge"}

\* A document is one version of one memory of one user.
Document == [user : Users, memory : MemoryIds, version : VersionIds]

\* The keys a preference scope demands (PREFERENCE_SCOPE_REQUIRED_TERM_KEYS).
RequiredTermKeys ==
    [global |-> {}, topic |-> {"topic"}, tool |-> {"tool"},
     session |-> {"session"}, time_window |-> {"time_window"}]

PreferenceScope == DOMAIN RequiredTermKeys

TermKeys == UNION {RequiredTermKeys[s] : s \in PreferenceScope}

\* Terms map keys to sets of values; a key that is absent is not in the domain.
NoTerms == [k \in {} |-> {}]

ValuesOf(terms, k) == IF k \in DOMAIN terms THEN terms[k] ELSE {}

\* Knowledge metadata of an index row or of a row of the truth.
KnowledgeMetadata(type, category, source, status, relations) ==
    [type |-> type, category |-> category, source |-> source,
     status |-> status, relations |-> relations]

NoKnowledgeFilter == [types |-> {}, categories |-> {}, sources |-> {},
                      versions |-> {}, relations |-> {}]

AsksForKnowledge(k) == \E f \in DOMAIN k : k[f] # {}

\* The validators of RetrievalFilter and validate_retrieval_filter, which the
\* fusion runs for filters over preferences only.
FilterIsBuilt(flt) ==
    /\ flt.user # None
    /\ flt.types # {}
    /\ AsksForKnowledge(flt.knowledge) => "knowledge" \in flt.types

FilterIsAccepted(flt) ==
    "preference" \in flt.types =>
        /\ flt.user \in Users
        /\ DOMAIN flt.terms \subseteq TermKeys

\* RerankPolicy: weights of both channels, positive and finite.
PolicyIsBuilt(policy) ==
    /\ DOMAIN policy = Channel
    /\ \A c \in Channel : policy[c] \in Nat \ {0}

\* _validate_query_options.
OptionsAreValid(options) ==
    /\ options.k \in Nat \ {0}
    /\ options.top # None => options.top \in Nat \ {0}
    /\ options.budget # None => options.budget \in Nat
    /\ options.policy # None => PolicyIsBuilt(options.policy)

\* A hit names a document, the channel that found it and its place there.
Hit(channel, d, rank) ==
    [channel |-> channel, user |-> d.user, memory |-> d.memory,
     version |-> d.version, rank |-> rank]

DocumentOf(hit) ==
    [user |-> hit.user, memory |-> hit.memory, version |-> hit.version]

-------------------------------------------------------------------------------
(* Fusion *)

Passed == "passed"

\* An empty list of a filter does not filter.
Allows(list, x) == list = {} \/ x \in list

\* preference_scope_terms_match: every key of the truth must meet the query.
ScopeMatches(scope, truthTerms, queryTerms) ==
    /\ scope # None
    /\ DOMAIN truthTerms \subseteq TermKeys
    /\ IF scope = "global" THEN DOMAIN truthTerms = {}
       ELSE /\ \A k \in RequiredTermKeys[scope] : ValuesOf(truthTerms, k) # {}
            /\ \A k \in DOMAIN truthTerms :
                  truthTerms[k] \cap ValuesOf(queryTerms, k) # {}

SceneMatches(rec, flt) ==
    IF rec.scene = None THEN flt.unscoped ELSE rec.scene \in flt.scenes

IsValidAt(rec, now) ==
    /\ rec.from = None \/ rec.from <= now
    /\ rec.to = None \/ now < rec.to

PreferenceReason(rec, flt) ==
    Decision(<<Rule(~SceneMatches(rec, flt), "scene"),
               Rule(~ScopeMatches(rec.scope, rec.terms, flt.terms), "scope"),
               Rule(~IsValidAt(rec, flt.as_of), "validity"),
               Rule(TRUE, Passed)>>)

KnowledgeReason(rec, version, flt) ==
    LET k == rec.knowledge  f == flt.knowledge IN
    IF k = None THEN "knowledge_metadata"
    ELSE Decision(
        <<Rule(k.status # rec.status, "knowledge_status_mismatch"),
          Rule(~Allows(f.types, k.type), "knowledge_type"),
          Rule(~Allows(f.categories, k.category), "knowledge_category"),
          Rule(~Allows(f.sources, k.source), "knowledge_source_event"),
          Rule(~Allows(f.versions, version), "knowledge_version"),
          Rule(~(f.relations \subseteq k.relations), "knowledge_relation"),
          Rule(TRUE, Passed)>>)

\* Mutant: an open conflict excludes knowledge only.
MutHardFilter(truth, d, flt) ==
    IF d \notin DOMAIN truth THEN "missing_truth"
    ELSE LET rec == truth[d] IN Decision(
              <<Rule(d.user # flt.user, "cross_user"),
                Rule(rec.type \notin flt.types, "object_type"),
                Rule(~Allows(flt.statuses, rec.status), "memory_status"),
                Rule(rec.type = "preference", PreferenceReason(rec, flt)),
                Rule(rec.conflict = "unresolved", "unresolved_conflict"),
                Rule(TRUE, KnowledgeReason(rec, d.version, flt))>>)

\* _hard_filter_rejection_reason, in the order of its checks; preferences and
\* knowledge are asked more, and an open conflict excludes either.
HardFilter(truth, d, flt) ==
    IF d \notin DOMAIN truth THEN "missing_truth"
    ELSE LET rec == truth[d]
             own == IF rec.type = "preference" THEN PreferenceReason(rec, flt)
                    ELSE KnowledgeReason(rec, d.version, flt)
         IN Decision(
              <<Rule(d.user # flt.user, "cross_user"),
                Rule(rec.type \notin flt.types, "object_type"),
                Rule(~Allows(flt.statuses, rec.status), "memory_status"),
                Rule(~Allows(flt.sensitivity, rec.sensitivity), "sensitivity"),
                Rule(~Allows(flt.memory_types, rec.memory_type), "memory_type"),
                Rule(own # Passed, own),
                Rule(rec.conflict = "unresolved", "unresolved_conflict"),
                Rule(TRUE, Passed)>>)

\* dedupe_exact_version: of the hits of a channel for one version the best;
\* the user is not part of the key.
Dedupe(hits) ==
    {h \in hits : \A g \in hits :
        (g.channel = h.channel /\ g.memory = h.memory /\ g.version = h.version)
            => h.rank <= g.rank}

\* The version that is marked current, if there is exactly one.
CurrentVersions(truth, user, memory) ==
    {d.version : d \in {e \in DOMAIN truth : /\ e.user = user
                                             /\ e.memory = memory
                                             /\ truth[e].current}}

\* Mutant: the version that is current is not looked up.
MutIsCurrent(truth, d) == TRUE

IsCurrent(truth, d) == CurrentVersions(truth, d.user, d.memory) = {d.version}

\* Why a hit is dropped; stale versions go after the hard filter and before
\* the ranks of a memory are put together.
Reason(truth, flt, hit) ==
    LET d == DocumentOf(hit)  hard == HardFilter(truth, d, flt) IN
    IF hard # Passed THEN hard
    ELSE IF IsCurrent(truth, d) THEN Passed ELSE "not_current_version"

\* aggregate_by_memory: the best rank of a memory in each channel.
RanksOf(hits, memory) ==
    LET of == {h \in hits : h.memory = memory} IN
    [c \in {h.channel : h \in of} |-> Min({h.rank : h \in {g \in of : g.channel = c}})]

\* rrf_score and _final_score: weight / (k + rank), summed over the channels.
Weight(policy, c) == IF policy = None THEN 1 ELSE policy[c]

Score(ranks, options) ==
    LET Num(c) == IF c \in DOMAIN ranks THEN Weight(options.policy, c) ELSE 0
        Den(c) == IF c \in DOMAIN ranks THEN options.k + ranks[c] ELSE 1
    IN <<Num("fts5") * Den("vector") + Num("vector") * Den("fts5"),
         Den("fts5") * Den("vector")>>

Higher(s, t) == s[1] * t[2] > t[1] * s[2]

BestRank(ranks) == Min({ranks[c] : c \in DOMAIN ranks})

\* The sort key of rrf_rank and _rank_aggregated_candidates.
Before(hits, options, a, b) ==
    LET ra == RanksOf(hits, a)  rb == RanksOf(hits, b)
        sa == Score(ra, options)  sb == Score(rb, options)
        na == Cardinality(DOMAIN ra)  nb == Cardinality(DOMAIN rb)
    IN Decision(<<Rule(Higher(sa, sb), TRUE), Rule(Higher(sb, sa), FALSE),
                  Rule(na # nb, na > nb),
                  Rule(BestRank(ra) # BestRank(rb), BestRank(ra) < BestRank(rb)),
                  Rule(TRUE, a < b)>>)

\* The sorted memories: the place of each is after those that come before it.
Ranked(hits, options) ==
    LET memories == {h.memory : h \in hits}
        place == [m \in memories |->
                    1 + Cardinality({n \in memories : Before(hits, options, n, m)})]
    IN [i \in 1..Cardinality(memories) |-> CHOOSE m \in memories : place[m] = i]

Max2(a, b) == IF a > b THEN a ELSE b

\* The explanation of a candidate: which filter it passed, with what in mind,
\* and how it was scored.
AskedFor(flt) == {f \in DOMAIN flt.knowledge : flt.knowledge[f] # {}}

Explanation(rec, flt, options, degraded) ==
    [filter |-> IF rec.type = "preference" THEN "preference-filter/v2"
                ELSE "knowledge-filter/v1",
     matched |-> IF rec.type = "preference"
                 THEN {IF rec.scope = "global" THEN "global" ELSE "terms_matched"}
                 ELSE AskedFor(flt),
     algorithm |-> IF options.policy = None THEN "rrf-v1" ELSE "weighted-rrf/v1",
     degraded |-> degraded]

\* What the code reports of one candidate: the row of the truth and its ranks.
Candidate(truth, hits, flt, options, degraded, memory) ==
    LET d == DocumentOf(CHOOSE h \in hits : h.memory = memory)
        rec == truth[d]
    IN [user |-> d.user, memory |-> memory, version |-> d.version,
        status |-> rec.status, conflict |-> rec.conflict,
        ranks |-> RanksOf(hits, memory), tokens |-> Max2(1, rec.length),
        explanation |-> Explanation(rec, flt, options, degraded)]

Nothing == [out |-> <<>>, used |-> 0, skipped |-> 0]

\* One step of the selection: a candidate that does not fit is passed over, a
\* later one may still fit; the list ends when it has the length asked for.
Take(options, sel, cand) ==
    LET used == sel.used + cand.tokens IN
    Decision(<<Rule(options.top # None /\ Len(sel.out) >= options.top, sel),
               Rule(options.budget # None /\ used > options.budget,
                    [sel EXCEPT !.skipped = @ + 1]),
               Rule(TRUE, [sel EXCEPT !.out = Append(@, cand), !.used = used])>>)

\* Hits that may be shown, of the current version, each version once per channel.
Legal(truth, hits, flt) == {h \in Dedupe(hits) : Reason(truth, flt, h) = Passed}

\* The memories in their order, cut to what was asked for.
Selected(truth, legal, flt, options, degraded) ==
    LET order == Ranked(legal, options)
        sel[i \in 0..Len(order)] ==
            IF i = 0 THEN Nothing
            ELSE Take(options, sel[i - 1],
                      Candidate(truth, legal, flt, options, degraded, order[i]))
    IN sel[Len(order)]

\* How many hits were dropped for which reason.
DropCounts(truth, deduped, flt) ==
    LET why == [h \in deduped |-> Reason(truth, flt, h)] IN
    [r \in {why[h] : h \in deduped} \ {Passed} |-> Cardinality({h \in deduped : why[h] = r})]

\* _to_public_filter_diagnostics: a hit on another user's document is not to
\* be told from one that is filtered for safety.
Published(precise) ==
    [r \in {IF q = "cross_user" THEN "security_filtered" ELSE q : q \in DOMAIN precise}
        |-> IF r = "security_filtered" THEN precise["cross_user"] ELSE precise[r]]

\* The selection and filter diagnostics.
Report(sel, hits, deduped, legal, dropped) ==
    [candidates |-> sel.out, used |-> sel.used, skipped |-> sel.skipped,
     input |-> Cardinality(hits), deduplicated |-> Cardinality(deduped),
     current |-> Cardinality(legal), dropped |-> dropped]

\* _fuse_retrieval_with_diagnostics.
Fuse(truth, hits, flt, options, degraded) ==
    LET deduped == Dedupe(hits)
        legal == Legal(truth, hits, flt)
    IN Report(Selected(truth, legal, flt, options, degraded), hits, deduped, legal,
              DropCounts(truth, deduped, flt))

===============================================================================
