----------------------------- MODULE Retrieval -----------------------------
(***************************************************************************)
(* Retrieval over indexes that lag behind the truth (retrieval/fts5.py,    *)
(* fusion.py, service/retrieval_business_policy.py).  The tables change on *)
(* their own; the index of words and the index of vectors follow in any    *)
(* order or not at all; a retrieval searches both, survives the failure of *)
(* one or of both, and fuses what they found with the truth.               *)
(***************************************************************************)
EXTENDS Fusion

CONSTANTS Content,     \* [documents -> the row of the truth when it is written]
          Requests     \* pairs of a filter, and number, tokens, k and rerank
                       \* policy asked for

ASSUME RequestsAreBuilt ==
    /\ DOMAIN Content \subseteq Document
    /\ \A d \in DOMAIN Content :
          "length" \in DOMAIN Content[d] /\ Content[d].length \in Nat
    /\ \A r \in Requests : FilterIsBuilt(r.flt)

VARIABLES truth,    \* the documents the tables hold, with their rows
          fts,      \* the documents of the FTS table, with their metadata
          vector,   \* the documents the vector collection holds
          outcome   \* the last retrieval, until something changes

retrievalVars == <<truth, fts, vector, outcome>>

Documents == DOMAIN Content
NoOutcome == [state |-> "none"]

\* KnowledgeContextPolicy.build_standard_filter: knowledge that is active and
\* not in an open conflict; the options can only narrow it.
StandardFilter(user, options, now) ==
    [user |-> user, types |-> {"knowledge"}, statuses |-> {"active"},
     sensitivity |-> options.sensitivity, memory_types |-> options.memory_types,
     scenes |-> {}, unscoped |-> FALSE, terms |-> NoTerms, as_of |-> now,
     knowledge |-> options.knowledge]

\* KnowledgeContextPolicy.admit_memory_status.
AdmitMemoryStatus(status) ==
    Decision(<<Rule(status = "active", "admitted_standard_context"),
               Rule(status \in {"candidate", "superseded", "deprecated",
                                "expired", "removed"}, status),
               Rule(TRUE, "rejected_unknown_status")>>)

RetrievalInit ==
    /\ truth = [d \in {} |-> 0]
    /\ fts = [d \in {} |-> 0]
    /\ vector = {}
    /\ outcome = NoOutcome

-----------------------------------------------------------------------------
(* The tables: a new version supersedes the ones before it, the status and *)
(* the conflict of a row change, a row is removed from the result set.     *)

WithStatus(rec, status) ==
    [rec EXCEPT !.status = status,
                !.knowledge = IF @ = None THEN None ELSE [@ EXCEPT !.status = status]]

Write(d) ==
    /\ d \in Documents \ DOMAIN truth
    /\ truth' = [e \in DOMAIN truth \cup {d} |->
          IF e = d THEN Content[d]
          ELSE IF e.user = d.user /\ e.memory = d.memory
               THEN [WithStatus(truth[e], "superseded") EXCEPT !.current = FALSE]
               ELSE truth[e]]
    /\ outcome' = NoOutcome
    /\ UNCHANGED <<fts, vector>>

Change(d, rec) ==
    /\ rec # truth[d]
    /\ truth' = [truth EXCEPT ![d] = rec]
    /\ outcome' = NoOutcome
    /\ UNCHANGED <<fts, vector>>

Retire(d) == Change(d, WithStatus(truth[d], "removed"))

Contest(d) == Change(d, [truth[d] EXCEPT !.conflict = "unresolved"])

-----------------------------------------------------------------------------
(* The index of words.                                                     *)

\* Fts5Index.upsert: the metadata of the row as it is now; the columns stay
\* empty for a preference.
UpsertFts(d) ==
    /\ d \in DOMAIN truth
    /\ fts' = [e \in DOMAIN fts \cup {d} |->
                 IF e = d THEN [type |-> truth[d].type, knowledge |-> truth[d].knowledge]
                 ELSE fts[e]]
    /\ outcome' = NoOutcome
    /\ fts' # fts
    /\ UNCHANGED <<truth, vector>>

\* Fts5Index.delete.
DeleteFts(d) ==
    /\ d \in DOMAIN fts
    /\ fts' = [e \in DOMAIN fts \ {d} |-> fts[e]]
    /\ outcome' = NoOutcome
    /\ UNCHANGED <<truth, vector>>

\* The WHERE clause of Fts5Index.search.  A column that is empty is in no list,
\* so a filter on the status finds no preference.
FtsMatches(d, flt) ==
    LET row == fts[d]  k == row.knowledge  f == flt.knowledge
        Lists(list, field) == list = {} \/ (k # None /\ k[field] \in list)
    IN /\ d.user = flt.user
       /\ row.type \in flt.types
       /\ Lists(flt.statuses, "status")
       /\ row.type = "knowledge" =>
            /\ Lists(f.types, "type")
            /\ Lists(f.categories, "category")
            /\ Lists(f.sources, "source")
            /\ Allows(f.versions, d.version)

HitsOf(channel, found) == {Hit(channel, found[i], i) : i \in DOMAIN found}

-----------------------------------------------------------------------------
(* The index of vectors, as far as a retrieval can tell: the consumers     *)
(* bring it up to date (module VectorIndex), its search may return any     *)
(* documents of the collection in any order.                               *)

\* VectorCliClient.search: the filter goes with the call, and what comes back
\* for another user is dropped once more; the hits keep their places.
VectorHits(found, user) == {h \in HitsOf("vector", found) : h.user = user}

IndexVector(d) ==
    /\ d \in DOMAIN truth
    /\ vector' = (IF d \in vector THEN vector \ {d} ELSE vector \cup {d})
    /\ outcome' = NoOutcome
    /\ UNCHANGED <<truth, fts>>

-----------------------------------------------------------------------------

\* retrieve_graceful: a channel that raises counts as one that found nothing,
\* and is named in the answer.
Retrieve(flt, options, words, vectors) ==
    /\ outcome = NoOutcome
    /\ FilterIsAccepted(flt) /\ OptionsAreValid(options)
    /\ LET degraded == {c \in Channel : IF c = "fts5" THEN words = None ELSE vectors = None}
           hits == (IF words = None THEN {} ELSE HitsOf("fts5", words))
                     \cup (IF vectors = None THEN {} ELSE VectorHits(vectors, flt.user))
           fused == Fuse(truth, hits, flt, options, degraded)
       IN outcome' = [state |-> "answered", flt |-> flt, options |-> options,
                      hits |-> hits, degraded |-> degraded,
                      fused |-> [fused EXCEPT !.dropped = Published(@)]]
    /\ UNCHANGED <<truth, fts, vector>>

\* What a search of the words may return: any documents that match, in any order.
WordLists(flt) ==
    LET matching == {d \in DOMAIN fts : FtsMatches(d, flt)} IN
    {words \in UNION {[1..n -> matching] : n \in 0..Cardinality(matching)} : IsInjective(words)}

\* What the vector client may return: the collection's documents, in any order.
VectorLists == {found \in [1..Cardinality(vector) -> vector] : IsInjective(found)}

RetrieveAny ==
    \E r \in Requests :
        \E words \in WordLists(r.flt) \cup {None}, vectors \in VectorLists \cup {None} :
            Retrieve(r.flt, r.options, words, vectors)

RetrievalNext ==
    \/ \E d \in Documents : Write(d)
    \/ \E d \in DOMAIN truth : Retire(d)
    \/ \E d \in DOMAIN truth : Contest(d)
    \/ \E d \in Documents : UpsertFts(d)
    \/ \E d \in Documents : DeleteFts(d)
    \/ \E d \in Documents : IndexVector(d)
    \/ RetrieveAny

RetrievalSpec == RetrievalInit /\ [][RetrievalNext]_retrievalVars

-----------------------------------------------------------------------------
(* Properties                                                              *)

Answered == outcome.state = "answered"
Context == outcome.fused.candidates

\* Whatever the two indexes still hold or still lack, the context of a user
\* consists of rows the tables hold for this user, each memory once, in its
\* current version, in a status that the filter and, for the standard filter,
\* admit_memory_status let in, in no open conflict, and within the number and
\* the tokens that were asked for.
ContextIsCurrent ==
    Answered =>
        LET flt == outcome.flt  options == outcome.options IN
        /\ \A i \in DOMAIN Context :
              LET c == Context[i]  d == DocumentOf(c) IN
              /\ c.user = flt.user /\ d \in DOMAIN truth
              /\ truth[d].current /\ truth[d].conflict # "unresolved"
              /\ Allows(flt.statuses, truth[d].status)
              /\ flt = StandardFilter(flt.user, flt, flt.as_of) =>
                    AdmitMemoryStatus(truth[d].status) = "admitted_standard_context"
              /\ \A j \in DOMAIN Context : Context[j].memory = c.memory => i = j
        /\ options.top # None => Len(Context) <= options.top
        /\ options.budget # None => outcome.fused.used <= options.budget

\* A hit on a document that may not be shown gets no score and takes no place:
\* the context is the one that the hits on presentable documents alone give, at
\* the ranks their providers gave them.  So a stale version, a removed row or
\* another user's row adds nothing to the score of its memory, stands for no
\* other version, and uses up nothing of the number or the budget; and the hits
\* of a channel count though the other channel failed.  The ranks are not closed
\* up: a hit behind a stale one keeps its rank, and with it a lower 1/(k + rank)
\* than it would have in an index that is up to date.
StaleHitsTakeNoPlace ==
    Answered =>
        LET presentable == {h \in outcome.hits :
               LET d == DocumentOf(h) IN
               /\ d \in DOMAIN truth /\ truth[d].current
               /\ HardFilter(truth, d, outcome.flt) = Passed}
            alone == Fuse(truth, presentable, outcome.flt, outcome.options,
                          outcome.degraded)
        IN Context = alone.candidates
=============================================================================
