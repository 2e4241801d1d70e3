------------------------------ MODULE MCIndexes -------------------------------
(***************************************************************************)
(* Writing to the vector index (VectorIndex) and searching indexes that    *)
(* lag behind (Retrieval).  A search runs between two steps of the         *)
(* writers and only reads, and Retrieval lets the indexes hold anything    *)
(* that writers may have left in them; so a behaviour of the instance      *)
(* moves one of the two, and the other rests.                              *)
(***************************************************************************)
EXTENDS VectorIndex, Retrieval, TLC

CONSTANT Movers  \* which of the two may move

-------------------------------------------------------------------------------
(* The writers *)

CONSTANTS e1, e2, g1, g2

MCEntries == {e1, e2}
MCOneEntry == {e1}
MCGenerations == {g1, g2}
MCStreams == {"memory_upserted", "forget_executed", "d13d_vector_rebuild"}

\* A rebuild is on the stream of the upserts, after the second event, or on that
\* of the deletes, at its start.
MCWatermarks == {[stream |-> "memory_upserted", value |-> 2], DeleteWatermark}

\* What the evaluation of forgetting gives.
MCRebuild == {[stream |-> "d13d_vector_rebuild", value |-> 1]}

\* Entries are only compared with each other.
MCSymmetry == Permutations(Entries)

-------------------------------------------------------------------------------
(* The searches: one preference and two versions of one piece of knowledge *)
(* of a user, and one piece of knowledge of another user.                  *)

Doc(u, m, v) == [user |-> u, memory |-> m, version |-> v]

CONSTANTS u1, u2, v1, v2

Row(type, scope, knowledge, length) ==
    [type |-> type, status |-> "active", sensitivity |-> "public",
     memory_type |-> "long_term", conflict |-> "none", current |-> TRUE,
     scene |-> None, scope |-> scope, terms |-> NoTerms, from |-> None,
     to |-> None, knowledge |-> knowledge, length |-> length]

Fact == KnowledgeMetadata("fact", "work", "e1", "active", {})

MCContent == (Doc(u1, 1, v1) :> Row("knowledge", None, Fact, 3))
          @@ (Doc(u1, 1, v2) :> Row("knowledge", None, Fact, 2))
          @@ (Doc(u1, 2, v1) :> Row("preference", "global", None, 2))
          @@ (Doc(u2, 3, v1) :> Row("knowledge", None, Fact, 1))

Narrow == [sensitivity |-> {}, memory_types |-> {}, knowledge |-> NoKnowledgeFilter]

Wide == [StandardFilter(u1, Narrow, 1) EXCEPT !.types = ObjectType, !.statuses = {},
                                              !.unscoped = TRUE]

MCRequests ==
    {[flt |-> StandardFilter(u1, Narrow, 1),
      options |-> [k |-> 1, top |-> None, budget |-> None, policy |-> None]],
     [flt |-> Wide,
      options |-> [k |-> 1, top |-> 1, budget |-> 3,
                   policy |-> [c \in Channel |-> IF c = "vector" THEN 2 ELSE 1]]]}

\* At most one row is removed or contested, and the indexes hold few documents.
MCScenario ==
    /\ Cardinality({d \in DOMAIN truth : \/ truth[d].status = "removed"
                                         \/ truth[d].conflict = "unresolved"}) <= 1
    /\ Cardinality(DOMAIN fts) <= 2
    /\ Cardinality(vector) + Cardinality(DOMAIN fts) <= 3

-------------------------------------------------------------------------------
VARIABLE moving

MCInit == moving \in Movers /\ Init /\ RetrievalInit

MCNext ==
  \/ moving = "writers" /\ Next /\ UNCHANGED <<retrievalVars, moving>>
  \/ moving = "searches" /\ RetrievalNext /\ UNCHANGED <<vars, moving>>

MCSpec == MCInit /\ [][MCNext]_<<vars, retrievalVars, moving>>

===============================================================================
