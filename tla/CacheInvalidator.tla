--------------------------- MODULE CacheInvalidator ---------------------------
(***************************************************************************)
(* The deletion consumer of the outbox on top of the two caches.            *)
(*                                                                         *)
(* A deletion event clears the embedding cache, then the extraction cache   *)
(* and only then counts as processed; a failure in between leaves it to be  *)
(* delivered again.  Requests run beside it at every step.                  *)
(*                                                                         *)
(* What it deletes is what the payload names by content, and the source     *)
(* event, if there is one, whose id the deletion event carries as its own.  *)
(* An executed forget plan carries its audit id and names no contents: short*)
(* of a full reset it only discards the extractions under way.              *)
(***************************************************************************)
EXTENDS EmbeddingCache, ExtractionProvider

CONSTANTS
  Deletions,    \* deletion events by their event_id, which may be a source event's
  Resets,       \* those with forget_mode full_reset
  TextsOf,      \* content_hashes of the payload: texts whose deletion d names
  SourcesOf,    \* content_fingerprints: source events with a content it names
  MaxFailures   \* bound on invalidations that raise

ASSUME DeletionAssumption ==
  /\ Resets \subseteq Deletions
  /\ TextsOf \in [Deletions -> SUBSET Texts]
  /\ SourcesOf \in [Deletions -> SUBSET Sources]
  /\ MaxFailures \in Nat

VARIABLES
  step,         \* step[d]: where handle_deletion stands
  processed,    \* _processed_events
  askedAt,      \* history: both generations when d was first delivered
  failures      \* invalidations that raised

invalidatorVars == <<step, processed, askedAt, failures>>
cachesVars == <<embedVars, extractVars, invalidatorVars>>

NotAsked == [embed |-> -1, extract |-> -1]

\* _handle_deletion_payload: what the payload names.  That of
\* execute_forget_plan names neither hashes nor fingerprints.
Hashes(d) == TextsOf[d]
Fingerprints(d) == SourcesOf[d]

Moves(d, s) == step' = [step EXCEPT ![d] = s]

\* Mutant: the event is registered before the caches are cleared.
MutDeliver(d) ==
  /\ step[d] = "idle"
  /\ d \notin processed
  /\ askedAt' = IF askedAt[d] = NotAsked
                THEN [askedAt EXCEPT ![d] = [embed |-> generation, extract |-> xgeneration]]
                ELSE askedAt
  /\ Moves(d, "embedding")
  /\ processed' = processed \cup {d}
  /\ UNCHANGED <<embedVars, extractVars, failures>>

\* handle_deletion: an event that is registered is answered as a duplicate.
Deliver(d) ==
  /\ step[d] = "idle"
  /\ d \notin processed
  /\ askedAt' = IF askedAt[d] = NotAsked
                THEN [askedAt EXCEPT ![d] = [embed |-> generation, extract |-> xgeneration]]
                ELSE askedAt
  /\ Moves(d, "embedding")
  /\ UNCHANGED <<embedVars, extractVars, processed, failures>>

WipeEmbedding(d) ==
  /\ step[d] = "embedding"
  /\ \/ d \in Resets /\ Wipe(Texts)
     \/ d \notin Resets /\ Hashes(d) # {} /\ Wipe(Hashes(d))
     \/ d \notin Resets /\ Hashes(d) = {} /\ UNCHANGED cacheVars
  /\ Moves(d, "content")
  /\ UNCHANGED <<executorVars, serviceVars, extractVars, processed, askedAt, failures>>

WipeContent(d) ==
  /\ step[d] = "content"
  /\ \/ d \in Resets /\ ClearExtracted /\ Moves(d, "register")
     \/ /\ d \notin Resets
        /\ Fingerprints(d) # {}
        /\ ForgetContent(Fingerprints(d))
        /\ Moves(d, "event")
     \/ /\ d \notin Resets
        /\ Fingerprints(d) = {}
        /\ Moves(d, "event")
        /\ UNCHANGED extractVars
  /\ UNCHANGED <<embedVars, processed, askedAt, failures>>

\* The deletion event's own event_id, whatever the payload names.
WipeEvent(d) ==
  /\ step[d] = "event"
  /\ ForgetEvent(d)
  /\ Moves(d, "register")
  /\ UNCHANGED <<embedVars, processed, askedAt, failures>>

MarkProcessed(d) ==
  /\ step[d] = "register"
  /\ processed' = processed \cup {d}
  /\ Moves(d, "idle")
  /\ UNCHANGED <<embedVars, extractVars, askedAt, failures>>

\* One of the caches raises: nothing is registered, the event may come again.
Raises(d) ==
  /\ step[d] \in {"embedding", "content", "event"}
  /\ failures < MaxFailures
  /\ failures' = failures + 1
  /\ Moves(d, "idle")
  /\ UNCHANGED <<embedVars, extractVars, processed, askedAt>>

-------------------------------------------------------------------------------
CachesInit ==
  /\ EmbedInit
  /\ ExtractInit
  /\ step = [d \in Deletions |-> "idle"]
  /\ processed = {}
  /\ askedAt = [d \in Deletions |-> NotAsked]
  /\ failures = 0

Embed(r) == RequestStep(r) /\ UNCHANGED <<extractVars, invalidatorVars>>
Runs(r) == ExecutorStep(r) /\ UNCHANGED <<extractVars, invalidatorVars>>
Extract(x) == ExtractStep(x) /\ UNCHANGED <<embedVars, invalidatorVars>>
ModelLate == LlmLate /\ UNCHANGED <<embedVars, invalidatorVars>>
HandleDeletion(d) ==
  \/ Deliver(d) \/ WipeEmbedding(d) \/ WipeContent(d) \/ WipeEvent(d)
  \/ MarkProcessed(d) \/ Raises(d)

CachesNext ==
  \/ \E r \in Requests : Embed(r) \/ Runs(r)
  \/ \E x \in Extractions : Extract(x)
  \/ ModelLate
  \/ \E d \in Deletions : HandleDeletion(d)

CachesSpec == CachesInit /\ [][CachesNext]_cachesVars

-------------------------------------------------------------------------------
\* What d deletes from the caches.
TextsGone(d) == IF d \in Resets THEN Texts ELSE Hashes(d)
SourcesGone(d) == IF d \in Resets THEN Sources ELSE Fingerprints(d) \cup {d}

VectorsAreNewer(d) ==
  \A t \in DOMAIN cached \cap TextsGone(d) : cached[t] > askedAt[d].embed
CandidatesAreNewer(d, E) ==
  \A k \in DOMAIN extracted : k[2] \in E => extracted[k].gen > askedAt[d].extract

\* A deletion that counts as processed has reached both caches: whatever they
\* hold of the contents it names, and of the source event whose id it carries,
\* was asked for after the deletion, although it failed half-way before, was
\* delivered again and requests ran beside it.  Contents may be extracted anew;
\* only an id that a deletion carried itself has a tombstone, and no candidates
\* until everything is reset, not even from an extraction that was under way.
ProcessedIsComplete ==
  /\ \A d \in processed : VectorsAreNewer(d) /\ CandidatesAreNewer(d, SourcesGone(d))
  /\ \A k \in DOMAIN extracted : k[2] \notin tombstones

-------------------------------------------------------------------------------
(* The inductive invariant *)

CacheTypes ==
  /\ generation \in Nat
  /\ gen \in [Requests -> Nat]
  /\ wipedAt \in [Texts -> Nat]
  /\ DOMAIN cached \subseteq Texts
  /\ \A t \in DOMAIN cached : cached[t] \in Nat
  /\ xgeneration \in Nat
  /\ xgen \in [Extractions -> Nat]
  /\ \A k \in DOMAIN extracted : extracted[k].gen \in Nat

ConsumerTypes ==
  /\ step \in [Deletions -> {"idle", "embedding", "content", "event", "register"}]
  /\ processed \subseteq Deletions
  /\ askedAt \in [Deletions -> [embed : Int, extract : Int]]
  /\ \A d \in Resets : step[d] # "event"

\* No generation that was noted down lies ahead.
NotedBefore ==
  /\ \A t \in Texts : wipedAt[t] <= generation
  /\ \A d \in Deletions : askedAt[d].embed <= generation /\ askedAt[d].extract <= xgeneration

\* Once a deletion has passed a cache, the generation is younger than it and so
\* is everything it names that the cache holds; another attempt starts anew.
PastEmbedding(d) == step[d] \in {"content", "event", "register"} \/ d \in processed
PastExtraction(d) == step[d] = "register" \/ d \in processed
SourcesPassed(d) ==
  IF PastExtraction(d) THEN SourcesGone(d)
  ELSE IF step[d] = "event" THEN Fingerprints(d) ELSE {}

EmbeddingWiped ==
  \A d \in Deletions : PastEmbedding(d) =>
    /\ TextsGone(d) # {} => generation > askedAt[d].embed
    /\ VectorsAreNewer(d)

ExtractionWiped ==
  \A d \in Deletions :
    /\ SourcesPassed(d) # {} => xgeneration > askedAt[d].extract
    /\ CandidatesAreNewer(d, SourcesPassed(d))

CachesInv ==
  /\ CacheTypes
  /\ ConsumerTypes
  /\ NotedBefore
  /\ EmbeddingWiped
  /\ ExtractionWiped
  /\ StoredAfterWipe
  /\ ProcessedIsComplete

===============================================================================
