---------------------------- MODULE EmbeddingCache ----------------------------
(***************************************************************************)
(* EmbeddingService.embed: an LRU cache in front of a slow provider, with   *)
(* merging of concurrent requests for one text.                            *)
(*                                                                         *)
(* The requests of one connection run one after another on its thread, all  *)
(* others concurrently.  The cache, the coalescer and the executor have a   *)
(* lock each; a step of a request is one critical section.  A wipe of the    *)
(* cache raises its generation, and a result is stored only under the       *)
(* generation its request has read before the call.                        *)
(***************************************************************************)
EXTENDS BridgeExecutor, Sequences, SequencesExt

CONSTANTS
  Texts,        \* texts (the dimension of the model is fixed)
  TextOf,       \* TextOf[r]: the text of request r
  Earlier,      \* Earlier[r]: requests before r on the same connection
  Capacity      \* capacity of the cache

ASSUME CacheAssumption ==
  /\ TextOf \in [Requests -> Texts]
  /\ Earlier \in [Requests -> SUBSET Requests]
  /\ Capacity \in Nat \ {0}

VARIABLES
  cached,       \* text |-> generation under which its vector was stored
  recent,       \* the order of _data: its texts, the least recently used first
  generation,   \* _generation
  inflight,     \* the coalescer: text |-> request whose future is registered
  pc,           \* where the thread of a request stands
  gen,          \* gen[r]: generation read by r
  awaits,       \* awaits[r]: the request whose future r waits for
  answer,       \* answer[r]: "none", "vector", "degraded" or "error"
  wipedAt       \* history: generation right after the last wipe of a text

serviceVars == <<inflight, pc, gen, awaits, answer>>
cacheVars == <<cached, recent, generation, wipedAt>>
embedVars == <<executorVars, serviceVars, cacheVars>>

Stages ==
  {"start", "lookup", "capture", "join", "waiting", "submit", "register",
   "result", "release", "store", "end"}

NoneCached == [t \in {} |-> 0]

EmbedInit ==
  /\ ExecutorInit
  /\ cached = NoneCached
  /\ recent = <<>>
  /\ generation = 0
  /\ inflight = [t \in {} |-> CHOOSE r \in Requests : TRUE]
  /\ pc = [r \in Requests |-> "start"]
  /\ gen = [r \in Requests |-> 0]
  /\ awaits = [r \in Requests |-> r]
  /\ answer = [r \in Requests |-> "none"]
  /\ wipedAt = [t \in Texts |-> 0]

-------------------------------------------------------------------------------
(* The cache. *)

Others(T) == SelectSeq(recent, LAMBDA t : t \notin T)
Without(T) == [t \in DOMAIN cached \ T |-> cached[t]]

\* A text that is read or written is the last one to be evicted.
Touched(t) == Append(Others({t}), t)

\* set: when the cache is too long, the oldest text falls out.
Stored(r) ==
  LET all == Touched(TextOf[r])
      full == Len(all) > Capacity
  IN /\ recent' = IF full THEN Tail(all) ELSE all
     /\ cached' = [t \in (DOMAIN cached \cup {TextOf[r]}) \ (IF full THEN {Head(all)} ELSE {}) |->
                     IF t = TextOf[r] THEN gen[r] ELSE cached[t]]

\* Mutant: a wipe does not change the generation.
MutWipe(T) ==
  /\ cached' = Without(T)
  /\ recent' = Others(T)
  /\ wipedAt' = [t \in Texts |-> IF t \in T THEN generation + 1 ELSE wipedAt[t]]
  /\ UNCHANGED generation

\* clear and invalidate_by_content.
Wipe(T) ==
  /\ cached' = Without(T)
  /\ recent' = Others(T)
  /\ generation' = generation + 1
  /\ wipedAt' = [t \in Texts |-> IF t \in T THEN generation' ELSE wipedAt[t]]

-------------------------------------------------------------------------------
(* One request. *)

Goes(r, stage) ==
  /\ pc' = [pc EXCEPT ![r] = stage]
  /\ UNCHANGED <<gen, awaits, answer>>

\* The request is over, and its locals with it.
Answers(r, a) ==
  /\ pc' = [pc EXCEPT ![r] = "end"]
  /\ answer' = [answer EXCEPT ![r] = a]
  /\ gen' = [gen EXCEPT ![r] = 0]
  /\ awaits' = [awaits EXCEPT ![r] = r]

\* recover_hung_bridge_executor and bridge_executor_restart_required.
Begin(r) ==
  /\ pc[r] = "start"
  /\ \A q \in Earlier[r] : pc[q] = "end"
  /\ exec' = Recovered(exec)
  /\ IF exec'.restart THEN Answers(r, "error") ELSE Goes(r, "lookup")
  /\ UNCHANGED <<future, poolOf, inflight, cacheVars>>

Lookup(r) ==
  /\ pc[r] = "lookup"
  /\ IF TextOf[r] \in DOMAIN cached
     THEN recent' = Touched(TextOf[r]) /\ Answers(r, "vector")
     ELSE Goes(r, "capture") /\ UNCHANGED recent
  /\ UNCHANGED <<executorVars, inflight, cached, generation, wipedAt>>

Capture(r) ==
  /\ pc[r] = "capture"
  /\ gen' = [gen EXCEPT ![r] = generation]
  /\ pc' = [pc EXCEPT ![r] = "join"]
  /\ UNCHANGED <<executorVars, inflight, awaits, answer, cacheVars>>

Mergeable(t) == t \in DOMAIN inflight /\ ~Finished(inflight[t])
Busy(r) == pc[r] \in {"waiting", "submit", "register", "result", "release", "store"}

\* get_or_create, and the refusal of a long text while there is a backlog.
Join(r) ==
  /\ pc[r] = "join"
  /\ \/ /\ Mergeable(TextOf[r])
        /\ awaits' = [awaits EXCEPT ![r] = inflight[TextOf[r]]]
        /\ pc' = [pc EXCEPT ![r] = "waiting"]
        /\ UNCHANGED <<gen, answer>>
     \/ ~Mergeable(TextOf[r]) /\ Goes(r, "submit")
     \/ /\ ~Mergeable(TextOf[r])
        /\ \E q \in Requests : Busy(q)
        /\ Answers(r, "degraded")
  /\ UNCHANGED <<executorVars, inflight, cacheVars>>

\* Mutant: a merged request waits without a limit.
MutAwait(r) ==
  /\ pc[r] = "waiting"
  /\ \/ future[awaits[r]] = "done" /\ Goes(r, "store")
     \/ future[awaits[r]] \in {"failed", "cancelled"} /\ Answers(r, "degraded")
  /\ UNCHANGED <<executorVars, inflight, cacheVars>>

\* The merged request: result, failure, or FutureTimeout.
Await(r) ==
  /\ pc[r] = "waiting"
  /\ \/ future[awaits[r]] = "done" /\ Goes(r, "store")
     \/ future[awaits[r]] \in {"failed", "cancelled"} /\ Answers(r, "degraded")
     \/ Pending(awaits[r]) /\ Answers(r, "error")
  /\ UNCHANGED <<executorVars, inflight, cacheVars>>

Submit(r) ==
  /\ pc[r] = "submit"
  /\ \/ Submitted(r) /\ Goes(r, "register")
     \/ SubmitRefused /\ Answers(r, "error")
  /\ UNCHANGED <<inflight, cacheVars>>

Register(r) ==
  /\ pc[r] = "register"
  /\ inflight' = [t \in DOMAIN inflight \cup {TextOf[r]} |->
                    IF t = TextOf[r] THEN r ELSE inflight[t]]
  /\ Goes(r, "result")
  /\ UNCHANGED <<executorVars, cacheVars>>

\* fut.result: on a time-out the call is cancelled if it has not started.
Result(r) ==
  /\ pc[r] = "result"
  /\ \/ future[r] = "done" /\ UNCHANGED <<executorVars, answer>>
     \/ /\ future[r] = "failed"
        /\ answer' = [answer EXCEPT ![r] = "degraded"]
        /\ UNCHANGED executorVars
     \/ /\ Pending(r)
        /\ answer' = [answer EXCEPT ![r] = "error"]
        /\ IF future[r] = "queued" THEN Finishes(r, "cancelled")
           ELSE UNCHANGED executorVars
  /\ pc' = [pc EXCEPT ![r] = "release"]
  /\ UNCHANGED <<inflight, gen, awaits, cacheVars>>

Registered(r) == TextOf[r] \in DOMAIN inflight /\ inflight[TextOf[r]] = r
Unregistered(t) == [u \in DOMAIN inflight \ {t} |-> inflight[u]]

\* release: only the future that is registered is taken out.
Released(r) ==
  IF Registered(r) THEN Unregistered(TextOf[r]) ELSE inflight

\* The finally clause of _embed_uncached.
Release(r) ==
  /\ pc[r] = "release"
  /\ inflight' = Released(r)
  /\ IF answer[r] = "none" THEN Goes(r, "store") ELSE Answers(r, answer[r])
  /\ UNCHANGED <<executorVars, cacheVars>>

\* set: refused when the generation has moved on.
Store(r) ==
  /\ pc[r] = "store"
  /\ IF gen[r] = generation
     THEN Stored(r) /\ Answers(r, "vector")
     ELSE UNCHANGED <<cached, recent>> /\ Answers(r, "degraded")
  /\ UNCHANGED <<executorVars, inflight, generation, wipedAt>>

RequestStep(r) ==
  \/ Begin(r) \/ Lookup(r) \/ Capture(r) \/ Join(r) \/ Await(r)
  \/ Submit(r) \/ Register(r) \/ Result(r) \/ Release(r) \/ Store(r)

ExecutorStep(r) ==
  /\ WorkerTakes(r) \/ CallEnds(r) \/ Ages(r)
  /\ UNCHANGED <<serviceVars, cacheVars>>

-------------------------------------------------------------------------------
\* What a request that was under way at a deletion has computed never comes back
\* into the cache afterwards: every entry was stored by a request that looked at
\* the cache after the last wipe of its text, through merging, time-outs, retries
\* and abandoned pools.
StoredAfterWipe ==
  \A t \in DOMAIN cached : cached[t] >= wipedAt[t]

\* No request waits for the library: whatever calls hang, are queued behind hung
\* ones or lost in an abandoned pool, every request whose turn has come has a step
\* of its own to take.  Stages only advance, so every request is answered.
NoRequestStuck ==
  \A r \in Requests :
    (pc[r] # "end" /\ \A q \in Earlier[r] : pc[q] = "end") => ENABLED RequestStep(r)

===============================================================================
