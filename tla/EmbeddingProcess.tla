---------------------------- MODULE EmbeddingProcess --------------------------
(***************************************************************************)
(* The process of the embedding server: the server with the executor its    *)
(* calls run on (EmbeddingServer), and the providers with the C++ bridge    *)
(* they share: one library handle and one session per process, references   *)
(* counted by the providers.                                                *)
(*                                                                         *)
(* On the target the library aborts when it is loaded again after dlclose,  *)
(* and hangs when a session is created after one was destroyed.  So a       *)
(* bridge whose session is gone answers with an error for ever, and only a  *)
(* bridge that never got as far as loading is replaced by a new one.        *)
(* Providers are started from one thread, as the source assumes.            *)
(***************************************************************************)
EXTENDS EmbeddingServer, Sequences

CONSTANTS
  Providers,    \* EmbeddingProvider objects
  MaxBridges    \* bound on the bridges created

ASSUME ProviderAssumption ==
  /\ IsFiniteSet(Providers)
  /\ MaxBridges \in Nat

VARIABLES
  bridges,      \* every EmbeddingBridge created so far
  shared,       \* _shared_bridge: its position, 0 for None
  refs,         \* _ref_count
  bound,        \* bound[p]: the bridge of provider p, 0 before it exists
  life,         \* life[p]: _lifecycle
  dimension,    \* _shared_dimension is known
  library       \* what is installed: "missing", "incomplete" or "complete"

providerVars == <<bridges, shared, refs, bound, life, dimension, library>>

Bridge == [loaded : BOOLEAN, session : BOOLEAN, destroyed : BOOLEAN, fatal : BOOLEAN]
NewBridge == [loaded |-> FALSE, session |-> FALSE, destroyed |-> FALSE, fatal |-> FALSE]
Lifecycle == {"absent", "UNINITIALIZED", "INITIALIZING", "READY", "CLOSED"}

ProviderInit ==
  /\ bridges = <<>>
  /\ shared = 0
  /\ refs = 0
  /\ bound = [p \in Providers |-> 0]
  /\ life = [p \in Providers |-> "absent"]
  /\ dimension = FALSE
  /\ library \in {"missing", "incomplete", "complete"}

\* __init__: the first provider creates the bridge, the others share it.
Construct(p) ==
  /\ life[p] = "absent"
  /\ life' = [life EXCEPT ![p] = "UNINITIALIZED"]
  /\ \/ /\ shared = 0 /\ Len(bridges) < MaxBridges
        /\ bridges' = Append(bridges, NewBridge)
        /\ shared' = Len(bridges')
        /\ dimension' = FALSE
     \/ shared # 0 /\ UNCHANGED <<bridges, shared, dimension>>
  /\ bound' = [bound EXCEPT ![p] = shared']
  /\ UNCHANGED <<refs, library>>

-------------------------------------------------------------------------------
(* The bridge; each operation runs under its mutex.  Every operator gives   *)
(* the bridges it may leave, with the result.                              *)

HasSession(b) == b.loaded /\ b.session /\ ~b.destroyed /\ ~b.fatal

Ok(b) == [bridge |-> b, ok |-> TRUE]
Fail(b) == [bridge |-> b, ok |-> FALSE]

\* load: a library without a required symbol is closed again, which is fatal.
Load(b) ==
  IF b.fatal THEN {Fail(b)}
  ELSE IF b.loaded THEN {Ok(b)}
  ELSE IF library = "missing" THEN {Fail(b)}
  ELSE IF library = "incomplete" THEN {Fail([b EXCEPT !.fatal = TRUE])}
  ELSE {Ok([b EXCEPT !.loaded = TRUE]), Fail(b)}

\* create_session: NULL can be tried again, a failed init destroys and is fatal.
CreateSession(b) ==
  IF b.session THEN {Ok(b)}
  ELSE IF b.fatal \/ ~b.loaded \/ b.destroyed THEN {Fail(b)}
  ELSE {Ok([b EXCEPT !.session = TRUE]),
        Fail(b),
        Fail([b EXCEPT !.fatal = TRUE])}

\* embed: a usable vector, or one of the errors of the library or its result.
EmbedCall(b) == IF HasSession(b) THEN {Ok(b), Fail(b)} ELSE {Fail(b)}

\* destroy_session: the library stays loaded, the session is gone for good.
DestroySession(b) == [b EXCEPT !.session = FALSE, !.destroyed = TRUE]

\* The calls of start() in their order, up to the first failure.
Then(R, Op(_)) == {r \in R : ~r.ok} \cup UNION {Op(r.bridge) : r \in {q \in R : q.ok}}
Attempt(b) == Then(Then(Load(b), CreateSession), EmbedCall)

-------------------------------------------------------------------------------
\* start: the session was created or taken over, and has answered once.
StartSucceeds(p) ==
  /\ life[p] \notin {"absent", "READY"}
  /\ \E r \in Attempt(bridges[bound[p]]) :
       r.ok /\ bridges' = [bridges EXCEPT ![bound[p]] = r.bridge]
  /\ refs' = refs + 1
  /\ dimension' = TRUE
  /\ life' = [life EXCEPT ![p] = "READY"]
  /\ UNCHANGED <<shared, bound, library>>

\* Mutant: references are not looked at.
MutReplaceable(b) == ~b.loaded /\ ~b.fatal

\* Nothing was loaded, so that a new bridge may be made.
Replaceable(b) == refs = 0 /\ ~b.loaded /\ ~b.fatal

\* The failure path gives up the shared bridge, whichever that is by now.
StartFails(p) ==
  /\ life[p] \notin {"absent", "READY"}
  /\ life' = [life EXCEPT ![p] = "INITIALIZING"]
  /\ \E r \in Attempt(bridges[bound[p]]) :
       LET left == [bridges EXCEPT ![bound[p]] = r.bridge] IN
       /\ ~r.ok
       /\ \/ /\ Replaceable(r.bridge)
             /\ bridges' = IF shared = 0 THEN left
                           ELSE [left EXCEPT ![shared] = DestroySession(@)]
             /\ shared' = 0 /\ dimension' = FALSE
          \/ /\ ~Replaceable(r.bridge)
             /\ bridges' = left
             /\ UNCHANGED <<shared, dimension>>
  /\ UNCHANGED <<refs, bound, library>>

\* close: only a READY provider has a reference to give back.
Close(p) ==
  /\ life[p] = "READY"
  /\ refs' = IF refs > 0 THEN refs - 1 ELSE refs
  /\ life' = [life EXCEPT ![p] = "CLOSED"]
  /\ UNCHANGED <<bridges, shared, bound, dimension, library>>

\* The package of the library is installed, upgraded or removed.
LibraryChanges ==
  /\ library' \in {"missing", "incomplete", "complete"} \ {library}
  /\ UNCHANGED <<bridges, shared, refs, bound, life, dimension>>

ProviderNext ==
  \/ \E p \in Providers : Construct(p) \/ StartSucceeds(p) \/ StartFails(p) \/ Close(p)
  \/ LibraryChanges

\* embed of a provider: refused unless it is READY, else a call of its bridge.  It
\* would set a dimension that is not known; start() has set it.
Embeds(p) == IF life[p] = "READY" THEN EmbedCall(bridges[bound[p]]) ELSE {Fail(bridges[bound[p]])}

\* model_info and get_dimension: the shared dimension, 0 as long as it is not known.
ModelInfo(p) == [loaded |-> life[p] = "READY", dimension |-> dimension]

\* health() of the service of a provider: read without a call of the library.
Health(p) ==
  [lifecycle |-> life[p],
   bridge_loaded |-> bridges[bound[p]].loaded,
   bridge_has_session |-> bridges[bound[p]].session,
   model |-> ModelInfo(p),
   restart_required |-> exec.restart]

-------------------------------------------------------------------------------
ProviderTypeOK ==
  /\ bridges \in Seq(Bridge) /\ Len(bridges) <= MaxBridges
  /\ shared \in 0..Len(bridges)
  /\ refs \in 0..Cardinality(Providers)
  /\ bound \in [Providers -> 0..Len(bridges)]
  /\ life \in [Providers -> Lifecycle]
  /\ dimension \in BOOLEAN
  /\ library \in {"missing", "incomplete", "complete"}

Ready == {p \in Providers : life[p] = "READY"}

\* A provider that is READY keeps a live session, whatever the others that share
\* the process do with starts that fail, retries, closes and new bridges: a call can
\* succeed, health reports the session, and the dimension the vectors are checked
\* against is known.  The references are those of the providers that are READY: one
\* too few and a failing start would tear down a session in use, one too many and a
\* library that was installed late is never picked up.
ReadyHasSession ==
  /\ \A p \in Ready :
       /\ \E r \in Embeds(p) : r.ok
       /\ Health(p).bridge_has_session
       /\ Health(p).model.dimension
  /\ refs = Cardinality(Ready)

\* A bridge that was given up is destroyed, so that no session is left on it.
GivenUpDestroyed ==
  \A i \in 1..Len(bridges) : i # shared => bridges[i].destroyed

\* A provider that was constructed has a bridge.
BoundStands == \A p \in Providers : life[p] # "absent" => bound[p] # 0

ProviderInv ==
  /\ ProviderTypeOK
  /\ BoundStands
  /\ GivenUpDestroyed
  /\ ReadyHasSession

-------------------------------------------------------------------------------
(* The process *)

vars == <<processVars, providerVars>>

Init == ServerInit /\ ProviderInit

Next ==
  \/ ServerNext /\ UNCHANGED providerVars
  \/ ProviderNext /\ UNCHANGED processVars

Spec == Init /\ [][Next]_vars

TypeOK == ExecutorTypeOK /\ ServerTypeOK /\ ProviderTypeOK

IInv == ServerInv /\ ProviderInv

===============================================================================
