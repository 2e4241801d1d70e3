---------------------------- MODULE MCMemoryClient ----------------------------
(***************************************************************************)
(* MemoryViewModel for TLC: two requests in flight, or three around a      *)
(* forgetting, the pipelines of one page at a time, a second attempt to    *)
(* reconnect beside those of a chat, and reconnection switched off beside  *)
(* the one for tools.                                                      *)
(***************************************************************************)
EXTENDS MemoryViewModel

\* The pipelines used together in one behaviour.
Pages == {{"preChat", "postTurn"}, {"tool", "contextAssemble"}, Forget}
         \cup {{p} : p \in Sending \cup Asking}

Used == {p \in Pipelines : vm.stage[StageOf(p)] # "idle" \/ vm.request[p] # None}

MCBound ==
    /\ \E page \in Pages : Used \subseteq page
    /\ Cardinality({r \in Requests : client.age[r] # "unsent"}) > 2 => Used \subseteq Forget
    /\ client.attempts = 2 => Used \subseteq {"preChat", "postTurn"}
    /\ client.auto \/ Used \subseteq {"tool"}
=============================================================================
