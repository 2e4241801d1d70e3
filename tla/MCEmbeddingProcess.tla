--------------------------- MODULE MCEmbeddingProcess -------------------------
(***************************************************************************)
(* Instances of EmbeddingProcess for the model checker.                     *)
(***************************************************************************)
EXTENDS EmbeddingProcess, TLC

CONSTANTS c1, c2, r1, r2, r3, p1, p2

\* The server and the providers share no variable: a behaviour exercises one.
MCBound ==
  \/ boot = "down" /\ stops = 0 /\ file = "absent"
  \/ bridges = <<>> /\ library = "complete"

MCSymmetry == Permutations({c1, c2}) \cup Permutations({r1, r2, r3}) \cup Permutations({p1, p2})

===============================================================================
