----------------------------- MODULE MCForgetPlan -----------------------------
(***************************************************************************)
(* Instances of ForgetPlan for the model checker.                          *)
(***************************************************************************)
EXTENDS ForgetPlan, TLC

CONSTANTS u1, u2, k1, k2, q1, p1, p2, x1, x2, x3, x4

MCOwner == (k1 :> u1) @@ (k2 :> u2) @@ (q1 :> u1)

\* Keys are only compared with each other, and so are plan ids.
MCSymmetry == Permutations({x1, x2, x3, x4}) \cup Permutations({p1, p2})

Previews(u) == {p \in PlanIds : plans[<<u, p>>] # NoPlan}

\* Nobody reads what has become of an event: one of them is consumed or put
\* aside, after the last execution.
MCEvents ==
  LET settled == {r \in Rows : events[r].state \in {"deleted", "dead"}} IN
  /\ Cardinality(settled) <= 1
  /\ settled # {} => \A r \in Rows : plans[r] # NoPlan => plans[r].status = "completed"

\* Two plans of one user, or one plan of each user, with the same id and
\* two keys.
MCScenario ==
  \/ Previews(u2) = {} /\ entries[k2].status = "absent"
  \/ /\ Cardinality(Previews(u1) \cup Previews(u2)) <= 1
     /\ prefs[q1].status = "absent"
     /\ \A k \in Knowledge : entries[k].revision <= 1
     /\ clock <= 1
     /\ Cardinality({x \in Keys : \E u \in Users : cache[<<u, x>>] # NoEntry}) <= 2
===============================================================================
