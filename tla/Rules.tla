------------------------------- MODULE Rules -------------------------------
(***************************************************************************)
(* Ordered decision rules, the form of most policies of this service: a    *)
(* chain of early returns, of which the first that applies decides.        *)
(***************************************************************************)
EXTENDS Naturals, Sequences

Rule(when, then) == [when |-> when, then |-> then]

\* What the first rule that applies decides.  The last rule of a chain always
\* applies.
Decision(rules) ==
    rules[CHOOSE i \in DOMAIN rules :
             rules[i].when /\ \A j \in 1 .. i - 1 : ~rules[j].when].then
=============================================================================
