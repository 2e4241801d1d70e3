------------------------------- MODULE MCOutbox -------------------------------
(***************************************************************************)
(* Instances of Outbox for the model checker.                              *)
(***************************************************************************)
EXTENDS Outbox, TLC

CONSTANTS u1, u2, f1, s1

MCUpserts == {u1, u2}
MCForgets == {f1}
MCStructural == {s1}

\* 30 s times 2^n, in units of 60 s.
MCBackoff == [n \in 1..MaxRetries |-> 2 ^ (n - 1)]

\* Two upserts, a forget event, and a row of _d8d_outbox.
MCMixed == {u1, u2, f1, s1}
MCRouted == {u1, u2, f1}

\* With three routed rows a poll that claims two leaves one behind; with faults
\* there are two, so that one batch holds both.
MCScenario == enqueuedAt[u2] # NoTime => faults = 0 /\ enqueuedAt[s1] = NoTime

===============================================================================
