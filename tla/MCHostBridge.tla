----------------------------- MODULE MCHostBridge -----------------------------
(***************************************************************************)
(* Instances of HostBridge for the model checker.                          *)
(***************************************************************************)
EXTENDS HostBridge, TLC

CONSTANTS m1, m2, m3, m4, m5, a, b, p

MCMessages == {m1, m2, m3, m4, m5}
MCLanguages == {a, b}

\* Two messages with different preferences, one without, one of the assistant, and
\* one that is no object.
MCLanguageOf ==
  [m \in Messages |-> CASE m = m1 -> a [] m = m2 -> b [] m = m3 -> NoLanguage [] m = m4 -> NotUser
                        [] m = m5 -> NotObject]

\* The context sync reads nothing but the current version, and nobody reads its
\* file: it runs beside one message, an edit and a removal, without a reset.
SyncRuns == last # "unknown" \/ fetched # "nothing"
MCBound == SyncRuns => epoch = 0 /\ Len(db) <= 1 /\ Written \cap {m3, m5} = {}

\* m1 and m2 differ in nothing but their preference: m1 comes first.
MCOrder == m2 \in Written => m1 \in Written \cup told

\* One row without a preference is enough.
MCPlain ==
  /\ Cardinality(Written \cap {m3, m4, m5}) <= 1
  /\ m4 \in Written => epoch = 0

===============================================================================
