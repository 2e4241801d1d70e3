----------------------------- MODULE ForgetPromise -----------------------------
(***************************************************************************)
(* What forget.preview and forget.execute promise together: a plan freezes *)
(* the set of memories it names, and carrying it out, at most once, makes  *)
(* exactly that set disappear.  How the caller is authenticated, what is   *)
(* retried and what is cached is nobody's business here.                   *)
(***************************************************************************)
CONSTANTS Memories, Rows

VARIABLES
  visible,   \* the memories a reader can see
  snapshot,  \* plan |-> the set it has frozen, for the plans that have one
  done       \* the plans carried out

promiseVars == <<visible, snapshot, done>>

PromiseInit ==
  /\ visible \in SUBSET Memories
  /\ DOMAIN snapshot = {}
  /\ done = {}

\* Writers add memories, or bring a removed preference back; never while a
\* plan is being carried out.
Write(t) ==
  /\ visible' = visible \cup {t}
  /\ UNCHANGED <<snapshot, done>>

Freeze(r) ==
  /\ r \notin DOMAIN snapshot
  /\ DOMAIN snapshot' = DOMAIN snapshot \cup {r}
  /\ snapshot' \in [DOMAIN snapshot' -> SUBSET Memories]
  /\ \A q \in DOMAIN snapshot : snapshot'[q] = snapshot[q]
  /\ UNCHANGED <<visible, done>>

CarryOut(r) ==
  /\ r \in DOMAIN snapshot
  /\ r \notin done
  /\ visible' = visible \ snapshot[r]
  /\ done' = done \cup {r}
  /\ UNCHANGED snapshot

PromiseNext ==
  \/ \E t \in Memories : Write(t)
  \/ \E r \in Rows : Freeze(r)
  \/ \E r \in Rows : CarryOut(r)

PromiseSpec == PromiseInit /\ [][PromiseNext]_promiseVars

===============================================================================
