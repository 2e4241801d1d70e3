-------------------------- MODULE StoredMemoryProofs --------------------------
(***************************************************************************)
(* What is proved of the two kinds of memory the store keeps, for every    *)
(* value of the constants.                                                 *)
(*                                                                         *)
(* Knowledge: what may be retrieved stands on evidence of its own user, a  *)
(* receipt answers for what it was written for, and an import is applied   *)
(* once however it is retried.                                             *)
(*                                                                         *)
(* Preferences: the chain of versions is linear with one current version,  *)
(* its history is kept, every answer holds, no request that passes the     *)
(* checks of the code is aborted by a constraint of the schema, and the    *)
(* plans of the business policies fit the store that carries them out.     *)
(***************************************************************************)
EXTENDS PreferencePolicies, KnowledgeImport, FiniteSetTheorems, WellFoundedInduction, TLAPS

-----------------------------------------------------------------------------
(* Chains of rules                                                         *)

\* A set of numbers that is not empty has a least member.
LEMMA LeastExists ==
    ASSUME NEW S \in SUBSET Nat, S # {}
    PROVE  \E m \in S : \A n \in S : m <= n
<1> DEFINE LT == {ss \in Nat \X Nat : ss[1] < ss[2]}
<1>1. IsWellFoundedOn(LT, Nat)
  BY NatLessThanWellFounded DEF OpToRel
<1>2. \A x, y \in Nat : y < x => <<y, x>> \in LT
  OBVIOUS
<1> HIDE DEF LT
<1>3. PICK m \in S : \A n \in S : <<n, m>> \notin LT
  BY <1>1, WFMin
<1>4. \A n \in S : n \in Nat /\ m \in Nat /\ ~(n < m)
  BY <1>2, <1>3
<1>5. \A n \in S : m <= n
  BY <1>4, SMT
<1>6. QED
  BY <1>3, <1>5

\* A chain of rules decides by the first one that applies, if any does.
Decides(rules, m, i) ==
    /\ i \in 1 .. m /\ rules[i].when /\ Decision(rules) = rules[i].then
    /\ \A j \in 1 .. m : j < i => ~rules[j].when

LEMMA DecisionIs ==
    ASSUME NEW rules, NEW m \in Nat, DOMAIN rules = 1 .. m,
           NEW n \in 1 .. m, rules[n].when
    PROVE  \E i : Decides(rules, m, i)
<1> DEFINE S == {i \in 1 .. m : rules[i].when}
           First(i) == i \in DOMAIN rules /\ rules[i].when /\ \A j \in 1 .. i - 1 : ~rules[j].when
<1>1. PICK i \in S : \A j \in S : i <= j
  <2>1. S \in SUBSET Nat /\ n \in S
    OBVIOUS
  <2> HIDE DEF S
  <2>2. QED
    BY <2>1, LeastExists
<1>2. First(i)
  BY <1>1
<1>3. Decision(rules) = rules[CHOOSE x : First(x)].then
  BY DEF Decision
<1>4. First(CHOOSE x : First(x))
  BY <1>2
<1> DEFINE x == CHOOSE x : First(x)
<1>5. x \in 1 .. m /\ rules[x].when /\ \A j \in 1 .. x - 1 : ~rules[j].when
  BY <1>4
<1> HIDE DEF First
<1>6. \A j \in 1 .. m : j < x => ~rules[j].when
  BY <1>5
<1>7. QED
  BY <1>3, <1>5, <1>6 DEF Decides

\* The verdicts are typed: a row is moved only where there is a tier to move to.
LEMMA TiersAreTypes ==
    ASSUME NEW type
    PROVE  /\ Above(type) = None \/ Above(type) \in MemoryType
           /\ Below(type) = None \/ Below(type) \in MemoryType
  BY DEF Above, Below, MemoryType

LEMMA VerdictIs ==
    ASSUME NEW action \in LifecycleAction, NEW reason \in LifecycleReason
    PROVE  /\ action \notin {"promote", "demote"} => Verdict(action, reason) \in Verdicts
           /\ \A type \in MemoryType :
                [Verdict(action, reason) EXCEPT !.type = type] \in Verdicts
<1>1. \A type \in MemoryType : type # None
  BY NoneIsNoWord
<1>2. QED
  BY <1>1 DEF Verdict, Verdicts

LEMMA DormantIs ==
    ASSUME NEW s, NEW t, NEW c
    PROVE  Dormant(s, t, c) \in Verdicts
<1> DEFINE rules == <<
        Rule(s.status = "removed", Verdict("archive_request", "removed_cold_data")),
        Rule(s.status = "expired" /\ t - s.updated >= c.archiveAge,
             Verdict("archive_request", "expired_cold_data")),
        Rule(s.status = "expired", Verdict("hold", "expired_pending_archive")),
        Rule(s.status = "candidate",
             Verdict("hold", "candidate_requires_confirmation")),
        Rule(s.status = "superseded",
             Verdict("hold", "superseded_no_auto_recovery")),
        Rule(TRUE, Verdict("hold", "deprecated_no_auto_recovery")) >>
<1>1. Dormant(s, t, c) = Decision(rules)
  BY DEF Dormant
<1>2. DOMAIN rules = 1 .. 6 /\ rules[6].when
  BY DEF Rule
<1>3. \A i \in 1 .. 6 : rules[i].then \in Verdicts
  <2>1. /\ \A reason \in LifecycleReason : Verdict("archive_request", reason) \in Verdicts
        /\ \A reason \in LifecycleReason : Verdict("hold", reason) \in Verdicts
    BY VerdictIs DEF LifecycleAction
  <2>2. /\ rules[1].then = Verdict("archive_request", "removed_cold_data")
        /\ rules[2].then = Verdict("archive_request", "expired_cold_data")
        /\ rules[3].then = Verdict("hold", "expired_pending_archive")
        /\ rules[4].then = Verdict("hold", "candidate_requires_confirmation")
        /\ rules[5].then = Verdict("hold", "superseded_no_auto_recovery")
        /\ rules[6].then = Verdict("hold", "deprecated_no_auto_recovery")
    BY DEF Rule
  <2> HIDE DEF rules
  <2>3. QED
    BY <2>1, <2>2 DEF LifecycleReason
<1> HIDE DEF rules
<1>4. \E i \in 1 .. 6 : Decision(rules) = rules[i].then
  <2>1. 6 \in Nat /\ 6 \in 1 .. 6
    OBVIOUS
  <2>2. QED
    BY <1>2, <2>1, DecisionIs DEF Decides
<1>5. QED
  BY <1>1, <1>3, <1>4

LEMMA DemotionIs ==
    ASSUME NEW s, NEW t, NEW c
    PROVE  Demotion(s, t, c) = None \/ Demotion(s, t, c) \in LifecycleReason
<1> DEFINE rules == <<
        Rule(Idle(s, t, c), "inactivity_threshold"),
        Rule(LittleUsed(s, c), "low_usage_threshold"),
        Rule(s.confidence <= c.demoteConfidence,
             "confidence_decay_threshold"),
        Rule(TRUE, None) >>
<1>1. Demotion(s, t, c) = Decision(rules)
  BY DEF Demotion
<1>2. DOMAIN rules = 1 .. 4 /\ rules[4].when
  BY DEF Rule
<1>3. \A i \in 1 .. 4 : rules[i].then \in LifecycleReason \/ rules[i].then = None
  <2>1. /\ rules[1].then \in LifecycleReason /\ rules[2].then \in LifecycleReason
        /\ rules[3].then \in LifecycleReason /\ rules[4].then = None
    BY DEF Rule, LifecycleReason
  <2> HIDE DEF rules
  <2>2. QED
    BY <2>1
<1> HIDE DEF rules
<1>4. \E i \in 1 .. 4 : Decision(rules) = rules[i].then
  <2>1. 4 \in Nat /\ 4 \in 1 .. 4
    OBVIOUS
  <2>2. QED
    BY <1>2, <2>1, DecisionIs DEF Decides
<1>5. QED
  BY <1>1, <1>3, <1>4

LEMMA DecideIs ==
    ASSUME NEW s, NEW t, NEW c
    PROVE  Decide(s, t, c) \in Verdicts
<1> DEFINE up == [Verdict("promote", "credible_evidence_threshold")
                    EXCEPT !.type = Above(s.type)]
           down == [Verdict("demote", Demotion(s, t, c)) EXCEPT !.type = Below(s.type)]
           rules == <<
        Rule(s.status # "active", Dormant(s, t, c)),
        Rule(Promotable(s, t, c), up),
        Rule(t - s.created >= c.expireAge,
             Verdict("expire", "age_threshold_reached")),
        Rule(Below(s.type) # None /\ Demotion(s, t, c) # None,
             down),
        Rule(TRUE, Verdict("hold", "no_threshold_met")) >>
<1>1. Decide(s, t, c) = Decision(rules)
  BY DEF Decide
<1> HIDE DEF up, down
<1>2. DOMAIN rules = 1 .. 5
  OBVIOUS
<1>3. /\ rules[1] = Rule(s.status # "active", Dormant(s, t, c))
      /\ rules[2] = Rule(Promotable(s, t, c), up)
      /\ rules[3] = Rule(t - s.created >= c.expireAge,
                         Verdict("expire", "age_threshold_reached"))
      /\ rules[4] = Rule(Below(s.type) # None /\ Demotion(s, t, c) # None,
                         down)
      /\ rules[5] = Rule(TRUE, Verdict("hold", "no_threshold_met"))
  OBVIOUS
<1> HIDE DEF rules
<1>4. PICK i \in 1 .. 5 : rules[i].when /\ Decision(rules) = rules[i].then
  <2>1. 5 \in Nat /\ 5 \in 1 .. 5 /\ rules[5].when
    BY <1>3 DEF Rule
  <2>2. QED
    BY <1>2, <2>1, DecisionIs DEF Decides
<1>5. CASE i = 1
  BY <1>1, <1>3, <1>4, <1>5, DormantIs DEF Rule
<1>6. CASE i = 2
  <2>1. Above(s.type) \in MemoryType
    <3>1. rules[2].when = Promotable(s, t, c)
      BY <1>3 DEF Rule
    <3>2. Promotable(s, t, c)
      BY <1>4, <1>6, <3>1
    <3>3. Above(s.type) # None
      BY <3>2 DEF Promotable
    <3>4. QED
      BY <3>3, TiersAreTypes
  <2>2. "promote" \in LifecycleAction /\ "credible_evidence_threshold" \in LifecycleReason
    BY DEF LifecycleAction, LifecycleReason
  <2>3. Decide(s, t, c) = up
    BY <1>1, <1>3, <1>4, <1>6 DEF Rule
  <2>4. QED
    BY <2>1, <2>2, <2>3, VerdictIs DEF up
<1>7. CASE i = 3
  <2>1. "expire" \in LifecycleAction /\ "age_threshold_reached" \in LifecycleReason
    BY DEF LifecycleAction, LifecycleReason
  <2>2. Decide(s, t, c) = Verdict("expire", "age_threshold_reached")
    BY <1>1, <1>3, <1>4, <1>7 DEF Rule
  <2>3. QED
    BY <2>1, <2>2, VerdictIs
<1>8. CASE i = 4
  <2>1. rules[4].when = (Below(s.type) # None /\ Demotion(s, t, c) # None)
    BY <1>3 DEF Rule
  <2>2. Below(s.type) \in MemoryType /\ Demotion(s, t, c) \in LifecycleReason
    BY <1>4, <1>8, <2>1, TiersAreTypes, DemotionIs
  <2>3. "demote" \in LifecycleAction
    BY DEF LifecycleAction, LifecycleReason
  <2>4. Decide(s, t, c) = down
    BY <1>1, <1>3, <1>4, <1>8 DEF Rule
  <2>5. QED
    BY <2>2, <2>3, <2>4, VerdictIs DEF down
<1>9. CASE i = 5
  <2>1. "hold" \in LifecycleAction /\ "no_threshold_met" \in LifecycleReason
    BY DEF LifecycleAction, LifecycleReason
  <2>2. Decide(s, t, c) = Verdict("hold", "no_threshold_met")
    BY <1>1, <1>3, <1>4, <1>9 DEF Rule
  <2>3. QED
    BY <2>1, <2>2, VerdictIs
<1>10. QED
  BY <1>4, <1>5, <1>6, <1>7, <1>8, <1>9

-----------------------------------------------------------------------------
(* The outbox and the rows                                                 *)

\* Queueing adds one copy of one event.
LEMMA QueueFacts ==
    ASSUME IsABag(outbox), NEW a, NEW b, outbox' = Queue(a, b)
    PROVE  /\ IsABag(outbox')
           /\ \A x, y : Queued(x, y)' = Queued(x, y) + (IF x = a /\ y = b THEN 1 ELSE 0)
           /\ \A x, y : Queued(x, y) \in Nat
<1>1. SetToBag({<<a, b>>}) = [y \in {<<a, b>>} |-> 1]
  BY DEF SetToBag
<1>2. \A y \in DOMAIN outbox : outbox[y] \in Nat \ {0}
  BY DEF IsABag
<1>3. Queue(a, b) = [y \in DOMAIN outbox \cup {<<a, b>>} |->
         (IF y \in DOMAIN outbox THEN outbox[y] ELSE 0) + (IF y = <<a, b>> THEN 1 ELSE 0)]
  BY <1>1 DEF Queue, (+)
<1>4. QED
  BY <1>2, <1>3 DEF IsABag, Queued, BagIn, BagToSet

\* Every change of a row counts its revision up and leaves what it claims.
LEMMA RowChanges ==
    ASSUME NEW row \in Row, now \in Nat
    PROVE  /\ \A status \in MemoryStatus :
                /\ WithStatus(row, status) \in Row
                /\ WithStatus(row, status).input = row.input
                /\ WithStatus(row, status).tier = row.tier
                /\ WithStatus(row, status).eligible = row.eligible
                /\ WithStatus(row, status).revision = row.revision + 1
           /\ \A type \in MemoryType :
                /\ [Touch(row) EXCEPT !.type = type] \in Row
                /\ [Touch(row) EXCEPT !.type = type].input = row.input
                /\ [Touch(row) EXCEPT !.type = type].tier = row.tier
                /\ [Touch(row) EXCEPT !.type = type].eligible = row.eligible
                /\ [Touch(row) EXCEPT !.type = type].revision = row.revision + 1
<1>1. row.revision + 1 \in Nat
  BY DEF Row
<1>2. /\ Touch(row) \in Row /\ Touch(row).revision = row.revision + 1
      /\ Touch(row).input = row.input /\ Touch(row).tier = row.tier
      /\ Touch(row).eligible = row.eligible /\ Touch(row).deleted \in BOOLEAN
  BY <1>1, Zenon DEF Touch, Row
<1>3. ASSUME NEW status \in MemoryStatus
      PROVE  /\ WithStatus(row, status) \in Row
             /\ WithStatus(row, status).input = row.input
             /\ WithStatus(row, status).tier = row.tier
             /\ WithStatus(row, status).eligible = row.eligible
             /\ WithStatus(row, status).revision = row.revision + 1
  <2>1. (Touch(row).deleted \/ status = "removed") \in BOOLEAN
    BY <1>2
  <2>2. QED
    BY <1>2, <2>1, Zenon DEF WithStatus, Row
<1>4. ASSUME NEW type \in MemoryType
      PROVE  /\ [Touch(row) EXCEPT !.type = type] \in Row
             /\ [Touch(row) EXCEPT !.type = type].input = row.input
             /\ [Touch(row) EXCEPT !.type = type].tier = row.tier
             /\ [Touch(row) EXCEPT !.type = type].eligible = row.eligible
             /\ [Touch(row) EXCEPT !.type = type].revision = row.revision + 1
  <2> DEFINE touched == Touch(row)
  <2>1. touched \in Row
    BY <1>2
  <2> HIDE DEF touched
  <2>2. /\ [touched EXCEPT !.type = type] \in Row
        /\ [touched EXCEPT !.type = type].input = touched.input
        /\ [touched EXCEPT !.type = type].tier = touched.tier
        /\ [touched EXCEPT !.type = type].eligible = touched.eligible
        /\ [touched EXCEPT !.type = type].revision = touched.revision
    BY <2>1 DEF Row
  <2>3. QED
    BY <1>2, <2>2, Zenon DEF touched
<1>5. QED
  BY <1>3, <1>4

\* The keys of the tables are pairs.
LEMMA KeysArePairs ==
    ASSUME KnowledgeTypeOK
    PROVE  /\ \A key \in DOMAIN entries :
                key[1] \in Users /\ key[2] \in Ids /\ key = <<key[1], key[2]>>
           /\ \A u, k : Exists(u, k) => u \in Users /\ k \in Ids /\ entries[<<u, k>>] \in Row
<1>1. ASSUME NEW key \in DOMAIN entries
      PROVE  key[1] \in Users /\ key[2] \in Ids /\ key = <<key[1], key[2]>>
  <2>1. key \in Users \X Ids
    BY DEF KnowledgeTypeOK
  <2>2. QED
    BY <2>1
<1>2. ASSUME NEW u, NEW k, Exists(u, k)
      PROVE  u \in Users /\ k \in Ids /\ entries[<<u, k>>] \in Row
  <2>1. <<u, k>> \in DOMAIN entries
    BY <1>2 DEF Exists
  <2>2. <<u, k>> \in Users \X Ids /\ entries[<<u, k>>] \in Row
    BY <2>1 DEF KnowledgeTypeOK
  <2>3. QED
    BY <2>2
<1>3. QED
  BY <1>1, <1>2

-----------------------------------------------------------------------------
(* TrustedEvidence, one table at a time                                    *)

\* The evidence of one row.
Supported(key) ==
    /\ Cardinality(PrimaryEdges(key[1], key[2])) = 1
    /\ \A r \in PrimaryEdges(key[1], key[2]) :
          /\ MayPersist(key[1], r.right, entries[key].input)
          /\ entries[key].tier = TierOf(r.right)

MembersExist ==
    \A key \in DOMAIN conflicts : \A k \in conflicts[key].members : Exists(key[1], k)

\* A decision names its winner only where it keeps a side.
LEMMA WinnerIsKept ==
    ASSUME NEW action, NEW winner, NEW left, NEW right, left # right,
           DecisionHolds(action, winner, left, right), winner # None
    PROVE  action = (IF winner = left THEN "keep_left" ELSE "keep_right")
  BY DEF DecisionHolds

LEMMA TrustedGives ==
    ASSUME TrustedEvidence
    PROVE  /\ \A key \in DOMAIN entries : Supported(key)
           /\ \A r \in relations : EndpointsHold(r)
           /\ MembersExist
  BY DEF TrustedEvidence, Supported, MembersExist

LEMMA TrustedNext ==
    ASSUME \A key \in DOMAIN entries' : Supported(key)',
           \A r \in relations' : EndpointsHold(r)',
           MembersExist', ConflictsHaveSides'
    PROVE  TrustedEvidence'
<1>1. ASSUME NEW key \in DOMAIN conflicts', NEW k \in conflicts'[key].members,
             conflicts'[key].status \notin Closed, (entries[<<key[1], k>>].eligible)'
      PROVE  ConflictState(key[1], k)' = "unresolved"
  <2>1. Exists(key[1], k)'
    BY DEF MembersExist
  <2>2. QED
    BY <1>1, <2>1 DEF ConflictState
<1>2. ASSUME NEW key \in DOMAIN conflicts', conflicts'[key].winner # None
      PROVE  conflicts'[key].action =
               (IF conflicts'[key].winner = conflicts'[key].left
                THEN "keep_left" ELSE "keep_right")
  BY <1>2, WinnerIsKept DEF ConflictsHaveSides
<1>3. \A key \in DOMAIN entries' :
         /\ Cardinality(PrimaryEdges(key[1], key[2])') = 1
         /\ \A r \in PrimaryEdges(key[1], key[2])' :
               /\ MayPersist(key[1], r.right, entries[key].input)'
               /\ (entries[key].tier)' = TierOf(r.right)
  BY DEF Supported
<1>4. \A key \in DOMAIN conflicts' : \A k \in conflicts'[key].members : Exists(key[1], k)'
  BY DEF MembersExist
<1>5. QED
  BY <1>1, <1>2, <1>3, <1>4 DEF TrustedEvidence

\* The rows stay and still claim what they claimed, the sources too.
RowsKept ==
    /\ sources \subseteq sources'
    /\ \A key \in DOMAIN entries :
          /\ key \in DOMAIN entries'
          /\ entries'[key].input = entries[key].input
          /\ entries'[key].tier = entries[key].tier
          /\ entries'[key].eligible = entries[key].eligible
          /\ entries[key].revision <= entries'[key].revision

\* An edge whose ends were there has them.
LEMMA EndpointsKept ==
    ASSUME RowsKept, NEW r, EndpointsHold(r)
    PROVE  EndpointsHold(r)'
  BY DEF RowsKept, EndpointsHold, Exists

\* A row whose edges stay keeps its support.
LEMMA SupportKept ==
    ASSUME RowsKept, NEW key \in DOMAIN entries, Supported(key),
           PrimaryEdges(key[1], key[2])' = PrimaryEdges(key[1], key[2])
    PROVE  Supported(key)'
<1>1. \A e, input : MayPersist(key[1], e, input) => MayPersist(key[1], e, input)'
  BY DEF RowsKept, MayPersist
<1>2. entries'[key].input = entries[key].input /\ entries'[key].tier = entries[key].tier
  BY DEF RowsKept
<1>3. QED
  BY <1>1, <1>2 DEF Supported

LEMMA MembersKept ==
    ASSUME RowsKept, MembersExist, UNCHANGED conflicts
    PROVE  MembersExist'
  BY DEF RowsKept, MembersExist, Exists

LEMMA TrustedKept ==
    ASSUME TrustedEvidence, ConflictsHaveSides, RowsKept, DOMAIN entries' = DOMAIN entries,
           UNCHANGED <<relations, conflicts>>
    PROVE  TrustedEvidence' /\ ConflictsHaveSides'
<1>1. ConflictsHaveSides'
  BY DEF ConflictsHaveSides
<1>2. \A key \in DOMAIN entries' : Supported(key)'
  <2>1. \A key : PrimaryEdges(key[1], key[2])' = PrimaryEdges(key[1], key[2])
    BY DEF PrimaryEdges
  <2>2. QED
    BY <2>1, TrustedGives, SupportKept
<1>3. \A r \in relations' : EndpointsHold(r)'
  BY TrustedGives, EndpointsKept
<1>4. MembersExist'
  BY TrustedGives, MembersKept
<1>5. QED
  BY <1>1, <1>2, <1>3, <1>4, TrustedNext

-----------------------------------------------------------------------------
(* The receipts                                                            *)

\* Events about anything else do not count for the receipts.
LEMMA AccountKept ==
    ASSUME ReceiptsAccount, RevisionsPassed, KnowledgeTypeOK, RowsKept, UNCHANGED receipts,
           \A about : \A event \in {"lifecycle.changed", "lifecycle.archive"} :
              Queued(event, about)' = Queued(event, about),
           \A p \in Processes : doing'[p] # None => Exists(doing'[p].user, doing'[p].id),
           \A key \in DOMAIN entries' : entries'[key].revision \in Nat
    PROVE  ReceiptsAccount' /\ RevisionsPassed'
<1>1. Changing' = Changing /\ Archiving' = Archiving
  BY DEF Changing, Archiving
<1>2. ReceiptsAccount'
  BY <1>1 DEF ReceiptsAccount
<1>3. \A u, k : Exists(u, k) => Exists(u, k)'
  BY DEF RowsKept, Exists
<1>4. ASSUME NEW r \in Changing'
      PROVE  r.revision < entries'[<<r.user, r.id>>].revision
  <2>1. r \in receipts /\ r \in Changing /\ r.revision \in Nat
    BY <1>1 DEF Changing, KnowledgeTypeOK, Task
  <2>2. <<r.user, r.id>> \in DOMAIN entries /\ r.revision < entries[<<r.user, r.id>>].revision
    BY <2>1 DEF RevisionsPassed, Exists
  <2>3. entries[<<r.user, r.id>>].revision <= entries'[<<r.user, r.id>>].revision
        /\ <<r.user, r.id>> \in DOMAIN entries'
    BY <2>2 DEF RowsKept
  <2>4. entries[<<r.user, r.id>>].revision \in Nat /\ entries'[<<r.user, r.id>>].revision \in Nat
    BY <2>2, <2>3 DEF KnowledgeTypeOK, Row
  <2>5. QED
    BY <2>1, <2>2, <2>3, <2>4
<1>5. \A p \in Processes : (doing[p] # None => Exists(doing[p].user, doing[p].id))'
  BY <1>3
<1>6. \A r \in receipts' : Exists(r.user, r.id)'
  BY <1>3 DEF RevisionsPassed
<1>7. RevisionsPassed'
  BY <1>4, <1>5, <1>6 DEF RevisionsPassed
<1>8. QED
  BY <1>2, <1>7

-----------------------------------------------------------------------------
(* Steps of Knowledge                                                      *)

\* A row that stays as it is, or all of them.
LEMMA QuietPreserves ==
    ASSUME KnowledgeInv, now' \in Nat, sources \subseteq sources', sources' \subseteq Events,
           UNCHANGED <<entries, relations, conflicts, receipts, outbox>>,
           doing' \in [Processes -> Task \cup {None}],
           \A p \in Processes : doing'[p] # None => Exists(doing'[p].user, doing'[p].id)
    PROVE  KnowledgeInv'
<1>1. KnowledgeTypeOK'
  BY DEF KnowledgeInv, KnowledgeTypeOK
<1>2. \A key \in DOMAIN entries : entries[key].revision \in Nat
  BY DEF KnowledgeInv, KnowledgeTypeOK, Row
<1>3. RowsKept
  BY <1>2 DEF RowsKept
<1>4. TrustedEvidence' /\ ConflictsHaveSides'
  BY <1>3, TrustedKept DEF KnowledgeInv
<1>5. \A event, about : Queued(event, about)' = Queued(event, about)
  BY DEF Queued
<1>6. ReceiptsAccount' /\ RevisionsPassed'
  BY <1>2, <1>3, <1>5, AccountKept DEF KnowledgeInv
<1>7. QED
  BY <1>1, <1>4, <1>6 DEF KnowledgeInv

\* A write to one row that keeps its claims.
LEMMA WritePreserves ==
    ASSUME KnowledgeInv, NEW u, NEW k, Exists(u, k), NEW row \in Row,
           entries' = [entries EXCEPT ![<<u, k>>] = row],
           row.input = entries[<<u, k>>].input, row.tier = entries[<<u, k>>].tier,
           row.eligible = entries[<<u, k>>].eligible,
           entries[<<u, k>>].revision <= row.revision,
           UNCHANGED << now, sources, relations, conflicts, receipts, outbox, doing >>
    PROVE  KnowledgeInv'
<1>1. /\ DOMAIN entries' = DOMAIN entries
      /\ entries'[<<u, k>>] = row
      /\ \A key \in DOMAIN entries : key # <<u, k>> => entries'[key] = entries[key]
  BY DEF Exists
<1>2. /\ \A key \in DOMAIN entries : entries[key].revision \in Nat
      /\ \A key \in DOMAIN entries' : entries'[key] \in Row /\ entries'[key].revision \in Nat
  BY <1>1 DEF KnowledgeInv, KnowledgeTypeOK, Row
<1>3. KnowledgeTypeOK'
  BY <1>1, <1>2 DEF KnowledgeInv, KnowledgeTypeOK
<1>4. RowsKept
  BY <1>1, <1>2 DEF RowsKept
<1>5. TrustedEvidence' /\ ConflictsHaveSides'
  BY <1>1, <1>4, TrustedKept DEF KnowledgeInv
<1>6. \A event, about : Queued(event, about)' = Queued(event, about)
  BY DEF Queued
<1>7. ReceiptsAccount' /\ RevisionsPassed'
  <2>1. \A p \in Processes : doing'[p] # None => Exists(doing'[p].user, doing'[p].id)
    BY DEF KnowledgeInv, RevisionsPassed
  <2>2. QED
    BY <1>2, <1>4, <1>6, <2>1, AccountKept DEF KnowledgeInv
<1>8. QED
  BY <1>3, <1>5, <1>7 DEF KnowledgeInv

LEMMA SetStatusPreserves ==
    ASSUME KnowledgeInv, NEW u, NEW k, NEW status \in MemoryStatus,
           SetStatus(u, k, status) \/ Forget(u, k)
    PROVE  KnowledgeInv'
<1>1. "removed" \in MemoryStatus
  BY DEF MemoryStatus
<1>2. PICK s \in MemoryStatus :
        /\ Exists(u, k)
        /\ entries' = [entries EXCEPT ![<<u, k>>] = WithStatus(entries[<<u, k>>], s)]
        /\ UNCHANGED << now, sources, relations, conflicts, receipts, outbox, doing >>
  BY <1>1 DEF SetStatus, Forget
<1>3. entries[<<u, k>>] \in Row /\ now \in Nat /\ entries[<<u, k>>].revision \in Nat
  BY <1>2, KeysArePairs DEF KnowledgeInv, KnowledgeTypeOK, Row
<1> DEFINE row == WithStatus(entries[<<u, k>>], s)
<1>4. /\ row \in Row /\ row.input = entries[<<u, k>>].input
      /\ row.tier = entries[<<u, k>>].tier /\ row.eligible = entries[<<u, k>>].eligible
      /\ row.revision = entries[<<u, k>>].revision + 1
  BY <1>3, RowChanges
<1>5. entries' = [entries EXCEPT ![<<u, k>>] = row]
  BY <1>2
<1> HIDE DEF row
<1>6. entries[<<u, k>>].revision <= row.revision
  BY <1>3, <1>4
<1>7. QED
  BY <1>2, <1>4, <1>5, <1>6, WritePreserves

LEMMA CountAccessPreserves ==
    ASSUME KnowledgeInv, NEW u, NEW k, CountAccess(u, k)
    PROVE  KnowledgeInv'
<1> DEFINE row == [entries[<<u, k>>] EXCEPT !.access = 1, !.last = now]
<1>1. Exists(u, k)
  BY DEF CountAccess
<1>2. entries[<<u, k>>] \in Row /\ now \in Nat /\ entries[<<u, k>>].revision \in Nat
  BY <1>1, KeysArePairs DEF KnowledgeInv, KnowledgeTypeOK, Row
<1>3. /\ row \in Row /\ row.input = entries[<<u, k>>].input
      /\ row.tier = entries[<<u, k>>].tier /\ row.eligible = entries[<<u, k>>].eligible
      /\ row.revision = entries[<<u, k>>].revision
  BY <1>2 DEF Row
<1>4. entries' = [entries EXCEPT ![<<u, k>>] = row]
  BY <1>1 DEF CountAccess, Exists
<1> HIDE DEF row
<1>5. entries[<<u, k>>].revision <= row.revision
  BY <1>2, <1>3
<1>6. UNCHANGED << now, sources, relations, conflicts, receipts, outbox, doing >>
  BY DEF CountAccess
<1>7. QED
  BY <1>1, <1>3, <1>4, <1>5, <1>6, WritePreserves

\* What reads, the clock and ingestion leave everything but themselves.
LEMMA EvaluatePreserves ==
    ASSUME KnowledgeInv, NEW p \in Processes, NEW u, NEW k, NEW v \in Evaluations,
           NEW c, Evaluate(p, u, k, v, c)
    PROVE  KnowledgeInv'
<1> DEFINE verdict == Decide(Snapshot(entries[<<u, k>>]), now, c)
           task == [user |-> u, evaluation |-> v, id |-> k,
                    revision |-> entries[<<u, k>>].revision, verdict |-> verdict]
<1>1. Exists(u, k) /\ doing' = [doing EXCEPT ![p] = task]
  BY DEF Evaluate
<1>2. /\ UNCHANGED <<entries, relations, conflicts, receipts, outbox>>
      /\ now' = now /\ sources' = sources
  BY DEF Evaluate
<1>3. u \in Users /\ k \in Ids /\ entries[<<u, k>>].revision \in Nat
  BY <1>1, KeysArePairs DEF KnowledgeInv, Row
<1>4. verdict \in Verdicts
  BY DecideIs
<1> HIDE DEF verdict
<1>5. task \in Task /\ task.user = u /\ task.id = k
  BY <1>3, <1>4 DEF Task
<1> HIDE DEF task
<1>6. doing' \in [Processes -> Task \cup {None}]
  BY <1>1, <1>5 DEF KnowledgeInv, KnowledgeTypeOK
<1>7. ASSUME NEW q \in Processes, doing'[q] # None
      PROVE  Exists(doing'[q].user, doing'[q].id)
  <2>1. CASE q = p
    <3>1. doing'[q] = task
      BY <1>1, <2>1 DEF KnowledgeInv, KnowledgeTypeOK
    <3>2. QED
      BY <1>1, <1>5, <3>1
  <2>2. CASE q # p
    <3>1. doing'[q] = doing[q]
      BY <1>1, <2>2 DEF KnowledgeInv, KnowledgeTypeOK
    <3>2. QED
      BY <1>7, <3>1 DEF KnowledgeInv, RevisionsPassed
  <2>3. QED
    BY <2>1, <2>2
<1>8. now' \in Nat /\ sources \subseteq sources' /\ sources' \subseteq Events
  BY <1>2 DEF KnowledgeInv, KnowledgeTypeOK
<1>9. QED
  BY <1>2, <1>6, <1>7, <1>8, QuietPreserves

LEMMA SourcesPreserve ==
    ASSUME KnowledgeInv, now' \in Nat, sources \subseteq sources', sources' \subseteq Events,
           UNCHANGED <<entries, relations, conflicts, receipts, outbox, doing>>
    PROVE  KnowledgeInv'
<1>1. /\ doing' \in [Processes -> Task \cup {None}]
      /\ \A p \in Processes : doing'[p] # None => Exists(doing'[p].user, doing'[p].id)
  BY DEF KnowledgeInv, KnowledgeTypeOK, RevisionsPassed
<1>2. QED
  BY <1>1, QuietPreserves

\* One more receipt of a row counts once for it.
ReceiptCount(set, u, k) == Cardinality({r \in set : r.user = u /\ r.id = k})

LEMMA CountOne ==
    ASSUME NEW S, IsFiniteSet(S), NEW task, task \notin S, NEW u, NEW k
    PROVE  ReceiptCount(S \cup {task}, u, k) =
             ReceiptCount(S, u, k) + (IF task.user = u /\ task.id = k THEN 1 ELSE 0)
<1> DEFINE of(set) == {r \in set : r.user = u /\ r.id = k}
<1>1. IsFiniteSet(of(S)) /\ task \notin of(S)
  BY FS_Subset
<1>2. Cardinality(of(S)) \in Nat
  BY <1>1, FS_CardinalityType
<1>3. ASSUME task.user = u /\ task.id = k
      PROVE  Cardinality(of(S \cup {task})) = Cardinality(of(S)) + 1
  <2>1. of(S \cup {task}) = of(S) \cup {task}
    BY <1>3
  <2> HIDE DEF of
  <2>2. Cardinality(of(S \cup {task})) = Cardinality(of(S)) + 1
    BY <1>1, <2>1, FS_AddElement
  <2>3. QED
    BY <1>3, <2>2
<1>4. ASSUME ~(task.user = u /\ task.id = k)
      PROVE  Cardinality(of(S \cup {task})) = Cardinality(of(S)) /\ Cardinality(of(S)) \in Nat
  <2>1. of(S \cup {task}) = of(S)
    BY <1>4
  <2> HIDE DEF of
  <2>2. QED
    BY <1>2, <1>4, <2>1
<1>5. QED
  <2> HIDE DEF of
  <2>1. Cardinality(of(S \cup {task})) =
          Cardinality(of(S)) + (IF task.user = u /\ task.id = k THEN 1 ELSE 0)
    BY <1>3, <1>4
  <2>2. QED
    BY <2>1 DEF of, ReceiptCount

\* A committed evaluation changes the row of its task, if it moves it.
LEMMA CommitRow ==
    ASSUME KnowledgeInv, NEW task \in Task, Exists(task.user, task.id), Commit(task),
           sources' = sources
    PROVE  /\ RowsKept
           /\ DOMAIN entries' = DOMAIN entries
           /\ \A key \in DOMAIN entries' : entries'[key] \in Row
           /\ Mutates(task.verdict) =>
                entries'[<<task.user, task.id>>].revision =
                  entries[<<task.user, task.id>>].revision + 1
<1> DEFINE u == task.user
           k == task.id
           row == Applied(entries[<<u, k>>], task.verdict)
<1>1. entries[<<u, k>>] \in Row /\ now \in Nat /\ entries[<<u, k>>].revision \in Nat
  BY KeysArePairs DEF KnowledgeInv, KnowledgeTypeOK, Row
<1>2. \A key \in DOMAIN entries : entries[key] \in Row /\ entries[key].revision \in Nat
  BY DEF KnowledgeInv, KnowledgeTypeOK, Row
<1>3. CASE Mutates(task.verdict)
  <2>1. /\ row \in Row /\ row.input = entries[<<u, k>>].input
        /\ row.tier = entries[<<u, k>>].tier /\ row.eligible = entries[<<u, k>>].eligible
        /\ row.revision = entries[<<u, k>>].revision + 1
    <3>1. CASE task.verdict.action = "expire"
      <4>1. row = WithStatus(entries[<<u, k>>], "expired") /\ "expired" \in MemoryStatus
        BY <3>1 DEF Applied, MemoryStatus
      <4>2. QED
        BY <1>1, <4>1, RowChanges
    <3>2. CASE task.verdict.action # "expire"
      <4>1. row = [Touch(entries[<<u, k>>]) EXCEPT !.type = task.verdict.type]
        BY <3>2 DEF Applied
      <4>2. task.verdict.type \in MemoryType
        BY <1>3, <3>2 DEF Mutates, Task, Verdicts
      <4>3. QED
        BY <1>1, <4>1, <4>2, RowChanges
    <3>3. QED
      BY <3>1, <3>2
  <2>2. entries' = [entries EXCEPT ![<<u, k>>] = row]
    BY <1>3 DEF Commit
  <2> HIDE DEF row
  <2>3. /\ DOMAIN entries' = DOMAIN entries /\ entries'[<<u, k>>] = row
        /\ \A key \in DOMAIN entries : key # <<u, k>> => entries'[key] = entries[key]
    BY <2>2 DEF Exists
  <2>4. QED
    BY <1>1, <1>2, <2>1, <2>3 DEF RowsKept
<1>4. CASE ~Mutates(task.verdict)
  <2>1. entries' = entries
    BY <1>4 DEF Commit
  <2>2. QED
    BY <1>2, <1>4, <2>1 DEF RowsKept
<1>5. QED
  BY <1>3, <1>4

\* The receipt of a committed evaluation fits the others and is accounted for.
LEMMA CommitAccount ==
    ASSUME KnowledgeInv, NEW task \in Task, Exists(task.user, task.id),
           Mutates(task.verdict) => Unmoved(task), ReceiptFits(task), Commit(task),
           IsFiniteSet(receipts)
    PROVE  ReceiptsAccount' /\ IsABag(outbox')
<1> DEFINE kind == task.verdict.action
<1>1. receipts' = receipts \cup {task} /\ task \notin receipts
  BY DEF Commit, ReceiptFits, ReceiptsOf
<1>2. /\ kind \in LifecycleAction
      /\ Mutates(task.verdict) <=> kind \in {"promote", "demote", "expire"}
      /\ task.user \in Users /\ task.id \in Ids
  BY DEF Task, Verdicts, Mutates
<1>3. /\ Changing' = IF Mutates(task.verdict) THEN Changing \cup {task} ELSE Changing
      /\ Archiving' = IF kind = "archive_request" THEN Archiving \cup {task} ELSE Archiving
  BY <1>1 DEF Changing, Archiving, Mutates
<1>4. /\ IsFiniteSet(Changing) /\ IsFiniteSet(Archiving)
      /\ task \notin Changing /\ task \notin Archiving
  BY <1>1, FS_Subset DEF Changing, Archiving
<1>5. /\ \A r, q \in Changing :
            r.user = q.user /\ r.id = q.id /\ r.revision = q.revision => r = q
      /\ \A r, q \in receipts :
            r.user = q.user /\ r.evaluation = q.evaluation => r = q
      /\ \A r, q \in Archiving :
            r.user = q.user /\ r.id = q.id /\ r.verdict = q.verdict => r = q
  BY DEF KnowledgeInv, ReceiptsAccount
<1>6. ASSUME NEW r \in Changing', NEW q \in Changing',
             r.user = q.user, r.id = q.id, r.revision = q.revision
      PROVE  r = q
  <2>1. ASSUME NEW x \in Changing, Mutates(task.verdict),
               x.user = task.user, x.id = task.id
        PROVE  x.revision # task.revision
    <3>1. x.revision < entries[<<task.user, task.id>>].revision
      BY <2>1 DEF KnowledgeInv, RevisionsPassed
    <3>2. entries[<<task.user, task.id>>].revision = task.revision
      BY <2>1 DEF Unmoved
    <3>3. task.revision \in Nat
      BY DEF Task
    <3>4. QED
      BY <3>1, <3>2, <3>3
  <2>2. QED
    BY <1>3, <1>5, <1>6, <2>1
<1>7. ASSUME NEW r \in receipts', NEW q \in receipts',
             r.user = q.user, r.evaluation = q.evaluation
      PROVE  r = q
  BY <1>1, <1>5, <1>7 DEF ReceiptFits, ReceiptsOf
<1>8. ASSUME NEW r \in Archiving', NEW q \in Archiving',
             r.user = q.user, r.id = q.id, r.verdict = q.verdict
      PROVE  r = q
  <2>1. ASSUME NEW x \in Archiving, kind = "archive_request",
               x.user = task.user, x.id = task.id
        PROVE  x.verdict # task.verdict
    BY <2>1 DEF Archiving, ReceiptFits, Archived
  <2>2. QED
    BY <1>3, <1>5, <1>8, <2>1
<1>9. /\ IsABag(outbox')
      /\ \A u \in Users, k \in Ids :
           /\ Queued("lifecycle.changed", <<u, k>>)' =
                Queued("lifecycle.changed", <<u, k>>) +
                  (IF Mutates(task.verdict) /\ task.user = u /\ task.id = k THEN 1 ELSE 0)
           /\ Queued("lifecycle.archive", <<u, k>>)' =
                Queued("lifecycle.archive", <<u, k>>) +
                  (IF kind = "archive_request" /\ task.user = u /\ task.id = k THEN 1 ELSE 0)
  <2>1. IsABag(outbox)
    BY DEF KnowledgeInv, KnowledgeTypeOK
  <2>2. CASE kind = "hold"
    <3>1. outbox' = outbox
      BY <2>2 DEF Commit
    <3>2. \A x, y : Queued(x, y)' = Queued(x, y) /\ Queued(x, y) \in Nat
      BY <2>1, <3>1 DEF Queued, IsABag, BagIn, BagToSet
    <3>3. QED
      BY <1>2, <2>1, <2>2, <3>1, <3>2
  <2>3. CASE Mutates(task.verdict)
    <3>1. kind # "hold" /\ kind # "archive_request"
      BY <1>2, <2>3
    <3>2. outbox' = Queue("lifecycle.changed", <<task.user, task.id>>)
      BY <2>3, <3>1 DEF Commit
    <3>3. /\ IsABag(outbox')
          /\ \A x, y : Queued(x, y)' = Queued(x, y) +
               (IF x = "lifecycle.changed" /\ y = <<task.user, task.id>> THEN 1 ELSE 0)
          /\ \A x, y : Queued(x, y) \in Nat
      BY <2>1, <3>2, QueueFacts
    <3>4. QED
      BY <2>3, <3>1, <3>3
  <2>4. CASE kind = "archive_request"
    <3>1. kind # "hold" /\ ~Mutates(task.verdict)
      BY <1>2, <2>4
    <3>2. outbox' = Queue("lifecycle.archive", <<task.user, task.id>>)
      BY <3>1 DEF Commit
    <3>3. /\ IsABag(outbox')
          /\ \A x, y : Queued(x, y)' = Queued(x, y) +
               (IF x = "lifecycle.archive" /\ y = <<task.user, task.id>> THEN 1 ELSE 0)
          /\ \A x, y : Queued(x, y) \in Nat
      BY <2>1, <3>2, QueueFacts
    <3>4. QED
      BY <2>4, <3>1, <3>3
  <2>5. QED
    BY <1>2, <2>2, <2>3, <2>4 DEF LifecycleAction
<1>10. ASSUME NEW u \in Users, NEW k \in Ids
       PROVE  /\ Queued("lifecycle.changed", <<u, k>>)' =
                   Cardinality({r \in Changing' : r.user = u /\ r.id = k})
              /\ Queued("lifecycle.archive", <<u, k>>)' =
                   Cardinality({r \in Archiving' : r.user = u /\ r.id = k})
  <2> DEFINE of(set) == ReceiptCount(set, u, k)
             here == IF task.user = u /\ task.id = k THEN 1 ELSE 0
  <2>1. /\ Queued("lifecycle.changed", <<u, k>>) = of(Changing)
        /\ Queued("lifecycle.archive", <<u, k>>) = of(Archiving)
    BY DEF KnowledgeInv, ReceiptsAccount, ReceiptCount
  <2>2. of(Changing \cup {task}) = of(Changing) + here
    BY <1>4, CountOne
  <2>3. of(Archiving \cup {task}) = of(Archiving) + here
    BY <1>4, CountOne
  <2>4. \A x, y : Queued(x, y) \in Nat
    <3>1. IsABag(outbox)
      BY DEF KnowledgeInv, KnowledgeTypeOK
    <3>2. QED
      BY <3>1 DEF Queued, IsABag, BagIn, BagToSet
  <2> HIDE DEF of
  <2>5. Queued("lifecycle.changed", <<u, k>>)' = of(Changing')
    BY <1>3, <1>9, <2>1, <2>2, <2>4
  <2>6. Queued("lifecycle.archive", <<u, k>>)' = of(Archiving')
    BY <1>3, <1>9, <2>1, <2>3, <2>4
  <2>7. QED
    BY <2>5, <2>6 DEF of, ReceiptCount
<1>11. QED
  BY <1>6, <1>7, <1>8, <1>9, <1>10 DEF ReceiptsAccount

LEMMA FinishPreserves ==
    ASSUME KnowledgeInv, NEW p \in Processes, FinishEvaluation(p)
    PROVE  KnowledgeInv'
<1> DEFINE task == doing[p]
<1>1. /\ task \in Task /\ Exists(task.user, task.id)
      /\ doing' = [doing EXCEPT ![p] = None]
      /\ UNCHANGED << now, sources, relations, conflicts >>
  BY DEF FinishEvaluation, KnowledgeInv, KnowledgeTypeOK, RevisionsPassed
<1>2. /\ doing' \in [Processes -> Task \cup {None}]
      /\ \A q \in Processes : doing'[q] # None => doing'[q] = doing[q]
  BY <1>1 DEF KnowledgeInv, KnowledgeTypeOK
<1>3. \A q \in Processes : doing'[q] # None => Exists(doing'[q].user, doing'[q].id)
  BY <1>2 DEF KnowledgeInv, RevisionsPassed
<1>4. now' \in Nat /\ sources \subseteq sources' /\ sources' \subseteq Events
  BY <1>1 DEF KnowledgeInv, KnowledgeTypeOK
<1>5. CASE UNCHANGED << entries, receipts, outbox >>
  BY <1>1, <1>2, <1>3, <1>4, <1>5, QuietPreserves
<1>6. CASE (Mutates(task.verdict) => Unmoved(task)) /\ ReceiptFits(task) /\ Commit(task)
  <2> HIDE DEF task
  <2>1. /\ RowsKept /\ DOMAIN entries' = DOMAIN entries
        /\ \A key \in DOMAIN entries' : entries'[key] \in Row
        /\ Mutates(task.verdict) =>
             entries'[<<task.user, task.id>>].revision =
               entries[<<task.user, task.id>>].revision + 1
    BY <1>1, <1>6, CommitRow
  <2>2. IsFiniteSet(receipts) /\ receipts' = receipts \cup {task}
    BY <1>6 DEF KnowledgeInv, KnowledgeTypeOK, Commit
  <2>3. IsFiniteSet(receipts') /\ receipts' \subseteq Task
    BY <1>1, <2>2, FS_AddElement DEF KnowledgeInv, KnowledgeTypeOK
  <2>4. ReceiptsAccount' /\ IsABag(outbox')
    BY <1>1, <1>6, <2>2, CommitAccount
  <2>5. KnowledgeTypeOK'
    BY <1>1, <1>2, <2>1, <2>3, <2>4 DEF KnowledgeInv, KnowledgeTypeOK
  <2>6. TrustedEvidence' /\ ConflictsHaveSides'
    BY <1>1, <2>1, TrustedKept DEF KnowledgeInv
  <2>7. RevisionsPassed'
    <3>1. \A u, k : Exists(u, k) => Exists(u, k)'
      BY <2>1 DEF Exists
    <3>2. \A q \in Processes : (doing[q] # None => Exists(doing[q].user, doing[q].id))'
      BY <1>3, <3>1
    <3>3. \A r \in receipts' : Exists(r.user, r.id)'
      BY <1>1, <2>2, <3>1 DEF KnowledgeInv, RevisionsPassed
    <3>4. ASSUME NEW r \in Changing'
          PROVE  r.revision < entries'[<<r.user, r.id>>].revision
      <4>1. /\ r \in receipts' /\ Mutates(r.verdict) /\ r.revision \in Nat
            /\ Exists(r.user, r.id)
        BY <1>1, <2>2, <2>3 DEF Changing, Task, Mutates, KnowledgeInv, RevisionsPassed
      <4>2. /\ entries[<<r.user, r.id>>].revision \in Nat
            /\ entries'[<<r.user, r.id>>].revision \in Nat
            /\ entries[<<r.user, r.id>>].revision <= entries'[<<r.user, r.id>>].revision
        BY <2>1, <4>1 DEF KnowledgeInv, KnowledgeTypeOK, Row, Exists, RowsKept
      <4>3. CASE r \in receipts
        <5>1. r.revision < entries[<<r.user, r.id>>].revision
          BY <4>1, <4>3 DEF KnowledgeInv, RevisionsPassed, Changing
        <5>2. QED
          BY <4>1, <4>2, <5>1
      <4>4. CASE r = task
        <5>1. entries[<<r.user, r.id>>].revision = r.revision
          BY <1>6, <4>1, <4>4 DEF Unmoved
        <5>2. entries'[<<r.user, r.id>>].revision = entries[<<r.user, r.id>>].revision + 1
          BY <2>1, <4>1, <4>4
        <5>3. QED
          BY <4>1, <5>1, <5>2
      <4>5. QED
        BY <2>2, <4>1, <4>3, <4>4
    <3>5. QED
      BY <3>2, <3>3, <3>4 DEF RevisionsPassed
  <2>8. QED
    BY <2>4, <2>5, <2>6, <2>7 DEF KnowledgeInv
<1>7. QED
  BY <1>5, <1>6 DEF FinishEvaluation

\* An event of another kind leaves the counts of the receipts.
LEMMA OtherEvents ==
    ASSUME KnowledgeInv, NEW event, NEW about,
           event \in {"relation.changed", "conflict.changed"}, outbox' = Queue(event, about)
    PROVE  /\ IsABag(outbox')
           /\ \A y : \A x \in {"lifecycle.changed", "lifecycle.archive"} :
                Queued(x, y)' = Queued(x, y)
<1>1. IsABag(outbox)
  BY DEF KnowledgeInv, KnowledgeTypeOK
<1>2. /\ IsABag(outbox')
      /\ \A x, y : Queued(x, y)' = Queued(x, y) + (IF x = event /\ y = about THEN 1 ELSE 0)
      /\ \A x, y : Queued(x, y) \in Nat
  BY <1>1, QueueFacts
<1>3. QED
  BY <1>2

\* A new row brings the one edge it rests on.
LEMMA PersistPreserves ==
    ASSUME KnowledgeInv, NEW u \in Users, NEW k \in Ids, NEW e \in Events, NEW i \in Inputs,
           MayPersist(u, e, i), ~Exists(u, k), Persist(u, k, e, i),
           UNCHANGED << now, sources, conflicts, receipts, doing >>
    PROVE  KnowledgeInv'
<1> DEFINE edge == Edge(u, <<k, e>>, "evidence", k, e, TRUE)
           row == NewRow(e, i)
<1>1. /\ edge \in Relation /\ edge.user = u /\ edge.left = k /\ edge.right = e
      /\ edge.type = "evidence" /\ edge.primary
  BY DEF Edge, Relation
<1>2. /\ row \in Row /\ row.input = i /\ row.tier = TierOf(e) /\ row.revision = 1
  <2>1. now \in Nat
    BY DEF KnowledgeInv, KnowledgeTypeOK
  <2>2. TierOf(e) \in {TierOf(x) : x \in Events}
    OBVIOUS
  <2>3. "candidate" \in MemoryStatus /\ "short_term" \in MemoryType
    BY DEF MemoryStatus, MemoryType
  <2>4. QED
    BY <2>1, <2>2, <2>3 DEF NewRow, Row
<1>3. /\ DOMAIN entries' = DOMAIN entries \cup {<<u, k>>}
      /\ entries'[<<u, k>>] = row
      /\ \A key \in DOMAIN entries : entries'[key] = entries[key]
  BY DEF Persist, Put, Exists
<1>4. relations' = relations \cup {edge}
  BY DEF Persist
<1> HIDE DEF edge, row
<1>5. \A key \in DOMAIN entries : entries[key] \in Row /\ entries[key].revision \in Nat
  BY DEF KnowledgeInv, KnowledgeTypeOK, Row
<1>6. RowsKept
  BY <1>3, <1>5 DEF RowsKept
<1>7. /\ IsABag(outbox')
      /\ \A y : \A x \in {"lifecycle.changed", "lifecycle.archive"} :
           Queued(x, y)' = Queued(x, y)
  <2>1. outbox' = Queue("relation.changed", <<u, k>>)
    BY DEF Persist
  <2>2. QED
    BY <2>1, OtherEvents
<1>8. KnowledgeTypeOK'
  <2>1. DOMAIN entries' \subseteq Users \X Ids
    BY <1>3 DEF KnowledgeInv, KnowledgeTypeOK
  <2>2. \A key \in DOMAIN entries' : entries'[key] \in Row
    BY <1>2, <1>3, <1>5
  <2>3. QED
    BY <1>1, <1>4, <1>7, <2>1, <2>2 DEF KnowledgeInv, KnowledgeTypeOK
<1>9. ASSUME NEW key \in DOMAIN entries'
      PROVE  Supported(key)'
  <2>1. key[1] \in Users /\ key[2] \in Ids /\ key = <<key[1], key[2]>>
    <3>1. key \in Users \X Ids
      BY <1>8 DEF KnowledgeTypeOK
    <3>2. QED
      BY <3>1
  <2>2. CASE key = <<u, k>>
    <3>1. PrimaryEdges(u, k) = {}
      <4>1. ASSUME NEW r \in PrimaryEdges(u, k)
            PROVE  FALSE
        BY <4>1 DEF PrimaryEdges, KnowledgeInv, TrustedEvidence, EndpointsHold
      <4>2. QED
        BY <4>1
    <3>2. PrimaryEdges(u, k)' = {edge}
      BY <1>1, <1>4, <3>1 DEF PrimaryEdges
    <3>3. Cardinality({edge}) = 1
      BY FS_Singleton
    <3>4. MayPersist(u, e, i)'
      BY DEF MayPersist
    <3>5. QED
      BY <1>1, <1>2, <1>3, <2>2, <3>2, <3>3, <3>4 DEF Supported
  <2>3. CASE key # <<u, k>>
    <3>1. key \in DOMAIN entries /\ Supported(key)
      BY <1>3, <2>3, TrustedGives DEF KnowledgeInv
    <3>2. ~(key[1] = u /\ key[2] = k)
      BY <2>1, <2>3
    <3>3. PrimaryEdges(key[1], key[2])' = PrimaryEdges(key[1], key[2])
      BY <1>1, <1>4, <3>2 DEF PrimaryEdges
    <3>4. QED
      BY <1>6, <3>1, <3>3, SupportKept
  <2>4. QED
    BY <2>2, <2>3
<1>10. ASSUME NEW r \in relations'
       PROVE  EndpointsHold(r)'
  <2>1. CASE r \in relations
    BY <1>6, <2>1, TrustedGives, EndpointsKept DEF KnowledgeInv
  <2>2. CASE r = edge
    <3>1. Exists(u, k)' /\ e \in sources' /\ EventOf[e].user = u
      BY <1>3 DEF Exists, MayPersist
    <3>2. QED
      BY <1>1, <2>2, <3>1 DEF EndpointsHold
  <2>3. QED
    BY <1>4, <2>1, <2>2
<1>11. ConflictsHaveSides'
  BY DEF KnowledgeInv, ConflictsHaveSides
<1>12. MembersExist'
  BY <1>6, TrustedGives, MembersKept DEF KnowledgeInv
<1>13. TrustedEvidence'
  BY <1>9, <1>10, <1>11, <1>12, TrustedNext
<1>14. ReceiptsAccount' /\ RevisionsPassed'
  <2>1. \A p \in Processes : doing'[p] # None => Exists(doing'[p].user, doing'[p].id)
    BY DEF KnowledgeInv, RevisionsPassed
  <2>2. \A key \in DOMAIN entries' : entries'[key].revision \in Nat
    BY <1>8 DEF KnowledgeTypeOK, Row
  <2>3. QED
    BY <1>6, <1>7, <2>1, <2>2, AccountKept DEF KnowledgeInv
<1>15. QED
  BY <1>8, <1>11, <1>13, <1>14 DEF KnowledgeInv

\* What a step on the graph leaves: the rows and the receipts.
LEMMA GraphKeeps ==
    ASSUME KnowledgeInv, NEW event, NEW about,
           event \in {"relation.changed", "conflict.changed"}, outbox' = Queue(event, about),
           UNCHANGED << now, sources, entries, receipts, doing >>
    PROVE  RowsKept /\ IsABag(outbox') /\ ReceiptsAccount' /\ RevisionsPassed'
<1>1. \A key \in DOMAIN entries : entries[key].revision \in Nat
  BY DEF KnowledgeInv, KnowledgeTypeOK, Row
<1>2. RowsKept
  BY <1>1 DEF RowsKept
<1>3. /\ IsABag(outbox')
      /\ \A y : \A x \in {"lifecycle.changed", "lifecycle.archive"} :
           Queued(x, y)' = Queued(x, y)
  BY OtherEvents
<1>4. \A p \in Processes : doing'[p] # None => Exists(doing'[p].user, doing'[p].id)
  BY DEF KnowledgeInv, RevisionsPassed
<1>5. QED
  BY <1>1, <1>2, <1>3, <1>4, AccountKept DEF KnowledgeInv

\* The unique indexes keep the evidence a row rests on single.
LEMMA AddRelationPreserves ==
    ASSUME KnowledgeInv, NEW u \in Users, NEW id \in RelationIds, NEW k \in Ids,
           NEW right \in Ids \cup Events, NEW primary \in BOOLEAN,
           NEW type \in {"version", "derived", "evidence"},
           AddRelation(u, id, type, k, right, primary)
    PROVE  KnowledgeInv'
<1> DEFINE r == Edge(u, id, type, k, right, primary)
<1>1. /\ r \in Relation /\ r.user = u /\ r.left = k /\ r.type = type /\ r.primary = primary
  BY DEF Edge, Relation
<1>2. /\ EndpointsHold(r) /\ RelationFits(r) /\ PrimaryKind(r)
      /\ relations' = relations \cup {r}
      /\ outbox' = Queue("relation.changed", <<u, k>>)
      /\ UNCHANGED << now, sources, entries, conflicts, receipts, doing >>
  BY DEF AddRelation
<1> HIDE DEF r
<1>3. RowsKept /\ IsABag(outbox') /\ ReceiptsAccount' /\ RevisionsPassed'
  BY <1>2, GraphKeeps
<1>4. KnowledgeTypeOK'
  BY <1>1, <1>2, <1>3 DEF KnowledgeInv, KnowledgeTypeOK
<1>5. ASSUME NEW key \in DOMAIN entries'
      PROVE  Supported(key)'
  <2>1. key \in DOMAIN entries /\ Supported(key)
    BY <1>2, TrustedGives DEF KnowledgeInv
  <2>2. PrimaryEdges(key[1], key[2]) # {}
    <3>1. Cardinality({}) = 0
      BY FS_EmptySet
    <3>2. QED
      BY <2>1, <3>1 DEF Supported
  <2>3. PICK q \in PrimaryEdges(key[1], key[2]) : TRUE
    BY <2>2
  <2>4. r \notin PrimaryEdges(key[1], key[2])'
    <3>1. ASSUME r.user = key[1], r.left = key[2], r.type = "evidence", r.primary
          PROVE  FALSE
      <4>1. /\ q \in relations /\ q.user = r.user /\ q.left = r.left /\ q.type = r.type
            /\ q.primary
        BY <2>3, <3>1 DEF PrimaryEdges
      <4>2. QED
        BY <1>2, <3>1, <4>1 DEF RelationFits
    <3>2. QED
      BY <3>1 DEF PrimaryEdges
  <2>5. PrimaryEdges(key[1], key[2])' = PrimaryEdges(key[1], key[2])
    BY <1>2, <2>4 DEF PrimaryEdges
  <2>6. QED
    BY <1>3, <2>1, <2>5, SupportKept
<1>6. \A q \in relations' : EndpointsHold(q)'
  BY <1>2, <1>3, TrustedGives, EndpointsKept DEF KnowledgeInv
<1>7. ConflictsHaveSides' /\ MembersExist'
  BY <1>2, <1>3, TrustedGives, MembersKept DEF KnowledgeInv, ConflictsHaveSides
<1>8. TrustedEvidence'
  BY <1>5, <1>6, <1>7, TrustedNext
<1>9. QED
  BY <1>3, <1>4, <1>7, <1>8 DEF KnowledgeInv

\* A conflict that is added or decided has its members.
LEMMA ConflictPreserves ==
    ASSUME KnowledgeInv, NEW u \in Users, NEW id \in ConflictIds, NEW c \in Conflict,
           conflicts' = Put(conflicts, <<u, id>>, c),
           c.left # c.right, DecisionHolds(c.action, c.winner, c.left, c.right),
           \A k \in c.members : Exists(u, k),
           outbox' = Queue("conflict.changed", <<u, id>>),
           UNCHANGED << now, sources, entries, relations, receipts, doing >>
    PROVE  KnowledgeInv'
<1>1. RowsKept /\ IsABag(outbox') /\ ReceiptsAccount' /\ RevisionsPassed'
  BY GraphKeeps
<1>2. /\ DOMAIN conflicts' = DOMAIN conflicts \cup {<<u, id>>}
      /\ conflicts'[<<u, id>>] = c
      /\ \A key \in DOMAIN conflicts : key # <<u, id>> => conflicts'[key] = conflicts[key]
  BY DEF Put
<1>3. KnowledgeTypeOK'
  <2>1. DOMAIN conflicts' \subseteq Users \X ConflictIds
    BY <1>2 DEF KnowledgeInv, KnowledgeTypeOK
  <2>2. \A key \in DOMAIN conflicts' : conflicts'[key] \in Conflict
    BY <1>2 DEF KnowledgeInv, KnowledgeTypeOK
  <2>3. QED
    BY <1>1, <2>1, <2>2 DEF KnowledgeInv, KnowledgeTypeOK
<1>4. ConflictsHaveSides'
  <2>1. ASSUME NEW key \in DOMAIN conflicts'
        PROVE  /\ conflicts'[key].left # conflicts'[key].right
               /\ DecisionHolds(conflicts'[key].action, conflicts'[key].winner,
                                conflicts'[key].left, conflicts'[key].right)
    BY <1>2 DEF KnowledgeInv, ConflictsHaveSides
  <2>2. QED
    BY <2>1 DEF ConflictsHaveSides
<1>5. MembersExist'
  <2>1. ASSUME NEW key \in DOMAIN conflicts', NEW k \in conflicts'[key].members
        PROVE  Exists(key[1], k)'
    <3>1. CASE key = <<u, id>>
      BY <1>2, <2>1, <3>1 DEF Exists
    <3>2. CASE key # <<u, id>>
      BY <1>2, <2>1, <3>2, TrustedGives DEF KnowledgeInv, MembersExist, Exists
    <3>3. QED
      BY <3>1, <3>2
  <2>2. QED
    BY <2>1 DEF MembersExist
<1>6. \A key \in DOMAIN entries' : Supported(key)'
  <2>1. \A key : PrimaryEdges(key[1], key[2])' = PrimaryEdges(key[1], key[2])
    BY DEF PrimaryEdges
  <2>2. QED
    BY <1>1, <2>1, TrustedGives, SupportKept DEF KnowledgeInv
<1>7. \A r \in relations' : EndpointsHold(r)'
  BY <1>1, TrustedGives, EndpointsKept DEF KnowledgeInv
<1>8. TrustedEvidence'
  BY <1>4, <1>5, <1>6, <1>7, TrustedNext
<1>9. QED
  BY <1>1, <1>3, <1>4, <1>8 DEF KnowledgeInv

LEMMA InsertConflictPreserves ==
    ASSUME KnowledgeInv, NEW u \in Users, NEW id \in ConflictIds, NEW left \in Ids,
           NEW right \in Ids, NEW involved \in SUBSET Ids,
           InsertConflict(u, id, left, right, involved)
    PROVE  KnowledgeInv'
<1> DEFINE c == [left |-> left, right |-> right, members |-> {left, right} \cup involved,
                 status |-> "detected", action |-> None, winner |-> None]
<1>1. c \in Conflict
  BY DEF Conflict, ResolutionStatus
<1>2. DecisionHolds(None, None, left, right)
  <2>1. None # "keep_left" /\ None # "keep_right"
    BY NoneIsNoWord DEF DecisionAction
  <2>2. QED
    BY <2>1 DEF DecisionHolds
<1>3. /\ left # right /\ \A k \in {left, right} \cup involved : Exists(u, k)
      /\ conflicts' = Put(conflicts, <<u, id>>, c)
      /\ outbox' = Queue("conflict.changed", <<u, id>>)
      /\ UNCHANGED << now, sources, entries, relations, receipts, doing >>
  BY DEF InsertConflict
<1>4. /\ c.left = left /\ c.right = right /\ c.action = None /\ c.winner = None
      /\ c.members = {left, right} \cup involved
  OBVIOUS
<1> HIDE DEF c
<1>5. QED
  BY <1>1, <1>2, <1>3, <1>4, ConflictPreserves

LEMMA ResolvePreserves ==
    ASSUME KnowledgeInv, NEW key \in DOMAIN conflicts, ConflictStep(key)
    PROVE  KnowledgeInv'
<1>1. PICK status \in ResolutionStatus, winner \in Ids \cup {None},
           action \in DecisionAction \cup {None} :
         ResolveConflict(key[1], key[2], status, action, winner)
  BY DEF ConflictStep
<1>2. key[1] \in Users /\ key[2] \in ConflictIds /\ key = <<key[1], key[2]>>
  <2>1. key \in Users \X ConflictIds
    BY DEF KnowledgeInv, KnowledgeTypeOK
  <2>2. QED
    BY <2>1
<1> DEFINE old == conflicts[key]
           c == [old EXCEPT !.status = status, !.action = action, !.winner = winner]
<1>3. old \in Conflict
  BY DEF KnowledgeInv, KnowledgeTypeOK
<1>4. DecisionHolds(action, winner, old.left, old.right)
  BY <1>1, <1>2 DEF ResolveConflict
<1>5. conflicts' = [conflicts EXCEPT ![key] = c]
  <2>1. conflicts' = [conflicts EXCEPT ![key].status = status, ![key].action = action,
                                       ![key].winner = winner]
    BY <1>1, <1>2 DEF ResolveConflict
  <2>2. QED
    BY <2>1
<1>6. /\ outbox' = Queue("conflict.changed", key)
      /\ UNCHANGED << now, sources, entries, relations, receipts, doing >>
  BY <1>1, <1>2 DEF ResolveConflict
<1> HIDE DEF old
<1>7. /\ c \in Conflict /\ c.left = old.left /\ c.right = old.right
      /\ c.members = old.members /\ c.action = action /\ c.winner = winner
  BY <1>3 DEF Conflict
<1>8. conflicts' = Put(conflicts, key, c)
  <2> HIDE DEF c
  <2>1. DOMAIN conflicts \cup {key} = DOMAIN conflicts
    OBVIOUS
  <2>2. QED
    BY <1>5, <2>1 DEF Put
<1>9. old.left # old.right /\ \A k \in old.members : Exists(key[1], k)
  BY TrustedGives DEF old, KnowledgeInv, ConflictsHaveSides, MembersExist
<1> HIDE DEF c
<1>10. QED
  BY <1>2, <1>4, <1>6, <1>7, <1>8, <1>9, ConflictPreserves

LEMMA InsertPreserves ==
    ASSUME KnowledgeInv, NEW u \in Users, NEW k \in Ids, NEW e \in Events, NEW i \in Inputs,
           InsertKnowledge(u, k, e, i)
    PROVE  KnowledgeInv'
  BY PersistPreserves DEF InsertKnowledge

\* Every step of the store keeps its invariant.
LEMMA KnowledgeNextPreserves ==
    ASSUME KnowledgeInv, KnowledgeNext
    PROVE  KnowledgeInv'
<1>1. CASE Tick
  <2>1. now' \in Nat /\ sources \subseteq sources' /\ sources' \subseteq Events
    BY <1>1 DEF Tick, KnowledgeInv, KnowledgeTypeOK
  <2>2. QED
    BY <1>1, <2>1, SourcesPreserve DEF Tick
<1>2. ASSUME NEW e \in Events, IngestSource(e)
      PROVE  KnowledgeInv'
  <2>1. now' \in Nat /\ sources \subseteq sources' /\ sources' \subseteq Events
    BY <1>2 DEF IngestSource, KnowledgeInv, KnowledgeTypeOK
  <2>2. QED
    BY <1>2, <2>1, SourcesPreserve DEF IngestSource
<1>3. ASSUME NEW p \in Processes, FinishEvaluation(p)
      PROVE  KnowledgeInv'
  BY <1>3, FinishPreserves
<1>4. ASSUME NEW key \in DOMAIN conflicts, ConflictStep(key)
      PROVE  KnowledgeInv'
  BY <1>4, ResolvePreserves
<1>5. ASSUME NEW u \in Users, NEW k \in Ids, GraphStep(u, k)
      PROVE  KnowledgeInv'
  <2>1. CASE \E id \in RelationIds, right \in Ids \cup Events, primary \in BOOLEAN,
                type \in {"version", "derived", "evidence"} :
                AddRelation(u, id, type, k, right, primary)
    BY <2>1, AddRelationPreserves
  <2>2. CASE \E id \in ConflictIds, right \in Ids, involved \in SUBSET Ids :
                InsertConflict(u, id, k, right, involved)
    BY <2>2, InsertConflictPreserves
  <2>3. QED
    BY <1>5, <2>1, <2>2 DEF GraphStep
<1>6. ASSUME NEW u \in Users, NEW k \in Ids, LifecycleStep(u, k)
      PROVE  KnowledgeInv'
  <2>1. CASE \E p \in Processes, v \in Evaluations, c \in Configs : Evaluate(p, u, k, v, c)
    BY <2>1, EvaluatePreserves
  <2>2. CASE \E status \in MemoryStatus : SetStatus(u, k, status)
    BY <2>2, SetStatusPreserves
  <2>3. CASE Forget(u, k)
    <3>1. "active" \in MemoryStatus
      BY DEF MemoryStatus
    <3>2. QED
      BY <2>3, <3>1, SetStatusPreserves
  <2>4. CASE CountAccess(u, k)
    BY <2>4, CountAccessPreserves
  <2>5. QED
    BY <1>6, <2>1, <2>2, <2>3, <2>4 DEF LifecycleStep
<1>7. ASSUME NEW u \in Users, NEW k \in Ids, NEW e \in Events, NEW i \in Inputs,
             InsertKnowledge(u, k, e, i)
      PROVE  KnowledgeInv'
  BY <1>7, InsertPreserves
<1>8. QED
  BY <1>1, <1>2, <1>3, <1>4, <1>5, <1>6, <1>7 DEF KnowledgeNext

-----------------------------------------------------------------------------
(* What no step of the store takes back                                    *)

StoreGrows ==
    /\ sources \subseteq sources' /\ relations \subseteq relations'
    /\ \A key \in DOMAIN entries :
          key \in DOMAIN entries' /\ entries'[key].input = entries[key].input

LEMMA PersistGrows ==
    ASSUME NEW u, NEW k, NEW e, NEW i, ~Exists(u, k), Persist(u, k, e, i), sources' = sources
    PROVE  StoreGrows /\ Exists(u, k)' /\ Replays(u, k, e, i)'
<1>1. /\ DOMAIN entries' = DOMAIN entries \cup {<<u, k>>}
      /\ \A key \in DOMAIN entries : entries'[key] = entries[key]
      /\ entries'[<<u, k>>].input = i
  BY DEF Persist, Put, Exists, NewRow
<1>2. relations' = relations \cup {Edge(u, <<k, e>>, "evidence", k, e, TRUE)}
  BY DEF Persist
<1>3. Edge(u, <<k, e>>, "evidence", k, e, TRUE) \in PrimaryEdges(u, k)'
  BY <1>2 DEF PrimaryEdges, Edge
<1>4. Edge(u, <<k, e>>, "evidence", k, e, TRUE).right = e
  BY DEF Edge
<1>5. Exists(u, k)'
  BY <1>1 DEF Exists
<1>6. QED
  BY <1>1, <1>2, <1>3, <1>4, <1>5 DEF StoreGrows, Replays

LEMMA KnowledgeGrows ==
    ASSUME KnowledgeInv, KnowledgeNext
    PROVE  StoreGrows
<1>1. ASSUME UNCHANGED <<entries, relations>>, sources \subseteq sources'
      PROVE  StoreGrows
  BY <1>1 DEF StoreGrows
<1>2. CASE Tick \/ \E e \in Events : IngestSource(e)
  BY <1>1, <1>2 DEF Tick, IngestSource
<1>3. ASSUME NEW p \in Processes, FinishEvaluation(p)
      PROVE  StoreGrows
  <2> DEFINE task == doing[p]
  <2>1. /\ task \in Task /\ Exists(task.user, task.id)
        /\ UNCHANGED << sources, relations >>
    BY <1>3 DEF FinishEvaluation, KnowledgeInv, KnowledgeTypeOK, RevisionsPassed
  <2>2. Commit(task) \/ UNCHANGED entries
    BY <1>3 DEF FinishEvaluation
  <2> HIDE DEF task
  <2>3. CASE Commit(task)
    BY <2>1, <2>3, CommitRow DEF RowsKept, StoreGrows
  <2>4. QED
    BY <1>1, <2>1, <2>2, <2>3
<1>4. CASE \E key \in DOMAIN conflicts : ConflictStep(key)
  BY <1>1, <1>4 DEF ConflictStep, ResolveConflict
<1>5. ASSUME NEW u \in Users, NEW k \in Ids, GraphStep(u, k)
      PROVE  StoreGrows
  BY <1>5 DEF GraphStep, AddRelation, InsertConflict, StoreGrows
<1>6. ASSUME NEW u \in Users, NEW k \in Ids, LifecycleStep(u, k)
      PROVE  StoreGrows
  <2>1. ASSUME NEW row, Exists(u, k), row.input = entries[<<u, k>>].input,
               entries' = [entries EXCEPT ![<<u, k>>] = row],
               UNCHANGED <<sources, relations>>
        PROVE  StoreGrows
    BY <2>1 DEF StoreGrows, Exists
  <2>2. ASSUME NEW status \in MemoryStatus, Exists(u, k),
               entries' = [entries EXCEPT ![<<u, k>>] = WithStatus(entries[<<u, k>>], status)],
               UNCHANGED <<sources, relations>>
        PROVE  StoreGrows
    <3>1. entries[<<u, k>>] \in Row /\ now \in Nat
      BY <2>2, KeysArePairs DEF KnowledgeInv, KnowledgeTypeOK
    <3>2. WithStatus(entries[<<u, k>>], status).input = entries[<<u, k>>].input
      BY <3>1, RowChanges
    <3>3. QED
      BY <2>1, <2>2, <3>2
  <2>3. CASE \E p \in Processes, v \in Evaluations, c \in Configs : Evaluate(p, u, k, v, c)
    BY <1>1, <2>3 DEF Evaluate
  <2>4. CASE \E status \in MemoryStatus : SetStatus(u, k, status)
    BY <2>2, <2>4 DEF SetStatus
  <2>5. CASE Forget(u, k)
    <3>1. "removed" \in MemoryStatus
      BY DEF MemoryStatus
    <3>2. QED
      BY <2>2, <2>5, <3>1 DEF Forget
  <2>6. CASE CountAccess(u, k)
    <3> DEFINE row == [entries[<<u, k>>] EXCEPT !.access = 1, !.last = now]
    <3>1. entries[<<u, k>>] \in Row /\ Exists(u, k)
      BY <2>6, KeysArePairs DEF KnowledgeInv, CountAccess
    <3>2. row.input = entries[<<u, k>>].input
      BY <3>1 DEF Row
    <3>3. entries' = [entries EXCEPT ![<<u, k>>] = row] /\ UNCHANGED <<sources, relations>>
      BY <2>6 DEF CountAccess, Exists
    <3> HIDE DEF row
    <3>4. QED
      BY <2>1, <3>1, <3>2, <3>3
  <2>7. QED
    BY <1>6, <2>3, <2>4, <2>5, <2>6 DEF LifecycleStep
<1>7. ASSUME NEW u \in Users, NEW k \in Ids, NEW e \in Events, NEW i \in Inputs,
             InsertKnowledge(u, k, e, i)
      PROVE  StoreGrows
  BY <1>7, PersistGrows DEF InsertKnowledge
<1>8. QED
  BY <1>2, <1>3, <1>4, <1>5, <1>6, <1>7 DEF KnowledgeNext

\* What rests on sources and rows stays.
LEMMA GrowthKeeps ==
    ASSUME StoreGrows
    PROVE  /\ \A u, e, i : MayPersist(u, e, i) => MayPersist(u, e, i)'
           /\ \A u, k : Exists(u, k) => Exists(u, k)'
           /\ \A u, k, e, i : Replays(u, k, e, i) => Replays(u, k, e, i)'
           /\ \A c : Bindable(c) => Bindable(c)'
<1>1. \A u, e, i : MayPersist(u, e, i) => MayPersist(u, e, i)'
  BY DEF StoreGrows, MayPersist
<1>2. \A u, k : Exists(u, k) => Exists(u, k)'
  BY DEF StoreGrows, Exists
<1>3. ASSUME NEW u, NEW k, NEW e, NEW i, Replays(u, k, e, i)
      PROVE  Replays(u, k, e, i)'
  <2>1. entries'[<<u, k>>].input = entries[<<u, k>>].input
    BY <1>3 DEF Replays, Exists, StoreGrows
  <2>2. \A r \in PrimaryEdges(u, k) : r \in PrimaryEdges(u, k)'
    BY DEF PrimaryEdges, StoreGrows
  <2>3. QED
    BY <1>2, <1>3, <2>1, <2>2 DEF Replays
<1>4. \A c : Bindable(c) => Bindable(c)'
  BY DEF StoreGrows, Bindable, Matches
<1>5. QED
  BY <1>1, <1>2, <1>3, <1>4

-----------------------------------------------------------------------------
(* The checks of a record                                                  *)

\* What each answer of the checks says about the record.
LEMMA ObjectionIs ==
    ASSUME NEW p
    PROVE  /\ Objection(p) = None =>
                /\ Current(p).user \in ScopeOf[importing[p].by]
                /\ MayPersist(Current(p).user, Current(p).event, Current(p).input)
           /\ Objection(p) = "replayed" =>
                /\ Current(p).user \in ScopeOf[importing[p].by]
                /\ \/ ByKey(Current(p)) = "replayed"
                   \/ /\ ByKey(Current(p)) = None
                      /\ ByFile(Current(p), importing[p].file) = "replayed"
           /\ Objection(p) = "source_not_admitted" =>
                /\ ShapeHolds(Current(p))
                /\ \/ ~SourceHolds(Current(p))
                   \/ ~MayPersist(Current(p).user, Current(p).event, Current(p).input)
<1> DEFINE r == Current(p)
           job == importing[p]
           key == ByKey(r)
           file == ByFile(r, job.file)
           may == MayPersist(r.user, r.event, r.input)
           rules == <<
        Rule(r.data \in Earlier(p), "duplicate_data_record"),
        Rule(~ShapeHolds(r), "invalid_input"),
        Rule(r.user \notin ScopeOf[job.by], "unauthorized_scope"),
        Rule(key # None, key),
        Rule(file # None, file),
        Rule(~SourceHolds(r), "source_not_admitted"),
        Rule(~may, "source_not_admitted"),
        Rule(TRUE, None) >>
<1>1. Objection(p) = Decision(rules)
  BY DEF Objection
<1>2. /\ key \in {None, "replayed", "idempotency_conflict"}
      /\ file \in {None, "replayed", "duplicate_data_record"}
  BY DEF ByKey, ByFile, Known
<1>3. None \notin {"duplicate_data_record", "invalid_input", "unauthorized_scope",
                   "idempotency_conflict", "source_not_admitted", "replayed"}
  BY NoneIsNoObjection DEF Objections
<1> HIDE DEF key, file, may
<1>4. /\ rules[1].then = "duplicate_data_record"
      /\ rules[2].then = "invalid_input"       /\ rules[2].when = ~ShapeHolds(r)
      /\ rules[3].then = "unauthorized_scope"
      /\ rules[3].when = (r.user \notin ScopeOf[job.by])
      /\ rules[4].then = key                   /\ rules[4].when = (key # None)
      /\ rules[5].then = file                  /\ rules[5].when = (file # None)
      /\ rules[6].then = "source_not_admitted" /\ rules[6].when = ~SourceHolds(r)
      /\ rules[7].then = "source_not_admitted" /\ rules[7].when = ~may
      /\ rules[8].then = None                  /\ rules[8].when
      /\ DOMAIN rules = 1 .. 8
  BY DEF Rule
<1> HIDE DEF rules
<1>5. PICK i : Decides(rules, 8, i)
  <2>1. 8 \in Nat /\ 8 \in 1 .. 8 /\ rules[8].when /\ DOMAIN rules = 1 .. 8
    BY <1>4
  <2>2. QED
    BY <2>1, DecisionIs
<1>6. /\ i > 2 => ShapeHolds(r)
      /\ i > 3 => r.user \in ScopeOf[job.by]
      /\ i > 4 => key = None
      /\ i > 7 => may
  <2>1. /\ i > 2 => ~rules[2].when
        /\ i > 3 => ~rules[3].when
        /\ i > 4 => ~rules[4].when
        /\ i > 7 => ~rules[7].when
    BY <1>5 DEF Decides
  <2>2. QED
    BY <1>4, <2>1
<1>7. /\ Objection(p) = None => i = 8
      /\ Objection(p) = "replayed" =>
           (i = 4 /\ key = "replayed") \/ (i = 5 /\ file = "replayed")
      /\ Objection(p) = "source_not_admitted" =>
           (i = 6 /\ ~SourceHolds(r)) \/ (i = 7 /\ ~may)
  <2>1. i = 1 \/ i = 2 \/ i = 3 \/ i = 4 \/ i = 5 \/ i = 6 \/ i = 7 \/ i = 8
    BY <1>5 DEF Decides
  <2>2. Objection(p) = rules[i].then /\ rules[i].when
    BY <1>1, <1>5 DEF Decides
  <2>3. QED
    BY <1>2, <1>3, <1>4, <2>1, <2>2
<1>8. i \in 1 .. 8
  BY <1>5 DEF Decides
<1>9. QED
  BY <1>6, <1>7, <1>8 DEF key, file, may

-----------------------------------------------------------------------------
(* The import                                                              *)

\* The record an import is at, and a reply, which moves on to the next one.
LEMMA CurrentIs ==
    ASSUME ImportTypeOK, NEW p \in Processes, importing[p] # None
    PROVE  /\ importing[p].by \in Principals /\ importing[p].file \in Files
           /\ importing[p].at \in DOMAIN FileOf[importing[p].file]
           /\ Current(p).user \in Users /\ Current(p).event \in Events
           /\ Current(p).input \in Inputs
<1>1. /\ importing[p].by \in Principals /\ importing[p].file \in Files
      /\ importing[p].at \in DOMAIN FileOf[importing[p].file]
  BY FilesAreParsed DEF ImportTypeOK, Job
<1>2. QED
  BY <1>1, FilesAreParsed DEF Current

\* An import under way, with what was cleared for it.
ImportStands(job) ==
    job # None =>
        /\ job \in Job /\ job.at \in 1 .. Len(FileOf[job.file])
        /\ job.cleared =>
             LET r == FileOf[job.file][job.at] IN
             r.user \in ScopeOf[job.by] /\ MayPersist(r.user, r.event, r.input)

\* The imports that did not move stand; the store only grew.
LEMMA ImportsStand ==
    ASSUME ImportTypeOK, ClearedStays, StoreGrows,
           importing' = [q \in Processes |-> importing'[q]],
           \A q \in Processes : importing'[q] = importing[q] \/ ImportStands(importing'[q]),
           progress' \in [Batches -> Nat], bound' \subseteq Batches
    PROVE  ImportTypeOK' /\ ClearedStays'
<1>1. \A u, e, i : MayPersist(u, e, i) => MayPersist(u, e, i)'
  BY GrowthKeeps
<1>2. ASSUME NEW q \in Processes, importing'[q] # None
      PROVE  /\ importing'[q] \in Job
             /\ importing'[q].at \in 1 .. Len(FileOf[importing'[q].file])
             /\ importing'[q].cleared =>
                  LET r == FileOf[importing'[q].file][importing'[q].at] IN
                  r.user \in ScopeOf[importing'[q].by] /\ MayPersist(r.user, r.event, r.input)
  <2>1. CASE ImportStands(importing'[q])
    BY <1>2, <2>1 DEF ImportStands
  <2>2. CASE importing'[q] = importing[q]
    BY <1>2, <2>2 DEF ImportTypeOK, ClearedStays, Current
  <2>3. QED
    BY <2>1, <2>2
<1>3. ImportTypeOK'
  BY <1>2 DEF ImportTypeOK
<1>4. ClearedStays'
  <2>1. ASSUME NEW q \in Processes, importing'[q] # None, importing'[q].cleared
        PROVE  (LET r == Current(q) IN
                r.user \in ScopeOf[importing[q].by] /\ MayPersist(r.user, r.event, r.input))'
    <3>1. PICK r : r = Current(q)'
      OBVIOUS
    <3>2. r.user \in ScopeOf[importing'[q].by] /\ MayPersist(r.user, r.event, r.input)
      BY <1>2, <2>1, <3>1 DEF Current
    <3>3. MayPersist(r.user, r.event, r.input)'
      BY <1>1, <3>2
    <3>4. QED
      BY <3>1, <3>2, <3>3
  <2>2. QED
    BY <2>1 DEF ClearedStays
<1>5. QED
  BY <1>3, <1>4

\* After a reply the import is at its next record, or over.
LEMMA ReplyStands ==
    ASSUME ImportTypeOK, NEW p \in Processes, importing[p] # None, NEW id, Reply(p, id)
    PROVE  \E job : ImportStands(job) /\ importing' = [importing EXCEPT ![p] = job]
<1> DEFINE job == importing[p]
           next == [job EXCEPT !.at = @ + 1, !.try = 1, !.cleared = FALSE]
<1>1. importing' = [importing EXCEPT ![p] =
         IF job.at = Len(FileOf[job.file]) THEN None ELSE next]
  BY DEF Reply
<1>2. CASE job.at = Len(FileOf[job.file])
  BY <1>1, <1>2 DEF ImportStands
<1>3. CASE job.at # Len(FileOf[job.file])
  <2>1. /\ job \in Job /\ job.at \in 1 .. Len(FileOf[job.file])
        /\ Len(FileOf[job.file]) \in Nat
    BY FilesAreParsed DEF ImportTypeOK, Job
  <2>2. job.at + 1 \in 1 .. Len(FileOf[job.file])
    BY <1>3, <2>1
  <2> HIDE DEF job
  <2>3. /\ next \in Job /\ next.file = job.file /\ next.at = job.at + 1
        /\ next.cleared = FALSE
    <3>1. job.at + 1 \in Nat
      BY <2>2
    <3>2. QED
      BY <2>1, <3>1, Zenon DEF Job
  <2> HIDE DEF next
  <2>5. ImportStands(next)
    BY <2>2, <2>3 DEF ImportStands
  <2>4. QED
    BY <1>1, <1>3, <2>5
<1>4. QED
  BY <1>2, <1>3

\* The registries and what was told stand while the store grows.
LEMMA RegistriesStand ==
    ASSUME StoreGrows, RegistriesKeyed, RegistriesAgree, UNCHANGED <<registry, manifests>>,
           \A t \in told' : t \in told \/
              /\ <<t.record.user, t.record.key>> \in DOMAIN registry
              /\ registry[<<t.record.user, t.record.key>>] = t
              /\ \E principal \in Principals : Readable(principal, t.record.user, t.id)
    PROVE  RegistriesKeyed' /\ RegistriesAgree'
<1>1. /\ \A u, k, e, i : Replays(u, k, e, i) => Replays(u, k, e, i)'
      /\ \A principal, u, k : Readable(principal, u, k) => Readable(principal, u, k)'
  BY GrowthKeeps DEF Readable
<1>2. RegistriesKeyed'
  BY DEF RegistriesKeyed
<1>3. ASSUME NEW a \in DOMAIN registry'
      PROVE  /\ (LET r == registry[a].record IN
                 Replays(r.user, registry[a].id, r.event, r.input))'
             /\ \E m \in DOMAIN manifests' : manifests'[m] = registry'[a]
  BY <1>1 DEF RegistriesAgree
<1>4. ASSUME NEW t \in told'
      PROVE  /\ registry'[<<t.record.user, t.record.key>>] = t
             /\ \E principal \in Principals : Readable(principal, t.record.user, t.id)'
  BY <1>1 DEF RegistriesAgree
<1>5. QED
  BY <1>2, <1>3, <1>4 DEF RegistriesAgree

\* An acceptance registers its record under keys nobody had.
LEMMA AcceptRegisters ==
    ASSUME KnowledgeInv, ImportTypeOK, ClearedStays, RegistriesKeyed, RegistriesAgree,
           NEW p \in Processes, NEW k \in Ids, Accept(p, k)
    PROVE  RegistriesKeyed' /\ RegistriesAgree'
<1>0. PICK r, file : r = Current(p) /\ file = importing[p].file
  OBVIOUS
<1> DEFINE row == [record |-> r, id |-> k]
           key == <<r.user, r.key>>
           line == <<r.user, file, r.data>>
<1>1. /\ Fresh(k) /\ RegistryFits(r, file)
      /\ Persist(r.user, k, r.event, r.input) /\ sources' = sources
      /\ registry' = Put(registry, key, row)
      /\ manifests' = Put(manifests, line, row)
      /\ Reply(p, k)
  BY <1>0 DEF Accept
<1>2. /\ importing[p].by \in Principals /\ r.user \in ScopeOf[importing[p].by]
      /\ r.user \in Users
  BY <1>0, CurrentIs DEF Accept, ClearedStays
<1>3. /\ row.record = r /\ row.id = k
      /\ row = [record |-> row.record, id |-> row.id]
  OBVIOUS
<1>4. told' \subseteq told \cup {row}
  BY <1>0, <1>1 DEF Reply
<1>5. ~Exists(r.user, k)
  BY <1>1, <1>2 DEF Fresh
<1>6. StoreGrows /\ Exists(r.user, k)' /\ Replays(r.user, k, r.event, r.input)'
  BY <1>1, <1>5, PersistGrows
<1>7. key \notin DOMAIN registry /\ line \notin DOMAIN manifests
  BY <1>1 DEF RegistryFits
<1> HIDE DEF row, line
<1>8. /\ DOMAIN registry' = DOMAIN registry \cup {key} /\ registry'[key] = row
      /\ \A a \in DOMAIN registry : registry'[a] = registry[a]
      /\ DOMAIN manifests' = DOMAIN manifests \cup {line} /\ manifests'[line] = row
      /\ \A m \in DOMAIN manifests : manifests'[m] = manifests[m]
  BY <1>1, <1>7 DEF Put
<1>9. /\ \A u, i, e, input : Replays(u, i, e, input) => Replays(u, i, e, input)'
      /\ \A principal, u, i : Readable(principal, u, i) => Readable(principal, u, i)'
  BY <1>6, GrowthKeeps DEF Readable
<1>10. \A a \in DOMAIN registry : registry[a].id # k
  <2>1. ASSUME NEW a \in DOMAIN registry
        PROVE  Exists(registry[a].record.user, registry[a].id) /\ registry[a].record.user \in Users
    BY DEF RegistriesAgree, RegistriesKeyed, Replays
  <2>2. QED
    BY <1>1, <2>1 DEF Fresh
<1>11. RegistriesKeyed'
  <2>1. ASSUME NEW a \in DOMAIN registry'
        PROVE  /\ a = <<registry'[a].record.user, registry'[a].record.key>>
               /\ registry'[a].record.user \in Users
               /\ registry'[a] = [record |-> registry'[a].record, id |-> registry'[a].id]
    BY <1>2, <1>3, <1>8 DEF RegistriesKeyed
  <2>2. ASSUME NEW m \in DOMAIN manifests'
        PROVE  <<manifests'[m].record.user, manifests'[m].record.key>> \in DOMAIN registry'
    BY <1>3, <1>8 DEF RegistriesKeyed
  <2>3. ASSUME NEW t \in told'
        PROVE  <<t.record.user, t.record.key>> \in DOMAIN registry'
    BY <1>3, <1>4, <1>8 DEF RegistriesKeyed
  <2>4. QED
    BY <2>1, <2>2, <2>3 DEF RegistriesKeyed
<1>12. RegistriesAgree'
  <2>1. ASSUME NEW a \in DOMAIN registry', NEW b \in DOMAIN registry',
               registry'[a].id = registry'[b].id
        PROVE  a = b
    BY <1>3, <1>8, <1>10, <2>1 DEF RegistriesAgree
  <2>2. ASSUME NEW a \in DOMAIN registry'
        PROVE  /\ (LET x == registry[a].record IN
                   Replays(x.user, registry[a].id, x.event, x.input))'
               /\ \E m \in DOMAIN manifests' : manifests'[m] = registry'[a]
    <3>1. CASE a = key
      BY <1>3, <1>6, <1>8, <3>1
    <3>2. CASE a # key
      BY <1>8, <1>9, <3>2 DEF RegistriesAgree
    <3>3. QED
      BY <3>1, <3>2
  <2>3. ASSUME NEW m \in DOMAIN manifests'
        PROVE  registry'[<<manifests'[m].record.user, manifests'[m].record.key>>] = manifests'[m]
    BY <1>3, <1>8 DEF RegistriesAgree, RegistriesKeyed
  <2>4. ASSUME NEW t \in told'
        PROVE  /\ registry'[<<t.record.user, t.record.key>>] = t
               /\ \E principal \in Principals : Readable(principal, t.record.user, t.id)'
    <3>1. CASE t \in told
      BY <1>8, <1>9, <3>1 DEF RegistriesAgree, RegistriesKeyed
    <3>2. CASE t = row
      BY <1>2, <1>3, <1>6, <1>8, <3>2 DEF Readable
    <3>3. QED
      BY <1>4, <3>1, <3>2
  <2>5. QED
    BY <2>1, <2>2, <2>3, <2>4 DEF RegistriesAgree
<1>13. QED
  BY <1>11, <1>12

\* A batch that was reported bound could be bound again.
LEMMA BoundStaysBound ==
    ASSUME StoreGrows, BoundStands,
           \A b \in bound' : b \in bound \/
              \A i \in DOMAIN CandidatesOf[b] : Bindable(CandidatesOf[b][i])
    PROVE  BoundStands'
<1>1. \A c : Bindable(c) => Bindable(c)'
  BY GrowthKeeps
<1>2. QED
  BY <1>1 DEF BoundStands

\* One import moves.
LEMMA MoveStands ==
    ASSUME ImportTypeOK, ClearedStays, StoreGrows, NEW p \in Processes, NEW job,
           importing' = [importing EXCEPT ![p] = job], ImportStands(job),
           progress' \in [Batches -> Nat], bound' \subseteq Batches
    PROVE  ImportTypeOK' /\ ClearedStays'
<1>1. /\ importing' = [q \in Processes |-> importing'[q]] /\ importing'[p] = job
      /\ \A q \in Processes : q # p => importing'[q] = importing[q]
  BY DEF ImportTypeOK
<1>2. QED
  BY <1>1, ImportsStand

LEMMA StillPreserves ==
    ASSUME KnowledgeInv, UNCHANGED knowledgeVars
    PROVE  KnowledgeInv' /\ StoreGrows
<1>1. now' \in Nat /\ sources \subseteq sources' /\ sources' \subseteq Events
  BY DEF knowledgeVars, KnowledgeInv, KnowledgeTypeOK
<1>2. KnowledgeInv'
  BY <1>1, SourcesPreserve DEF knowledgeVars
<1>3. QED
  BY <1>2 DEF knowledgeVars, StoreGrows

\* What the registries answer for a replay is what they hold.
LEMMA ReplayIsKept ==
    ASSUME ImportTypeOK, RegistriesKeyed, RegistriesAgree, NEW p \in Processes,
           importing[p] # None, Objection(p) = "replayed",
           NEW r, r = Current(p), NEW id, id = registry[<<r.user, r.key>>].id,
           NEW t, t = [record |-> r, id |-> id]
    PROVE  /\ <<t.record.user, t.record.key>> \in DOMAIN registry
           /\ registry[<<t.record.user, t.record.key>>] = t
           /\ \E principal \in Principals : Readable(principal, t.record.user, t.id)
<1> DEFINE key == <<r.user, r.key>>
<1>1. /\ r.user \in ScopeOf[importing[p].by]
      /\ \/ ByKey(r) = "replayed"
         \/ ByKey(r) = None /\ ByFile(r, importing[p].file) = "replayed"
  BY ObjectionIs
<1>2. None \notin {"replayed", "idempotency_conflict", "duplicate_data_record"}
  BY NoneIsNoObjection DEF Objections
<1>3. key \in DOMAIN registry /\ registry[key].record = r
  <2>1. CASE ByKey(r) = "replayed"
    BY <1>2, <2>1 DEF ByKey, Known
  <2>2. CASE ByKey(r) = None /\ ByFile(r, importing[p].file) = "replayed"
    <3>1. key \notin DOMAIN registry
      BY <1>2, <2>2 DEF ByKey, Known
    <3>2. \E m \in DOMAIN manifests : manifests[m].record = r
      BY <1>2, <2>2 DEF ByFile, Known
    <3>3. QED
      BY <3>1, <3>2 DEF RegistriesKeyed
  <2>3. QED
    BY <1>1, <2>1, <2>2
<1>4. registry[key] = t
  BY <1>3 DEF RegistriesKeyed
<1>5. Exists(r.user, id)
  BY <1>3 DEF RegistriesAgree, Replays
<1>6. importing[p].by \in Principals
  BY CurrentIs
<1>7. QED
  BY <1>1, <1>3, <1>4, <1>5, <1>6 DEF Readable

LEMMA ImportStepPreserves ==
    ASSUME KnowledgeInv, ImportInv, NEW p \in Processes, ImportStep(p)
    PROVE  KnowledgeInv' /\ ImportInv'
<1>1. /\ ImportTypeOK /\ ClearedStays /\ RegistriesKeyed /\ BoundStands /\ RegistriesAgree
  BY DEF ImportInv
<1>2. ASSUME StoreGrows, UNCHANGED bound, NEW job, ImportStands(job),
             importing' = [importing EXCEPT ![p] = job], progress' \in [Batches -> Nat],
             RegistriesKeyed', RegistriesAgree'
      PROVE  ImportInv'
  <2>1. ImportTypeOK' /\ ClearedStays'
    BY <1>1, <1>2, MoveStands DEF ImportTypeOK
  <2>2. BoundStands'
    BY <1>1, <1>2, BoundStaysBound
  <2>3. QED
    BY <1>2, <2>1, <2>2 DEF ImportInv
<1>3. progress \in [Batches -> Nat]
  BY <1>1 DEF ImportTypeOK
<1>4. ASSUME NEW principal \in Principals, NEW file \in Files, StartImport(p, principal, file)
      PROVE  KnowledgeInv' /\ ImportInv'
  <2> DEFINE job == [by |-> principal, file |-> file, at |-> 1, try |-> 1, cleared |-> FALSE]
  <2>1. ImportStands(job)
    BY FilesAreParsed DEF ImportStands, Job
  <2>2. /\ importing' = [importing EXCEPT ![p] = job]
        /\ UNCHANGED << knowledgeVars, progress, bound, registry, manifests, told >>
    BY <1>4 DEF StartImport
  <2> HIDE DEF job
  <2>3. KnowledgeInv' /\ StoreGrows
    BY <2>2, StillPreserves
  <2>4. RegistriesKeyed' /\ RegistriesAgree'
    BY <1>1, <2>2, <2>3, RegistriesStand
  <2>5. QED
    BY <1>2, <1>3, <2>1, <2>2, <2>3, <2>4
<1>5. ASSUME NEW k \in Ids, Accept(p, k)
      PROVE  KnowledgeInv' /\ ImportInv'
  <2>1. importing[p] # None /\ importing[p].cleared /\ Reply(p, k)
    BY <1>5 DEF Accept
  <2>2. RegistriesKeyed' /\ RegistriesAgree'
    BY <1>1, <1>5, AcceptRegisters
  <2>3. PICK r : r = Current(p)
    OBVIOUS
  <2>4. /\ r.user \in Users /\ r.event \in Events /\ r.input \in Inputs
        /\ MayPersist(r.user, r.event, r.input)
    BY <1>1, <2>1, <2>3, CurrentIs DEF ClearedStays
  <2>5. /\ ~Exists(r.user, k) /\ Persist(r.user, k, r.event, r.input)
        /\ UNCHANGED << now, sources, conflicts, receipts, doing, progress, bound >>
    BY <1>5, <2>3, <2>4 DEF Accept, Fresh
  <2>6. KnowledgeInv' /\ StoreGrows
    BY <2>4, <2>5, PersistPreserves, PersistGrows
  <2>7. PICK job : ImportStands(job) /\ importing' = [importing EXCEPT ![p] = job]
    BY <1>1, <2>1, ReplyStands
  <2>8. QED
    BY <1>2, <1>3, <2>2, <2>5, <2>6, <2>7
<1>6. CASE LookUp(p)
  <2>1. /\ importing[p] # None
        /\ UNCHANGED << knowledgeVars, progress, bound, registry, manifests >>
    BY <1>6 DEF LookUp
  <2>2. KnowledgeInv' /\ StoreGrows
    BY <2>1, StillPreserves
  <2>3. PICK r, id : r = Current(p) /\ id = registry[<<r.user, r.key>>].id
    OBVIOUS
  <2>4. CASE Objection(p) # None
    <3>1. PICK reply : /\ Reply(p, reply)
                       /\ reply = IF Objection(p) = "replayed" THEN id ELSE None
      BY <1>6, <2>3, <2>4 DEF LookUp
    <3>2. \A t \in told' : t \in told \/
             (Objection(p) = "replayed" /\ t = [record |-> r, id |-> id])
      BY <2>3, <3>1 DEF Reply
    <3>3. \A t \in told' : t \in told \/
              /\ <<t.record.user, t.record.key>> \in DOMAIN registry
              /\ registry[<<t.record.user, t.record.key>>] = t
              /\ \E principal \in Principals : Readable(principal, t.record.user, t.id)
      BY <1>1, <2>1, <2>3, <3>2, ReplayIsKept
    <3>4. RegistriesKeyed' /\ RegistriesAgree'
      BY <1>1, <2>1, <2>2, <3>3, RegistriesStand
    <3>5. PICK job : ImportStands(job) /\ importing' = [importing EXCEPT ![p] = job]
      BY <1>1, <2>1, <3>1, ReplyStands
    <3>6. QED
      BY <1>2, <1>3, <2>1, <2>2, <3>4, <3>5
  <2>5. CASE Objection(p) = None
    <3> DEFINE old == importing[p]
               job == [old EXCEPT !.cleared = TRUE]
    <3>1. importing' = [importing EXCEPT ![p] = job] /\ UNCHANGED told
      BY <1>6, <2>5 DEF LookUp
    <3>2. /\ old \in Job /\ old.at \in 1 .. Len(FileOf[old.file])
      BY <1>1, <2>1 DEF ImportTypeOK
    <3>3. /\ r.user \in ScopeOf[old.by] /\ MayPersist(r.user, r.event, r.input)
          /\ r = FileOf[old.file][old.at]
      BY <2>3, <2>5, ObjectionIs DEF Current
    <3> HIDE DEF old
    <3>4. /\ job \in Job /\ job.by = old.by /\ job.file = old.file /\ job.at = old.at
      BY <3>2 DEF Job
    <3> HIDE DEF job
    <3>5. ImportStands(job)
      BY <3>2, <3>3, <3>4 DEF ImportStands
    <3>6. RegistriesKeyed' /\ RegistriesAgree'
      BY <1>1, <2>1, <2>2, <3>1, RegistriesStand
    <3>7. QED
      BY <1>2, <1>3, <2>1, <2>2, <3>1, <3>5, <3>6
  <2>6. QED
    BY <2>4, <2>5
<1>7. CASE LoseRace(p)
  <2> DEFINE old == importing[p]
             job == [old EXCEPT !.try = 2, !.cleared = FALSE]
  <2>1. /\ old # None /\ importing' = [importing EXCEPT ![p] = job]
        /\ UNCHANGED << knowledgeVars, progress, bound, registry, manifests, told >>
    <3>1. importing' = [importing EXCEPT ![p].try = 2, ![p].cleared = FALSE]
      BY <1>7 DEF LoseRace
    <3>2. QED
      BY <1>1, <1>7, <3>1 DEF LoseRace, ImportTypeOK
  <2>2. /\ old \in Job /\ old.at \in 1 .. Len(FileOf[old.file])
    BY <1>1, <2>1 DEF ImportTypeOK
  <2> HIDE DEF old
  <2>3. /\ job \in Job /\ job.file = old.file /\ job.at = old.at /\ job.cleared = FALSE
    BY <2>2 DEF Job
  <2> HIDE DEF job
  <2>4. ImportStands(job)
    BY <2>2, <2>3 DEF ImportStands
  <2>5. KnowledgeInv' /\ StoreGrows
    BY <2>1, StillPreserves
  <2>6. RegistriesKeyed' /\ RegistriesAgree'
    BY <1>1, <2>1, <2>5, RegistriesStand
  <2>7. QED
    BY <1>2, <1>3, <2>1, <2>4, <2>5, <2>6
<1>8. CASE FailRecord(p)
  <2>1. /\ importing[p] # None /\ Reply(p, None)
        /\ UNCHANGED << knowledgeVars, progress, bound, registry, manifests >>
    BY <1>8 DEF FailRecord
  <2>2. KnowledgeInv' /\ StoreGrows
    BY <2>1, StillPreserves
  <2>3. told' = told
    BY <2>1 DEF Reply
  <2>4. RegistriesKeyed' /\ RegistriesAgree'
    BY <1>1, <2>1, <2>2, <2>3, RegistriesStand
  <2>5. PICK job : ImportStands(job) /\ importing' = [importing EXCEPT ![p] = job]
    BY <1>1, <2>1, ReplyStands
  <2>6. QED
    BY <1>2, <1>3, <2>1, <2>2, <2>4, <2>5
<1>9. CASE Crash(p)
  <2>1. /\ importing' = [importing EXCEPT ![p] = None]
        /\ progress' \in [Batches -> Nat]
        /\ UNCHANGED << knowledgeVars, bound, registry, manifests, told >>
    BY <1>9 DEF Crash
  <2>2. KnowledgeInv' /\ StoreGrows
    BY <2>1, StillPreserves
  <2>3. ImportStands(None)
    BY DEF ImportStands
  <2>4. RegistriesKeyed' /\ RegistriesAgree'
    BY <1>1, <2>1, <2>2, RegistriesStand
  <2>5. QED
    BY <1>2, <2>1, <2>2, <2>3, <2>4
<1>10. QED
  BY <1>4, <1>5, <1>6, <1>7, <1>8, <1>9 DEF ImportStep

LEMMA ProvisionPreserves ==
    ASSUME KnowledgeInv, ImportInv, NEW b \in Batches, Provision(b)
    PROVE  KnowledgeInv' /\ ImportInv'
<1>1. PICK e : e = CandidatesOf[b][progress[b] + 1].event
  OBVIOUS
<1>2. progress[b] + 1 \in DOMAIN CandidatesOf[b]
  <2>1. /\ progress[b] \in Nat /\ Len(CandidatesOf[b]) \in Nat
        /\ progress[b] < Len(CandidatesOf[b])
    BY CandidatesAreParsed DEF ImportInv, ImportTypeOK, Provision
  <2>2. progress[b] + 1 \in 1 .. Len(CandidatesOf[b])
    BY <2>1
  <2>3. QED
    BY <2>2, CandidatesAreParsed
<1>3. e \in Events
  BY <1>1, <1>2, CandidatesAreParsed
<1>4. /\ sources' = sources \cup {e}
      /\ UNCHANGED << now, entries, relations, conflicts, receipts, outbox, doing,
                      bound, registry, manifests, importing, told >>
  BY <1>1 DEF Provision
<1>5. progress' \in [Batches -> Nat]
  <2>1. \A c \in Batches : progress[c] \in Nat /\ progress[c] + 1 \in Nat
    BY DEF ImportInv, ImportTypeOK
  <2>2. progress' = [progress EXCEPT ![b] =
           IF Matches(CandidatesOf[b][progress[b] + 1]) THEN progress[b] + 1 ELSE 0]
    BY DEF Provision
  <2>3. QED
    BY <2>1, <2>2 DEF ImportInv, ImportTypeOK
<1>6. KnowledgeInv'
  <2>1. now' \in Nat /\ sources \subseteq sources' /\ sources' \subseteq Events
    BY <1>3, <1>4 DEF KnowledgeInv, KnowledgeTypeOK
  <2>2. QED
    BY <1>4, <2>1, SourcesPreserve
<1>7. StoreGrows
  BY <1>4 DEF StoreGrows
<1>8. ImportTypeOK' /\ ClearedStays'
  <2>1. importing' = [q \in Processes |-> importing'[q]]
    BY <1>4 DEF ImportInv, ImportTypeOK
  <2>2. QED
    BY <1>4, <1>5, <1>7, <2>1, ImportsStand DEF ImportInv, ImportTypeOK
<1>9. RegistriesKeyed' /\ RegistriesAgree'
  BY <1>4, <1>7, RegistriesStand DEF ImportInv
<1>10. BoundStands'
  BY <1>4, <1>7, BoundStaysBound DEF ImportInv
<1>11. QED
  BY <1>6, <1>8, <1>9, <1>10 DEF ImportInv

\* A step that leaves the imports, whatever it adds to the store or to bound.
LEMMA ImportsUnmoved ==
    ASSUME KnowledgeInv', StoreGrows, ImportInv,
           UNCHANGED <<progress, registry, manifests, importing, told>>,
           bound' \subseteq Batches,
           \A b \in bound' : b \in bound \/
              \A i \in DOMAIN CandidatesOf[b] : Bindable(CandidatesOf[b][i])
    PROVE  KnowledgeInv' /\ ImportInv'
<1>1. importing' = [q \in Processes |-> importing'[q]] /\ progress' \in [Batches -> Nat]
  BY DEF ImportInv, ImportTypeOK
<1>2. ImportTypeOK' /\ ClearedStays'
  BY <1>1, ImportsStand DEF ImportInv
<1>3. RegistriesKeyed' /\ RegistriesAgree'
  BY RegistriesStand DEF ImportInv
<1>4. BoundStands'
  BY BoundStaysBound DEF ImportInv
<1>5. QED
  BY <1>2, <1>3, <1>4 DEF ImportInv

\* Every step keeps the invariant.
LEMMA StepPreserves ==
    ASSUME KnowledgeInv, ImportInv, [Next]_vars
    PROVE  KnowledgeInv' /\ ImportInv'
<1>1. bound \subseteq Batches
  BY DEF ImportInv, ImportTypeOK
<1>2. CASE KnowledgeNext /\ UNCHANGED importVars
  <2>1. KnowledgeInv' /\ StoreGrows
    BY <1>2, KnowledgeNextPreserves, KnowledgeGrows
  <2>2. QED
    BY <1>1, <1>2, <2>1, ImportsUnmoved DEF importVars
<1>3. ASSUME NEW b \in Batches, NEW principal \in Principals, Bind(principal, b)
      PROVE  KnowledgeInv' /\ ImportInv'
  <2>1. /\ UNCHANGED << knowledgeVars, progress, registry, manifests, importing, told >>
        /\ bound' = bound \cup {b}
        /\ \A i \in DOMAIN CandidatesOf[b] : Bindable(CandidatesOf[b][i])
    BY <1>3 DEF Bind
  <2>2. KnowledgeInv' /\ StoreGrows
    BY <2>1, StillPreserves
  <2>3. QED
    BY <1>1, <2>1, <2>2, ImportsUnmoved
<1>4. CASE UNCHANGED vars
  <2>1. KnowledgeInv' /\ StoreGrows
    BY <1>4, StillPreserves DEF vars
  <2>2. QED
    BY <1>1, <1>4, <2>1, ImportsUnmoved DEF vars, importVars
<1>5. QED
  BY <1>2, <1>3, <1>4, ProvisionPreserves, ImportStepPreserves DEF Next

LEMMA InitHolds ==
    ASSUME Init
    PROVE  KnowledgeInv /\ ImportInv
<1>1. /\ now = 0 /\ sources = {} /\ entries = [x \in {} |-> x]
      /\ relations = {} /\ conflicts = [x \in {} |-> x]
      /\ receipts = {} /\ outbox = EmptyBag
      /\ doing = [p \in Processes |-> None]
      /\ progress = [b \in Batches |-> 0] /\ bound = {}
      /\ registry = [x \in {} |-> x] /\ manifests = [x \in {} |-> x]
      /\ importing = [p \in Processes |-> None] /\ told = {}
  BY DEF Init, KnowledgeInit
<1>2. DOMAIN entries = {} /\ DOMAIN conflicts = {} /\ DOMAIN registry = {}
      /\ DOMAIN manifests = {}
  BY <1>1
<1>3. IsABag(outbox) /\ \A x, y : Queued(x, y) = 0
  BY <1>1 DEF EmptyBag, SetToBag, IsABag, Queued, BagIn, BagToSet
<1>4. IsFiniteSet({}) /\ Cardinality({}) = 0
  BY FS_EmptySet
<1>5. KnowledgeTypeOK
  BY <1>1, <1>2, <1>3, <1>4 DEF KnowledgeTypeOK
<1>6. TrustedEvidence /\ ConflictsHaveSides
  BY <1>1, <1>2 DEF TrustedEvidence, ConflictsHaveSides
<1>7. Changing = {} /\ Archiving = {}
  BY <1>1 DEF Changing, Archiving
<1>8. ReceiptsAccount
  <2>1. ASSUME NEW u \in Users, NEW k \in Ids
        PROVE  /\ Queued("lifecycle.changed", <<u, k>>) =
                    Cardinality({r \in Changing : r.user = u /\ r.id = k})
               /\ Queued("lifecycle.archive", <<u, k>>) =
                    Cardinality({r \in Archiving : r.user = u /\ r.id = k})
    <3>1. /\ {r \in Changing : r.user = u /\ r.id = k} = {}
          /\ {r \in Archiving : r.user = u /\ r.id = k} = {}
      BY <1>7
    <3>2. QED
      BY <1>3, <1>4, <3>1
  <2>2. QED
    BY <1>1, <1>7, <2>1 DEF ReceiptsAccount
<1>9. RevisionsPassed
  BY <1>1, <1>7 DEF RevisionsPassed
<1>10. ImportInv
  <2>1. ImportTypeOK
    BY <1>1 DEF ImportTypeOK
  <2>2. ClearedStays
    BY <1>1 DEF ClearedStays
  <2>3. RegistriesKeyed /\ RegistriesAgree /\ BoundStands
    BY <1>1, <1>2 DEF RegistriesKeyed, RegistriesAgree, BoundStands
  <2>4. QED
    BY <2>1, <2>2, <2>3 DEF ImportInv
<1>11. QED
  BY <1>5, <1>6, <1>8, <1>9, <1>10 DEF KnowledgeInv

\* A record of a bound batch has the source it names, and may be persisted.
LEMMA BoundIsAdmitted ==
    ASSUME ImportInv
    PROVE  BindingKeeps
<1> SUFFICES ASSUME NEW p \in Processes, importing[p] # None,
                    BatchOf[importing[p].file] \in bound,
                    Objection(p) = "source_not_admitted"
             PROVE  FALSE
  BY DEF BindingKeeps
<1> DEFINE r == Current(p)
           b == BatchOf[importing[p].file]
<1>1. /\ b \in Batches /\ importing[p].file \in Files
      /\ importing[p].at \in DOMAIN FileOf[importing[p].file]
  BY CurrentIs DEF ImportInv, ImportTypeOK
<1>2. /\ r.wellFormed
      /\ ~SourceHolds(r) \/ ~MayPersist(r.user, r.event, r.input)
  BY ObjectionIs DEF ShapeHolds
<1>3. /\ \E j \in DOMAIN CandidatesOf[b] : CandidatesOf[b][j].event = r.event
      /\ r.user = EventOf[r.event].user /\ r.type = EventOf[r.event].type
      /\ r.status = EventOf[r.event].status /\ r.reference = EventOf[r.event].reference
  BY <1>1, <1>2, FilesCopyBinding DEF Current
<1>4. r.event \in sources /\ EventOf[r.event].admitted /\ EventOf[r.event].status = "success"
  BY <1>3 DEF ImportInv, BoundStands, Bindable, Matches, Controlled
<1> HIDE DEF r
<1>5. SourceHolds(r) /\ MayPersist(r.user, r.event, r.input)
  BY <1>3, <1>4 DEF SourceHolds, MayPersist
<1>6. QED
  BY <1>2, <1>5

\* What holds in every state of every deployment.
THEOREM StoreInvariant == Spec => []IInv
<1>1. Init => IInv
  BY InitHolds DEF IInv
<1>2. IInv /\ [Next]_vars => IInv'
  BY StepPreserves DEF IInv
<1>3. QED
  BY <1>1, <1>2, PTL DEF Spec

\* Rows, relations, conflicts, receipts and tasks are what the schema allows.
THEOREM KnowledgeTypeCorrect == Spec => []KnowledgeTypeOK
<1>1. IInv => KnowledgeTypeOK
  BY DEF IInv, KnowledgeInv
<1>2. QED
  BY <1>1, StoreInvariant, PTL

\* Every knowledge row rests on exactly one admitted primary evidence edge, and
\* no edge or conflict points at nothing (insert_knowledge_entry, insert_relation,
\* insert_conflict, update_conflict_resolution).
THEOREM EvidenceTrusted == Spec => []TrustedEvidence
<1>1. IInv => TrustedEvidence
  BY DEF IInv, KnowledgeInv
<1>2. QED
  BY <1>1, StoreInvariant, PTL

\* However evaluations interleave, a revision is changed once, an evaluation and
\* an archive request have one receipt, and the outbox has exactly their events
\* (lifecycle_worker.evaluate_lifecycle).
THEOREM ReceiptsAccounted == Spec => []ReceiptsAccount
<1>1. IInv => ReceiptsAccount
  BY DEF IInv, KnowledgeInv
<1>2. QED
  BY <1>1, StoreInvariant, PTL

\* One idempotency key makes one knowledge row, whatever races, fails or is
\* repeated, and a batch that was reported bound can be imported
\* (main_to_data_import._import_one, main_to_data_binding.bind).
THEOREM ImportsOnce == Spec => []ImportedOnce
<1>1. IInv => ImportedOnce
  BY BoundIsAdmitted DEF IInv, ImportInv, ImportedOnce
<1>2. QED
  BY <1>1, StoreInvariant, PTL

-------------------------------------------------------------------------------
(* The versions of a preference *)

USE RequestAssumption

\* The requests the handlers hand to _append_preference_version.
Requested(q) ==
  \/ \E op \in {"create", "update"}, v \in Values, s \in SentStatuses,
        e \in EvidenceEvents \cup {NoEvents}, x \in RequestKeys \cup {NoKey} :
       q = WriteRequest(op, v, s, e, x)
  \/ \E t \in DOMAIN versions, x \in RequestKeys \cup {NoKey} :
       MayRestore(t) /\ q = RollbackRequest(t, x)
  \/ \E p \in Plans : CurrentVersion # 0 /\ q = RemovalRequest(p)

\* Every step appends to the chain for one of these requests.
LEMMA StepIsRequest == ChainNext => \E q : Requested(q) /\ AppendVersion(q)
<1> SUFFICES ASSUME ChainNext PROVE \E q : Requested(q) /\ AppendVersion(q)
  OBVIOUS
<1>1. ASSUME NEW v \in Values, NEW s \in SentStatuses, NEW e \in EvidenceEvents \cup {NoEvents},
             NEW x \in RequestKeys \cup {NoKey},
             Create(v, s, e, x) \/ Update(v, s, e, x)
      PROVE  \E q : Requested(q) /\ AppendVersion(q)
  <2>1. PICK op \in {"create", "update"} : AppendVersion(WriteRequest(op, v, s, e, x))
    BY <1>1 DEF Create, Update
  <2>2. Requested(WriteRequest(op, v, s, e, x))
    BY DEF Requested
  <2>3. QED
    BY <2>1, <2>2
<1>2. ASSUME NEW t \in 1..MaxVersions, NEW x \in RequestKeys \cup {NoKey}, Rollback(t, x)
      PROVE  \E q : Requested(q) /\ AppendVersion(q)
  <2>1. Requested(RollbackRequest(t, x))
    BY <1>2 DEF Requested, Rollback
  <2>2. QED
    BY <1>2, <2>1 DEF Rollback
<1>3. ASSUME NEW p \in Plans, ForgetPreference(p)
      PROVE  \E q : Requested(q) /\ AppendVersion(q)
  <2>1. Requested(RemovalRequest(p))
    BY <1>3 DEF Requested, ForgetPreference
  <2>2. QED
    BY <1>3, <2>1 DEF ForgetPreference
<1>4. QED
  BY <1>1, <1>2, <1>3 DEF ChainNext

\* What the types and the chain say of one version.
LEMMA ChainFacts ==
  ASSUME ChainTypeOK, OneChain
  PROVE  /\ Len(versions) \in Nat
         /\ DOMAIN versions = 1..Len(versions)
         /\ CurrentVersion = Len(versions)
         /\ \A n \in DOMAIN versions : /\ versions[n] \in Version
                                       /\ versions[n].value \in Values
                                       /\ versions[n].status \in Statuses
<1>1. versions \in Seq(Version)
  BY DEF ChainTypeOK
<1>2. /\ Len(versions) \in Nat
      /\ DOMAIN versions = 1..Len(versions)
      /\ \A n \in DOMAIN versions : versions[n] \in Version
  BY <1>1
<1>3. CurrentVersion = Len(versions)
  BY <1>2 DEF CurrentVersion, OneChain
<1>4. QED
  BY <1>2, <1>3 DEF Version

\* What a request is made of, whichever handler made it.
LEMMA RequestFacts ==
  ASSUME ChainTypeOK, OneChain, NEW q, Requested(q)
  PROVE  /\ q.value \in Values
         /\ q.status \in Statuses
         /\ q.kind \in {"write", "rollback"}
         /\ q.key \in RequestKeys \cup {NoKey}
         /\ q.restores \in 0..Len(versions)
<1> DEFINE Facts(r) == /\ r.value \in Values
                       /\ r.status \in Statuses
                       /\ r.kind \in {"write", "rollback"}
                       /\ r.key \in RequestKeys \cup {NoKey}
                       /\ r.restores \in 0..Len(versions)
<1>1. ASSUME NEW op, NEW v \in Values, NEW s \in SentStatuses, NEW e,
             NEW x \in RequestKeys \cup {NoKey}
      PROVE  Facts(WriteRequest(op, v, s, e, x))
  BY ChainFacts DEF WriteRequest, Statuses
<1>2. ASSUME NEW t \in DOMAIN versions, NEW x \in RequestKeys \cup {NoKey}
      PROVE  Facts(RollbackRequest(t, x))
  BY ChainFacts DEF RollbackRequest, Statuses
<1>3. ASSUME NEW p \in Plans, CurrentVersion # 0
      PROVE  Facts(RemovalRequest(p))
  BY <1>3, ChainFacts DEF RemovalRequest, Statuses
<1> HIDE DEF Facts
<1>4. Facts(q)
  BY <1>1, <1>2, <1>3 DEF Requested
<1>5. QED
  BY <1>4 DEF Facts

-----------------------------------------------------------------------------
(* The constraints of the schema *)

\* A rollback is recorded under evidence no receipt has yet; a write or a
\* removal has looked its evidence up.
LEMMA NewEvidence ==
  ASSUME ChainInv, NEW q, Requested(q), IsNew(q), NEW r \in versionReceipts
  PROVE  r.evidence # q.evidence /\ (q.key # NoKey => r.key # q.key)
<1>1. q.key # NoKey => r.key # q.key
  BY DEF IsNew, KeyReceipts
<1>2. CASE q.kind # "rollback"
  BY <1>1, <1>2 DEF IsNew, EvidenceReceipts
<1>3. CASE q.kind = "rollback"
  <2>1. PICK t \in DOMAIN versions : \E x : q = RollbackRequest(t, x)
    BY <1>3 DEF Requested, WriteRequest, RemovalRequest
  <2>2. q.evidence = <<"rollback", t, Len(versions)>>
    BY <2>1 DEF RollbackRequest
  <2>3. \A v, e : EvidenceOf(v, e) # q.evidence
    BY <2>2 DEF EvidenceOf
  <2>4. \A p : <<"forget", p>> # q.evidence
    BY <2>2
  <2>5. \A u, n : n \in 0..(Len(versions) - 1) => <<"rollback", u, n>> # q.evidence
    BY <2>2, ChainFacts DEF ChainInv
  <2>6. r.evidence # q.evidence
    BY <2>3, <2>4, <2>5 DEF ChainInv, EvidenceIsOld
  <2>7. QED
    BY <1>1, <2>6
<1>4. QED
  BY <1>2, <1>3

\* A request that is new is accepted by the triggers and the unique indexes.
LEMMA NewIsAccepted ==
  ASSUME ChainInv, NEW q, Requested(q), IsNew(q)
  PROVE  IF IsNoOp(q) THEN ReceiptAccepted(q, versions[CurrentVersion])
         ELSE /\ ChainAccepts(CurrentVersion, Len(versions) + 1, q.restores)
              /\ ReceiptAccepted(q, NewVersionRow(q))
<1>1. \A r \in versionReceipts : r.evidence # q.evidence /\ (q.key # NoKey => r.key # q.key)
  BY NewEvidence
<1>2. ASSUME IsNoOp(q) PROVE ReceiptAccepted(q, versions[CurrentVersion])
  BY <1>1, <1>2 DEF IsNoOp, ReceiptAccepted
<1>3. ReceiptAccepted(q, NewVersionRow(q))
  BY <1>1 DEF NewVersionRow, ReceiptAccepted
<1>4. ChainAccepts(CurrentVersion, Len(versions) + 1, q.restores)
  BY ChainFacts, RequestFacts DEF ChainInv, ChainAccepts
<1>5. QED
  BY <1>2, <1>3, <1>4

\* The invariant says what ConstraintsNeverBite says.
LEMMA InvariantForbidsAborts == ChainInv => ConstraintsNeverBite
<1> SUFFICES ASSUME ChainInv,
                    NEW v \in Values, NEW s \in SentStatuses,
                    NEW e \in EvidenceEvents \cup {NoEvents}, NEW x \in RequestKeys \cup {NoKey},
                    NEW q \in {WriteRequest("create", v, s, e, x)}
                      \cup {RollbackRequest(t, x) : t \in {m \in DOMAIN versions : MayRestore(m)}},
                    IsNew(q)
             PROVE  IF IsNoOp(q) THEN ReceiptAccepted(q, versions[CurrentVersion])
                    ELSE /\ ChainAccepts(CurrentVersion, Len(versions) + 1, q.restores)
                         /\ ReceiptAccepted(q, NewVersionRow(q))
  BY DEF ConstraintsNeverBite
<1>1. Requested(q)
  BY DEF Requested
<1>2. QED
  BY <1>1, NewIsAccepted

-----------------------------------------------------------------------------
(* What a request leaves of the chain *)

\* The chain after a version was appended: old versions keep their value and
\* their links, the last of them is superseded, the new one is current.
LEMMA AppendedChain ==
  ASSUME ChainInv, NEW q, Requested(q), NewVersion(q)
  PROVE  /\ versions' \in Seq(Version)
         /\ Len(versions') = Len(versions) + 1
         /\ pointer' = Len(versions')
         /\ versions'[Len(versions')] = NewVersionRow(q)
         /\ \A n \in DOMAIN versions :
              versions'[n] = IF n = Len(versions) THEN Superseded(n) ELSE versions[n]
<1> DEFINE old == [m \in DOMAIN versions |->
                     IF m = CurrentVersion THEN Superseded(m) ELSE versions[m]]
<1>1. \A n \in DOMAIN versions : Superseded(n) \in Version
  BY ChainFacts DEF ChainInv, Superseded, Version, Statuses
<1>2. old \in Seq(Version) /\ Len(old) = Len(versions)
  <2>1. old \in [1..Len(versions) -> Version]
    BY <1>1, ChainFacts DEF ChainInv
  <2>2. QED
    BY <2>1, ChainFacts DEF ChainInv
<1>3. NewVersionRow(q) \in Version
  BY ChainFacts, RequestFacts DEF ChainInv, NewVersionRow, Version
<1>4. versions' = Append(old, NewVersionRow(q)) /\ pointer' = Len(versions) + 1
  BY DEF NewVersion
<1>5. \A n \in DOMAIN versions : old[n] = IF n = Len(versions) THEN Superseded(n) ELSE versions[n]
  BY ChainFacts DEF ChainInv
<1> HIDE DEF old
<1>6. QED
  BY <1>2, <1>3, <1>4, <1>5, ChainFacts DEF ChainInv

\* A new version extends the chain by one link.
LEMMA NewVersionKeepsChain ==
  ASSUME ChainInv, NEW q, Requested(q), NewVersion(q)
  PROVE  OneChain'
<1>1. pointer' = Len(versions')
  BY AppendedChain
<1>2. ASSUME NEW n \in DOMAIN versions'
      PROVE  /\ versions'[n].previous = n - 1
             /\ versions'[n].restores < n
             /\ versions'[n].current <=> n = Len(versions')
             /\ n < Len(versions') => versions'[n].status = "superseded"
  <2>1. DOMAIN versions' = 1..Len(versions) + 1
    BY AppendedChain, ChainFacts DEF ChainInv
  <2>2. CASE n = Len(versions) + 1
    <3>1. versions'[n] = NewVersionRow(q) /\ CurrentVersion = Len(versions)
      BY <2>2, AppendedChain, ChainFacts DEF ChainInv
    <3>2. QED
      BY <2>2, <3>1, AppendedChain, ChainFacts, RequestFacts DEF ChainInv, NewVersionRow
  <2>3. CASE n \in DOMAIN versions
    <3>1. /\ versions[n].previous = n - 1 /\ versions[n].restores < n
          /\ versions[n].current <=> n = Len(versions)
          /\ n < Len(versions) => versions[n].status = "superseded"
          /\ versions[n] \in Version
      BY <2>3, ChainFacts DEF ChainInv, OneChain
    <3>2. n \in 1..Len(versions) /\ Len(versions') = Len(versions) + 1
      BY <2>3, AppendedChain, ChainFacts DEF ChainInv
    <3>3. CASE n = Len(versions)
      <4>1. versions'[n] = Superseded(n)
        BY <2>3, <3>3, AppendedChain
      <4>2. QED
        BY <3>1, <3>2, <3>3, <4>1, ChainFacts DEF ChainInv, Superseded, Version
    <3>4. CASE n # Len(versions)
      <4>1. versions'[n] = versions[n]
        BY <2>3, <3>4, AppendedChain
      <4>2. QED
        BY <3>1, <3>2, <3>4, <4>1, ChainFacts DEF ChainInv
    <3>5. QED
      BY <3>3, <3>4
  <2>4. QED
    BY <2>1, <2>2, <2>3, ChainFacts DEF ChainInv
<1>3. QED
  BY <1>1, <1>2 DEF OneChain

\* What HistoryKept asks of a step.
HistoryStep ==
  \A n \in DOMAIN versions :
       /\ n \in DOMAIN versions'
       /\ versions'[n].value = versions[n].value
       /\ versions'[n].previous = versions[n].previous
       /\ versions'[n].restores = versions[n].restores
       /\ versions'[n] # versions[n] => /\ versions[n].current
                                        /\ ~versions'[n].current
                                        /\ versions'[n].status = "superseded"

\* A new version leaves the history as it is.
LEMMA NewVersionKeepsHistory ==
  ASSUME ChainInv, NEW q, Requested(q), NewVersion(q)
  PROVE  HistoryStep
<1> SUFFICES ASSUME NEW n \in DOMAIN versions
             PROVE  /\ n \in DOMAIN versions'
                    /\ versions'[n].value = versions[n].value
                    /\ versions'[n].previous = versions[n].previous
                    /\ versions'[n].restores = versions[n].restores
                    /\ versions'[n] # versions[n] => /\ versions[n].current
                                                     /\ ~versions'[n].current
                                                     /\ versions'[n].status = "superseded"
  BY DEF HistoryStep
<1>1. n \in DOMAIN versions' /\ versions[n] \in Version
  BY AppendedChain, ChainFacts DEF ChainInv
<1>2. CASE n = Len(versions)
  <2>1. versions'[n] = Superseded(n)
    BY <1>2, AppendedChain
  <2>2. versions[n].current
    BY <1>2 DEF ChainInv, OneChain
  <2>3. QED
    BY <1>1, <2>1, <2>2 DEF Superseded, Version
<1>3. CASE n # Len(versions)
  <2>1. versions'[n] = versions[n]
    BY <1>3, AppendedChain
  <2>2. QED
    BY <1>1, <2>1
<1>4. QED
  BY <1>2, <1>3

-----------------------------------------------------------------------------
(* What a request leaves of the answers *)

\* The entry a request adds to the answers given under its key.
AnswerEntry(n, q) == [request |-> q.request, events |-> q.events, version |-> n]

\* A request with a key leaves its answer under this key and no other.
LEMMA AnswersFacts ==
  ASSUME ChainInv, NEW q, Requested(q), NEW kind, NEW n, Answers(kind, n, q)
  PROVE  /\ answer'.kind = kind /\ answer'.value = q.value /\ answer'.version = n
         /\ answered' = [x \in RequestKeys |-> answered'[x]]
         /\ \A x \in RequestKeys :
              answered'[x] = IF x = q.key THEN answered[x] \cup {AnswerEntry(n, q)}
                             ELSE answered[x]
<1>1. answered = [x \in RequestKeys |-> answered[x]]
  BY DEF ChainInv, ChainTypeOK
<1>2. CASE q.key = NoKey
  BY <1>1, <1>2 DEF Answers
<1>3. CASE q.key # NoKey
  BY <1>1, <1>3 DEF Answers, AnswerEntry
<1>4. QED
  BY <1>2, <1>3 DEF Answers

\* The evidence of a write is that of the request it is answered under.
LEMMA EvidenceIsAsked ==
  ASSUME NEW q, Requested(q), q.key # NoKey, NEW n
  PROVE  /\ \A v \in Values : Asked(AnswerEntry(n, q), v) => q.evidence = EvidenceOf(v, q.events)
         /\ q.kind # "rollback" =>
              \E v \in Values : /\ Asked(AnswerEntry(n, q), v)
                                /\ q.evidence = EvidenceOf(v, q.events)
<1>1. ASSUME NEW op \in {"create", "update"}, NEW w \in Values, NEW s \in SentStatuses,
             NEW e, NEW x, q = WriteRequest(op, w, s, e, x)
      PROVE  /\ \A v \in Values :
                  Asked(AnswerEntry(n, q), v) => q.evidence = EvidenceOf(v, q.events)
             /\ \E v \in Values : /\ Asked(AnswerEntry(n, q), v)
                                  /\ q.evidence = EvidenceOf(v, q.events)
  <2>1. /\ AnswerEntry(n, q).request = <<op, w, s>>
        /\ q.evidence = EvidenceOf(w, e) /\ q.events = e
    BY <1>1 DEF WriteRequest, AnswerEntry
  <2>2. Asked(AnswerEntry(n, q), w)
    BY <2>1 DEF Asked
  <2>3. ASSUME NEW v \in Values, Asked(AnswerEntry(n, q), v) PROVE v = w
    BY <2>1, <2>3 DEF Asked
  <2>4. QED
    BY <2>1, <2>2, <2>3
<1>2. ASSUME NEW t, NEW x, q = RollbackRequest(t, x)
      PROVE  q.kind = "rollback" /\ \A v \in Values : ~Asked(AnswerEntry(n, q), v)
  <2>1. q.kind = "rollback" /\ AnswerEntry(n, q).request = <<"rollback", t>>
    BY <1>2 DEF RollbackRequest, AnswerEntry
  <2>2. \A op, v, s : <<op, v, s>> # <<"rollback", t>>
    OBVIOUS
  <2>3. QED
    BY <2>1, <2>2 DEF Asked
<1>3. ASSUME NEW p, q = RemovalRequest(p) PROVE FALSE
  BY <1>3 DEF RemovalRequest
<1>4. QED
  BY <1>1, <1>2, <1>3 DEF Requested

\* A repeated request changes nothing, and its answer is on record.
LEMMA ReplayPreserves ==
  ASSUME ChainInv, NEW q, Requested(q), ReplayKey(q) \/ ReplayEvidence(q)
  PROVE  ChainInv'
<1>1. UNCHANGED <<versions, pointer, versionReceipts>>
  BY DEF ReplayKey, ReplayEvidence
<1>2. PICK r \in versionReceipts, kind \in {"replayed", "observed"} :
        /\ Answers(kind, r.version, q)
        /\ \/ r.key = q.key /\ q.key # NoKey
           \/ r.evidence = q.evidence /\ q.kind # "rollback"
  BY DEF ReplayKey, ReplayEvidence, KeyReceipts, EvidenceReceipts
<1>3. r.version \in DOMAIN versions /\ r.version \in 0..Len(versions)
  BY ChainFacts DEF ChainInv, ChainTypeOK
<1>4. /\ answer'.kind = kind /\ answer'.version = r.version
      /\ answered' = [x \in RequestKeys |-> answered'[x]]
      /\ \A x \in RequestKeys :
           answered'[x] = IF x = q.key THEN answered[x] \cup {AnswerEntry(r.version, q)}
                          ELSE answered[x]
  BY <1>2, AnswersFacts
<1>5. ChainTypeOK'
  BY <1>1, <1>3, <1>4 DEF ChainInv, ChainTypeOK, AnswerEntry
<1>6. OneChain' /\ ReceiptsUnique' /\ EvidenceIsOld'
  BY <1>1 DEF ChainInv, OneChain, ReceiptsUnique, EvidenceIsOld
<1>7. ReceiptsAreAnswered'
  <2>1. ASSUME NEW o \in versionReceipts, o.key # NoKey
        PROVE  answered[o.key] \subseteq answered'[o.key]
    BY <1>4, <2>1 DEF ChainInv, ChainTypeOK
  <2>2. QED
    BY <1>1, <2>1 DEF ChainInv, ReceiptsAreAnswered, Asked
<1>8. AnswersAreRecorded'
  <2>1. ASSUME q.key # NoKey
        PROVE  \/ r.key = q.key
               \/ \E v \in Values : /\ Asked(AnswerEntry(r.version, q), v)
                                    /\ r.evidence = EvidenceOf(v, q.events)
    BY <1>2, <2>1, EvidenceIsAsked
  <2>2. ASSUME NEW x \in RequestKeys, NEW u \in answered'[x], u \notin answered[x]
        PROVE  u = AnswerEntry(r.version, q) /\ x = q.key /\ q.key # NoKey
    BY <1>4, <2>2
  <2>3. AnswerEntry(r.version, q).version = r.version /\ AnswerEntry(r.version, q).events = q.events
    BY DEF AnswerEntry
  <2>4. QED
    BY <1>1, <2>1, <2>2, <2>3 DEF ChainInv, AnswersAreRecorded, Asked
<1>9. AnswerIsCurrent'
  BY <1>4 DEF AnswerIsCurrent
<1>10. QED
  BY <1>5, <1>6, <1>7, <1>8, <1>9 DEF ChainInv

\* A request that is new leaves one receipt and one answer, for one version.
LEMMA ReceiptLeft ==
  ASSUME ChainInv, NEW q, Requested(q), IsNew(q),
         NEW n \in DOMAIN versions', NEW kind \in {"created", "no_op"},
         NEW receiptKind \in ReceiptKinds,
         versions' \in Seq(Version),
         Len(versions) <= Len(versions'),
         q.kind = "rollback" => Len(versions) < Len(versions'),
         versionReceipts' = versionReceipts \cup {Receipt(receiptKind, n, q)},
         Answers(kind, n, q)
  PROVE  /\ pointer' \in 0..Len(versions') => ChainTypeOK'
         /\ ReceiptsUnique'
         /\ EvidenceIsOld'
         /\ ReceiptsAreAnswered'
         /\ AnswersAreRecorded'
<1> DEFINE R == Receipt(receiptKind, n, q)
           U == AnswerEntry(n, q)
<1>1. /\ R.kind = receiptKind /\ R.version = n /\ R.value = q.value /\ R.status = q.status
      /\ R.evidence = q.evidence /\ R.key = q.key /\ R.request = q.request
  BY DEF Receipt
<1>2. U.version = n /\ U.request = q.request /\ U.events = q.events
  BY DEF AnswerEntry
<1>3. /\ Len(versions) \in Nat /\ Len(versions') \in Nat
      /\ DOMAIN versions = 1..Len(versions) /\ DOMAIN versions' = 1..Len(versions')
  BY ChainFacts DEF ChainInv
<1>4. versionReceipts' = versionReceipts \cup {R}
  OBVIOUS
<1>5. /\ answer'.kind = kind /\ answer'.version = n
      /\ answered' = [x \in RequestKeys |-> answered'[x]]
      /\ \A x \in RequestKeys :
           answered'[x] = IF x = q.key THEN answered[x] \cup {U} ELSE answered[x]
  BY AnswersFacts
<1> HIDE DEF R, U
<1>6. \A r \in versionReceipts : r.evidence # q.evidence /\ (q.key # NoKey => r.key # q.key)
  BY NewEvidence
<1>7. ASSUME pointer' \in 0..Len(versions') PROVE ChainTypeOK'
  <2>1. /\ q.value \in Values /\ q.status \in Statuses /\ q.key \in RequestKeys \cup {NoKey}
    BY RequestFacts DEF ChainInv
  <2>2. \A r \in versionReceipts' : /\ r.kind \in ReceiptKinds
                                    /\ r.version \in DOMAIN versions'
                                    /\ r.value \in Values
                                    /\ r.status \in Statuses
                                    /\ r.key \in RequestKeys \cup {NoKey}
    BY <1>1, <1>3, <1>4, <2>1 DEF ChainInv, ChainTypeOK
  <2>3. \A x \in RequestKeys : \A u \in answered'[x] : u.version \in DOMAIN versions'
    BY <1>2, <1>3, <1>5 DEF ChainInv, ChainTypeOK
  <2>4. QED
    BY <1>3, <1>5, <1>7, <2>2, <2>3 DEF ChainTypeOK
<1>8. ReceiptsUnique'
  BY <1>1, <1>4, <1>6 DEF ChainInv, ReceiptsUnique
<1>9. EvidenceIsOld'
  <2>1. DOMAIN versions \subseteq DOMAIN versions'
        /\ 0..(Len(versions) - 1) \subseteq 0..(Len(versions') - 1)
    BY <1>3
  <2>2. \/ \E v \in Values, e \in EvidenceEvents \cup {NoEvents} : q.evidence = EvidenceOf(v, e)
        \/ \E p \in Plans : q.evidence = <<"forget", p>>
        \/ \E t \in DOMAIN versions, l \in 0..(Len(versions') - 1) :
             q.evidence = <<"rollback", t, l>>
    <3>1. ASSUME NEW t \in DOMAIN versions, NEW x, q = RollbackRequest(t, x)
          PROVE  \E l \in 0..(Len(versions') - 1) : q.evidence = <<"rollback", t, l>>
      <4>1. q.kind = "rollback" /\ q.evidence = <<"rollback", t, Len(versions)>>
        BY <3>1 DEF RollbackRequest
      <4>2. Len(versions) \in 0..(Len(versions') - 1)
        BY <1>3, <4>1
      <4>3. QED
        BY <4>1, <4>2
    <3>2. ASSUME NEW op, NEW v, NEW s, NEW e, NEW x, q = WriteRequest(op, v, s, e, x)
          PROVE  q.evidence = EvidenceOf(v, e)
      BY <3>2 DEF WriteRequest
    <3>3. ASSUME NEW p, q = RemovalRequest(p) PROVE q.evidence = <<"forget", p>>
      BY <3>3 DEF RemovalRequest
    <3>4. QED
      BY <3>1, <3>2, <3>3 DEF Requested
  <2>3. QED
    BY <1>1, <1>4, <2>1, <2>2 DEF ChainInv, EvidenceIsOld
<1>10. ReceiptsAreAnswered'
  <2>1. ASSUME NEW o \in versionReceipts, o.key # NoKey
        PROVE  answered[o.key] \subseteq answered'[o.key]
    BY <1>5, <2>1 DEF ChainInv, ChainTypeOK
  <2>2. ASSUME q.key # NoKey
        PROVE  /\ U \in answered'[q.key]
               /\ \A v \in Values : Asked(U, v) => R.evidence = EvidenceOf(v, U.events)
    BY <1>1, <1>2, <1>5, <2>2, RequestFacts, EvidenceIsAsked DEF ChainInv, U
  <2>3. QED
    BY <1>1, <1>2, <1>4, <2>1, <2>2 DEF ChainInv, ReceiptsAreAnswered, Asked
<1>11. AnswersAreRecorded'
  <2>1. ASSUME NEW x \in RequestKeys, NEW u \in answered'[x], u \notin answered[x]
        PROVE  u = U /\ x = q.key
    BY <1>5, <2>1
  <2>2. ASSUME NEW x \in RequestKeys, NEW u \in answered[x]
        PROVE  \E r \in versionReceipts' :
                 /\ r.version = u.version
                 /\ \/ r.key = x
                    \/ \E v \in Values : Asked(u, v) /\ r.evidence = EvidenceOf(v, u.events)
    BY <1>4 DEF ChainInv, AnswersAreRecorded
  <2>3. R \in versionReceipts' /\ R.version = U.version /\ R.key = q.key
    BY <1>1, <1>2, <1>4
  <2>4. ASSUME NEW x \in RequestKeys, NEW u \in answered'[x]
        PROVE  \E r \in versionReceipts' :
                 /\ r.version = u.version
                 /\ \/ r.key = x
                    \/ \E v \in Values : Asked(u, v) /\ r.evidence = EvidenceOf(v, u.events)
    BY <2>1, <2>2, <2>3
  <2>5. QED
    BY <2>4 DEF AnswersAreRecorded, Asked
<1>12. QED
  BY <1>7, <1>8, <1>9, <1>10, <1>11

\* What the current version has already leaves a receipt only.
LEMMA NoOpPreserves ==
  ASSUME ChainInv, NEW q, Requested(q), NoOp(q)
  PROVE  ChainInv'
<1>1. /\ IsNew(q) /\ IsNoOp(q) /\ UNCHANGED <<versions, pointer>>
      /\ versionReceipts' = versionReceipts \cup {Receipt("no_op", CurrentVersion, q)}
      /\ Answers("no_op", CurrentVersion, q)
  BY DEF NoOp
<1>2. CurrentVersion \in DOMAIN versions' /\ versions[CurrentVersion].value = q.value
  BY <1>1, ChainFacts DEF ChainInv, IsNoOp
<1>3. /\ pointer' \in 0..Len(versions') /\ versions' \in Seq(Version)
      /\ Len(versions) <= Len(versions')
  BY <1>1, ChainFacts DEF ChainInv, ChainTypeOK
<1>4. q.kind # "rollback"
  BY <1>1 DEF IsNoOp
<1>5. /\ ChainTypeOK' /\ ReceiptsUnique' /\ EvidenceIsOld'
      /\ ReceiptsAreAnswered' /\ AnswersAreRecorded'
  BY <1>1, <1>2, <1>3, <1>4, ReceiptLeft DEF ReceiptKinds
<1>6. OneChain'
  BY <1>1 DEF ChainInv, OneChain
<1>7. AnswerIsCurrent'
  BY <1>1, <1>2, AnswersFacts DEF AnswerIsCurrent, CurrentVersion
<1>8. QED
  BY <1>5, <1>6, <1>7 DEF ChainInv

\* A new version leaves a receipt and becomes the current one.
LEMMA NewVersionPreserves ==
  ASSUME ChainInv, NEW q, Requested(q), NewVersion(q)
  PROVE  ChainInv'
<1> DEFINE n == Len(versions) + 1
<1>1. /\ IsNew(q)
      /\ versionReceipts' = versionReceipts \cup {Receipt(q.kind, n, q)}
      /\ Answers("created", n, q)
  BY DEF NewVersion
<1>2. /\ versions' \in Seq(Version) /\ Len(versions') = n /\ pointer' = n
      /\ versions'[n] = NewVersionRow(q)
  BY AppendedChain
<1>3. n \in DOMAIN versions' /\ pointer' \in 0..Len(versions') /\ Len(versions) < Len(versions')
  BY <1>2, ChainFacts DEF ChainInv
<1>4. q.kind \in ReceiptKinds
  BY RequestFacts DEF ChainInv, ReceiptKinds
<1>5. /\ ChainTypeOK' /\ ReceiptsUnique' /\ EvidenceIsOld'
      /\ ReceiptsAreAnswered' /\ AnswersAreRecorded'
  <2>1. Len(versions) <= Len(versions')
    BY <1>2, ChainFacts DEF ChainInv
  <2>2. QED
    BY <1>1, <1>2, <1>3, <1>4, <2>1, ReceiptLeft
<1>6. OneChain'
  BY NewVersionKeepsChain
<1>7. AnswerIsCurrent'
  <2>1. answer'.version = n
    BY <1>1, AnswersFacts
  <2>2. versions'[n].current /\ versions'[n].value = q.value /\ n # 0
    BY <1>2, ChainFacts DEF ChainInv, NewVersionRow
  <2>3. answer'.value = q.value
    BY <1>1, AnswersFacts
  <2>4. QED
    BY <1>2, <2>1, <2>2, <2>3 DEF AnswerIsCurrent, CurrentVersion
<1>8. QED
  BY <1>5, <1>6, <1>7 DEF ChainInv

-----------------------------------------------------------------------------
(* The theorems *)

\* The empty chain satisfies the invariant.
LEMMA ChainInitEstablishes == ChainInit => ChainInv
BY DEF ChainInit, ChainInv, ChainTypeOK, OneChain, ReceiptsUnique, EvidenceIsOld,
       ReceiptsAreAnswered, AnswersAreRecorded, AnswerIsCurrent, NoAnswer

\* One step preserves the invariant, and the history.
LEMMA ChainStepPreserves ==
    ChainInv /\ [ChainNext]_chainVars => ChainInv' /\ (HistoryStep \/ UNCHANGED chainVars)
<1> SUFFICES ASSUME ChainInv, [ChainNext]_chainVars
             PROVE  ChainInv' /\ (HistoryStep \/ UNCHANGED chainVars)
  OBVIOUS
<1>1. CASE ChainNext
  <2>1. PICK q : Requested(q) /\ AppendVersion(q)
    BY <1>1, StepIsRequest
  <2>2. CASE ReplayKey(q) \/ ReplayEvidence(q)
    <3>1. versions' = versions
      BY <2>2 DEF ReplayKey, ReplayEvidence
    <3>2. QED
      BY <2>1, <2>2, <3>1, ReplayPreserves DEF HistoryStep
  <2>3. CASE NoOp(q)
    <3>1. versions' = versions
      BY <2>3 DEF NoOp
    <3>2. QED
      BY <2>1, <2>3, <3>1, NoOpPreserves DEF HistoryStep
  <2>4. CASE NewVersion(q)
    BY <2>1, <2>4, NewVersionPreserves, NewVersionKeepsHistory
  <2>5. QED
    BY <2>1, <2>2, <2>3, <2>4 DEF AppendVersion
<1>2. CASE UNCHANGED chainVars
  BY <1>2 DEF chainVars, ChainInv, ChainTypeOK, OneChain, ReceiptsUnique, EvidenceIsOld,
              ReceiptsAreAnswered, AnswersAreRecorded, AnswerIsCurrent, CurrentVersion
<1>3. QED
  BY <1>1, <1>2

\* The inductive invariant holds in every reachable state.
THEOREM ChainInvariant == ChainSpec => []ChainInv
<1>1. ChainInit => ChainInv
  BY ChainInitEstablishes
<1>2. ChainInv /\ [ChainNext]_chainVars => ChainInv'
  BY ChainStepPreserves
<1>3. QED
  BY <1>1, <1>2, PTL DEF ChainSpec

\* Tables and answers keep their types (memory_versions,
\* memory_version_receipts and their foreign keys).
THEOREM ChainTypes == ChainSpec => []ChainTypeOK
<1>1. ChainInv => ChainTypeOK
  BY DEF ChainInv
<1>2. QED
  BY <1>1, ChainInvariant, PTL

\* _append_preference_version keeps the chain linear, with one current version.
THEOREM ChainIsLinear == ChainSpec => []OneChain
<1>1. ChainInv => OneChain
  BY DEF ChainInv
<1>2. QED
  BY <1>1, ChainInvariant, PTL

\* A version that is written keeps its value and its links for ever.
THEOREM HistoryIsKept == ChainSpec => HistoryKept
<1>1. ChainInv /\ [ChainNext]_chainVars => HistoryStep \/ UNCHANGED chainVars
  BY ChainStepPreserves
<1>2. QED
  BY <1>1, ChainInvariant, PTL DEF ChainSpec, HistoryKept, HistoryStep

\* When a key was used for one request only, the receipts of all its answers
\* are the same: the one with the key has the evidence of the request.
LEMMA OneRequestOneReceipt ==
  ASSUME ChainInv, NEW x \in RequestKeys,
         \A u, w \in answered[x] : u.request = w.request /\ u.events = w.events,
         NEW u \in answered[x], NEW w \in answered[x]
  PROVE  u.version = w.version
<1> DEFINE Keyed(r) == r.key = x
           ByEvidence(r, y) == \E v \in Values : Asked(y, v) /\ r.evidence = EvidenceOf(v, y.events)
<1>1. PICK r \in versionReceipts : r.version = u.version /\ (Keyed(r) \/ ByEvidence(r, u))
  BY DEF ChainInv, AnswersAreRecorded
<1>2. PICK o \in versionReceipts : o.version = w.version /\ (Keyed(o) \/ ByEvidence(o, w))
  BY DEF ChainInv, AnswersAreRecorded
<1>3. ASSUME NEW k \in versionReceipts, NEW l \in versionReceipts, NEW y \in answered[x],
             Keyed(k), ByEvidence(l, y)
      PROVE  k = l
  <2>1. PICK v \in Values : Asked(y, v) /\ l.evidence = EvidenceOf(v, y.events)
    BY <1>3
  <2>2. PICK z \in answered[x] :
           \A a \in Values : Asked(z, a) => k.evidence = EvidenceOf(a, z.events)
    BY <1>3 DEF ChainInv, ReceiptsAreAnswered
  <2>3. z.request = y.request /\ z.events = y.events
    OBVIOUS
  <2>4. k.evidence = l.evidence
    BY <2>1, <2>2, <2>3 DEF Asked
  <2>5. QED
    BY <2>4 DEF ChainInv, ReceiptsUnique
<1>4. CASE Keyed(r) /\ Keyed(o)
  BY <1>1, <1>2, <1>4 DEF ChainInv, ReceiptsUnique
<1>5. CASE Keyed(r) /\ ByEvidence(o, w)
  BY <1>1, <1>2, <1>3, <1>5
<1>6. CASE ByEvidence(r, u) /\ Keyed(o)
  BY <1>1, <1>2, <1>3, <1>6
<1>7. CASE ByEvidence(r, u) /\ ByEvidence(o, w)
  <2>1. u.request = w.request /\ u.events = w.events
    OBVIOUS
  <2>2. r.evidence = o.evidence
    BY <1>7, <2>1 DEF Asked
  <2>3. QED
    BY <1>1, <1>2, <2>2 DEF ChainInv, ReceiptsUnique
<1>8. QED
  BY <1>1, <1>2, <1>4, <1>5, <1>6, <1>7

\* A fresh answer tells of the current version, and a request repeated late is
\* answered as it was at first.
THEOREM AnswersHold == ChainSpec => []EveryAnswerHolds
<1>1. ASSUME ChainInv PROVE EveryAnswerHolds
  <2>1. ASSUME NEW x \in RequestKeys,
               \A u, w \in answered[x] : u.request = w.request /\ u.events = w.events,
               NEW u \in answered[x], NEW w \in answered[x]
        PROVE  u.version = w.version
    BY <1>1, <2>1, OneRequestOneReceipt
  <2>2. answer.kind \in {"created", "no_op"} =>
          /\ answer.version = CurrentVersion
          /\ versions[answer.version].value = answer.value
    BY <1>1 DEF ChainInv, AnswerIsCurrent
  <2>3. QED
    BY <2>1, <2>2 DEF EveryAnswerHolds
<1>2. QED
  BY <1>1, ChainInvariant, PTL

\* The triggers and unique indexes abort no request that the checks of
\* _append_preference_version let through.
THEOREM NothingAborts == ChainSpec => []ConstraintsNeverBite
BY InvariantForbidsAborts, ChainInvariant, PTL

-----------------------------------------------------------------------------
(* The gates between an event and its candidates                           *)

\* The rules of the pipeline are those of the other policies.
LEMMA SameDecision ==
  ASSUME NEW rules
  PROVE  Pipeline!Decision(rules) = Decision(rules)
BY DEF Pipeline!Decision, Decision

\* What the admission of the pipeline asks of an event before anything of kind k
\* is extracted from it.
LEMMA AdmissionAsks ==
  ASSUME NEW r, NEW user, NEW k, k \in Pipeline!Decide(r, user).kinds
  PROVE  /\ user = r.event.user
         /\ ~r.event.ignore
         /\ ~r.gate
         /\ r.event.status \notin {"ignored", "cancelled", "timeout"}
         /\ r.event.status = "failed" => k = "failure_experience"
<1> DEFINE e == r.event
           rules == <<
      Pipeline!Rule(user # e.user, Pipeline!Rejected("user_id_mismatch")),
      Pipeline!Rule(e.ignore, Pipeline!Rejected("event_should_ignore")),
      Pipeline!Rule(e.status = "ignored", Pipeline!Rejected("event_status_ignored")),
      Pipeline!Rule(r.gate, Pipeline!Rejected("security_gate_triggered")),
      Pipeline!Rule(e.sens \in {"high", "critical"}, Pipeline!Rejected("event_sensitive")),
      Pipeline!Rule(e.src = "tool_result" /\ ~e.checked,
                    Pipeline!Rejected("tool_payload_unchecked")),
      Pipeline!Rule(e.status \in {"cancelled", "timeout"},
                    Pipeline!Rejected("event_status_unfinished")),
      Pipeline!Rule(~r.eligible, [decision |-> "audit_only", why |-> "quality_not_eligible",
                                  kinds |-> {}]),
      Pipeline!Rule(e.status = "failed",
                    Pipeline!Allowed("failed_tool", {"failure_experience"})),
      Pipeline!Rule(e.status = "partial", Pipeline!Allowed("partial", {"preference"})),
      Pipeline!Rule(TRUE, Pipeline!Allowed("ok", Pipeline!Kinds)) >>
<1>1. Pipeline!Decide(r, user) = Decision(rules)
  <2>1. Pipeline!Rejected("consent_not_granted").kinds = {}
    BY DEF Pipeline!Rejected
  <2>2. Pipeline!Decide(r, user) = Pipeline!Admission(r, user)
    BY <2>1 DEF Pipeline!Decide
  <2>3. Pipeline!Admission(r, user) = Pipeline!Decision(rules)
    BY DEF Pipeline!Admission
  <2>4. QED
    BY <2>2, <2>3, SameDecision
<1>2. /\ DOMAIN rules = 1 .. 11
      /\ rules[1].when = (user # e.user)
      /\ rules[2].when = e.ignore
      /\ rules[3].when = (e.status = "ignored")
      /\ rules[4].when = r.gate
      /\ rules[7].when = (e.status \in {"cancelled", "timeout"})
      /\ rules[9].when = (e.status = "failed")
      /\ rules[11].when
  BY DEF Pipeline!Rule
<1>3. \A i \in 1 .. 8 : rules[i].then.kinds = {}
  BY DEF Pipeline!Rule, Pipeline!Rejected
<1>4. rules[9].then.kinds = {"failure_experience"}
  BY DEF Pipeline!Rule, Pipeline!Allowed
<1> HIDE DEF rules
<1>5. PICK i : Decides(rules, 11, i)
  <2>1. 11 \in Nat /\ 11 \in 1 .. 11
    OBVIOUS
  <2>2. QED
    BY <1>2, <2>1, DecisionIs
<1>6. i \in 1 .. 11 /\ Decision(rules) = rules[i].then
      /\ \A j \in 1 .. 11 : j < i => ~rules[j].when
  BY <1>5 DEF Decides
<1>7. i \notin 1 .. 8
  BY <1>1, <1>3, <1>6
<1>8. /\ ~rules[1].when /\ ~rules[2].when /\ ~rules[3].when /\ ~rules[4].when /\ ~rules[7].when
      /\ i # 9 => ~rules[9].when
  BY <1>6, <1>7
<1>9. i = 9 => k = "failure_experience"
  BY <1>1, <1>4, <1>6
<1>10. QED
  BY <1>2, <1>8, <1>9

\* The scan raises the level of an event and touches nothing else the gates ask.
LEMMA ScanRaises ==
  ASSUME NEW e \in SourceEvents
  PROVE  /\ Pipeline!Scanned(e).user = e.user
         /\ Pipeline!Scanned(e).ignore = e.ignore
         /\ Pipeline!Scanned(e).status = e.status
         /\ e.sens \in {"high", "critical"} =>
              Pipeline!Scanned(e).sens \in {"high", "critical"}
<1> DEFINE level == TextLevel[e.content]
<1>1. /\ {"user", "ignore", "status", "sens"} \subseteq DOMAIN e
      /\ level \in Pipeline!Levels
  BY PolicyAssumption
<1> HIDE DEF level
<1>2. CASE level = "none"
  BY <1>2 DEF Pipeline!Scanned, level
<1>3. CASE level # "none"
  <2> DEFINE sens == IF Pipeline!Rank[level] > Pipeline!Rank[e.sens] THEN level ELSE e.sens
             f == [e EXCEPT !.matched = TRUE, !.sens = sens]
  <2>1. Pipeline!Scanned(e) = [e EXCEPT !.matched = TRUE,
          !.sens = IF Pipeline!Rank[level] > Pipeline!Rank[@] THEN level ELSE @]
    BY <1>3 DEF Pipeline!Scanned, level
  <2>2. Pipeline!Scanned(e) = f
    BY <2>1
  <2>3. e.sens \in {"high", "critical"} => sens \in {"high", "critical"}
    BY <1>1 DEF Pipeline!Levels, Pipeline!Rank
  <2> HIDE DEF sens
  <2>4. f.user = e.user /\ f.ignore = e.ignore /\ f.status = e.status /\ f.sens = sens
    BY <1>1
  <2>5. QED
    BY <2>2, <2>3, <2>4
<1>4. QED
  BY <1>2, <1>3

\* An event that nothing objects to.
LEMMA NoObjectionAdmits ==
  ASSUME NEW c, NEW e, NEW user,
         c.source = e.id, user = e.user, ~e.ignore,
         e.status \notin {"ignored", "cancelled", "timeout"},
         e.sens \notin {"high", "critical"},
         e.status = "failed" => c.kind # "preference" /\ c.category = "failure_experience"
  PROVE  EventRefusal(c, e, user) = Admitted
<1> DEFINE rules == <<
  Rule(c.source # e.id, "source_event_id_mismatch"),
  Rule(user # e.user, "user_id_mismatch"),
  Rule(e.ignore, "event_should_ignore"),
  Rule(e.status = "ignored", "event_status_ignored"),
  Rule(e.sens \in {"high", "critical"}, "event_sensitive_blocked"),
  Rule(e.status = "cancelled", "event_status_cancelled"),
  Rule(e.status = "timeout", "event_status_timeout"),
  Rule(e.status = "failed" /\ c.kind = "preference", "failed_event_preference_blocked"),
  Rule(e.status = "failed" /\ c.category # "failure_experience",
       "failed_event_success_knowledge_forbidden"),
  Rule(TRUE, Admitted) >>
<1>1. EventRefusal(c, e, user) = Decision(rules)
  BY DEF EventRefusal
<1>2. /\ DOMAIN rules = 1 .. 10
      /\ rules[1].when = (c.source # e.id)
      /\ rules[2].when = (user # e.user)
      /\ rules[3].when = e.ignore
      /\ rules[4].when = (e.status = "ignored")
      /\ rules[5].when = (e.sens \in {"high", "critical"})
      /\ rules[6].when = (e.status = "cancelled")
      /\ rules[7].when = (e.status = "timeout")
      /\ rules[8].when = (e.status = "failed" /\ c.kind = "preference")
      /\ rules[9].when = (e.status = "failed" /\ c.category # "failure_experience")
      /\ rules[10].when /\ rules[10].then = Admitted
  BY DEF Rule
<1> HIDE DEF rules
<1>3. PICK i : Decides(rules, 10, i)
  <2>1. 10 \in Nat /\ 10 \in 1 .. 10
    OBVIOUS
  <2>2. QED
    BY <1>2, <2>1, DecisionIs
<1>4. i \in 1 .. 10 /\ rules[i].when /\ Decision(rules) = rules[i].then
  BY <1>3 DEF Decides
<1>5. /\ ~rules[1].when /\ ~rules[2].when /\ ~rules[3].when /\ ~rules[4].when
      /\ ~rules[5].when /\ ~rules[6].when /\ ~rules[7].when /\ ~rules[8].when
      /\ ~rules[9].when
  BY <1>2
<1>6. i = 10
  BY <1>4, <1>5
<1>7. QED
  BY <1>1, <1>2, <1>4, <1>6

\* Whatever the pipeline lets be extracted from an event, the governance admits.
LEMMA GatesMatch ==
  ASSUME NEW c, NEW e \in SourceEvents, NEW user, c.source = e.id,
         ExtractionKind(c) \in Pipeline!Decide(Pipeline!Process(e), user).kinds
  PROVE  EventRefusal(c, e, user) = Admitted
<1> DEFINE r == Pipeline!Process(e)
           s == Pipeline!Scanned(e)
<1>1. /\ user = r.event.user /\ ~r.event.ignore /\ ~r.gate
      /\ r.event.status \notin {"ignored", "cancelled", "timeout"}
      /\ r.event.status = "failed" => ExtractionKind(c) = "failure_experience"
  <2> HIDE DEF r
  <2>1. QED
    BY AdmissionAsks DEF r
<1>2. r.gate = Pipeline!SecurityGate(s)
      /\ r.event = IF Pipeline!SecurityGate(s)
                   THEN [s EXCEPT !.ignore = TRUE, !.status = "ignored"] ELSE s
  BY DEF Pipeline!Process
<1> HIDE DEF r, s
<1>3. ~Pipeline!SecurityGate(s) /\ r.event = s
  BY <1>1, <1>2
<1>4. s.sens \notin {"high", "critical"} /\ ~s.ignore
  BY <1>3 DEF Pipeline!SecurityGate
<1>5. /\ s.user = e.user /\ s.ignore = e.ignore /\ s.status = e.status
      /\ e.sens \in {"high", "critical"} => s.sens \in {"high", "critical"}
  BY ScanRaises DEF s
<1>6. ExtractionKind(c) = "failure_experience" =>
        c.kind # "preference" /\ c.category = "failure_experience"
  BY DEF ExtractionKind
<1>7. QED
  BY <1>1, <1>3, <1>4, <1>5, <1>6, NoObjectionAdmits

-----------------------------------------------------------------------------
(* What a caller reads of the chain                                        *)

\* Version n of the chain, as a caller reads it.
ReadRow(n) ==
  [id |-> <<Key, Scope, n>>, version |-> n, value |-> versions[n].value, user |-> User,
   key |-> Key, scope |-> Scope, status |-> versions[n].status]

\* Among the rows that are read, those of the chain are its versions.
LEMMA RowsOfChain ==
  ASSUME NEW extra \in SUBSET Elsewhere
  PROVE  InChain(Preferences \cup extra, User, Key, Scope)
           = {ReadRow(n) : n \in DOMAIN versions}
<1>1. Preferences = {ReadRow(n) : n \in DOMAIN versions}
  BY DEF Preferences, ReadRow
<1>2. \A n : ReadRow(n).user = User /\ ReadRow(n).key = Key /\ ReadRow(n).scope = Scope
  BY DEF ReadRow
<1>3. \A p \in extra : ~(p.user = User /\ p.key = Key /\ p.scope = Scope)
  BY PolicyAssumption
<1>4. QED
  BY <1>1, <1>2, <1>3 DEF InChain

\* The highest number read is the length of the chain.
LEMMA MaxVersionIs ==
  ASSUME ChainInv, NEW extra \in SUBSET Elsewhere
  PROVE  MaxVersion(Preferences \cup extra, User, Key, Scope) = Len(versions)
<1> DEFINE numbers == {p.version : p \in InChain(Preferences \cup extra, User, Key, Scope)}
<1>1. Len(versions) \in Nat /\ DOMAIN versions = 1..Len(versions)
  BY ChainFacts DEF ChainInv
<1>2. numbers = 1..Len(versions)
  <2>1. \A n : ReadRow(n).version = n
    BY DEF ReadRow
  <2>2. numbers = {p.version : p \in {ReadRow(n) : n \in DOMAIN versions}}
    BY RowsOfChain
  <2> HIDE DEF numbers
  <2>3. \A x : x \in numbers <=> x \in 1..Len(versions)
    BY <1>1, <2>1, <2>2
  <2>4. QED
    BY <2>3
<1>3. MaxVersion(Preferences \cup extra, User, Key, Scope)
        = IF numbers = {} THEN 0 ELSE CHOOSE n \in numbers : \A m \in numbers : m <= n
  BY DEF MaxVersion
<1> HIDE DEF numbers
<1>4. CASE Len(versions) = 0
  BY <1>2, <1>3, <1>4
<1>5. CASE Len(versions) # 0
  <2>1. Len(versions) \in numbers /\ \A m \in numbers : m <= Len(versions)
    BY <1>1, <1>2, <1>5
  <2>2. ASSUME NEW n \in numbers, \A m \in numbers : m <= n
        PROVE  n = Len(versions)
    <3>1. n \in 1..Len(versions) /\ Len(versions) <= n
      BY <1>2, <2>1, <2>2
    <3>2. Len(versions) \in Nat
      BY <1>1
    <3>3. n \in Nat /\ n <= Len(versions)
      BY <3>1, <3>2
    <3>4. QED
      BY <3>1, <3>2, <3>3
  <2>3. QED
    BY <1>3, <2>1, <2>2
<1>6. QED
  BY <1>4, <1>5

\* The active row that is read is the current version, or there is none.
LEMMA CurrentRowIs ==
  ASSUME ChainInv, NEW extra \in SUBSET Elsewhere
  PROVE  LET row == CurrentRow(Preferences \cup extra, User, Key, Scope) IN
         row # NoRow => /\ CurrentVersion # 0
                        /\ versions[CurrentVersion].status = "active"
                        /\ row = ReadRow(CurrentVersion)
<1> DEFINE active == {p \in InChain(Preferences \cup extra, User, Key, Scope) :
                        p.status = "active"}
           row == CurrentRow(Preferences \cup extra, User, Key, Scope)
<1>1. /\ Len(versions) \in Nat /\ DOMAIN versions = 1..Len(versions)
      /\ CurrentVersion = Len(versions)
      /\ \A n \in DOMAIN versions : n < Len(versions) => versions[n].status = "superseded"
  BY ChainFacts DEF ChainInv, OneChain
<1>2. \A p \in active : /\ p = ReadRow(Len(versions))
                        /\ Len(versions) # 0 /\ versions[Len(versions)].status = "active"
  <2>1. \A n : ReadRow(n).status = versions[n].status
    BY DEF ReadRow
  <2>2. \A p \in active : \E n \in DOMAIN versions :
          p = ReadRow(n) /\ versions[n].status = "active"
    <3>1. active = {p \in {ReadRow(n) : n \in DOMAIN versions} : p.status = "active"}
      BY RowsOfChain
    <3> HIDE DEF active
    <3>2. QED
      BY <2>1, <3>1
  <2>3. \A n \in DOMAIN versions : versions[n].status = "active" => n = Len(versions)
    BY <1>1
  <2>4. QED
    BY <1>1, <2>2, <2>3
<1>3. row = IF active = {} THEN NoRow
            ELSE CHOOSE p \in active : \A o \in active : o.version <= p.version
  BY DEF CurrentRow
<1> HIDE DEF row, active
<1>4. ASSUME active # {} PROVE row \in active
  <2>1. PICK p \in active : TRUE
    BY <1>4
  <2>2. p.version = Len(versions)
    BY <1>2 DEF ReadRow
  <2>3. \A o \in active : o.version <= p.version
    BY <1>1, <1>2, <2>2
  <2>4. QED
    BY <1>3, <1>4, <2>3
<1>5. row # NoRow => row \in active
  BY <1>3, <1>4
<1>6. row # NoRow => /\ CurrentVersion # 0
                     /\ versions[CurrentVersion].status = "active"
                     /\ row = ReadRow(CurrentVersion)
  BY <1>1, <1>2, <1>5
<1>7. QED
  BY <1>6 DEF row

-----------------------------------------------------------------------------
(* The plans                                                               *)

\* The fields of a plan with numbers.
LEMMA PlanFields ==
  ASSUME NEW action, NEW why
  PROVE  /\ Plan(action, why).action = action
         /\ \A n, m : LET p == [Plan(action, why) EXCEPT !.next = n, !.previous = m] IN
                      p.action = action /\ p.next = n /\ p.previous = m
         /\ \A n : LET p == [Plan(action, why) EXCEPT !.next = n] IN
                   p.action = action /\ p.next = n
         /\ \A n : LET p == [Plan(action, why) EXCEPT !.target = n] IN
                   p.action = action /\ p.target = n
BY DEF Plan

\* What a plan for the write of a value says, on the chain as it is read.
LEMMA WritePlanIs ==
  ASSUME ChainInv, NEW extra \in SUBSET Elsewhere, NEW v, NEW decision
  PROVE  LET plan == PlanPreference(Intent(User, Key, Scope, v, decision), Preferences \cup extra)
             asked == WriteRequest("update", v, "active", NoEvents, NoKey)
         IN /\ plan.action \in Actions \ {"rollback"}
            /\ plan.action = "update" => /\ plan.next = Len(versions) + 1
                                         /\ plan.previous = CurrentVersion
                                         /\ ~IsNoOp(asked)
            /\ plan.action = "no_op" => IsNoOp(asked)
            /\ plan.action \in {"create", "coexist"} => plan.next = 1
<1> DEFINE P == Preferences \cup extra
           q == Intent(User, Key, Scope, v, decision)
           asked == WriteRequest("update", v, "active", NoEvents, NoKey)
           current == CurrentRow(P, User, Key, Scope)
           rules == <<
             Rule(~q.decision.store, Rejected("rejected_not_persistable")),
             Rule(\E p \in P : p.user # q.user, Rejected("rejected_cross_user")),
             Rule(q.decision.key # q.key \/ q.decision.scope # q.scope,
                  Rejected("rejected_intent_decision_inconsistent")),
             Rule(current # NoRow /\ current.value = q.value, NoOpPlan),
             Rule(current # NoRow, UpdatePlan(q, P)),
             Rule(ScopesBeside(P, q.user, q.key, q.scope) # {},
                  [Plan("coexist", "coexist_different_scope") EXCEPT !.next = 1]),
             Rule(TRUE, [Plan("create", "create_first_version") EXCEPT !.next = 1]) >>
           plan == PlanPreference(q, P)
<1>1. q.user = User /\ q.key = Key /\ q.scope = Scope /\ q.value = v
  BY DEF Intent
<1>2. current # NoRow => /\ CurrentVersion # 0
                         /\ versions[CurrentVersion].status = "active"
                         /\ current.value = versions[CurrentVersion].value
                         /\ current.version = CurrentVersion
  BY CurrentRowIs DEF ReadRow
<1>3. MaxVersion(P, User, Key, Scope) = Len(versions)
  BY MaxVersionIs
<1>4. asked.kind = "write" /\ asked.value = v /\ asked.status = "active"
  BY DEF WriteRequest
<1> HIDE DEF P, asked
<1>5. plan = Decision(rules)
  <2> HIDE DEF q
  <2>1. CurrentRow(P, q.user, q.key, q.scope) = current
    BY <1>1
  <2>2. QED
    BY <2>1 DEF PlanPreference
<1>6. /\ DOMAIN rules = 1 .. 7
      /\ rules[4].when = (current # NoRow /\ current.value = q.value)
      /\ rules[5].when = (current # NoRow)
      /\ rules[7].when
  BY DEF Rule
<1>7. /\ rules[1].then = Rejected("rejected_not_persistable")
      /\ rules[2].then = Rejected("rejected_cross_user")
      /\ rules[3].then = Rejected("rejected_intent_decision_inconsistent")
      /\ rules[4].then = NoOpPlan
      /\ rules[5].then = UpdatePlan(q, P)
      /\ rules[6].then = [Plan("coexist", "coexist_different_scope") EXCEPT !.next = 1]
      /\ rules[7].then = [Plan("create", "create_first_version") EXCEPT !.next = 1]
  BY DEF Rule
<1> HIDE DEF rules, plan, q
<1>8. PICK i : Decides(rules, 7, i)
  <2>1. 7 \in Nat /\ 7 \in 1 .. 7
    OBVIOUS
  <2>2. QED
    BY <1>6, <2>1, DecisionIs
<1>9. /\ i \in 1 .. 7 /\ rules[i].when /\ plan = rules[i].then
      /\ \A j \in 1 .. 7 : j < i => ~rules[j].when
  BY <1>5, <1>8 DEF Decides
<1>10. CASE i \in {1, 2, 3}
  <2>1. plan.action = "rejected"
    BY <1>7, <1>9, <1>10, PlanFields DEF Rejected
  <2>2. QED
    BY <2>1 DEF Actions, plan, asked, q, P
<1>11. CASE i = 4
  <2>1. plan.action = "no_op"
    BY <1>7, <1>9, <1>11, PlanFields DEF NoOpPlan
  <2>2. rules[4].when
    BY <1>9, <1>11
  <2>3. IsNoOp(asked)
    BY <1>1, <1>2, <1>4, <1>6, <2>2 DEF IsNoOp
  <2>4. QED
    BY <2>1, <2>3 DEF Actions, plan, asked, q, P
<1>12. CASE i = 5
  <2>1. plan = UpdatePlan(q, P)
    BY <1>7, <1>9, <1>12
  <2>2. plan.action = "update" /\ plan.next = Len(versions) + 1
        /\ plan.previous = current.version
    <3>1. UpdatePlan(q, P) = [Plan("update", "update_value_changed") EXCEPT
                                !.next = Len(versions) + 1, !.previous = current.version]
      BY <1>1, <1>3 DEF UpdatePlan
    <3> HIDE DEF current
    <3>2. QED
      BY <2>1, <3>1, PlanFields
  <2>3. rules[5].when /\ ~rules[4].when
    BY <1>9, <1>12
  <2>4. ~IsNoOp(asked) /\ plan.previous = CurrentVersion
    BY <1>1, <1>2, <1>4, <1>6, <2>2, <2>3 DEF IsNoOp
  <2>5. QED
    BY <2>2, <2>4 DEF Actions, plan, asked, q, P
<1>13. CASE i = 6
  <2>1. plan = [Plan("coexist", "coexist_different_scope") EXCEPT !.next = 1]
    BY <1>7, <1>9, <1>13
  <2>2. plan.action = "coexist" /\ plan.next = 1
    BY <2>1, PlanFields
  <2>3. QED
    BY <2>2 DEF Actions, plan, asked, q, P
<1>14. CASE i = 7
  <2>1. plan = [Plan("create", "create_first_version") EXCEPT !.next = 1]
    BY <1>7, <1>9, <1>14
  <2>2. plan.action = "create" /\ plan.next = 1
    BY <2>1, PlanFields
  <2>3. QED
    BY <2>2 DEF Actions, plan, asked, q, P
<1>15. QED
  <2>1. i \in {1, 2, 3} \/ i = 4 \/ i = 5 \/ i = 6 \/ i = 7
    BY <1>9
  <2>2. QED
    BY <2>1, <1>10, <1>11, <1>12, <1>13, <1>14

\* A plan to roll back names a version that may be restored.
LEMMA RollbackPlanIs ==
  ASSUME ChainInv, NEW extra \in SUBSET Elsewhere, NEW user, NEW n \in 1..MaxVersions
  PROVE  LET plan == PlanRollback(user, <<Key, Scope, n>>, Preferences \cup extra) IN
         /\ plan.action \in {"rejected", "rollback"}
         /\ plan.action = "rollback" => plan.target \in DOMAIN versions /\ MayRestore(plan.target)
<1> DEFINE P == Preferences \cup extra
           id == <<Key, Scope, n>>
           target == ById(P, id)
           current == CurrentRow(P, user, target.key, target.scope)
           crossed == \E p \in P : p.user # user
           rules == <<
             Rule(target = NoRow, Rejected("rejected_rollback_target_not_found")),
             Rule(crossed, Rejected("rejected_cross_user")),
             Rule(current = NoRow /\ AnyActive(P, user),
                  Rejected("rejected_rollback_unrelated_version")),
             Rule(current = NoRow, Rejected("rejected_no_active_chain")),
             Rule(~IsHistory(target, current),
                  Rejected("rejected_rollback_future_or_current_version")),
             Rule(TRUE, [Plan("rollback", "rollback_to_history_version") EXCEPT
                           !.target = target.version]) >>
           plan == PlanRollback(user, id, P)
<1>1. plan = Decision(rules)
  BY DEF PlanRollback
<1>2. target # NoRow => n \in DOMAIN versions /\ target = ReadRow(n)
  <2>1. \A p \in P : p.id = id => n \in DOMAIN versions /\ p = ReadRow(n)
    <3>1. \A p \in extra : p.id # id
      BY PolicyAssumption
    <3>2. ASSUME NEW m \in DOMAIN versions, ReadRow(m).id = id PROVE m = n
      BY <3>2 DEF ReadRow
    <3>3. Preferences = {ReadRow(m) : m \in DOMAIN versions}
      BY DEF Preferences, ReadRow
    <3>4. QED
      BY <3>1, <3>2, <3>3
  <2> HIDE DEF P, id
  <2>2. QED
    BY <2>1 DEF ById
<1> HIDE DEF target, current, crossed, P, id
<1>3. /\ DOMAIN rules = 1 .. 6
      /\ rules[1].when = (target = NoRow)
      /\ rules[2].when = crossed
      /\ rules[4].when = (current = NoRow)
      /\ rules[5].when = (~IsHistory(target, current))
      /\ rules[6].when
  BY DEF Rule
<1>4. /\ rules[1].then = Rejected("rejected_rollback_target_not_found")
      /\ rules[2].then = Rejected("rejected_cross_user")
      /\ rules[3].then = Rejected("rejected_rollback_unrelated_version")
      /\ rules[4].then = Rejected("rejected_no_active_chain")
      /\ rules[5].then = Rejected("rejected_rollback_future_or_current_version")
      /\ rules[6].then = [Plan("rollback", "rollback_to_history_version") EXCEPT
                            !.target = target.version]
  BY DEF Rule
<1> HIDE DEF rules, plan
<1>5. PICK i : Decides(rules, 6, i)
  <2>1. 6 \in Nat /\ 6 \in 1 .. 6
    OBVIOUS
  <2>2. QED
    BY <1>3, <2>1, DecisionIs
<1>6. /\ i \in 1 .. 6 /\ plan = rules[i].then
      /\ \A j \in 1 .. 6 : j < i => ~rules[j].when
  BY <1>1, <1>5 DEF Decides
<1>7. CASE i \in 1 .. 5
  <2>1. plan.action = "rejected"
    <3>1. \A why : Rejected(why).action = "rejected"
      BY PlanFields DEF Rejected
    <3>2. \A j \in 1 .. 5 : rules[j].then.action = "rejected"
      BY <1>4, <3>1
    <3>3. QED
      BY <1>6, <1>7, <3>2
  <2>2. QED
    BY <2>1 DEF plan, id, P
<1>8. CASE i = 6
  <2>1. ~rules[1].when /\ ~rules[2].when /\ ~rules[4].when /\ ~rules[5].when
    BY <1>6, <1>8
  <2>2. n \in DOMAIN versions /\ target = ReadRow(n)
    BY <1>2, <1>3, <2>1
  <2>3. user = User
    <3>1. ReadRow(n) \in P /\ ReadRow(n).user = User
      BY <2>2 DEF Preferences, ReadRow, P
    <3>2. QED
      BY <1>3, <2>1, <3>1 DEF crossed
  <2>4. target.version = n /\ target.key = Key /\ target.scope = Scope
    BY <2>2 DEF ReadRow
  <2>5. current # NoRow /\ IsHistory(target, current)
    BY <1>3, <2>1
  <2>6. current = CurrentRow(P, User, Key, Scope)
    BY <2>3, <2>4 DEF current
  <2>7. CurrentVersion # 0 /\ current = ReadRow(CurrentVersion)
    BY <2>5, <2>6, CurrentRowIs DEF P
  <2>8. n < CurrentVersion
    BY <2>4, <2>5, <2>7 DEF IsHistory, ReadRow
  <2>9. plan.action = "rollback" /\ plan.target = n
    <3>1. plan = [Plan("rollback", "rollback_to_history_version") EXCEPT !.target = n]
      BY <1>4, <1>6, <1>8, <2>4
    <3>2. QED
      BY <3>1, PlanFields
  <2>10. QED
    BY <2>2, <2>7, <2>8, <2>9 DEF MayRestore, plan, id, P
<1>9. QED
  <2>1. i \in 1 .. 5 \/ i = 6
    BY <1>6
  <2>2. QED
    BY <2>1, <1>7, <1>8

-----------------------------------------------------------------------------
(* The flow of a candidate                                                 *)

\* A request leaves the chain, or a longer one.
LEMMA RequestGrows ==
  ASSUME ChainInv, NEW q, Requested(q), AppendVersion(q)
  PROVE  /\ ChainInv'
         /\ \/ UNCHANGED <<versions, pointer>>
            \/ Len(versions') = Len(versions) + 1
<1>1. CASE ReplayKey(q) \/ ReplayEvidence(q)
  BY <1>1, ReplayPreserves DEF ReplayKey, ReplayEvidence
<1>2. CASE NoOp(q)
  BY <1>2, NoOpPreserves DEF NoOp
<1>3. CASE NewVersion(q)
  BY <1>3, NewVersionPreserves, AppendedChain
<1>4. QED
  BY <1>1, <1>2, <1>3 DEF AppendVersion

\* What is carried out is one of the requests of the store.
LEMMA CarryOutIsRequest ==
  ASSUME FlowInv, CarryOut
  PROVE  \E q : Requested(q) /\ AppendVersion(q)
<1>1. "active" \in SentStatuses
  BY PolicyAssumption
<1>2. flow # NoFlow /\ flow.stage = "planned"
  BY DEF CarryOut, NoFlow
<1>3. flow.plan.action \in {"create", "coexist", "update"} => flow.value \in Values
  BY <1>2 DEF FlowInv
<1>4. ASSUME NEW op \in {"create", "update"}, flow.value \in Values,
             AppendVersion(WriteRequest(op, flow.value, "active", NoEvents, NoKey))
      PROVE  \E q : Requested(q) /\ AppendVersion(q)
  <2>1. Requested(WriteRequest(op, flow.value, "active", NoEvents, NoKey))
    BY <1>1, <1>4 DEF Requested
  <2>2. QED
    BY <1>4, <2>1
<1>5. CASE Rollback(flow.plan.target, NoKey)
  <2>1. Requested(RollbackRequest(flow.plan.target, NoKey))
    BY <1>5 DEF Requested, Rollback
  <2>2. QED
    BY <1>5, <2>1 DEF Rollback
<1>6. QED
  BY <1>3, <1>4, <1>5 DEF CarryOut, Create, Update

\* A candidate or a plan outlives the requests of others.
LEMMA FlowStands ==
  ASSUME ChainInv, ChainInv', FlowInv, UNCHANGED flow,
         UNCHANGED <<versions, pointer>> \/ Len(versions') = Len(versions) + 1
  PROVE  FlowInv'
<1>1. CASE flow = NoFlow \/ flow.stage = "judged"
  BY <1>1 DEF FlowInv, NoFlow
<1>2. CASE flow # NoFlow /\ flow.stage = "planned"
  <2>1. /\ flow.plan.action \in Actions
        /\ flow.read \in 0..Len(versions)
        /\ flow.plan.action \in {"create", "coexist", "update"} => flow.value \in Values
        /\ flow.plan.action \in {"create", "coexist"} => flow.plan.next = 1
        /\ flow.plan.action = "update" => flow.plan.next = flow.read + 1
        /\ PlanFits
    BY <1>2 DEF FlowInv
  <2>2. /\ Len(versions) \in Nat /\ Len(versions') \in Nat
        /\ DOMAIN versions = 1..Len(versions) /\ DOMAIN versions' = 1..Len(versions')
        /\ CurrentVersion = Len(versions) /\ CurrentVersion' = Len(versions')
    <3>1. /\ Len(versions) \in Nat /\ DOMAIN versions = 1..Len(versions)
          /\ CurrentVersion = Len(versions)
      BY ChainFacts DEF ChainInv
    <3>2. versions' \in Seq(Version) /\ OneChain'
      BY DEF ChainInv, ChainTypeOK
    <3>3. Len(versions') \in Nat /\ DOMAIN versions' = 1..Len(versions')
      BY <3>2
    <3>4. CurrentVersion' = Len(versions')
      BY <3>2, <3>3 DEF CurrentVersion, OneChain
    <3>5. QED
      BY <3>1, <3>3, <3>4
  <2>3. CASE UNCHANGED <<versions, pointer>>
    <3>1. PlanFits'
      BY <2>1, <2>3 DEF PlanFits, Untouched, CurrentVersion, IsNoOp, MayRestore, Request,
                        WriteRequest, RollbackRequest
    <3>2. QED
      BY <1>2, <2>1, <2>3, <3>1 DEF FlowInv
  <2>4. CASE Len(versions') = Len(versions) + 1
    <3>1. /\ flow.read \in Nat /\ flow.read < Len(versions')
          /\ flow.read \in 0..Len(versions')
          /\ flow.read + 1 \in DOMAIN versions'
      BY <2>1, <2>2, <2>4
    <3>2. ~Untouched'
      <4>1. Len(versions') \in Nat
        BY <2>2
      <4>2. flow.read # Len(versions')
        BY <3>1, <4>1
      <4>3. flow' = flow
        OBVIOUS
      <4>4. QED
        BY <4>2, <4>3 DEF Untouched
    <3>3. flow.plan.action = "rollback" =>
            /\ flow.plan.target \in DOMAIN versions'
            /\ MayRestore(flow.plan.target)'
      <4>1. flow.plan.action = "rollback" =>
              flow.plan.target \in DOMAIN versions /\ flow.plan.target < CurrentVersion
        BY <1>2, <2>1 DEF PlanFits, MayRestore
      <4>2. \A t \in DOMAIN versions : t < CurrentVersion =>
              t \in DOMAIN versions' /\ CurrentVersion' # 0 /\ t < CurrentVersion'
        BY <2>2, <2>4
      <4>3. QED
        BY <4>1, <4>2 DEF MayRestore
    <3>4. flow.plan.action \in {"create", "coexist"} /\ flow.read = 0 =>
            flow.plan.next \in DOMAIN versions'
      BY <2>1, <3>1
    <3>5. PlanFits'
      BY <2>1, <3>1, <3>2, <3>3, <3>4 DEF PlanFits
    <3>6. QED
      BY <1>2, <2>1, <3>1, <3>5 DEF FlowInv
  <2>5. QED
    BY <2>3, <2>4
<1>3. QED
  BY <1>1, <1>2 DEF FlowInv

\* A plan that is made fits the chain it was made on.
LEMMA PlanWriteEstablishes ==
  ASSUME ChainInv, FlowInv, NEW extra \in SUBSET Elsewhere, PlanWrite(extra)
  PROVE  FlowInv'
<1>1. PICK v, decision, made :
        /\ v = BuildPreference(flow.candidate, flow.user).value
        /\ made = PlanPreference(Intent(User, Key, Scope, v, decision), Preferences \cup extra)
        /\ flow' = [stage |-> "planned", value |-> v, read |-> Len(versions), plan |-> made]
  BY DEF PlanWrite
<1> DEFINE asked == WriteRequest("update", v, "active", NoEvents, NoKey)
<1>2. v \in Values
  <2>1. flow.stage = "judged" /\ flow.candidate.kind = "preference"
    BY DEF PlanWrite
  <2>2. flow.candidate \in Candidates
    BY <2>1 DEF FlowInv, NoFlow
  <2>3. v = flow.candidate.value
    BY <1>1 DEF BuildPreference
  <2>4. QED
    BY <2>1, <2>2, <2>3, PolicyAssumption
<1>3. UNCHANGED <<versions, pointer>>
  BY DEF PlanWrite, chainVars
<1>4. /\ Len(versions) \in Nat /\ CurrentVersion = Len(versions)
      /\ DOMAIN versions = 1..Len(versions)
  BY ChainFacts DEF ChainInv
<1>5. /\ made.action \in Actions \ {"rollback"}
      /\ made.action = "update" => /\ made.next = Len(versions) + 1
                                   /\ made.previous = CurrentVersion
                                   /\ ~IsNoOp(asked)
      /\ made.action = "no_op" => IsNoOp(asked)
      /\ made.action \in {"create", "coexist"} => made.next = 1
  BY <1>1, WritePlanIs
<1>6. /\ flow'.stage = "planned" /\ flow'.value = v /\ flow'.read = Len(versions)
      /\ flow'.plan = made
  BY <1>1
<1>7. /\ made.action # "rollback" => Request' = asked
      /\ CurrentVersion' = CurrentVersion
  BY <1>3, <1>6 DEF Request, CurrentVersion, WriteRequest
<1> HIDE DEF asked
<1>8. made.action # "rollback" => (IsNoOp(Request)' <=> IsNoOp(asked))
  BY <1>3, <1>7 DEF IsNoOp
<1>9. Untouched'
  BY <1>3, <1>6 DEF Untouched
<1>10. PlanFits'
  BY <1>3, <1>4, <1>5, <1>6, <1>7, <1>8, <1>9 DEF PlanFits
<1>11. flow'.read \in 0..Len(versions')
  BY <1>3, <1>4, <1>6
<1>12. QED
  BY <1>2, <1>3, <1>5, <1>6, <1>10, <1>11 DEF FlowInv

LEMMA PlanRestoreEstablishes ==
  ASSUME ChainInv, NEW user, NEW n \in 1..MaxVersions, NEW extra \in SUBSET Elsewhere,
         PlanRestore(user, n, extra)
  PROVE  FlowInv'
<1>1. PICK made :
        /\ made = PlanRollback(user, <<Key, Scope, n>>, Preferences \cup extra)
        /\ flow' = [stage |-> "planned", value |-> "none", read |-> Len(versions), plan |-> made]
  BY DEF PlanRestore
<1>2. UNCHANGED <<versions, pointer>>
  BY DEF PlanRestore, chainVars
<1>3. Len(versions) \in Nat
  BY ChainFacts DEF ChainInv
<1>4. /\ made.action \in {"rejected", "rollback"}
      /\ made.action = "rollback" => made.target \in DOMAIN versions /\ MayRestore(made.target)
  BY <1>1, RollbackPlanIs
<1>5. flow'.stage = "planned" /\ flow'.read = Len(versions) /\ flow'.plan = made
  BY <1>1
<1>6. MayRestore(made.target)' <=> MayRestore(made.target)
  BY <1>2 DEF MayRestore, CurrentVersion
<1>7. PlanFits'
  BY <1>2, <1>4, <1>5, <1>6 DEF PlanFits
<1>8. flow'.read \in 0..Len(versions')
  BY <1>2, <1>3, <1>5
<1>9. QED
  BY <1>4, <1>5, <1>7, <1>8 DEF FlowInv, Actions

\* One step of the flow, or of anybody else, preserves both invariants.
LEMMA PolicyStepPreserves ==
  ASSUME ChainInv, FlowInv, [PolicyNext]_policyVars
  PROVE  ChainInv' /\ FlowInv'
<1>1. ASSUME UNCHANGED chainVars PROVE ChainInv'
  BY <1>1, ChainStepPreserves
<1>2. ASSUME NEW c \in Candidates, NEW e \in SourceEvents, NEW user, Judge(c, e, user)
      PROVE  ChainInv' /\ FlowInv'
  BY <1>1, <1>2 DEF Judge, FlowInv
<1>3. ASSUME NEW extra \in SUBSET Elsewhere, PlanWrite(extra)
      PROVE  ChainInv' /\ FlowInv'
  BY <1>1, <1>3, PlanWriteEstablishes DEF PlanWrite
<1>4. ASSUME NEW user, NEW n \in 1..MaxVersions, NEW extra \in SUBSET Elsewhere,
             PlanRestore(user, n, extra)
      PROVE  ChainInv' /\ FlowInv'
  BY <1>1, <1>4, PlanRestoreEstablishes DEF PlanRestore
<1>5. CASE CarryOut
  <2>1. flow' = NoFlow
    BY <1>5 DEF CarryOut
  <2>2. FlowInv'
    BY <2>1 DEF FlowInv
  <2>3. PICK q : Requested(q) /\ AppendVersion(q)
    BY <1>5, CarryOutIsRequest
  <2>4. QED
    BY <2>2, <2>3, RequestGrows
<1>6. CASE Drop
  BY <1>1, <1>6 DEF Drop, FlowInv
<1>7. CASE ChainNext /\ UNCHANGED flow
  <2>1. PICK q : Requested(q) /\ AppendVersion(q)
    BY <1>7, StepIsRequest
  <2>2. QED
    BY <1>7, <2>1, RequestGrows, FlowStands
<1>8. CASE UNCHANGED policyVars
  <2>1. ChainInv' /\ UNCHANGED flow /\ UNCHANGED <<versions, pointer>>
    BY <1>1, <1>8 DEF policyVars, chainVars
  <2>2. QED
    BY <2>1, FlowStands
<1>9. QED
  BY <1>2, <1>3, <1>4, <1>5, <1>6, <1>7, <1>8 DEF PolicyNext, FlowNext

\* The gates between an event and a preference agree, and a plan of the business
\* policies fits the store that carries it out, whatever was written since.
THEOREM PoliciesAgree == PolicySpec => []HandOversFit
<1>1. PolicyInit => ChainInv /\ FlowInv
  BY ChainInitEstablishes DEF PolicyInit, FlowInv
<1>2. ChainInv /\ FlowInv /\ [PolicyNext]_policyVars => ChainInv' /\ FlowInv'
  BY PolicyStepPreserves
<1>3. ASSUME FlowInv PROVE HandOversFit
  <2>1. GatesAgree
    <3>1. ASSUME flow.stage = "judged", flow.candidate.source = flow.event.id,
                 ExtractionKind(flow.candidate)
                   \in Pipeline!Decide(Pipeline!Process(flow.event), flow.user).kinds
          PROVE  EventRefusal(flow.candidate, flow.event, flow.user) = Admitted
      <4>1. flow.event \in SourceEvents
        BY <1>3, <3>1 DEF FlowInv, NoFlow
      <4>2. QED
        BY <3>1, <4>1, GatesMatch
    <3>2. QED
      BY <3>1 DEF GatesAgree
  <2>2. PlanFits
    BY <1>3 DEF FlowInv, NoFlow, PlanFits
  <2>3. QED
    BY <2>1, <2>2 DEF HandOversFit
<1>4. QED
  BY <1>1, <1>2, <1>3, PTL DEF PolicySpec

===============================================================================
