---------------------------- MODULE OutboxProofs ----------------------------
(***************************************************************************)
(* For every set of events, retry limit, back-off, batch limit and number  *)
(* of faults: the outbox loses no event, its dead letters are exhausted,   *)
(* redelivery is bounded, and it implements the delivery promise.          *)
(*                                                                         *)
(* For every set of requests, texts and deletions: what a consumer of its  *)
(* deletion events has emptied stays free of what was asked for before.    *)
(* And for every event and every answer of a model: what an extraction     *)
(* gives of them is fit to be used.                                        *)
(***************************************************************************)
EXTENDS Outbox, CacheInvalidator, FiniteSetTheorems, SequenceTheorems,
        WellFoundedInduction, TLAPS

-----------------------------------------------------------------------------
(* Orders, lists and rules                                                   *)

\* As many places as members, no two on the same: every place is taken.
LEMMA PlacesAreTaken ==
    ASSUME NEW S, IsFiniteSet(S), NEW p \in [S -> 1..Cardinality(S)],
           \A a \in S, b \in S : p[a] = p[b] => a = b
    PROVE  \A i \in 1..Cardinality(S) : \E a \in S : p[a] = i
<1> SUFFICES ASSUME NEW i \in 1..Cardinality(S), \A a \in S : p[a] # i PROVE FALSE
  OBVIOUS
<1> DEFINE n == Cardinality(S)
           T == (1..n) \ {i}
<1>1. n \in Nat
  BY FS_CardinalityType
<1>2. IsFiniteSet(1..n) /\ Cardinality(1..n) = n
  BY <1>1, FS_Interval
<1>3. IsFiniteSet(T) /\ Cardinality(T) = n - 1
  BY <1>2, FS_RemoveElement
<1>4. p \in [S -> T]
  OBVIOUS
<1>5. \E a, b \in S : a # b /\ p[a] = p[b]
  BY <1>1, <1>3, <1>4, FS_PigeonHole
<1>6. QED
  BY <1>5

\* A strict order of all members of a set.
OrdersAll(R, S) ==
    /\ \A a \in S : <<a, a>> \notin R
    /\ \A a, b, c \in S : <<a, b>> \in R /\ <<b, c>> \in R => <<a, c>> \in R
    /\ \A a, b \in S : a = b \/ <<a, b>> \in R \/ <<b, a>> \in R

\* Counting those before it gives every member of a finite ordered set a place of
\* its own.
LEMMA OrdersHavePlaces ==
    ASSUME NEW S, IsFiniteSet(S), NEW R, OrdersAll(R, S), NEW p,
           p = [m \in S |-> 1 + Cardinality({n \in S : <<n, m>> \in R})]
    PROVE  \A i \in 1..Cardinality(S) : \E a \in S : p[a] = i /\ \A b \in S : p[b] = i => a = b
<1> DEFINE Below(m) == {n \in S : <<n, m>> \in R}
<1> USE DEF OrdersAll
<1>1. ASSUME NEW m \in S
      PROVE  /\ IsFiniteSet(Below(m)) /\ Cardinality(Below(m)) \in Nat
             /\ Cardinality(Below(m)) < Cardinality(S)
  <2>1. IsFiniteSet(S \ {m}) /\ Cardinality(S \ {m}) = Cardinality(S) - 1
    BY FS_RemoveElement
  <2>2. Below(m) \subseteq S \ {m}
    OBVIOUS
  <2>3. IsFiniteSet(Below(m)) /\ Cardinality(Below(m)) <= Cardinality(S \ {m})
    BY <2>1, <2>2, FS_Subset
  <2>4. Cardinality(S) \in Nat /\ Cardinality(Below(m)) \in Nat
    BY <2>3, FS_CardinalityType
  <2>5. QED
    BY <2>1, <2>3, <2>4
<1>2. ASSUME NEW a \in S, NEW b \in S, <<a, b>> \in R
      PROVE  Cardinality(Below(a)) < Cardinality(Below(b))
  <2>1. a \in Below(b)
    BY <1>2
  <2>2. IsFiniteSet(Below(b) \ {a}) /\ Cardinality(Below(b) \ {a}) = Cardinality(Below(b)) - 1
    BY <1>1, <2>1, FS_RemoveElement
  <2>3. Below(a) \subseteq Below(b) \ {a}
    BY <1>2
  <2>4. Cardinality(Below(a)) <= Cardinality(Below(b) \ {a})
    BY <2>2, <2>3, FS_Subset
  <2>5. Cardinality(Below(a)) \in Nat /\ Cardinality(Below(b)) \in Nat
    BY <1>1
  <2>6. QED
    BY <2>2, <2>4, <2>5
<1>0. p = [m \in S |-> 1 + Cardinality(Below(m))]
  OBVIOUS
<1> HIDE DEF Below
<1>3. \A a, b \in S : p[a] = p[b] => a = b
  <2> SUFFICES ASSUME NEW a \in S, NEW b \in S, p[a] = p[b], a # b PROVE FALSE
    OBVIOUS
  <2>1. Cardinality(Below(a)) = Cardinality(Below(b))
    <3>1. p[a] = 1 + Cardinality(Below(a)) /\ p[b] = 1 + Cardinality(Below(b))
      BY <1>0
    <3>2. Cardinality(Below(a)) \in Nat /\ Cardinality(Below(b)) \in Nat
      BY <1>1
    <3>3. QED
      BY <3>1, <3>2
  <2>2. <<a, b>> \in R \/ <<b, a>> \in R
    OBVIOUS
  <2>3. Cardinality(Below(a)) \in Nat /\ Cardinality(Below(b)) \in Nat
    BY <1>1
  <2>4. QED
    BY <1>2, <2>1, <2>2, <2>3
<1>4. Cardinality(S) \in Nat
  BY FS_CardinalityType
<1>5. p \in [S -> 1..Cardinality(S)]
  BY <1>0, <1>1, <1>4
<1>6. \A i \in 1..Cardinality(S) : \E a \in S : p[a] = i
  BY <1>3, <1>5, PlacesAreTaken
<1> HIDE DEF OrdersAll
<1>7. ASSUME NEW i \in 1..Cardinality(S)
      PROVE  \E a \in S : p[a] = i /\ \A b \in S : p[b] = i => a = b
  <2>1. PICK a \in S : p[a] = i
    BY <1>6
  <2>2. \A b \in S : p[b] = i => a = b
    BY <1>3, <2>1
  <2>3. QED
    BY <2>1, <2>2
<1>8. QED
  BY <1>7

\* A set of natural numbers that is not empty has a least member.
LEMMA LeastExists ==
    ASSUME NEW S \in SUBSET Nat, S # {}
    PROVE  \E m \in S : \A n \in S : m <= n
<1> DEFINE LT == {ss \in Nat \X Nat : ss[1] < ss[2]}
<1>1. IsWellFoundedOn(LT, Nat)
  BY NatLessThanWellFounded DEF OpToRel
<1>2. \A x, y \in Nat : y < x => <<y, x>> \in LT
  OBVIOUS
<1> HIDE DEF LT
<1>3. PICK m \in S : \A n \in S : <<n, m>> \notin LT
  BY <1>1, WFMin
<1>4. \A n \in S : n \in Nat /\ m \in Nat /\ ~(n < m)
  BY <1>2, <1>3
<1>5. \A n \in S : m <= n
  BY <1>4, SMT
<1>6. QED
  BY <1>3, <1>5

\* A chain of rules decides by the first one that applies, if any does.
Decides(rules, m, i) ==
    /\ i \in 1 .. m /\ rules[i].when /\ Decision(rules) = rules[i].then
    /\ \A j \in 1 .. m : j < i => ~rules[j].when

\* A chain of which some rule applies decides, by the first that does.
LEMMA DecisionIs ==
    ASSUME NEW rules, NEW m \in Nat, DOMAIN rules = 1 .. m,
           NEW n \in 1 .. m, rules[n].when
    PROVE  \E i : Decides(rules, m, i)
<1> DEFINE S == {i \in 1 .. m : rules[i].when}
           First(i) == i \in DOMAIN rules /\ rules[i].when /\ \A j \in 1 .. i - 1 : ~rules[j].when
<1>1. PICK i \in S : \A j \in S : i <= j
  <2>1. S \in SUBSET Nat /\ n \in S
    OBVIOUS
  <2> HIDE DEF S
  <2>2. QED
    BY <2>1, LeastExists
<1>2. First(i)
  BY <1>1
<1>3. Decision(rules) = rules[CHOOSE x : First(x)].then
  BY DEF Decision
<1>4. First(CHOOSE x : First(x))
  BY <1>2
<1> DEFINE x == CHOOSE x : First(x)
<1>5. x \in 1 .. m /\ rules[x].when /\ \A j \in 1 .. x - 1 : ~rules[j].when
  BY <1>4
<1> HIDE DEF First
<1>6. \A j \in 1 .. m : j < x => ~rules[j].when
  BY <1>5
<1>7. QED
  BY <1>3, <1>5, <1>6 DEF Decides

\* The places of a list.
LEMMA ListIs ==
    ASSUME NEW s, IsList(s)
    PROVE  Len(s) \in Nat /\ DOMAIN s = 1..Len(s)
<1> DEFINE S == {s[i] : i \in DOMAIN s}
<1>1. s \in Seq(S)
  BY DEF IsList
<1> HIDE DEF S
<1>2. QED
  BY <1>1, LenProperties

\* What is given for every place up to n is a list.
LEMMA IsAList ==
    ASSUME NEW n \in Nat, NEW f, NEW s, s = [i \in 1..n |-> f[i]]
    PROVE  IsList(s) /\ Len(s) = n
<1> DEFINE S == {s[i] : i \in DOMAIN s}
<1>1. s \in [1..n -> S]
  OBVIOUS
<1> HIDE DEF S
<1>2. s \in Seq(S)
  BY <1>1, SeqDef
<1>3. DOMAIN s = 1..Len(s) /\ Len(s) \in Nat
  BY <1>2, LenProperties
<1>4. DOMAIN s = 1..n
  OBVIOUS
<1>5. Len(s) = n
  BY <1>3, <1>4
<1>6. QED
  BY <1>2, <1>5 DEF IsList, S

\* Two lists, one after the other.
LEMMA OneAfterTheOther ==
    ASSUME NEW s, NEW t, IsList(s), IsList(t)
    PROVE  /\ IsList(s \o t)
           /\ Len(s \o t) = Len(s) + Len(t)
           /\ \A i \in 1..Len(s) + Len(t) :
                (s \o t)[i] = IF i <= Len(s) THEN s[i] ELSE t[i - Len(s)]
           /\ SubSeq(s \o t, 1, Len(s)) = s
<1> DEFINE S == {s[i] : i \in DOMAIN s}
           T == {t[i] : i \in DOMAIN t}
           U == S \cup T
           r == s \o t
           R == {r[i] : i \in DOMAIN r}
           q == SubSeq(r, 1, Len(s))
<1>1. s \in Seq(S) /\ t \in Seq(T)
  BY DEF IsList
<1>2. Len(s) \in Nat /\ Len(t) \in Nat
  BY ListIs
<1>3. S \subseteq U /\ T \subseteq U
  OBVIOUS
<1> HIDE DEF S, T, U, r, R, q
<1>4. s \in Seq(U) /\ t \in Seq(U)
  BY <1>1, <1>3, SeqMonotonic
<1>5. /\ r \in Seq(U)
      /\ Len(r) = Len(s) + Len(t)
      /\ \A i \in 1 .. Len(s) + Len(t) : r[i] = IF i <= Len(s) THEN s[i] ELSE t[i - Len(s)]
  BY <1>4, ConcatProperties DEF r
<1>6. r \in Seq(R)
  <2>1. r \in [1..Len(r) -> U] /\ DOMAIN r = 1..Len(r) /\ Len(r) \in Nat
    BY <1>5, LenProperties
  <2>2. r \in [1..Len(r) -> R]
    BY <2>1 DEF R
  <2>3. QED
    BY <2>1, <2>2, SeqDef
<1>7. q = s
  <2>1. \A i \in 1..Len(s) : s[i] \in U
    BY <1>4, ElementOfSeq
  <2>2. \A i \in 1..Len(s) : r[i] = s[i]
    BY <1>2, <1>5
  <2>3. \A i \in 1..Len(s) : r[i] \in U
    BY <2>1, <2>2
  <2>4. /\ q \in Seq(U)
        /\ Len(q) = IF 1 <= Len(s) THEN Len(s) - 1 + 1 ELSE 0
        /\ \A i \in 1 .. Len(s) - 1 + 1 : q[i] = r[1 + i - 1]
    BY <1>2, <2>3, SubSeqProperties DEF q
  <2>5. Len(q) = Len(s) /\ \A i \in 1..Len(q) : q[i] = s[i]
    BY <1>2, <2>2, <2>4
  <2>6. QED
    BY <1>4, <2>4, <2>5, SeqEqual
<1>8. QED
  BY <1>5, <1>6, <1>7 DEF IsList, r, R, q

\* What a loop appends is a list, and each of its members was made at a place of
\* its own.
LEMMA JoinedIs ==
    ASSUME NEW made, NEW n \in Nat, DOMAIN made = 1..n
    PROVE  /\ IsList(Joined(made))
           /\ \E f : /\ \A k \in DOMAIN Joined(made) :
                          /\ f[k] \in 1..n /\ made[f[k]] # <<>>
                          /\ Joined(made)[k] = made[f[k]][1]
                     /\ \A k, l \in DOMAIN Joined(made) : f[k] = f[l] => k = l
<1> DEFINE present == {i \in 1..n : made[i] # <<>>}
           R == {e \in (1..n) \X (1..n) : e[1] < e[2]}
           place == [i \in present |-> 1 + Cardinality({j \in present : j < i})]
           m == Cardinality(present)
           f == [k \in 1..m |-> CHOOSE i \in present : place[i] = k]
           g == [k \in 1..m |-> made[f[k]][1]]
<1>1. IsFiniteSet(present) /\ m \in Nat
  <2>1. IsFiniteSet(1..n)
    BY FS_Interval
  <2>2. present \subseteq 1..n
    OBVIOUS
  <2> HIDE DEF present
  <2>3. IsFiniteSet(present)
    BY <2>1, <2>2, FS_Subset
  <2>4. QED
    BY <2>3, FS_CardinalityType
<1>2. OrdersAll(R, present)
  BY DEF OrdersAll
<1>3. place = [i \in present |-> 1 + Cardinality({j \in present : <<j, i>> \in R})]
  <2>1. ASSUME NEW i \in present
        PROVE  {j \in present : j < i} = {j \in present : <<j, i>> \in R}
    OBVIOUS
  <2> HIDE DEF R, present
  <2>2. QED
    BY <2>1
<1>4. Joined(made) = g
  BY DEF Joined
<1> HIDE DEF R
<1> HIDE DEF place
<1>5. \A k \in 1..m : \E i \in present : place[i] = k
  <2> HIDE DEF present
  <2>1. \A k \in 1..Cardinality(present) :
           \E i \in present : place[i] = k /\ \A b \in present : place[b] = k => i = b
    BY <1>1, <1>2, <1>3, OrdersHavePlaces
  <2>2. QED
    BY <2>1
<1> HIDE DEF m
<1>6. \A k \in 1..m : f[k] \in present /\ place[f[k]] = k
  BY <1>5
<1>7. \A k \in 1..m : f[k] \in 1..n /\ made[f[k]] # <<>> /\ g[k] = made[f[k]][1]
  BY <1>6
<1>8. \A k, l \in 1..m : f[k] = f[l] => k = l
  BY <1>6
<1>9. IsList(g)
  <2>1. g = [k \in 1..m |-> g[k]]
    OBVIOUS
  <2> HIDE DEF g
  <2>2. QED
    BY <1>1, <2>1, IsAList DEF m
<1>10. DOMAIN g = 1..m
  OBVIOUS
<1> HIDE DEF f, g, present
<1>11. QED
  BY <1>4, <1>7, <1>8, <1>9, <1>10

-----------------------------------------------------------------------------
(* What the rules and the model make of an event                             *)

\* A preference that the rules find is fit to be used.
LEMMA RuleCandidateIs ==
    ASSUME NEW value, NEW text, NEW source, RuleCandidate(value, text, source) # <<>>
    PROVE  LET c == RuleCandidate(value, text, source)[1]
           IN Fit("preference", source, c, ContentsOf("preference", c))
<1> DEFINE temporary == Temporary(text)
           category == Category(text)
           key == Key(text)
           scope == Scope(text)
           confidence == Confidence(text)
           c == [key |-> key, value |-> value, category |-> category,
                 scope |-> scope, explicitness |-> "explicit",
                 is_temporary |-> temporary, should_persist |-> ~temporary,
                 confidence |-> confidence, evidence |-> text.content, source |-> source]
<1>1. {value, text.content} \cap Sensitive = {} /\ RuleCandidate(value, text, source) = <<c>>
  BY DEF RuleCandidate
<1> HIDE DEF temporary, category, key, scope, confidence
<1>2. "key" \in DOMAIN c /\ c.source = source /\ c.value = value /\ c.evidence = text.content
  OBVIOUS
<1>3. c.is_temporary = temporary
  OBVIOUS
<1>4. c.should_persist = ~temporary
  OBVIOUS
<1> HIDE DEF c
<1>5. ~(c.is_temporary /\ c.should_persist)
  BY <1>3, <1>4, Zenon
<1>6. ContentsOf("preference", c) = {value, text.content}
  BY <1>2 DEF ContentsOf
<1>7. Fit("preference", source, c, ContentsOf("preference", c))
  BY <1>1, <1>2, <1>5, <1>6 DEF Fit
<1>8. RuleCandidate(value, text, source)[1] = c
  BY <1>1
<1>9. QED
  BY <1>7, <1>8

\* So is the knowledge that they find in what a tool returned.
LEMMA ToolKnowledgeIs ==
    ASSUME NEW tool, NEW source, ToolKnowledge(tool, source) # <<>>
    PROVE  LET c == ToolKnowledge(tool, source)[1]
           IN Fit("knowledge", source, c, {c.evidence})
<1> DEFINE rejects == {tool.name, tool.error, tool.arguments} \cap Sensitive = {}
           failed == tool.status = "failure" /\ rejects
           worked == tool.status = "success" /\ tool.length >= 8 /\ tool.result \notin Sensitive
           a == FailureExperience(tool, source)
           b == SuccessKnowledge(tool, source)
           rules == <<Rule(failed, <<a>>), Rule(worked, <<b>>), Rule(TRUE, <<>>)>>
           k == ToolKnowledge(tool, source)
<1>1. k = Decision(rules)
  BY DEF ToolKnowledge
<1>2. Fit("knowledge", source, a, {a.evidence}) \/ ~failed
  BY DEF FailureExperience, Fit
<1>3. Fit("knowledge", source, b, {b.evidence}) \/ ~worked
  <2>1. b.source = source /\ b.evidence = tool.result /\ "key" \notin DOMAIN b
    BY DEF SuccessKnowledge
  <2> HIDE DEF b
  <2>2. QED
    BY <2>1 DEF Fit
<1> HIDE DEF failed, worked, a, b, k
<1>4. rules[1].when = failed /\ rules[1].then = <<a>>
  BY DEF Rule
<1>5. rules[2].when = worked /\ rules[2].then = <<b>>
  BY DEF Rule
<1>6. rules[3].when = TRUE /\ rules[3].then = <<>>
  BY DEF Rule
<1>7. DOMAIN rules = 1..3
  OBVIOUS
<1> HIDE DEF rules
<1>8. PICK i : Decides(rules, 3, i)
  <2>1. rules[3].when
    BY <1>6
  <2>2. 3 \in Nat /\ 3 \in 1..3
    OBVIOUS
  <2>3. QED
    BY <1>7, <2>1, <2>2, DecisionIs
<1>9. CASE i = 1
  <2>1. failed /\ k = <<a>>
    BY <1>1, <1>4, <1>8, <1>9 DEF Decides
  <2>2. Fit("knowledge", source, k[1], {k[1].evidence})
    BY <1>2, <2>1
  <2>3. QED
    BY <2>2 DEF k
<1>10. CASE i = 2
  <2>1. worked /\ k = <<b>>
    BY <1>1, <1>5, <1>8, <1>10 DEF Decides
  <2>2. Fit("knowledge", source, k[1], {k[1].evidence})
    BY <1>3, <2>1
  <2>3. QED
    BY <2>2 DEF k
<1>11. CASE i = 3
  BY <1>1, <1>6, <1>8, <1>11 DEF Decides, k
<1>12. QED
  BY <1>8, <1>9, <1>10, <1>11 DEF Decides

\* An answer of the model that passes the validation is fit to be used: the
\* fields it sets itself do not get in.
LEMMA ValidatedIs ==
    ASSUME NEW kind \in {"preference", "knowledge"}, NEW raw, NEW source,
           Validated(kind, raw, source) # <<>>
    PROVE  LET c == Validated(kind, raw, source)[1]
           IN Fit(kind, source, c, ContentsOf(kind, c))
<1> DEFINE fields == Required[kind] \cup DOMAIN Defaults[kind]
           d == Degraded(kind, raw)
           c == Normalised(kind, d)
           v == [f \in DOMAIN c \cup {"source"} |-> IF f = "source" THEN source ELSE c[f]]
<1>1. ContentsOf(kind, c) \cap Sensitive = {} /\ Validated(kind, raw, source) = <<v>>
  BY DEF Validated
<1>0. /\ Required.preference = {"key", "value", "evidence", "confidence"}
      /\ Required.knowledge = {"fact", "confidence"}
      /\ DOMAIN Defaults.preference =
           {"category", "scope", "explicitness", "is_temporary", "should_persist"}
      /\ DOMAIN Defaults.knowledge =
           {"category", "conditions", "steps", "expected_result", "problem", "outcome",
            "reproducible", "template_body", "parameters", "priority", "failure_reason",
            "avoid_condition", "alternative"}
  BY DEF Required, Defaults
<1>2. ("key" \in fields) <=> kind = "preference"
  BY <1>0
<1>3. kind = "preference" =>
        "is_temporary" \in fields /\ "should_persist" \in fields /\ "value" \in fields
        /\ "evidence" \in fields
  BY <1>0
<1>4. kind = "knowledge" =>
        {"fact"} \cup (DOMAIN Defaults.knowledge \ {"category"}) \subseteq fields
  BY <1>0
<1>5. d = [f \in fields |-> d[f]]
  BY DEF Degraded
<1>6. "source" \notin fields
  BY <1>0
<1> HIDE DEF fields, d
<1>7. DOMAIN c = fields
  BY <1>5 DEF Normalised
<1>8. kind = "preference" => ~(c.is_temporary /\ c.should_persist)
  <2>1. CASE kind = "preference" /\ d.is_temporary
    <3>1. c = [d EXCEPT !.should_persist = FALSE]
      BY <2>1 DEF Normalised
    <3>2. c.should_persist = FALSE
      BY <1>3, <1>5, <2>1, <3>1
    <3>3. QED
      BY <3>2
  <2>2. CASE ~(kind = "preference" /\ d.is_temporary)
    <3>1. c = d
      BY <2>2 DEF Normalised
    <3>2. QED
      BY <2>2, <3>1
  <2>3. QED
    BY <2>1, <2>2
<1> HIDE DEF c
<1>9. DOMAIN v = fields \cup {"source"} /\ v.source = source /\ \A f \in fields : v[f] = c[f]
  BY <1>6, <1>7
<1> HIDE DEF v
<1>10. ContentsOf(kind, v) = ContentsOf(kind, c)
  <2>1. CASE kind = "preference"
    BY <1>3, <1>9, <2>1 DEF ContentsOf
  <2>2. CASE kind = "knowledge"
    <3> DEFINE F == {"fact"} \cup (DOMAIN Defaults.knowledge \ {"category"})
    <3>1. ContentsOf(kind, v) = {v[f] : f \in F} /\ ContentsOf(kind, c) = {c[f] : f \in F}
      BY <2>2 DEF ContentsOf
    <3>2. F \subseteq fields
      BY <1>4, <2>2
    <3> HIDE DEF F
    <3>3. QED
      BY <1>9, <3>1, <3>2
  <2>3. QED
    BY <2>1, <2>2
<1>11. kind = "preference" => ~(v.is_temporary /\ v.should_persist)
  <2>1. kind = "preference" =>
          v.is_temporary = c.is_temporary /\ v.should_persist = c.should_persist
    BY <1>3, <1>9
  <2>2. QED
    BY <1>8, <2>1
<1>12. ("key" \in DOMAIN v) = (kind = "preference")
  BY <1>2, <1>9
<1>13. Fit(kind, source, v, ContentsOf(kind, v))
  BY <1>1, <1>9, <1>10, <1>11, <1>12 DEF Fit
<1>14. Validated(kind, raw, source)[1] = v
  BY <1>1
<1>15. QED
  BY <1>13, <1>14

\* All preferences that the rules find.
LEMMA PreferencesAreFit ==
    ASSUME NEW text, IsList(text.phrases), IsList(text.tool), IsList(text.orders), NEW source
    PROVE  LET r == PreferencesByRules(text, source)
           IN /\ IsList(r)
              /\ \A i \in DOMAIN r : Fit("preference", source, r[i], ContentsOf("preference", r[i]))
<1> DEFINE rules == <<Rule(text.phrases # <<>>, text.phrases), Rule(text.tool # <<>>, text.tool),
                      Rule(TRUE, text.orders)>>
           values == Decision(rules)
           made == [i \in DOMAIN values |-> RuleCandidate(values[i], text, source)]
           r == PreferencesByRules(text, source)
<1>1. r = Joined(made)
  BY DEF PreferencesByRules
<1>2. IsList(values)
  <2>1. rules[1].then = text.phrases /\ rules[2].then = text.tool /\ rules[3].then = text.orders
    BY DEF Rule
  <2>2. rules[3].when
    BY DEF Rule
  <2>3. DOMAIN rules = 1..3 /\ 3 \in Nat /\ 3 \in 1..3
    OBVIOUS
  <2> HIDE DEF rules
  <2>4. PICK i : Decides(rules, 3, i)
    BY <2>2, <2>3, DecisionIs
  <2>5. i \in {1, 2, 3} /\ values = rules[i].then
    BY <2>4 DEF Decides
  <2>6. QED
    BY <2>1, <2>5
<1> HIDE DEF values
<1>3. Len(values) \in Nat /\ DOMAIN values = 1..Len(values)
  BY <1>2, ListIs
<1>4. DOMAIN made = 1..Len(values)
  BY <1>3
<1>5. \A i \in DOMAIN made : made[i] # <<>> =>
         Fit("preference", source, made[i][1], ContentsOf("preference", made[i][1]))
  BY RuleCandidateIs
<1> HIDE DEF made
<1>6. IsList(Joined(made))
  BY <1>3, <1>4, JoinedIs
<1>7. PICK f : \A k \in DOMAIN Joined(made) :
                  /\ f[k] \in 1..Len(values) /\ made[f[k]] # <<>>
                  /\ Joined(made)[k] = made[f[k]][1]
  BY <1>3, <1>4, JoinedIs
<1>8. \A k \in DOMAIN r : Fit("preference", source, r[k], ContentsOf("preference", r[k]))
  BY <1>1, <1>4, <1>5, <1>7
<1>9. QED
  BY <1>1, <1>6, <1>8

\* All knowledge that they find.
LEMMA KnowledgeIsFit ==
    ASSUME NEW tools, IsList(tools), NEW source
    PROVE  LET r == KnowledgeByRules(tools, source)
           IN /\ IsList(r)
              /\ \A i \in DOMAIN r : Fit("knowledge", source, r[i], {r[i].evidence})
<1> DEFINE made == [i \in DOMAIN tools |-> ToolKnowledge(tools[i], source)]
           r == KnowledgeByRules(tools, source)
<1>1. r = Joined(made)
  BY DEF KnowledgeByRules
<1>2. Len(tools) \in Nat /\ DOMAIN tools = 1..Len(tools)
  BY ListIs
<1>3. DOMAIN made = 1..Len(tools)
  BY <1>2
<1>4. \A i \in DOMAIN made : made[i] # <<>> =>
         Fit("knowledge", source, made[i][1], {made[i][1].evidence})
  BY ToolKnowledgeIs
<1> HIDE DEF made
<1>5. IsList(Joined(made))
  BY <1>2, <1>3, JoinedIs
<1>6. PICK f : \A k \in DOMAIN Joined(made) :
                  /\ f[k] \in 1..Len(tools) /\ made[f[k]] # <<>>
                  /\ Joined(made)[k] = made[f[k]][1]
  BY <1>2, <1>3, JoinedIs
<1>7. \A k \in DOMAIN r : Fit("knowledge", source, r[k], {r[k].evidence})
  BY <1>1, <1>3, <1>4, <1>6
<1>8. QED
  BY <1>1, <1>5, <1>7

\* All of an answer that passes.
LEMMA AnswerIsFit ==
    ASSUME NEW kind \in {"preference", "knowledge"}, NEW raws, IsList(raws), NEW source
    PROVE  LET r == Answer(kind, raws, source)
           IN /\ IsList(r)
              /\ \A i \in DOMAIN r : Fit(kind, source, r[i], ContentsOf(kind, r[i]))
<1> DEFINE made == [i \in DOMAIN raws |-> Validated(kind, raws[i], source)]
           r == Answer(kind, raws, source)
<1>1. r = Joined(made)
  BY DEF Answer
<1>2. Len(raws) \in Nat /\ DOMAIN raws = 1..Len(raws)
  BY ListIs
<1>3. DOMAIN made = 1..Len(raws)
  BY <1>2
<1>4. \A i \in DOMAIN made : made[i] # <<>> =>
         Fit(kind, source, made[i][1], ContentsOf(kind, made[i][1]))
  BY ValidatedIs
<1> HIDE DEF made
<1>5. IsList(Joined(made))
  BY <1>2, <1>3, JoinedIs
<1>6. PICK f : \A k \in DOMAIN Joined(made) :
                  /\ f[k] \in 1..Len(raws) /\ made[f[k]] # <<>>
                  /\ Joined(made)[k] = made[f[k]][1]
  BY <1>2, <1>3, JoinedIs
<1>7. \A k \in DOMAIN r : Fit(kind, source, r[k], ContentsOf(kind, r[k]))
  BY <1>1, <1>3, <1>4, <1>6
<1>8. QED
  BY <1>1, <1>5, <1>7

\* Whatever the rules find in an event that was recorded.
LEMMA RulesAreFit ==
    ASSUME turn \in [Sources -> Turns], NEW kind \in {"preference", "knowledge"},
           NEW source \in Sources
    PROVE  LET r == ByRules(kind, source)
           IN /\ IsList(r)
              /\ \A i \in DOMAIN r : Fit(kind, source, r[i], RuleTexts(kind, r[i]))
<1> DEFINE t == turn[source]
           r == ByRules(kind, source)
<1>1. /\ IsList(t.said.phrases) /\ IsList(t.said.tool) /\ IsList(t.said.orders)
      /\ IsList(t.tools)
  BY ExtractionAssumption
<1> HIDE DEF t
<1>2. CASE kind = "preference"
  <2>1. r = PreferencesByRules(t.said, source)
    BY <1>2 DEF ByRules, t
  <2>2. \A i \in DOMAIN r : RuleTexts(kind, r[i]) = ContentsOf("preference", r[i])
    BY <1>2 DEF RuleTexts
  <2> HIDE DEF r
  <2>3. /\ IsList(r)
        /\ \A i \in DOMAIN r : Fit("preference", source, r[i], ContentsOf("preference", r[i]))
    BY <1>1, <2>1, PreferencesAreFit
  <2>4. QED
    BY <1>2, <2>2, <2>3 DEF r
<1>3. CASE kind = "knowledge"
  <2>1. r = KnowledgeByRules(t.tools, source)
    BY <1>3 DEF ByRules, t
  <2>2. \A i \in DOMAIN r : RuleTexts(kind, r[i]) = {r[i].evidence}
    BY <1>3 DEF RuleTexts
  <2> HIDE DEF r
  <2>3. IsList(r) /\ \A i \in DOMAIN r : Fit("knowledge", source, r[i], {r[i].evidence})
    BY <1>1, <2>1, KnowledgeIsFit
  <2>4. QED
    BY <1>3, <2>2, <2>3 DEF r
<1>4. QED
  BY <1>2, <1>3

\* The merge appends answers whose keys are new, to the rules and to each other.
Appends(rules, answers, more, f) ==
    /\ Merged(rules, answers) = rules \o more
    /\ IsList(more)
    /\ \A k \in DOMAIN more : f[k] \in DOMAIN answers /\ more[k] = answers[f[k]]
    /\ \A k \in DOMAIN more : \A r \in DOMAIN rules : rules[r].key # more[k].key
    /\ \A k, l \in DOMAIN more : k # l => more[k].key # more[l].key

\* No key is added twice, whatever the model says.
LEMMA MergedIs ==
    ASSUME NEW rules, NEW answers, IsList(rules), IsList(answers)
    PROVE  \E more, f : Appends(rules, answers, more, f)
<1> DEFINE n == Len(answers)
           Known(i) == \/ \E r \in DOMAIN rules : rules[r].key = answers[i].key
                       \/ \E j \in 1..i - 1 : answers[j].key = answers[i].key
           made == [i \in DOMAIN answers |-> IF Known(i) THEN <<>> ELSE <<answers[i]>>]
           more == Joined(made)
<1>1. Merged(rules, answers) = rules \o more
  BY DEF Merged
<1>2. n \in Nat /\ DOMAIN answers = 1..n
  BY ListIs
<1>3. DOMAIN made = 1..n
  BY <1>2
<1> HIDE DEF Known
<1>4. \A i \in 1..n : made[i] # <<>> => ~Known(i) /\ made[i][1] = answers[i]
  BY <1>2
<1> HIDE DEF made, n
<1>5. IsList(more)
  BY <1>2, <1>3, JoinedIs
<1>6. PICK f : /\ \A k \in DOMAIN Joined(made) :
                    /\ f[k] \in 1..n /\ made[f[k]] # <<>>
                    /\ Joined(made)[k] = made[f[k]][1]
               /\ \A k, l \in DOMAIN Joined(made) : f[k] = f[l] => k = l
  BY <1>2, <1>3, JoinedIs
<1> HIDE DEF more
<1>7. \A k \in DOMAIN more : f[k] \in 1..n /\ more[k] = answers[f[k]] /\ ~Known(f[k])
  BY <1>4, <1>6 DEF more
<1>8. \A k \in DOMAIN more : \A r \in DOMAIN rules : rules[r].key # more[k].key
  BY <1>7 DEF Known
<1>9. ASSUME NEW k \in DOMAIN more, NEW l \in DOMAIN more, k # l PROVE more[k].key # more[l].key
  <2>1. f[k] # f[l]
    BY <1>6, <1>9 DEF more
  <2>2. f[k] \in 1..n /\ f[l] \in 1..n
    BY <1>7
  <2>3. CASE f[k] < f[l]
    <3>1. f[k] \in 1..f[l] - 1
      BY <1>2, <2>2, <2>3
    <3>2. QED
      BY <1>7, <3>1 DEF Known
  <2>4. CASE f[l] < f[k]
    <3>1. f[l] \in 1..f[k] - 1
      BY <1>2, <2>2, <2>4
    <3>2. QED
      BY <1>7, <3>1 DEF Known
  <2>5. QED
    BY <1>2, <2>1, <2>2, <2>3, <2>4
<1>10. Appends(rules, answers, more, f)
  BY <1>1, <1>2, <1>5, <1>7, <1>8, <1>9 DEF Appends
<1>11. QED
  BY <1>10

\* Rules and model together deserve trust, when the model was asked on good
\* grounds.
LEMMA TogetherTrusted ==
    ASSUME turn \in [Sources -> Turns], NEW kind \in {"preference", "knowledge"},
           NEW source \in Sources, NEW answers, IsList(answers),
           \A i \in DOMAIN answers : Fit(kind, source, answers[i], ContentsOf(kind, answers[i])),
           kind = "knowledge" /\ answers # <<>> => HasEvidence(turn[source].tools)
    PROVE  Trusted(kind, source, Together(kind, ByRules(kind, source), answers))
<1> DEFINE rules == ByRules(kind, source)
           list == Together(kind, rules, answers)
           n == Len(rules)
<1>1. IsList(rules) /\ \A i \in DOMAIN rules : Fit(kind, source, rules[i], RuleTexts(kind, rules[i]))
  BY RulesAreFit
<1> HIDE DEF rules
<1>2. \E more, f :
         /\ list = rules \o more
         /\ IsList(more)
         /\ \A k \in DOMAIN more : f[k] \in DOMAIN answers /\ more[k] = answers[f[k]]
         /\ kind = "preference" =>
              /\ \A k \in DOMAIN more : \A r \in DOMAIN rules : rules[r].key # more[k].key
              /\ \A k, l \in DOMAIN more : k # l => more[k].key # more[l].key
  <2>1. CASE kind = "preference"
    <3>1. list = Merged(rules, answers)
      BY <2>1 DEF Together
    <3> HIDE DEF list
    <3>0. IsList(rules)
      BY <1>1
    <3>2. PICK more, f : Appends(rules, answers, more, f)
      BY <3>0, MergedIs
    <3>3. QED
      BY <3>1, <3>2 DEF Appends
  <2>2. CASE kind = "knowledge"
    <3>1. list = rules \o answers
      BY <2>2 DEF Together
    <3> DEFINE f == [k \in DOMAIN answers |-> k]
    <3>2. \A k \in DOMAIN answers : f[k] \in DOMAIN answers /\ answers[k] = answers[f[k]]
      OBVIOUS
    <3> HIDE DEF list, f
    <3>3. QED
      BY <2>2, <3>1, <3>2
  <2>3. QED
    BY <2>1, <2>2
<1> HIDE DEF list
<1>3. PICK more, f :
         /\ list = rules \o more
         /\ IsList(more)
         /\ \A k \in DOMAIN more : f[k] \in DOMAIN answers /\ more[k] = answers[f[k]]
         /\ kind = "preference" =>
              /\ \A k \in DOMAIN more : \A r \in DOMAIN rules : rules[r].key # more[k].key
              /\ \A k, l \in DOMAIN more : k # l => more[k].key # more[l].key
  BY <1>2
<1>4. /\ n \in Nat /\ DOMAIN rules = 1..n
      /\ Len(more) \in Nat /\ DOMAIN more = 1..Len(more)
  BY <1>1, <1>3, ListIs
<1>5. /\ IsList(list)
      /\ Len(list) = n + Len(more)
      /\ \A i \in 1..n + Len(more) : list[i] = IF i <= n THEN rules[i] ELSE more[i - n]
      /\ SubSeq(list, 1, n) = rules
  BY <1>1, <1>3, OneAfterTheOther
<1>6. DOMAIN list = 1..n + Len(more)
  BY <1>5, ListIs
<1> HIDE DEF n
<1>7. ASSUME NEW i \in DOMAIN list
      PROVE  Fit(kind, source, list[i],
                 IF i <= n THEN RuleTexts(kind, list[i]) ELSE ContentsOf(kind, list[i]))
  <2>1. CASE i <= n
    <3>1. i \in DOMAIN rules /\ list[i] = rules[i]
      BY <1>4, <1>5, <1>6, <2>1
    <3>2. QED
      BY <1>1, <2>1, <3>1
  <2>2. CASE ~(i <= n)
    <3>1. i - n \in DOMAIN more /\ list[i] = more[i - n]
      BY <1>4, <1>5, <1>6, <2>2
    <3>2. PICK a \in DOMAIN answers : list[i] = answers[a]
      BY <1>3, <3>1
    <3>3. QED
      BY <2>2, <3>2
  <2>3. QED
    BY <2>1, <2>2
<1>8. ASSUME NEW i \in n + 1 .. Len(list)
      PROVE  IF kind = "preference" THEN \A j \in 1 .. (i - 1) : list[j].key # list[i].key
             ELSE HasEvidence(turn[source].tools)
  <2>1. i \in 1..n + Len(more) /\ i - n \in DOMAIN more /\ list[i] = more[i - n]
    BY <1>4, <1>5
  <2>2. CASE kind = "preference"
    <3>1. ASSUME NEW j \in 1 .. (i - 1) PROVE list[j].key # list[i].key
      <4>1. CASE j <= n
        <5>1. j \in DOMAIN rules /\ list[j] = rules[j]
          BY <1>4, <1>5, <2>1, <4>1
        <5>2. QED
          BY <1>3, <2>1, <2>2, <5>1
      <4>2. CASE ~(j <= n)
        <5>1. j - n \in DOMAIN more /\ list[j] = more[j - n] /\ j - n # i - n
          BY <1>4, <1>5, <2>1, <4>2
        <5>2. QED
          BY <1>3, <2>1, <2>2, <5>1
      <4>3. QED
        BY <4>1, <4>2
    <3>2. QED
      BY <2>2, <3>1
  <2>3. CASE kind = "knowledge"
    <3>1. f[i - n] \in DOMAIN answers
      BY <1>3, <2>1
    <3>2. answers # <<>>
      BY <3>1
    <3>3. QED
      BY <2>3, <3>2
  <2>4. QED
    BY <2>2, <2>3
<1>9. n <= Len(list)
  BY <1>4, <1>5
<1>10. Trusted(kind, source, list)
  BY <1>5, <1>7, <1>8, <1>9 DEF Trusted, rules, n
<1>11. QED
  BY <1>10 DEF list, rules

-----------------------------------------------------------------------------
(* The outbox                                                                *)

USE EventsAssumption, LimitsAssumption

\* Init establishes the inductive invariant.
LEMMA InitEstablishes == Init => IInv
<1> SUFFICES ASSUME Init PROVE IInv
  OBVIOUS
<1> USE DEF Init, EmptyTable
<1>1. TypeOK
  BY DEF TypeOK, IsTable, Times
<1>2. BatchIsCurrent /\ CallIsFromBatch /\ RowsAreEnqueued
  BY DEF BatchIsCurrent, CallIsFromBatch, RowsAreEnqueued
<1>3. FreshIsUntouched /\ AttemptsBounded
  BY DEF FreshIsUntouched, AttemptsBounded
<1>4. NoEventLost /\ DeadLetterIsExhausted
  BY DEF NoEventLost, DeadLetterIsExhausted, Enqueued
<1>5. RedeliveryBounded
  BY DEF RedeliveryBounded, AttemptsOf, UnderWay
<1>6. QED
  BY <1>1, <1>2, <1>3, <1>4, <1>5 DEF IInv

\* Inserting a fresh row, with any due time, preserves the invariant: a
\* structural row is the only one that may start as NULL.
LEMMA InsertPreserves ==
  ASSUME IInv, NEW e \in Events, ~Enqueued(e), NEW due \in Times,
         due = NoTime => e \in Structural,
         clock' = clock + 1,
         enqueuedAt' = [enqueuedAt EXCEPT ![e] = clock'],
         rows' = [d \in DOMAIN rows \cup {e} |->
                    IF d = e THEN [attempts |-> 0, nextRetry |-> due] ELSE rows[d]],
         UNCHANGED <<threadVars, pollVars, lastIndexed, histVars, faults>>
  PROVE  IInv'
<1> USE DEF IInv, threadVars, pollVars, histVars
<1>1. e \notin DOMAIN rows
  BY DEF RowsAreEnqueued
<1>2. /\ DOMAIN rows' = DOMAIN rows \cup {e}
      /\ rows'[e] = [attempts |-> 0, nextRetry |-> due]
      /\ \A d \in DOMAIN rows : rows'[d] = rows[d]
  BY <1>1
<1>3. /\ \A d \in Events : Enqueued(d)' <=> (Enqueued(d) \/ d = e)
  BY DEF Enqueued, TypeOK, NoTime
<1>4. TypeOK'
  BY <1>2 DEF TypeOK, IsTable, Row, Times, NoCall
<1>5. BatchIsCurrent' /\ CallIsFromBatch' /\ RowsAreEnqueued'
  BY <1>1, <1>2, <1>3 DEF BatchIsCurrent, CallIsFromBatch, RowsAreEnqueued, TypeOK, IsTable
<1>6. FreshIsUntouched' /\ NoEventLost'
  BY <1>1, <1>2, <1>3 DEF FreshIsUntouched, NoEventLost
<1>7. AttemptsBounded' /\ DeadLetterIsExhausted'
  BY <1>1, <1>2 DEF AttemptsBounded, DeadRow, DeadLetterIsExhausted
<1>8. RedeliveryBounded'
  BY <1>1, <1>2 DEF RedeliveryBounded, AttemptsOf, UnderWay, FreshIsUntouched, TypeOK
<1>9. QED
  BY <1>4, <1>5, <1>6, <1>7, <1>8

\* A claim reads rows that are due and not exhausted.
LEMMA PollPreserves == IInv /\ Poll => IInv'
<1> SUFFICES ASSUME IInv, Poll PROVE IInv'
  OBVIOUS
<1> USE DEF IInv, histVars, queueVars
<1>1. PICK S \in SUBSET DOMAIN rows : IsClaim(S) /\ batch' = [e \in S |-> rows[e]]
  BY DEF Poll
<1>2. \A e \in S : rows[e].nextRetry # NoTime /\ rows[e].attempts <= MaxRetries
  BY <1>1 DEF IsClaim, Claimable
<1>3. call = NoCall
  BY DEF Poll, CallIsFromBatch
<1>4. TypeOK'
  BY <1>1 DEF Poll, TypeOK, IsTable
<1>5. BatchIsCurrent'
  BY <1>1, <1>2 DEF Poll, BatchIsCurrent
<1>6. CallIsFromBatch' /\ RowsAreEnqueued' /\ FreshIsUntouched' /\ AttemptsBounded'
  BY <1>3 DEF Poll, CallIsFromBatch, RowsAreEnqueued, FreshIsUntouched,
              AttemptsBounded, DeadRow, Enqueued
<1>7. NoEventLost' /\ DeadLetterIsExhausted' /\ RedeliveryBounded'
  BY <1>3 DEF Poll, NoEventLost, DeadLetterIsExhausted, RedeliveryBounded,
              AttemptsOf, UnderWay, Enqueued, DeadRow
<1>8. QED
  BY <1>4, <1>5, <1>6, <1>7

\* A call of the consumer, whatever it returns.
LEMMA ConsumePreserves ==
  ASSUME IInv, NEW e \in Events, Consume(e)
  PROVE  IInv'
<1> USE DEF IInv, queueVars, threadVars
<1>1. PICK result \in {"ok", "error"} :
         /\ call' = [event |-> e, result |-> result]
         /\ delivered' = IF result = "ok" THEN delivered \cup {e} ELSE delivered
  BY DEF Consume, RouteResult
<1>2. e \in DOMAIN batch /\ e \in DOMAIN rows /\ Enqueued(e)
  BY DEF Consume, IsNext, BatchIsCurrent, RowsAreEnqueued
<1>3. call = NoCall /\ call' # NoCall /\ call'.event = e
  BY <1>1 DEF Consume, NoCall
<1>4. calls' = [calls EXCEPT ![e] = @ + 1] /\ delivered \subseteq delivered'
  BY <1>1 DEF Consume
<1>5. TypeOK'
  BY <1>1 DEF Consume, TypeOK, IsTable
<1>6. BatchIsCurrent' /\ RowsAreEnqueued' /\ AttemptsBounded' /\ DeadLetterIsExhausted'
  BY DEF Consume, BatchIsCurrent, RowsAreEnqueued, AttemptsBounded,
         DeadLetterIsExhausted, Enqueued, DeadRow
<1>7. CallIsFromBatch'
  BY <1>1, <1>2 DEF Consume, CallIsFromBatch
<1>8. FreshIsUntouched'
  BY <1>1, <1>2, <1>4 DEF Consume, FreshIsUntouched, Enqueued, TypeOK
<1>9. NoEventLost'
  BY <1>4 DEF Consume, NoEventLost, Enqueued
<1>10. RedeliveryBounded'
  BY <1>2, <1>3, <1>4 DEF Consume, RedeliveryBounded, AttemptsOf, UnderWay, TypeOK, IsTable, Row
<1>11. QED
  BY <1>5, <1>6, <1>7, <1>8, <1>9, <1>10

\* The row of a call that succeeded is deleted.
LEMMA AcknowledgePreserves == IInv /\ Acknowledge => IInv'
<1> SUFFICES ASSUME IInv, Acknowledge PROVE IInv'
  OBVIOUS
<1> USE DEF IInv, threadVars, histVars
<1> DEFINE e == call.event
<1>1. /\ e \in DOMAIN batch /\ e \in DOMAIN rows /\ e \in delivered
      /\ rows[e].attempts <= MaxRetries
      /\ e \in Events
  BY DEF Acknowledge, CallIsFromBatch, BatchIsCurrent, TypeOK, IsTable
<1>2. /\ DOMAIN rows' = DOMAIN rows \ {e}
      /\ \A d \in DOMAIN rows' : rows'[d] = rows[d]
      /\ DOMAIN batch' = DOMAIN batch \ {e}
      /\ \A d \in DOMAIN batch' : batch'[d] = batch[d]
      /\ call' = NoCall
  BY DEF Acknowledge
<1>3. TypeOK'
  BY <1>1, <1>2 DEF Acknowledge, TypeOK, IsTable
<1>4. BatchIsCurrent' /\ CallIsFromBatch' /\ RowsAreEnqueued' /\ FreshIsUntouched'
  BY <1>2 DEF Acknowledge, BatchIsCurrent, CallIsFromBatch, RowsAreEnqueued,
              FreshIsUntouched, Enqueued
<1>5. AttemptsBounded' /\ DeadLetterIsExhausted'
  BY <1>2 DEF AttemptsBounded, DeadRow, DeadLetterIsExhausted
<1>6. NoEventLost'
  BY <1>1, <1>2 DEF Acknowledge, NoEventLost, Enqueued
<1>7. RedeliveryBounded'
  BY <1>1, <1>2 DEF Acknowledge, RedeliveryBounded, AttemptsOf, UnderWay, TypeOK, IsTable, Row
<1>8. QED
  BY <1>3, <1>4, <1>5, <1>6, <1>7

\* What _fail writes for a claimed row: one more attempt, and NULL only when
\* the attempts are exhausted.
LEMMA AfterFailureFacts ==
  ASSUME IInv, NEW e \in DOMAIN batch
  PROVE  /\ AfterFailure(e) \in Row
         /\ AfterFailure(e).attempts = rows[e].attempts + 1
         /\ rows[e].attempts <= MaxRetries
         /\ rows[e].attempts \in Nat
         /\ AfterFailure(e).nextRetry = NoTime =>
               AfterFailure(e).attempts = MaxRetries + 1
         /\ AfterFailure(e).nextRetry # NoTime =>
               /\ AfterFailure(e).attempts <= MaxRetries
               /\ AfterFailure(e).nextRetry > clock
<1>1. /\ batch[e] = rows[e] /\ rows[e] \in Row
      /\ rows[e].attempts <= MaxRetries
  BY DEF IInv, BatchIsCurrent, TypeOK, IsTable
<1> DEFINE n == rows[e].attempts + 1
<1>2. n \in Nat /\ n <= MaxRetries + 1 /\ n >= 1
  BY <1>1 DEF Row
<1>3. CASE n > MaxRetries
  BY <1>1, <1>2, <1>3 DEF AfterFailure, Row, Times, NoTime
<1>4. CASE n <= MaxRetries
  <2>1. Backoff[n] \in Nat \ {0}
    BY <1>2, <1>4
  <2>2. clock + Backoff[n] \in Nat /\ clock + Backoff[n] > clock
    BY <2>1 DEF IInv, TypeOK
  <2>3. AfterFailure(e) = [attempts |-> n, nextRetry |-> clock + Backoff[n]]
    BY <1>1, <1>2, <1>4 DEF AfterFailure
  <2>4. clock + Backoff[n] \in Times /\ clock + Backoff[n] # NoTime
    BY <2>2 DEF Times, NoTime
  <2>5. AfterFailure(e) \in Row
    BY <1>2, <2>3, <2>4 DEF Row
  <2>6. QED
    BY <1>1, <1>2, <1>4, <2>2, <2>3, <2>4, <2>5 DEF Row
<1>5. QED
  BY <1>2, <1>3, <1>4

\* Recording a failure of the event being processed preserves the invariant,
\* whether or not a fault is counted.
LEMMA FailurePreserves ==
  ASSUME IInv, call # NoCall, call' = NoCall,
         faults' \in Nat, faults' >= faults,
         rows' = [rows EXCEPT ![call.event] = AfterFailure(call.event)],
         batch' = [d \in DOMAIN batch \ {call.event} |-> batch[d]],
         UNCHANGED <<enqueuedAt, clock, threadVars, claimTime, lastIndexed, histVars>>
  PROVE  IInv'
<1> USE DEF IInv, threadVars, histVars
<1> DEFINE e == call.event
<1>1. e \in DOMAIN batch /\ e \in DOMAIN rows /\ e \in Events
  BY DEF CallIsFromBatch, BatchIsCurrent, TypeOK, IsTable
<1>2. /\ AfterFailure(e) \in Row
      /\ AfterFailure(e).attempts = rows[e].attempts + 1
      /\ rows[e].attempts <= MaxRetries
      /\ rows[e].attempts \in Nat
      /\ AfterFailure(e).nextRetry = NoTime => AfterFailure(e).attempts = MaxRetries + 1
      /\ AfterFailure(e).nextRetry # NoTime => AfterFailure(e).attempts <= MaxRetries
  BY <1>1, AfterFailureFacts
<1>3. /\ DOMAIN rows' = DOMAIN rows
      /\ rows'[e] = AfterFailure(e)
      /\ \A d \in DOMAIN rows \ {e} : rows'[d] = rows[d]
      /\ DOMAIN batch' = DOMAIN batch \ {e}
      /\ \A d \in DOMAIN batch' : batch'[d] = batch[d]
  BY <1>1 DEF TypeOK, IsTable
<1>4. TypeOK'
  BY <1>2, <1>3 DEF TypeOK, IsTable
<1>5. BatchIsCurrent' /\ CallIsFromBatch' /\ RowsAreEnqueued' /\ FreshIsUntouched'
  BY <1>3 DEF BatchIsCurrent, CallIsFromBatch, RowsAreEnqueued, FreshIsUntouched, Enqueued
<1>6. AttemptsBounded'
  BY <1>2, <1>3 DEF AttemptsBounded, DeadRow
<1>7. DeadLetterIsExhausted'
  BY <1>2, <1>3 DEF DeadLetterIsExhausted, DeadRow
<1>8. NoEventLost'
  BY <1>3 DEF NoEventLost, Enqueued
<1>9. RedeliveryBounded'
  <2> SUFFICES ASSUME NEW d \in Events
               PROVE  calls[d] <= faults' + AttemptsOf(d)' + UnderWay(d)'
    BY DEF RedeliveryBounded
  <2>1. /\ calls[d] \in Nat /\ faults \in Nat
        /\ UnderWay(d)' = 0
        /\ calls[d] <= faults + AttemptsOf(d) + UnderWay(d)
    BY DEF TypeOK, RedeliveryBounded, UnderWay
  <2>2. CASE d = e
    <3>1. AttemptsOf(d)' = AttemptsOf(d) + 1 /\ UnderWay(d) = 1 /\ AttemptsOf(d) \in Nat
      BY <1>1, <1>2, <1>3, <2>2 DEF AttemptsOf, UnderWay
    <3>2. QED
      BY <2>1, <3>1
  <2>3. CASE d # e
    <3>1. AttemptsOf(d)' = AttemptsOf(d) /\ UnderWay(d) = 0 /\ AttemptsOf(d) \in Nat
      BY <1>3, <2>3 DEF AttemptsOf, UnderWay, TypeOK, IsTable, Row
    <3>2. QED
      BY <2>1, <3>1
  <2>4. QED
    BY <2>2, <2>3
<1>10. QED
  BY <1>4, <1>5, <1>6, <1>7, <1>8, <1>9

\* The steps that leave the table and the histories alone.
LEMMA ThreadPreserves ==
  ASSUME IInv, UNCHANGED <<queueVars, histVars>>,
         clock' \in Nat, claimTime' = claimTime, lastIndexed' \in Times,
         thread' \in {"off", "idle", "polling"}, stopping' \in BOOLEAN,
         stopCall' \in {"none", "joining", "returned"},
         \/ batch' = batch /\ call' = call /\ (call # NoCall => thread' = thread)
              /\ faults' = faults
         \/ batch' = EmptyTable /\ call' = NoCall /\ faults' = faults + 1
  PROVE  IInv'
<1> USE DEF IInv, queueVars, histVars
<1>1. IsTable(batch') /\ faults' \in Nat /\ faults' >= faults /\ faults \in Nat
  <2>1. IsTable(EmptyTable)
    BY DEF IsTable, EmptyTable
  <2>2. QED
    BY <2>1 DEF TypeOK
<1>2. TypeOK'
  <2>1. IsTable(rows') /\ IsTable(batch)'
    BY <1>1 DEF TypeOK, IsTable
  <2>2. QED
    BY <1>1, <2>1 DEF TypeOK
<1>6. BatchIsCurrent' /\ CallIsFromBatch' /\ RowsAreEnqueued' /\ FreshIsUntouched'
  BY DEF BatchIsCurrent, CallIsFromBatch, RowsAreEnqueued, FreshIsUntouched, Enqueued,
         EmptyTable
<1>3. AttemptsBounded' /\ DeadLetterIsExhausted' /\ NoEventLost'
  BY DEF AttemptsBounded, DeadRow, DeadLetterIsExhausted, NoEventLost, Enqueued
<1>4. RedeliveryBounded'
  <2> SUFFICES ASSUME NEW d \in Events
               PROVE  calls[d] <= faults' + AttemptsOf(d) + UnderWay(d)'
    BY DEF RedeliveryBounded, AttemptsOf
  <2>1. calls[d] \in Nat /\ AttemptsOf(d) \in Nat
    BY DEF TypeOK, IsTable, Row, AttemptsOf
  <2>2. /\ calls[d] <= faults + AttemptsOf(d) + UnderWay(d)
        /\ UnderWay(d) \in {0, 1} /\ UnderWay(d)' \in {0, 1}
    BY DEF RedeliveryBounded, UnderWay
  <2>3. CASE call' = call /\ faults' = faults
    BY <2>2, <2>3 DEF UnderWay
  <2>4. CASE call' = NoCall /\ faults' = faults + 1
    BY <1>1, <2>1, <2>2, <2>4
  <2>5. QED
    BY <2>3, <2>4
<1>5. QED
  BY <1>2, <1>3, <1>4, <1>6

\* Every step preserves the inductive invariant.
LEMMA StepPreserves == IInv /\ [Next]_vars => IInv'
<1> SUFFICES ASSUME IInv, [Next]_vars PROVE IInv'
  OBVIOUS
<1>0. TypeOK
  BY DEF IInv
<1>1. ASSUME NEW e \in Events, EnqueueOutbox(e) PROVE IInv'
  <2>1. clock' \in Times /\ clock' # NoTime
    BY <1>0, <1>1 DEF EnqueueOutbox, TypeOK, Times, NoTime
  <2>2. QED
    BY <1>1, <2>1, InsertPreserves DEF EnqueueOutbox
<1>2. ASSUME NEW e \in Events, EnqueueStructural(e) PROVE IInv'
  <2>1. NoTime \in Times
    BY DEF Times
  <2>2. QED
    BY <1>2, <2>1, InsertPreserves DEF EnqueueStructural
<1>3. CASE Tick
  <2>1. clock' \in Nat
    BY <1>0, <1>3 DEF Tick, TypeOK, IsTable, Row, Times, NoTime
  <2>2. QED
    BY <1>0, <1>3, <2>1, ThreadPreserves DEF Tick, TypeOK, queueVars, threadVars, pollVars, histVars
<1>4. CASE Start \/ Stop \/ StopReturns \/ ThreadExits \/ PollEnds
  <2>1. call # NoCall => thread = "polling"
    BY DEF IInv, CallIsFromBatch
  <2>2. QED
    BY <1>0, <1>4, <2>1, ThreadPreserves
       DEF Start, Stop, StopReturns, ThreadExits, PollEnds, TypeOK,
           queueVars, threadVars, pollVars, histVars
<1>5. CASE PollAborts \/ Crash
  BY <1>0, <1>5, ThreadPreserves
     DEF PollAborts, Crash, TypeOK, Times, queueVars, histVars
<1>6. CASE Poll
  BY <1>6, PollPreserves
<1>7. ASSUME NEW e \in Events, Consume(e) PROVE IInv'
  BY <1>7, ConsumePreserves
<1>8. CASE Acknowledge
  BY <1>8, AcknowledgePreserves
<1>9. CASE Fail \/ AcknowledgeFails
  <2>1. faults' \in Nat /\ faults' >= faults
    BY <1>0, <1>9 DEF Fail, AcknowledgeFails, TypeOK
  <2>2. QED
    BY <1>9, <2>1, FailurePreserves DEF Fail, AcknowledgeFails
<1>10. CASE UNCHANGED vars
  <2>1. call # NoCall => thread' = thread
    BY <1>10 DEF vars, threadVars
  <2>2. QED
    BY <1>0, <1>10, <2>1, ThreadPreserves
       DEF vars, TypeOK, queueVars, threadVars, pollVars, histVars
<1>11. QED
  BY <1>1, <1>2, <1>3, <1>4, <1>5, <1>6, <1>7, <1>8, <1>9, <1>10 DEF Next, WorkerStep

\* The inductive invariant holds in every reachable state.
THEOREM Invariance == Spec => []IInv
  BY InitEstablishes, StepPreserves, PTL DEF Spec

\* Type correctness of the outbox and its worker.
THEOREM TypeCorrect == Spec => []TypeOK
<1>1. IInv => TypeOK
  BY DEF IInv
<1>2. QED
  BY <1>1, Invariance, PTL

\* No enqueued event leaves the table before its consumer completed.
THEOREM NothingLost == Spec => []NoEventLost
<1>1. IInv => NoEventLost
  BY DEF IInv
<1>2. QED
  BY <1>1, Invariance, PTL

\* Dead letters of enqueue_outbox have used up every attempt.
THEOREM DeadLettersExhausted == Spec => []DeadLetterIsExhausted
<1>1. IInv => DeadLetterIsExhausted
  BY DEF IInv
<1>2. QED
  BY <1>1, Invariance, PTL

\* Consumer calls are bounded by attempts and faults.
THEOREM Redelivery == Spec => []RedeliveryBounded
<1>1. IInv => RedeliveryBounded
  BY DEF IInv
<1>2. QED
  BY <1>1, Invariance, PTL

\* calls changes in Consume only.
LEMMA CallsChange ==
  ASSUME IInv, [Next]_vars, NEW e \in Events, calls'[e] > calls[e]
  PROVE  Consume(e)
<1>1. calls[e] \in Nat
  BY DEF IInv, TypeOK
<1>2. calls' # calls
  BY <1>1
<1>3. PICK d \in Events : Consume(d)
  BY <1>2 DEF Next, vars, WorkerStep, EnqueueOutbox, EnqueueStructural, Tick, Start,
     Stop, StopReturns, ThreadExits, Poll, PollEnds, Acknowledge, Fail,
     AcknowledgeFails, PollAborts, Crash, histVars
<1>4. calls' = [calls EXCEPT ![d] = @ + 1] /\ calls \in [Events -> Nat]
  BY <1>3 DEF Consume, IInv, TypeOK
<1>5. d = e
  BY <1>1, <1>4
<1>6. QED
  BY <1>3, <1>5

\* A row inserted now becomes due after the claim of the poll under way.
LEMMA InsertKeepsOrder ==
  ASSUME IInv, OrderInv, NEW e \in Events, ~Enqueued(e), NEW due \in {NoTime, clock + 1},
         clock' = clock + 1,
         rows' = [d \in DOMAIN rows \cup {e} |->
                    IF d = e THEN [attempts |-> 0, nextRetry |-> due] ELSE rows[d]],
         UNCHANGED <<threadVars, pollVars>>
  PROVE  OrderInv'
<1> USE DEF OrderInv, threadVars, pollVars
<1>1. e \notin DOMAIN rows /\ clock \in Nat /\ claimTime \in Nat
  BY DEF IInv, RowsAreEnqueued, TypeOK
<1>2. /\ DOMAIN rows' = DOMAIN rows \cup {e}
      /\ rows'[e] = [attempts |-> 0, nextRetry |-> due]
      /\ \A d \in DOMAIN rows : rows'[d] = rows[d]
  BY <1>1
<1>3. claimTime' <= clock' /\ BatchWasDue'
  BY <1>1 DEF BatchWasDue
<1>4. DeadRow(e)' \/ rows'[e].nextRetry > claimTime'
  BY <1>1, <1>2 DEF DeadRow
<1>5. ForgetsClaimed'
  BY <1>1, <1>2, <1>4 DEF ForgetsClaimed, DeadRow
<1>6. QED
  BY <1>3, <1>5

\* A claim that holds an ordinary event holds every forget event that is due.
LEMMA PollKeepsOrder == IInv /\ OrderInv /\ Poll => OrderInv'
<1> SUFFICES ASSUME IInv, OrderInv, Poll PROVE OrderInv'
  OBVIOUS
<1>1. PICK S \in SUBSET DOMAIN rows : IsClaim(S) /\ batch' = [e \in S |-> rows[e]]
  BY DEF Poll
<1>2. rows' = rows /\ clock' = clock /\ claimTime' = clock /\ clock \in Nat /\ IsTable(rows)
  BY DEF Poll, queueVars, IInv, TypeOK
<1>3. BatchWasDue'
  BY <1>1, <1>2 DEF BatchWasDue, IsClaim, Claimable
<1>4. ASSUME NEW f \in Forgets \cap DOMAIN rows, NEW e \in S \ Forgets,
             ~DeadRow(f), ~(rows[f].nextRetry > clock)
      PROVE  f \in S
  <2>1. rows[f] \in Row /\ rows[f].nextRetry # NoTime
    BY <1>2, <1>4 DEF DeadRow, IsTable
  <2>2. rows[f].nextRetry <= clock
    BY <1>2, <1>4, <2>1 DEF Row, Times, NoTime
  <2>3. rows[f].attempts <= MaxRetries
    BY <1>4 DEF IInv, AttemptsBounded
  <2>4. Claimable(f)
    BY <2>1, <2>2, <2>3 DEF Claimable
  <2>5. Precedes(f, e, rows)
    BY <1>4 DEF Precedes, Priority
  <2>6. QED
    BY <1>1, <1>4, <2>4, <2>5 DEF IsClaim
<1>5. ForgetsClaimed'
  BY <1>1, <1>2, <1>4 DEF ForgetsClaimed, DeadRow
<1>6. QED
  BY <1>2, <1>3, <1>5 DEF OrderInv

\* The event that has been dealt with leaves the batch; if its row stays, it is
\* dead or due after the claim.
LEMMA OutcomeKeepsOrder ==
  ASSUME IInv, OrderInv, call # NoCall, Acknowledge \/ Fail \/ AcknowledgeFails
  PROVE  OrderInv'
<1> DEFINE e == call.event
<1>1. e \in DOMAIN batch /\ e \in DOMAIN rows
  BY DEF IInv, CallIsFromBatch, BatchIsCurrent
<1>2. /\ UNCHANGED <<clock, thread, claimTime>>
      /\ DOMAIN batch' = DOMAIN batch \ {e}
      /\ \A d \in DOMAIN batch' : batch'[d] = batch[d]
  BY DEF Acknowledge, Fail, AcknowledgeFails, threadVars
<1>3. /\ clock \in Nat /\ claimTime \in Nat /\ claimTime <= clock
      /\ IsTable(rows) /\ IsTable(batch)
  BY DEF IInv, TypeOK, OrderInv
<1>4. /\ \A d \in DOMAIN rows' \ {e} : d \in DOMAIN rows /\ rows'[d] = rows[d]
      /\ e \in DOMAIN rows' => rows'[e] = AfterFailure(e)
  BY <1>1, <1>3 DEF Acknowledge, Fail, AcknowledgeFails, IsTable
<1>5. /\ AfterFailure(e) \in Row
      /\ AfterFailure(e).nextRetry # NoTime => AfterFailure(e).nextRetry > clock
  BY <1>1, AfterFailureFacts
<1>6. ASSUME e \in DOMAIN rows', rows'[e].nextRetry # NoTime
      PROVE  rows'[e].nextRetry > claimTime
  <2>1. AfterFailure(e).nextRetry \in Nat /\ AfterFailure(e).nextRetry > clock
    BY <1>4, <1>5, <1>6 DEF Row, Times
  <2>2. QED
    BY <1>3, <1>4, <1>6, <2>1
<1>7. BatchWasDue'
  BY <1>2 DEF BatchWasDue, OrderInv
<1>8. ForgetsClaimed'
  <2> SUFFICES ASSUME thread = "polling", NEW f \in Forgets \cap DOMAIN rows',
                      NEW d \in DOMAIN batch' \ Forgets, rows'[f].nextRetry # NoTime
               PROVE  rows'[f].nextRetry > claimTime \/ f \in DOMAIN batch'
    BY <1>2 DEF ForgetsClaimed, DeadRow
  <2>1. CASE f = e
    BY <1>6, <2>1
  <2>2. CASE f # e
    <3>1. f \in DOMAIN rows /\ rows'[f] = rows[f] /\ d \in DOMAIN batch
      BY <1>2, <1>4, <2>2
    <3>2. rows[f].nextRetry > claimTime \/ f \in DOMAIN batch
      BY <3>1 DEF OrderInv, ForgetsClaimed, DeadRow
    <3>3. QED
      BY <1>2, <2>2, <3>1, <3>2
  <2>3. QED
    BY <2>1, <2>2
<1>9. QED
  BY <1>2, <1>3, <1>7, <1>8 DEF OrderInv

\* Every step keeps the order invariant.
LEMMA OrderPreserved == IInv /\ OrderInv /\ [Next]_vars => OrderInv'
<1> SUFFICES ASSUME IInv, OrderInv, [Next]_vars PROVE OrderInv'
  OBVIOUS
<1>0. /\ TypeOK /\ claimTime <= clock /\ BatchWasDue /\ ForgetsClaimed
      /\ CallIsFromBatch
  BY DEF IInv, OrderInv
<1>1. ASSUME NEW e \in Events, EnqueueOutbox(e) \/ EnqueueStructural(e) PROVE OrderInv'
  BY <1>1, InsertKeepsOrder DEF EnqueueOutbox, EnqueueStructural
<1>2. CASE Poll
  BY <1>2, PollKeepsOrder
<1>3. CASE Acknowledge \/ Fail \/ AcknowledgeFails
  <2>1. call # NoCall
    BY <1>3 DEF Acknowledge, Fail, AcknowledgeFails
  <2>2. QED
    BY <1>3, <2>1, OutcomeKeepsOrder
<1>4. CASE PollAborts \/ Crash
  BY <1>0, <1>4 DEF PollAborts, Crash, OrderInv, BatchWasDue, ForgetsClaimed, EmptyTable,
                    queueVars
<1>5. CASE Tick
  <2>1. clock' >= clock
    BY <1>0, <1>5 DEF Tick, TypeOK, IsTable, Row, Times, NoTime
  <2>2. UNCHANGED <<rows, thread, batch, claimTime>>
    BY <1>5 DEF Tick, queueVars, threadVars, pollVars
  <2>3. claimTime' <= clock'
    BY <1>0, <1>5, <2>1, <2>2 DEF TypeOK, Tick, IsTable, Row, Times, NoTime
  <2>4. QED
    BY <1>0, <2>2, <2>3 DEF OrderInv, BatchWasDue, ForgetsClaimed, DeadRow
<1>6. CASE Start \/ Stop \/ StopReturns \/ ThreadExits \/ PollEnds \/ UNCHANGED vars
  <2>1. UNCHANGED <<rows, clock, batch, claimTime>> /\ (thread' = thread \/ thread' # "polling")
    BY <1>6 DEF Start, Stop, StopReturns, ThreadExits, PollEnds, vars,
                queueVars, threadVars, pollVars
  <2>2. QED
    BY <1>0, <2>1 DEF OrderInv, BatchWasDue, ForgetsClaimed, DeadRow
<1>7. ASSUME NEW e \in Events, Consume(e) PROVE OrderInv'
  BY <1>0, <1>7 DEF Consume, OrderInv, BatchWasDue, ForgetsClaimed, DeadRow,
                    queueVars, threadVars
<1>8. QED
  BY <1>1, <1>2, <1>3, <1>4, <1>5, <1>6, <1>7 DEF Next, WorkerStep

\* The claimed batch was due and its forgets come first, in every reachable state.
LEMMA OrderInvariance == Spec => []OrderInv
<1>1. Init => OrderInv
  BY DEF Init, OrderInv, BatchWasDue, ForgetsClaimed, EmptyTable
<1>2. QED
  BY <1>1, OrderPreserved, Invariance, PTL DEF Spec

\* The worker never calls a consumer for a row that is gone, dead, not yet due
\* or exhausted: what it claimed is still so when it gets there.
THEOREM OnlyDueRowsCalled == Spec => CallsOnlyDueRows
<1>1. ASSUME IInv, OrderInv, [Next]_vars, NEW e \in Events, calls'[e] > calls[e]
      PROVE  /\ e \in DOMAIN rows
             /\ rows[e].nextRetry \in 0..clock
             /\ rows[e].attempts <= MaxRetries
  <2>1. e \in DOMAIN batch
    BY <1>1, CallsChange DEF Consume, IsNext
  <2>2. /\ e \in DOMAIN rows /\ batch[e] = rows[e] /\ rows[e].nextRetry # NoTime
        /\ rows[e].attempts <= MaxRetries /\ rows[e] \in Row
        /\ clock \in Nat /\ claimTime \in Nat
    BY <1>1, <2>1 DEF IInv, BatchIsCurrent, TypeOK, IsTable
  <2>3. batch[e].nextRetry <= claimTime /\ claimTime <= clock
    BY <1>1, <2>1 DEF OrderInv, BatchWasDue
  <2>4. QED
    BY <2>2, <2>3 DEF Row, Times, NoTime
<1>2. IInv /\ OrderInv /\ [Next]_vars =>
        [\A e \in Events : calls'[e] > calls[e] =>
           /\ e \in DOMAIN rows
           /\ rows[e].nextRetry \in 0..clock
           /\ rows[e].attempts <= MaxRetries]_vars
  BY <1>1
<1>3. QED
  BY <1>2, Invariance, OrderInvariance, PTL DEF Spec, CallsOnlyDueRows

\* While an ordinary event is being consumed, no forget event that was due when
\* the poll began is still waiting.
THEOREM ForgetsFirst == Spec => ForgetBeforeIndex
<1>1. ASSUME IInv, OrderInv, [Next]_vars, NEW e \in Events \ Forgets, calls'[e] > calls[e],
             NEW f \in Forgets \cap DOMAIN rows
      PROVE  DeadRow(f) \/ rows[f].nextRetry > claimTime
  <2>1. thread = "polling" /\ e \in DOMAIN batch /\ IsNext(e)
    BY <1>1, CallsChange DEF Consume, IsNext
  <2>2. f \notin DOMAIN batch
    BY <1>1, <2>1 DEF IsNext, Precedes, Priority
  <2>3. QED
    BY <1>1, <2>1, <2>2 DEF OrderInv, ForgetsClaimed
<1>2. IInv /\ OrderInv /\ [Next]_vars =>
        [\A e \in Events \ Forgets : calls'[e] > calls[e] =>
           \A f \in Forgets \cap DOMAIN rows :
             DeadRow(f) \/ rows[f].nextRetry > claimTime]_vars
  BY <1>1
<1>3. QED
  BY <1>2, Invariance, OrderInvariance, PTL DEF Spec, ForgetBeforeIndex

-----------------------------------------------------------------------------
(* The outbox implements the delivery promise. *)

Promised == Events \ Structural
Status == [e \in Promised |-> PromiseStatus(e)]
Effects == delivered \ Structural

\* A step that leaves the table, the insertions and the effects alone.
LEMMA QuietStep ==
  ASSUME UNCHANGED <<rows, enqueuedAt, delivered>>
  PROVE  Status' = Status /\ Effects' = Effects
BY DEF Status, Effects, PromiseStatus, Enqueued, DeadRow

\* A step that changes one event only changes the status of that event.
LEMMA OneEventStep ==
  ASSUME NEW e \in Events, TypeOK, TypeOK',
         \A d \in Promised \ {e} : PromiseStatus(d)' = PromiseStatus(d)
  PROVE  /\ e \in Promised => Status' = [Status EXCEPT ![e] = PromiseStatus(e)']
         /\ e \notin Promised => Status' = Status
         /\ e \in Promised /\ PromiseStatus(e)' = PromiseStatus(e) => Status' = Status
BY DEF Status

\* Inserting an event submits it; a structural event is nobody's promise.
LEMMA InsertRefines ==
  ASSUME IInv, IInv', NEW e \in Events, EnqueueOutbox(e) \/ EnqueueStructural(e)
  PROVE  [Promise!DeliveryNext]_<<Status, Effects>>
<1>1. /\ DOMAIN rows' = DOMAIN rows \cup {e} /\ ~Enqueued(e)
      /\ \A d \in DOMAIN rows \ {e} : rows'[d] = rows[d]
      /\ \A d \in Events \ {e} : enqueuedAt'[d] = enqueuedAt[d]
      /\ Effects' = Effects
  BY DEF EnqueueOutbox, EnqueueStructural, IInv, TypeOK, IsTable, histVars, Effects
<1>2. \A d \in Promised \ {e} : PromiseStatus(d)' = PromiseStatus(d)
  BY <1>1 DEF PromiseStatus, Enqueued, DeadRow, Promised
<1>3. CASE e \notin Promised
  BY <1>1, <1>2, <1>3, OneEventStep DEF IInv
<1>4. CASE e \in Promised
  <2>1. EnqueueOutbox(e)
    BY <1>4 DEF EnqueueStructural, Promised
  <2>2. clock' \in Nat /\ rows'[e] = [attempts |-> 0, nextRetry |-> clock']
        /\ enqueuedAt'[e] = clock'
    BY <2>1 DEF EnqueueOutbox, IInv, TypeOK
  <2>3. PromiseStatus(e) = "absent" /\ PromiseStatus(e)' = "pending"
    BY <1>1, <2>2 DEF PromiseStatus, Enqueued, DeadRow, NoTime
  <2>4. Status' = [Status EXCEPT ![e] = "pending"] /\ Status[e] = "absent"
    BY <1>2, <1>4, <2>3, OneEventStep DEF IInv, Status
  <2>5. Promise!Submit(e)
    BY <1>1, <2>4 DEF Promise!Submit, Status, Effects, Promised
  <2>6. QED
    BY <1>4, <2>5 DEF Promise!DeliveryNext, Promised
<1>5. QED
  BY <1>3, <1>4

\* A consumer that completes takes effect; one that raises is a stutter.
LEMMA ConsumeRefines ==
  ASSUME IInv, NEW e \in Events, Consume(e)
  PROVE  [Promise!DeliveryNext]_<<Status, Effects>>
<1>1. PICK result \in {"ok", "error"} :
        delivered' = IF result = "ok" THEN delivered \cup {e} ELSE delivered
  BY DEF Consume, RouteResult
<1>2. e \in DOMAIN rows /\ Enqueued(e) /\ ~DeadRow(e)
  BY DEF Consume, IsNext, IInv, BatchIsCurrent, RowsAreEnqueued, DeadRow
<1>3. Status' = Status
  BY DEF Consume, queueVars, Status, PromiseStatus, Enqueued, DeadRow
<1>4. CASE e \in Promised /\ result = "ok"
  <2>1. Status[e] = "pending"
    BY <1>2, <1>4 DEF Status, PromiseStatus
  <2>2. Effects' = Effects \cup {e}
    BY <1>1, <1>4 DEF Effects, Promised
  <2>3. Promise!TakeEffect(e)
    BY <1>3, <2>1, <2>2 DEF Promise!TakeEffect, Status, Effects, Promised
  <2>4. QED
    BY <1>4, <2>3 DEF Promise!DeliveryNext, Promised
<1>5. CASE ~(e \in Promised /\ result = "ok")
  BY <1>1, <1>3, <1>5 DEF Effects, Promised
<1>6. QED
  BY <1>4, <1>5

\* An acknowledgement retires an event that took effect; a failure puts it
\* aside when it was the last one, and is a stutter before.
LEMMA OutcomeRefines ==
  ASSUME IInv, IInv', Acknowledge \/ Fail \/ AcknowledgeFails
  PROVE  [Promise!DeliveryNext]_<<Status, Effects>>
<1>0. PICK e \in Events : e = call.event
  BY DEF Acknowledge, Fail, AcknowledgeFails, IInv, TypeOK
<1>1. /\ call # NoCall /\ e \in DOMAIN batch /\ e \in DOMAIN rows /\ e \in Events
      /\ Enqueued(e) /\ ~DeadRow(e) /\ (call.result = "ok" => e \in delivered)
  BY <1>0 DEF Acknowledge, Fail, AcknowledgeFails, IInv, CallIsFromBatch, BatchIsCurrent,
         RowsAreEnqueued, DeadRow, TypeOK, IsTable
<1>2. /\ enqueuedAt' = enqueuedAt /\ delivered' = delivered
      /\ \A d \in Events \ {e} : /\ d \in DOMAIN rows' <=> d \in DOMAIN rows
                                 /\ d \in DOMAIN rows => rows'[d] = rows[d]
  <2>1. rows \in [DOMAIN rows -> Row]
    BY DEF IInv, TypeOK, IsTable
  <2>2. CASE Acknowledge
    BY <1>0, <2>2 DEF Acknowledge, histVars
  <2>3. CASE Fail \/ AcknowledgeFails
    <3>1. rows' = [rows EXCEPT ![e] = AfterFailure(e)]
      BY <1>0, <2>3 DEF Fail, AcknowledgeFails
    <3>2. QED
      BY <2>1, <2>3, <3>1 DEF Fail, AcknowledgeFails, histVars
  <2>4. QED
    BY <2>2, <2>3
<1>3. \A d \in Promised \ {e} : PromiseStatus(d)' = PromiseStatus(d)
  <2> SUFFICES ASSUME NEW d \in Events \ {e}
               PROVE  PromiseStatus(d)' = PromiseStatus(d)
    BY DEF Promised
  <2>1. /\ d \in DOMAIN rows' <=> d \in DOMAIN rows
        /\ d \in DOMAIN rows => rows'[d] = rows[d]
    BY <1>2
  <2>2. (Enqueued(d)' <=> Enqueued(d)) /\ (DeadRow(d)' <=> DeadRow(d))
    BY <1>2, <2>1 DEF DeadRow, Enqueued
  <2>3. QED
    BY <2>1, <2>2 DEF PromiseStatus
<1>4. Effects' = Effects /\ PromiseStatus(e) = "pending"
  BY <1>1, <1>2 DEF Effects, PromiseStatus
<1>5. PromiseStatus(e)' \in {"pending", "dead", "done"}
  BY <1>1, <1>2 DEF PromiseStatus, Enqueued
<1>6. CASE e \notin Promised \/ PromiseStatus(e)' = "pending"
  BY <1>1, <1>3, <1>4, <1>6, OneEventStep DEF IInv
<1>7. CASE e \in Promised /\ PromiseStatus(e)' # "pending"
  <2>1. Status' = [Status EXCEPT ![e] = PromiseStatus(e)'] /\ Status[e] = "pending"
    BY <1>1, <1>3, <1>4, <1>7, OneEventStep DEF IInv, Status
  <2>2. CASE PromiseStatus(e)' = "dead"
    <3>1. Promise!PutAside(e)
      BY <1>4, <2>1, <2>2 DEF Promise!PutAside, Status, Effects, Promised
    <3>2. QED
      BY <1>7, <3>1 DEF Promise!DeliveryNext, Promised
  <2>3. CASE PromiseStatus(e)' = "done"
    <3>1. e \notin DOMAIN rows'
      BY <2>3 DEF PromiseStatus
    <3>2. e \in Effects
      BY <1>0, <1>1, <1>7, <3>1 DEF Effects, Promised, Acknowledge, Fail, AcknowledgeFails,
                              IInv, TypeOK, IsTable
    <3>3. Promise!Retire(e)
      BY <1>4, <2>1, <2>3, <3>2 DEF Promise!Retire, Status, Effects, Promised
    <3>4. QED
      BY <1>7, <3>3 DEF Promise!DeliveryNext, Promised
  <2>4. QED
    BY <1>5, <1>7, <2>2, <2>3
<1>8. QED
  BY <1>6, <1>7

\* Initial states map to initial states and every step to a step or a stutter.
THEOREM Implementation == Spec => KeepsPromise
<1>1. Init => Promise!DeliveryInit
  BY DEF Init, Promise!DeliveryInit, PromiseStatus, Enqueued
<1>2. IInv /\ IInv' /\ [Next]_vars => [Promise!DeliveryNext]_<<Status, Effects>>
  <2> SUFFICES ASSUME IInv, IInv', [Next]_vars
               PROVE  [Promise!DeliveryNext]_<<Status, Effects>>
    OBVIOUS
  <2>1. ASSUME NEW e \in Events, EnqueueOutbox(e) \/ EnqueueStructural(e)
        PROVE  [Promise!DeliveryNext]_<<Status, Effects>>
    BY <2>1, InsertRefines
  <2>2. ASSUME NEW e \in Events, Consume(e)
        PROVE  [Promise!DeliveryNext]_<<Status, Effects>>
    BY <2>2, ConsumeRefines
  <2>3. CASE Acknowledge \/ Fail \/ AcknowledgeFails
    BY <2>3, OutcomeRefines
  <2>4. CASE \/ Tick \/ Start \/ Stop \/ StopReturns \/ ThreadExits \/ Poll \/ PollEnds
             \/ PollAborts \/ Crash \/ UNCHANGED vars
    <3>1. UNCHANGED <<rows, enqueuedAt, delivered>>
      BY <2>4 DEF Tick, Start, Stop, StopReturns, ThreadExits, Poll, PollEnds,
                  PollAborts, Crash, vars, queueVars, histVars
    <3>2. QED
      BY <3>1, QuietStep
  <2>5. QED
    BY <2>1, <2>2, <2>3, <2>4 DEF Next, WorkerStep
<1>3. [Promise!DeliveryNext]_<<Status, Effects>>
        => [Promise!DeliveryNext]_(Promise!deliveryVars)
  BY DEF Promise!deliveryVars, Status, Effects, Promised
<1>4. QED
  BY <1>1, <1>2, <1>3, Invariance, PTL DEF Spec, KeepsPromise, Promise!DeliverySpec

-----------------------------------------------------------------------------
(* The caches that a deletion event empties                                  *)

\* The caches start empty.
LEMMA CachesInitEstablishes == CachesInit => CachesInv
<1> SUFFICES ASSUME CachesInit PROVE CachesInv
  OBVIOUS
<1> USE DEF CachesInit, EmbedInit, ExtractInit, NoneCached, NoneExtracted, NotAsked
<1>1. CacheTypes /\ ConsumerTypes /\ NotedBefore
  <2>1. CacheTypes
    BY DEF CacheTypes
  <2>2. NotAsked \in [embed : Int, extract : Int]
    OBVIOUS
  <2>3. ConsumerTypes
    BY <2>2, DeletionAssumption DEF ConsumerTypes
  <2>4. NotedBefore
    BY DEF NotedBefore
  <2>5. QED
    BY <2>1, <2>3, <2>4
<1>2. EmbeddingWiped /\ ExtractionWiped
  BY DEF EmbeddingWiped, ExtractionWiped, PastEmbedding, PastExtraction, SourcesPassed,
         CandidatesAreNewer
<1>3. StoredAfterWipe /\ ProcessedIsComplete
  BY DEF StoredAfterWipe, ProcessedIsComplete
<1>4. QED
  BY <1>1, <1>2, <1>3 DEF CachesInv

\* What is processed has passed both caches.
LEMMA PassedIsComplete ==
  ASSUME ConsumerTypes, EmbeddingWiped, ExtractionWiped,
         \A k \in DOMAIN extracted : k[2] \notin tombstones
  PROVE  ProcessedIsComplete
BY DEF ConsumerTypes, EmbeddingWiped, ExtractionWiped, PastEmbedding, PastExtraction,
       SourcesPassed, ProcessedIsComplete

-----------------------------------------------------------------------------
\* A request stores only under the present generation, so that nothing it
\* stores is older than a wipe or a deletion that has passed.
LEMMA RequestPreserves ==
  ASSUME CachesInv, NEW r \in Requests, Embed(r)
  PROVE  CachesInv'
<1> USE DEF CachesInv
<1>1. UNCHANGED <<extractVars, invalidatorVars, generation, wipedAt>>
  BY DEF Embed, RequestStep, Begin, Lookup, Capture, Join, Await, Submit, Register, Result,
         Release, Store, cacheVars
<1>2. gen' \in [Requests -> Nat]
  <2> DEFINE Kept == \/ gen' = [gen EXCEPT ![r] = 0]
                    \/ gen' = [gen EXCEPT ![r] = generation]
                    \/ UNCHANGED gen
  <2>1. ASSUME Begin(r) \/ Lookup(r) \/ Capture(r) \/ Join(r) \/ Await(r) PROVE Kept
    BY <2>1 DEF Begin, Lookup, Capture, Join, Await, Answers, Goes
  <2>2. ASSUME Submit(r) \/ Register(r) \/ Result(r) \/ Release(r) \/ Store(r) PROVE Kept
    BY <2>2 DEF Submit, Register, Result, Release, Store, Answers, Goes
  <2>3. Kept
    BY <2>1, <2>2 DEF Embed, RequestStep
  <2>4. gen \in [Requests -> Nat] /\ generation \in Nat
    BY DEF CacheTypes
  <2>5. QED
    BY <2>3, <2>4
<1>3. \/ UNCHANGED cached
      \/ /\ DOMAIN cached' \subseteq DOMAIN cached \cup {TextOf[r]}
         /\ \A t \in DOMAIN cached' :
              cached'[t] = IF t = TextOf[r] THEN generation ELSE cached[t]
  BY DEF Embed, RequestStep, Begin, Lookup, Capture, Join, Await, Submit, Register, Result,
         Release, Store, Stored, cacheVars
<1>4. TextOf[r] \in Texts
  BY CacheAssumption
<1>5. CacheTypes'
  BY <1>1, <1>2, <1>3, <1>4 DEF CacheTypes, extractVars
<1>6. ConsumerTypes' /\ NotedBefore'
  BY <1>1 DEF ConsumerTypes, NotedBefore, extractVars, invalidatorVars
<1>7. StoredAfterWipe'
  BY <1>1, <1>3, <1>4 DEF StoredAfterWipe, CacheTypes, NotedBefore
<1>8. EmbeddingWiped'
  <2> SUFFICES ASSUME NEW d \in Deletions, PastEmbedding(d)'
               PROVE  /\ TextsGone(d) # {} => generation > askedAt[d].embed
                      /\ VectorsAreNewer(d)'
    BY <1>1 DEF EmbeddingWiped, invalidatorVars, TextsGone, Hashes
  <2>1. PastEmbedding(d)
    BY <1>1 DEF PastEmbedding, invalidatorVars
  <2>2. VectorsAreNewer(d)'
    BY <1>1, <1>3, <2>1 DEF EmbeddingWiped, VectorsAreNewer, invalidatorVars, TextsGone, Hashes
  <2>3. QED
    BY <2>1, <2>2 DEF EmbeddingWiped
<1>9. ExtractionWiped'
  BY <1>1 DEF ExtractionWiped, SourcesPassed, PastExtraction, CandidatesAreNewer, SourcesGone,
              Fingerprints, extractVars, invalidatorVars
<1>10. \A k \in DOMAIN extracted' : k[2] \notin tombstones'
  BY <1>1 DEF ProcessedIsComplete, extractVars
<1>11. ProcessedIsComplete'
  BY <1>6, <1>8, <1>9, <1>10 DEF ConsumerTypes, EmbeddingWiped, ExtractionWiped, PastEmbedding,
         PastExtraction, SourcesPassed, CandidatesAreNewer, ProcessedIsComplete
<1>12. QED
  BY <1>5, <1>6, <1>7, <1>8, <1>9, <1>11

\* The executor and the language model touch no cache.
LEMMA RestPreserves ==
  ASSUME CachesInv,
         UNCHANGED <<cached, generation, gen, wipedAt, extracted, xgeneration, tombstones, xgen,
                     step, processed, askedAt>>
  PROVE  CachesInv'
<1> USE DEF CachesInv
<1>1. CacheTypes' /\ ConsumerTypes' /\ NotedBefore'
  BY DEF CacheTypes, ConsumerTypes, NotedBefore
<1>2. StoredAfterWipe'
  BY DEF StoredAfterWipe
<1>3. EmbeddingWiped' /\ ExtractionWiped'
  BY DEF EmbeddingWiped, ExtractionWiped, PastEmbedding, PastExtraction, SourcesPassed,
         VectorsAreNewer, CandidatesAreNewer, TextsGone, SourcesGone, Hashes, Fingerprints
<1>4. ProcessedIsComplete'
  BY DEF ProcessedIsComplete, VectorsAreNewer, CandidatesAreNewer, TextsGone, SourcesGone, Hashes,
         Fingerprints
<1>5. QED
  BY <1>1, <1>2, <1>3, <1>4

\* An extraction stores only under the present generation, and nothing for an
\* event that has a tombstone.
LEMMA ExtractionPreserves ==
  ASSUME CachesInv, NEW x \in Extractions, Extract(x)
  PROVE  CachesInv'
<1> USE DEF CachesInv
<1>1. UNCHANGED <<embedVars, invalidatorVars, xgeneration, tombstones>>
  BY DEF Extract, ExtractStep, ExtractLookup, ExtractCapture, RunLlm, LlmReturns, ExtractStore
<1>2. \/ UNCHANGED xgen
      \/ xgen' = [xgen EXCEPT ![x] = xgeneration]
  BY DEF Extract, ExtractStep, ExtractLookup, ExtractCapture, RunLlm, LlmReturns, ExtractStore
<1>3. \/ UNCHANGED extracted
      \/ /\ DOMAIN extracted' = DOMAIN extracted \cup {KeyOf(x)}
         /\ SourceOf[x] \notin tombstones
         /\ \A k \in DOMAIN extracted' :
              IF k = KeyOf(x) THEN extracted'[k].gen = xgeneration
              ELSE extracted'[k] = extracted[k]
  BY DEF Extract, ExtractStep, ExtractLookup, ExtractCapture, RunLlm, LlmReturns, ExtractStore,
         Cached
<1>4. KeyOf(x)[2] = SourceOf[x] /\ SourceOf[x] \in Sources
  BY ExtractionAssumption DEF KeyOf
<1>5. CacheTypes'
  BY <1>1, <1>2, <1>3 DEF CacheTypes, embedVars, cacheVars, serviceVars
<1>6. ConsumerTypes' /\ NotedBefore' /\ StoredAfterWipe'
  BY <1>1 DEF ConsumerTypes, NotedBefore, StoredAfterWipe, embedVars, cacheVars, invalidatorVars
<1>7. EmbeddingWiped'
  BY <1>1 DEF EmbeddingWiped, PastEmbedding, VectorsAreNewer, TextsGone, Hashes, embedVars,
              cacheVars, invalidatorVars
<1>8. ExtractionWiped'
  <2> SUFFICES ASSUME NEW d \in Deletions
               PROVE  /\ SourcesPassed(d)' # {} => xgeneration' > askedAt'[d].extract
                      /\ CandidatesAreNewer(d, SourcesPassed(d))'
    BY DEF ExtractionWiped
  <2>1. SourcesPassed(d)' = SourcesPassed(d)
    BY <1>1 DEF SourcesPassed, PastExtraction, invalidatorVars, SourcesGone, Fingerprints
  <2>2. SourcesPassed(d) # {} => xgeneration > askedAt[d].extract
    BY DEF ExtractionWiped
  <2>3. \A k \in DOMAIN extracted : k[2] \in SourcesPassed(d) =>
           extracted[k].gen > askedAt[d].extract
    BY DEF ExtractionWiped, CandidatesAreNewer
  <2>4. \A k \in DOMAIN extracted' : k[2] \in SourcesPassed(d) =>
           extracted'[k].gen > askedAt[d].extract
    BY <1>3, <1>4, <2>2, <2>3
  <2>5. QED
    BY <1>1, <2>1, <2>2, <2>4 DEF CandidatesAreNewer, invalidatorVars
<1>9. \A k \in DOMAIN extracted' : k[2] \notin tombstones'
  BY <1>1, <1>3, <1>4 DEF ProcessedIsComplete
<1>10. ProcessedIsComplete'
  BY <1>6, <1>7, <1>8, <1>9 DEF ConsumerTypes, EmbeddingWiped, ExtractionWiped, PastEmbedding,
         PastExtraction, SourcesPassed, CandidatesAreNewer, ProcessedIsComplete
<1>11. QED
  BY <1>5, <1>6, <1>7, <1>8, <1>10

-----------------------------------------------------------------------------
\* A deletion that is delivered notes the generations, unless it has before.
LEMMA DeliveryPreserves ==
  ASSUME CachesInv, NEW d \in Deletions, Deliver(d)
  PROVE  CachesInv'
<1> USE DEF CachesInv
<1>1. UNCHANGED <<embedVars, extractVars, processed>>
  BY DEF Deliver
<1>2. /\ d \notin processed
      /\ step' = [step EXCEPT ![d] = "embedding"]
  BY DEF Deliver, Moves
<1>3. \/ UNCHANGED askedAt
      \/ askedAt' = [askedAt EXCEPT ![d] = [embed |-> generation, extract |-> xgeneration]]
  BY DEF Deliver
<1>4. CacheTypes' /\ StoredAfterWipe'
  BY <1>1 DEF CacheTypes, StoredAfterWipe, embedVars, extractVars, serviceVars, cacheVars
<1>5. ConsumerTypes' /\ NotedBefore'
  <2>1. [embed |-> generation, extract |-> xgeneration] \in [embed : Int, extract : Int]
    BY DEF CacheTypes
  <2>2. ConsumerTypes'
    <3>1. askedAt' \in [Deletions -> [embed : Int, extract : Int]]
      BY <1>3, <2>1 DEF ConsumerTypes
    <3>2. QED
      BY <1>1, <1>2, <3>1, DeletionAssumption DEF ConsumerTypes
  <2>3. UNCHANGED <<generation, xgeneration, wipedAt>>
    BY <1>1 DEF embedVars, extractVars, cacheVars
  <2>4. NotedBefore'
    <3>1. CASE UNCHANGED askedAt
      BY <2>3, <3>1 DEF NotedBefore
    <3>2. CASE askedAt' = [askedAt EXCEPT ![d] = [embed |-> generation, extract |-> xgeneration]]
      <4>1. askedAt'[d].embed = generation /\ askedAt'[d].extract = xgeneration
        BY <3>2 DEF ConsumerTypes
      <4>2. \A c \in Deletions \ {d} : askedAt'[c] = askedAt[c]
        BY <3>2 DEF ConsumerTypes
      <4>3. ASSUME NEW c \in Deletions
            PROVE  askedAt'[c].embed <= generation /\ askedAt'[c].extract <= xgeneration
        <5>1. CASE c = d
          BY <4>1, <5>1 DEF CacheTypes
        <5>2. CASE c # d
          BY <4>2, <5>2 DEF NotedBefore
        <5>3. QED
          BY <5>1, <5>2
      <4>4. QED
        BY <2>3, <4>3 DEF NotedBefore
    <3>3. QED
      BY <1>3, <3>1, <3>2
  <2>5. QED
    BY <2>2, <2>4
<1>6. \A c \in Deletions \ {d} : step'[c] = step[c] /\ askedAt'[c] = askedAt[c]
  BY <1>2, <1>3 DEF ConsumerTypes
<1>7. step'[d] = "embedding"
  BY <1>2 DEF ConsumerTypes
<1>8. EmbeddingWiped'
  BY <1>1, <1>2, <1>6, <1>7 DEF EmbeddingWiped, PastEmbedding, VectorsAreNewer, TextsGone, Hashes,
     embedVars, cacheVars
<1>9. ExtractionWiped'
  BY <1>1, <1>2, <1>6, <1>7 DEF ExtractionWiped, SourcesPassed, PastExtraction,
     CandidatesAreNewer, SourcesGone, Fingerprints, extractVars
<1>10. \A k \in DOMAIN extracted' : k[2] \notin tombstones'
  BY <1>1 DEF ProcessedIsComplete, extractVars
<1>11. ProcessedIsComplete'
  BY <1>5, <1>8, <1>9, <1>10 DEF ConsumerTypes, EmbeddingWiped, ExtractionWiped, PastEmbedding,
         PastExtraction, SourcesPassed, CandidatesAreNewer, ProcessedIsComplete
<1>12. QED
  BY <1>4, <1>5, <1>8, <1>9, <1>11

\* The embedding cache is emptied of what the deletion names: nothing that was
\* asked for before is left, and nothing under way can be stored.
LEMMA WipeEmbeddingPreserves ==
  ASSUME CachesInv, NEW d \in Deletions, WipeEmbedding(d)
  PROVE  CachesInv'
<1> USE DEF CachesInv
<1>1. UNCHANGED <<gen, extractVars, processed, askedAt>>
  BY DEF WipeEmbedding, serviceVars
<1>2. step[d] = "embedding" /\ step' = [step EXCEPT ![d] = "content"]
  BY DEF WipeEmbedding, Moves
<1>3. Hashes(d) \subseteq Texts
  BY DeletionAssumption DEF Hashes
<1>4. \/ Wipe(TextsGone(d))
      \/ UNCHANGED cacheVars /\ TextsGone(d) = {}
  BY DEF WipeEmbedding, TextsGone
<1>5. \A T : Wipe(T) =>
         /\ DOMAIN cached' = DOMAIN cached \ T
         /\ \A t \in DOMAIN cached' : cached'[t] = cached[t]
         /\ generation' = generation + 1
         /\ wipedAt' = [t \in Texts |-> IF t \in T THEN generation' ELSE wipedAt[t]]
  BY DEF Wipe, Without
<1>6. /\ DOMAIN cached' = DOMAIN cached \ TextsGone(d)
      /\ \A t \in DOMAIN cached' : cached'[t] = cached[t]
      /\ generation' \in Nat /\ generation' >= generation
      /\ TextsGone(d) # {} => generation' = generation + 1
      /\ wipedAt' \in [Texts -> Nat]
      /\ \A t \in Texts : wipedAt'[t] <= generation'
      /\ \A t \in Texts \ TextsGone(d) : wipedAt'[t] = wipedAt[t]
  <2>1. CASE Wipe(TextsGone(d))
    <3> DEFINE T == TextsGone(d)
    <3>1. /\ DOMAIN cached' = DOMAIN cached \ T
          /\ \A t \in DOMAIN cached' : cached'[t] = cached[t]
          /\ generation' = generation + 1
          /\ wipedAt' = [t \in Texts |-> IF t \in T THEN generation' ELSE wipedAt[t]]
      BY <1>5, <2>1
    <3> HIDE DEF T
    <3>2. QED
      BY <3>1 DEF CacheTypes, NotedBefore, T
  <2>2. CASE UNCHANGED cacheVars /\ TextsGone(d) = {}
    BY <2>2 DEF CacheTypes, NotedBefore, cacheVars
  <2>3. QED
    BY <1>4, <2>1, <2>2
<1>7. CacheTypes'
  BY <1>1, <1>6 DEF CacheTypes, extractVars
<1>8. ConsumerTypes' /\ NotedBefore'
  BY <1>1, <1>2, <1>6 DEF ConsumerTypes, NotedBefore, CacheTypes, extractVars
<1>9. StoredAfterWipe'
  BY <1>6 DEF StoredAfterWipe, CacheTypes
<1>10. EmbeddingWiped'
  <2> SUFFICES ASSUME NEW c \in Deletions, PastEmbedding(c)'
               PROVE  /\ TextsGone(c) # {} => generation' > askedAt[c].embed
                      /\ VectorsAreNewer(c)'
    BY <1>1 DEF EmbeddingWiped, TextsGone, Hashes
  <2>1. CASE c = d
    <3>1. TextsGone(d) # {} => generation' > askedAt[d].embed
      BY <1>6 DEF NotedBefore, ConsumerTypes, CacheTypes
    <3>2. DOMAIN cached' \cap TextsGone(d) = {}
      BY <1>6
    <3>3. QED
      BY <1>1, <2>1, <3>1, <3>2 DEF VectorsAreNewer, TextsGone, Hashes
  <2>2. CASE c # d
    <3>1. PastEmbedding(c)
      BY <1>1, <1>2, <2>2 DEF PastEmbedding, ConsumerTypes
    <3>2. /\ TextsGone(c) # {} => generation > askedAt[c].embed
          /\ \A t \in DOMAIN cached \cap TextsGone(c) : cached[t] > askedAt[c].embed
      BY <3>1 DEF EmbeddingWiped, VectorsAreNewer
    <3>3. askedAt[c].embed \in Int /\ generation \in Nat
      BY DEF ConsumerTypes, CacheTypes
    <3>4. TextsGone(c)' = TextsGone(c) /\ askedAt' = askedAt
      BY <1>1 DEF TextsGone, Hashes
    <3>5. QED
      BY <1>6, <3>2, <3>3, <3>4 DEF VectorsAreNewer
  <2>3. QED
    BY <2>1, <2>2
<1>11. ExtractionWiped'
  BY <1>1, <1>2 DEF ExtractionWiped, SourcesPassed, PastExtraction, CandidatesAreNewer, SourcesGone,
     Fingerprints, extractVars, ConsumerTypes
<1>12. \A k \in DOMAIN extracted' : k[2] \notin tombstones'
  BY <1>1 DEF ProcessedIsComplete, extractVars
<1>13. ProcessedIsComplete'
  BY <1>8, <1>10, <1>11, <1>12 DEF ConsumerTypes, EmbeddingWiped, ExtractionWiped, PastEmbedding,
         PastExtraction, SourcesPassed, CandidatesAreNewer, ProcessedIsComplete
<1>14. QED
  BY <1>7, <1>8, <1>9, <1>10, <1>11, <1>13

\* The extraction cache is emptied of the contents the deletion names, and then
\* of the event whose id it carries; only the second sets a tombstone.
LEMMA WipeExtractionPreserves ==
  ASSUME CachesInv, NEW d \in Deletions, WipeContent(d) \/ WipeEvent(d)
  PROVE  CachesInv'
<1> USE DEF CachesInv
<1>1. UNCHANGED <<embedVars, xgen, processed, askedAt>>
  BY DEF WipeContent, WipeEvent, ClearExtracted, ForgetContent, ForgetEvent, Rest, extractVars
<1>2. \/ /\ step[d] \in {"content", "event"} /\ step' = [step EXCEPT ![d] = "register"]
         /\ \A k \in DOMAIN extracted' :
              k[2] \notin SourcesGone(d) \/ (step[d] = "event" /\ k[2] \in Fingerprints(d))
         /\ xgeneration' = xgeneration + 1
      \/ /\ step[d] = "content" /\ step' = [step EXCEPT ![d] = "event"] /\ d \notin Resets
         /\ \A k \in DOMAIN extracted' : k[2] \notin Fingerprints(d)
         /\ xgeneration' \in {xgeneration, xgeneration + 1}
         /\ Fingerprints(d) # {} => xgeneration' = xgeneration + 1
  <2>1. CASE WipeContent(d) /\ d \in Resets
    BY <2>1, DeletionAssumption
       DEF WipeContent, ClearExtracted, Moves, NoneExtracted, extractVars
  <2>2. CASE WipeContent(d) /\ d \notin Resets
    BY <2>2 DEF WipeContent, ForgetContent, Gone, Moves, extractVars
  <2>3. CASE WipeEvent(d)
    <3>1. d \notin Resets
      BY <2>3 DEF WipeEvent, ConsumerTypes
    <3>2. DOMAIN extracted' = {k \in DOMAIN extracted : k[2] # d}
      BY <2>3 DEF WipeEvent, ForgetEvent, Gone
    <3>3. QED
      BY <2>3, <3>1, <3>2 DEF WipeEvent, ForgetEvent, Moves, SourcesGone
  <2>4. QED
    BY <2>1, <2>2, <2>3
<1>3. /\ DOMAIN extracted' \subseteq DOMAIN extracted
      /\ \A k \in DOMAIN extracted' : extracted'[k] = extracted[k]
      /\ \A k \in DOMAIN extracted' : k[2] \notin tombstones'
  BY DEF WipeContent, WipeEvent, ClearExtracted, ForgetContent, ForgetEvent, Gone, NoneExtracted,
         ProcessedIsComplete, extractVars
<1>4. CacheTypes'
  BY <1>1, <1>2, <1>3 DEF CacheTypes, embedVars, serviceVars, cacheVars
<1>5. ConsumerTypes' /\ NotedBefore' /\ StoredAfterWipe'
  <2>1. ConsumerTypes'
    BY <1>1, <1>2, DeletionAssumption DEF ConsumerTypes
  <2>2. NotedBefore'
    <3>1. generation' = generation /\ wipedAt' = wipedAt /\ askedAt' = askedAt
      BY <1>1 DEF embedVars, cacheVars
    <3>2. xgeneration' \in Nat /\ xgeneration' >= xgeneration
      BY <1>2 DEF CacheTypes
    <3>3. QED
      BY <3>1, <3>2 DEF NotedBefore, ConsumerTypes, CacheTypes
  <2>3. StoredAfterWipe'
    BY <1>1 DEF StoredAfterWipe, embedVars, cacheVars
  <2>4. QED
    BY <2>1, <2>2, <2>3
<1>6. EmbeddingWiped'
  BY <1>1, <1>2 DEF EmbeddingWiped, PastEmbedding, VectorsAreNewer, TextsGone, Hashes, embedVars,
     cacheVars, ConsumerTypes
<1>7. ExtractionWiped'
  <2> SUFFICES ASSUME NEW c \in Deletions
               PROVE  /\ SourcesPassed(c)' # {} => xgeneration' > askedAt[c].extract
                      /\ \A k \in DOMAIN extracted' : k[2] \in SourcesPassed(c)' =>
                           extracted[k].gen > askedAt[c].extract
    BY <1>1, <1>3 DEF ExtractionWiped, CandidatesAreNewer
  <2>1. /\ SourcesPassed(c) # {} => xgeneration > askedAt[c].extract
        /\ \A k \in DOMAIN extracted : k[2] \in SourcesPassed(c) =>
             extracted[k].gen > askedAt[c].extract
    BY DEF ExtractionWiped, CandidatesAreNewer
  <2>2. /\ askedAt[c].extract \in Int /\ xgeneration \in Nat
        /\ askedAt[c].extract <= xgeneration
    BY DEF ConsumerTypes, CacheTypes, NotedBefore
  <2>3. xgeneration' \in Nat /\ xgeneration' >= xgeneration
    BY <1>2, <2>2
  <2>4. CASE SourcesPassed(c)' = SourcesPassed(c)
    BY <1>3, <2>1, <2>2, <2>3, <2>4
  <2>5. CASE SourcesPassed(c)' # SourcesPassed(c)
    <3>1. c = d /\ ~PastExtraction(d)
      BY <1>1, <1>2, <2>5 DEF SourcesPassed, PastExtraction, SourcesGone, Fingerprints,
         ConsumerTypes
    <3>2. CASE step' = [step EXCEPT ![d] = "register"]
      <4>1. SourcesPassed(d)' = SourcesGone(d)
        BY <3>2 DEF SourcesPassed, PastExtraction, SourcesGone, Fingerprints, ConsumerTypes
      <4>2. step[d] = "event" => SourcesPassed(d) = Fingerprints(d)
        BY <3>1 DEF SourcesPassed
      <4>3. xgeneration' = xgeneration + 1
        BY <1>2, <3>2 DEF ConsumerTypes
      <4>4. \A k \in DOMAIN extracted' : k[2] \in SourcesGone(d) =>
               step[d] = "event" /\ k[2] \in Fingerprints(d)
        BY <1>2, <3>2 DEF ConsumerTypes
      <4>5. QED
        BY <1>3, <2>1, <2>2, <3>1, <4>1, <4>2, <4>3, <4>4
    <3>3. CASE step' = [step EXCEPT ![d] = "event"]
      <4>1. SourcesPassed(d)' = Fingerprints(d)
        BY <1>1, <3>1, <3>3 DEF SourcesPassed, PastExtraction, Fingerprints, ConsumerTypes
      <4>2. /\ \A k \in DOMAIN extracted' : k[2] \notin Fingerprints(d)
            /\ Fingerprints(d) # {} => xgeneration' = xgeneration + 1
        BY <1>2, <3>3 DEF ConsumerTypes
      <4>3. QED
        BY <2>2, <3>1, <4>1, <4>2
    <3>4. QED
      BY <1>2, <3>2, <3>3
  <2>6. QED
    BY <2>4, <2>5
<1>8. ProcessedIsComplete'
  BY <1>3, <1>5, <1>6, <1>7 DEF ConsumerTypes, EmbeddingWiped, ExtractionWiped, PastEmbedding,
         PastExtraction, SourcesPassed, CandidatesAreNewer, ProcessedIsComplete
<1>9. QED
  BY <1>4, <1>5, <1>6, <1>7, <1>8

\* A deletion is registered after it has passed both caches, and one that fails
\* begins anew.
LEMMA HandlingEndsPreserves ==
  ASSUME CachesInv, NEW d \in Deletions, MarkProcessed(d) \/ Raises(d)
  PROVE  CachesInv'
<1> USE DEF CachesInv
<1>1. UNCHANGED <<embedVars, extractVars, askedAt>>
  BY DEF MarkProcessed, Raises
<1>2. /\ step' = [step EXCEPT ![d] = "idle"]
      /\ \/ step[d] = "register" /\ processed' = processed \cup {d}
         \/ UNCHANGED processed
  BY DEF MarkProcessed, Raises, Moves
<1>3. CacheTypes' /\ ConsumerTypes' /\ NotedBefore' /\ StoredAfterWipe'
  BY <1>1, <1>2 DEF CacheTypes, ConsumerTypes, NotedBefore, StoredAfterWipe, embedVars, extractVars,
     serviceVars, cacheVars
<1>4. EmbeddingWiped'
  BY <1>1, <1>2 DEF EmbeddingWiped, PastEmbedding, VectorsAreNewer, TextsGone, Hashes, embedVars,
     cacheVars, ConsumerTypes
<1>5. ExtractionWiped'
  BY <1>1, <1>2 DEF ExtractionWiped, SourcesPassed, PastExtraction, CandidatesAreNewer, SourcesGone,
     Fingerprints, extractVars, ConsumerTypes
<1>6. \A k \in DOMAIN extracted' : k[2] \notin tombstones'
  BY <1>1 DEF ProcessedIsComplete, extractVars
<1>7. ProcessedIsComplete'
  BY <1>3, <1>4, <1>5, <1>6 DEF ConsumerTypes, EmbeddingWiped, ExtractionWiped, PastEmbedding,
         PastExtraction, SourcesPassed, CandidatesAreNewer, ProcessedIsComplete
<1>8. QED
  BY <1>3, <1>4, <1>5, <1>7

-----------------------------------------------------------------------------
\* The generations and what is cached under them stay consistent.
THEOREM CachesInvariant == CachesSpec => []CachesInv
<1>1. CachesInit => CachesInv
  BY CachesInitEstablishes
<1>2. CachesInv /\ [CachesNext]_cachesVars => CachesInv'
  <2> SUFFICES ASSUME CachesInv, [CachesNext]_cachesVars PROVE CachesInv'
    OBVIOUS
  <2>1. CASE \E r \in Requests : Embed(r)
    BY <2>1, RequestPreserves
  <2>2. CASE \E r \in Requests : Runs(r)
    BY <2>2, RestPreserves
       DEF Runs, ExecutorStep, serviceVars, cacheVars, extractVars, invalidatorVars
  <2>3. CASE \E x \in Extractions : Extract(x)
    BY <2>3, ExtractionPreserves
  <2>4. CASE ModelLate
    BY <2>4, RestPreserves
       DEF ModelLate, LlmLate, embedVars, serviceVars, cacheVars, invalidatorVars
  <2>5. CASE \E d \in Deletions : HandleDeletion(d)
    BY <2>5, DeliveryPreserves, WipeEmbeddingPreserves, WipeExtractionPreserves,
       HandlingEndsPreserves DEF HandleDeletion
  <2>6. CASE UNCHANGED cachesVars
    BY <2>6, RestPreserves
       DEF cachesVars, embedVars, serviceVars, cacheVars, extractVars, invalidatorVars
  <2>7. QED
    BY <2>1, <2>2, <2>3, <2>4, <2>5, <2>6 DEF CachesNext
<1>3. QED
  BY <1>1, <1>2, PTL DEF CachesSpec

\* StoredAfterWipe holds for any number of requests, texts and deletions: what a
\* request that was under way at a deletion has computed does not come back into
\* the embedding cache.
THEOREM NothingComesBack == CachesSpec => []StoredAfterWipe
<1>1. CachesInv => StoredAfterWipe
  BY DEF CachesInv
<1>2. QED
  BY <1>1, CachesInvariant, PTL

\* ProcessedIsComplete: a deletion that counts as processed has reached both
\* caches, whatever failed, was delivered again or ran beside it: what they hold
\* of the contents it names, or of the source event whose id it carries, was asked
\* for later, and an id that a deletion carried has no candidates until a reset.
THEOREM DeletionsComplete == CachesSpec => []ProcessedIsComplete
<1>1. CachesInv => ProcessedIsComplete
  BY DEF CachesInv
<1>2. QED
  BY <1>1, CachesInvariant, PTL

-----------------------------------------------------------------------------
(* What an extraction gives                                                  *)

\* Before the first extraction nothing is cached or given.
LEMMA ExtractInitEstablishes == ExtractInit => ExtractInv
<1> SUFFICES ASSUME ExtractInit PROVE ExtractInv
  OBVIOUS
<1> USE DEF ExtractInit, NoneExtracted
<1>1. ExtractTypes
  BY DEF ExtractTypes
<1>2. IsList(<<>>)
  <2>1. <<>> \in Seq({})
    BY EmptySeq
  <2>2. {<<>>[i] : i \in DOMAIN <<>>} = {}
    OBVIOUS
  <2>3. QED
    BY <2>1, <2>2 DEF IsList
<1>3. AnswersAreFit
  BY <1>2 DEF AnswersAreFit
<1>4. CacheIsTrusted /\ CandidatesAreTrusted
  BY DEF CacheIsTrusted, CandidatesAreTrusted
<1>5. QED
  BY <1>1, <1>3, <1>4 DEF ExtractInv

\* The key under which an extraction looks and stores names what it asks for.
LEMMA KindsAndSources ==
    ASSUME NEW x \in Extractions
    PROVE  /\ KindOf[x] \in {"preference", "knowledge"} /\ SourceOf[x] \in Sources
           /\ KeyOf(x) \in {"preference", "knowledge"} \X Sources
           /\ KeyOf(x)[1] = KindOf[x] /\ KeyOf(x)[2] = SourceOf[x]
BY ExtractionAssumption DEF KeyOf

\* What an extraction has found deserves trust.
LEMMA FoundIsTrusted ==
    ASSUME ExtractInv, NEW x \in Extractions
    PROVE  Trusted(KindOf[x], SourceOf[x], Found(x))
<1> DEFINE kind == KindOf[x]
           source == SourceOf[x]
           answers == model[x]
<1>1. kind \in {"preference", "knowledge"} /\ source \in Sources
  BY KindsAndSources
<1>2. turn \in [Sources -> Turns]
  BY DEF ExtractInv, ExtractTypes
<1>3. /\ IsList(answers)
      /\ \A i \in DOMAIN answers : Fit(kind, source, answers[i], ContentsOf(kind, answers[i]))
  BY DEF ExtractInv, AnswersAreFit
<1>4. kind = "knowledge" /\ answers # <<>> => HasEvidence(turn[source].tools)
  BY DEF ExtractInv, AnswersAreFit, MayAsk
<1>5. Found(x) = Together(kind, ByRules(kind, source), answers)
  BY DEF Found
<1> HIDE DEF kind, source, answers
<1>6. Trusted(kind, source, Together(kind, ByRules(kind, source), answers))
  BY <1>1, <1>2, <1>3, <1>4, TogetherTrusted
<1>7. QED
  BY <1>5, <1>6 DEF kind, source

\* Trust depends on what the event holds, and on nothing else that changes.
LEMMA CacheStaysTrusted ==
    ASSUME CacheIsTrusted, UNCHANGED <<turn, extracted>> PROVE CacheIsTrusted'
BY DEF CacheIsTrusted, Trusted, ByRules

LEMMA GivenStaysTrusted ==
    ASSUME CandidatesAreTrusted, UNCHANGED <<turn, outcome, given>> PROVE CandidatesAreTrusted'
BY DEF CandidatesAreTrusted, Trusted, ByRules

\* An invalidation only takes entries away.
LEMMA ForgettingKeepsTrust ==
    ASSUME ExtractInv, UNCHANGED Rest, DOMAIN extracted' \subseteq DOMAIN extracted,
           \A k \in DOMAIN extracted' : extracted'[k] = extracted[k]
    PROVE  ExtractInv'
<1> USE DEF ExtractInv, Rest
<1>1. ExtractTypes'
  BY DEF ExtractTypes
<1>2. AnswersAreFit'
  BY DEF AnswersAreFit, MayAsk
<1>3. CacheIsTrusted'
  <2> SUFFICES ASSUME NEW k \in DOMAIN extracted'
               PROVE  /\ k \in {"preference", "knowledge"} \X Sources
                      /\ Trusted(k[1], k[2], extracted[k].candidates)'
    BY DEF CacheIsTrusted
  <2>1. /\ k \in {"preference", "knowledge"} \X Sources
        /\ Trusted(k[1], k[2], extracted[k].candidates)
    BY DEF CacheIsTrusted
  <2>2. Trusted(k[1], k[2], extracted'[k].candidates)
    BY <2>1
  <2>3. QED
    BY <2>1, <2>2 DEF Trusted, ByRules
<1>4. CandidatesAreTrusted'
  BY GivenStaysTrusted
<1>5. QED
  BY <1>1, <1>2, <1>3, <1>4

\* What an extraction that stores, answers or asks nothing leaves of the invariant.
LEMMA QuietExtraction ==
    ASSUME ExtractInv, UNCHANGED <<turn, extracted, model, outcome, given>>,
           stage' \in [Extractions -> {"start", "capture", "call", "model", "store", "end"}],
           \A x \in Extractions : stage'[x] = "model" => stage[x] = "model" \/ MayAsk(x)
    PROVE  ExtractInv'
<1> USE DEF ExtractInv
<1>1. ExtractTypes'
  BY DEF ExtractTypes
<1>2. AnswersAreFit'
  BY DEF AnswersAreFit, MayAsk
<1>3. CacheIsTrusted' /\ CandidatesAreTrusted'
  BY CacheStaysTrusted, GivenStaysTrusted
<1>4. QED
  BY <1>1, <1>2, <1>3

\* A hit gives what the cache holds under the key.
LEMMA LookupKeeps == ExtractInv /\ (\E x \in Extractions : ExtractLookup(x)) => ExtractInv'
<1> SUFFICES ASSUME ExtractInv, NEW x \in Extractions, ExtractLookup(x) PROVE ExtractInv'
  OBVIOUS
<1>1. CASE KeyOf(x) \in DOMAIN extracted
  <2> DEFINE found == extracted[KeyOf(x)].candidates
  <2>1. /\ outcome' = [outcome EXCEPT ![x] = "hit"] /\ given' = [given EXCEPT ![x] = found]
        /\ stage' = [stage EXCEPT ![x] = "end"]
        /\ UNCHANGED <<turn, extracted, model>>
    BY <1>1 DEF ExtractLookup, Gives, Enters
  <2>2. Trusted(KindOf[x], SourceOf[x], found)
    BY <1>1, KindsAndSources DEF ExtractInv, CacheIsTrusted
  <2> HIDE DEF found
  <2>3. ExtractTypes'
    BY <2>1 DEF ExtractInv, ExtractTypes
  <2>4. AnswersAreFit' /\ CacheIsTrusted'
    <3>1. AnswersAreFit'
      BY <2>1 DEF ExtractInv, ExtractTypes, AnswersAreFit, MayAsk
    <3>2. CacheIsTrusted'
      BY <2>1, CacheStaysTrusted DEF ExtractInv
    <3>3. QED
      BY <3>1, <3>2
  <2>5. CandidatesAreTrusted'
    <3> SUFFICES ASSUME NEW y \in Extractions, outcome'[y] \in {"hit", "ok"}
                 PROVE  Trusted(KindOf[y], SourceOf[y], given'[y])
      BY <2>1, SMTT(60) DEF CandidatesAreTrusted, Trusted, ByRules
    <3>1. CASE y = x
      <4>1. given'[y] = found
        BY <2>1, <3>1 DEF ExtractInv, ExtractTypes
      <4>2. QED
        BY <2>2, <3>1, <4>1
    <3>2. CASE y # x
      <4>1. given'[y] = given[y] /\ outcome'[y] = outcome[y]
        BY <2>1, <3>2 DEF ExtractInv, ExtractTypes
      <4>2. QED
        BY <4>1 DEF ExtractInv, CandidatesAreTrusted
    <3>3. QED
      BY <3>1, <3>2
  <2>6. QED
    BY <2>3, <2>4, <2>5 DEF ExtractInv
<1>2. CASE KeyOf(x) \notin DOMAIN extracted
  <2>1. stage' = [stage EXCEPT ![x] = "capture"] /\ UNCHANGED <<turn, extracted, model, outcome, given>>
    BY <1>2 DEF ExtractLookup, Enters
  <2>2. QED
    BY <2>1, QuietExtraction DEF ExtractInv, ExtractTypes
<1>3. QED
  BY <1>1, <1>2

\* Only who may ask gets to the model.
LEMMA AskingKeeps ==
    ExtractInv /\ (\E x \in Extractions : ExtractCapture(x) \/ RunLlm(x)) => ExtractInv'
<1> SUFFICES ASSUME ExtractInv, NEW x \in Extractions, ExtractCapture(x) \/ RunLlm(x)
             PROVE  ExtractInv'
  OBVIOUS
<1>1. UNCHANGED <<turn, extracted, model, outcome, given>>
  BY DEF ExtractCapture, RunLlm
<1>2. \E s \in {"call", "model", "store"} :
         stage' = [stage EXCEPT ![x] = s] /\ (s = "model" => MayAsk(x))
  BY DEF ExtractCapture, RunLlm, Enters
<1>3. stage' \in [Extractions -> {"start", "capture", "call", "model", "store", "end"}]
  BY <1>2 DEF ExtractInv, ExtractTypes
<1>4. \A y \in Extractions : stage'[y] = "model" => stage[y] = "model" \/ MayAsk(y)
  BY <1>2 DEF ExtractInv, ExtractTypes
<1>5. QED
  BY <1>1, <1>3, <1>4, QuietExtraction

\* What the model answers goes through the validation.
LEMMA AnsweringKeeps == ExtractInv /\ (\E x \in Extractions : LlmReturns(x)) => ExtractInv'
<1> SUFFICES ASSUME ExtractInv, NEW x \in Extractions, LlmReturns(x) PROVE ExtractInv'
  OBVIOUS
<1>1. stage[x] = "model" /\ stage' = [stage EXCEPT ![x] = "store"]
      /\ UNCHANGED <<turn, extracted, outcome, given>>
  BY DEF LlmReturns, Enters
<1>2. MayAsk(x)
  BY <1>1 DEF ExtractInv, AnswersAreFit
<1>3. \/ UNCHANGED model
      \/ \E raws \in RawAnswers[KindOf[x]] :
            model' = [model EXCEPT ![x] = Answer(KindOf[x], raws, SourceOf[x])]
  BY DEF LlmReturns
<1>4. DOMAIN model' = Extractions /\ \A y \in Extractions \ {x} : model'[y] = model[y]
  BY <1>3 DEF ExtractInv, ExtractTypes
<1>5. /\ IsList(model'[x])
      /\ \A i \in DOMAIN model'[x] :
           Fit(KindOf[x], SourceOf[x], model'[x][i], ContentsOf(KindOf[x], model'[x][i]))
  <2>1. CASE UNCHANGED model
    BY <2>1 DEF ExtractInv, AnswersAreFit
  <2>2. ASSUME NEW raws \in RawAnswers[KindOf[x]],
               model' = [model EXCEPT ![x] = Answer(KindOf[x], raws, SourceOf[x])]
        PROVE  /\ IsList(model'[x])
               /\ \A i \in DOMAIN model'[x] :
                    Fit(KindOf[x], SourceOf[x], model'[x][i], ContentsOf(KindOf[x], model'[x][i]))
    <3>1. model'[x] = Answer(KindOf[x], raws, SourceOf[x])
      BY <2>2 DEF ExtractInv, ExtractTypes
    <3>2. KindOf[x] \in {"preference", "knowledge"}
      BY KindsAndSources
    <3>3. IsList(raws)
      BY <3>2, ExtractionAssumption
    <3>4. QED
      BY <3>1, <3>2, <3>3, AnswerIsFit
  <2>3. QED
    BY <1>3, <2>1, <2>2
<1>6. ExtractTypes'
  BY <1>1, <1>4 DEF ExtractInv, ExtractTypes
<1>7. AnswersAreFit'
  <2> SUFFICES ASSUME NEW y \in Extractions
               PROVE  /\ stage'[y] = "model" => MayAsk(y)
                      /\ model'[y] # <<>> => MayAsk(y)
                      /\ IsList(model'[y])
                      /\ \A i \in DOMAIN model'[y] :
                           Fit(KindOf[y], SourceOf[y], model'[y][i],
                               ContentsOf(KindOf[y], model'[y][i]))
    BY <1>1 DEF AnswersAreFit, MayAsk
  <2>1. CASE y = x
    BY <1>2, <1>5, <2>1
  <2>2. CASE y # x
    <3>1. model'[y] = model[y] /\ stage'[y] = stage[y]
      BY <1>1, <1>4, <2>2 DEF ExtractInv, ExtractTypes
    <3>2. QED
      BY <3>1 DEF ExtractInv, AnswersAreFit
  <2>3. QED
    BY <2>1, <2>2
<1>8. CacheIsTrusted' /\ CandidatesAreTrusted'
  BY <1>1, CacheStaysTrusted, GivenStaysTrusted DEF ExtractInv
<1>9. QED
  BY <1>6, <1>7, <1>8 DEF ExtractInv

\* What is stored and given is what was found for the key it is stored under.
LEMMA StoringKeeps == ExtractInv /\ (\E x \in Extractions : ExtractStore(x)) => ExtractInv'
<1> SUFFICES ASSUME ExtractInv, NEW x \in Extractions, ExtractStore(x) PROVE ExtractInv'
  OBVIOUS
<1> DEFINE found == Found(x)
           key == KeyOf(x)
<1>1. \/ extracted' = Cached(x) /\ Gives(x, "ok", found)
      \/ UNCHANGED extracted /\ Gives(x, "discarded", <<>>)
  BY DEF ExtractStore
<1>2. UNCHANGED <<turn, model>>
  BY DEF ExtractStore
<1>3. Trusted(KindOf[x], SourceOf[x], found)
  BY FoundIsTrusted
<1>4. extracted' = Cached(x) =>
        /\ DOMAIN extracted' = DOMAIN extracted \cup {key}
        /\ extracted'[key].candidates = found
        /\ \A k \in DOMAIN extracted \ {key} : extracted'[k] = extracted[k]
  BY DEF Cached
<1>5. key \in {"preference", "knowledge"} \X Sources /\ key[1] = KindOf[x] /\ key[2] = SourceOf[x]
  BY KindsAndSources
<1> HIDE DEF found, key
<1>6. /\ stage' = [stage EXCEPT ![x] = "end"]
      /\ \A y \in Extractions \ {x} : outcome'[y] = outcome[y] /\ given'[y] = given[y]
      /\ outcome'[x] = "discarded" \/ given'[x] = found
      /\ outcome' \in [Extractions -> {"none", "hit", "ok", "discarded"}]
      /\ DOMAIN given' = Extractions
  BY <1>1 DEF Gives, Enters, ExtractInv, ExtractTypes
<1>7. ExtractTypes'
  BY <1>2, <1>6 DEF ExtractInv, ExtractTypes
<1>8. AnswersAreFit'
  BY <1>2, <1>6 DEF ExtractInv, ExtractTypes, AnswersAreFit, MayAsk
<1>9. CacheIsTrusted'
  <2> SUFFICES ASSUME NEW k \in DOMAIN extracted'
               PROVE  /\ k \in {"preference", "knowledge"} \X Sources
                      /\ Trusted(k[1], k[2], extracted'[k].candidates)
    BY <1>2 DEF CacheIsTrusted, Trusted, ByRules
  <2>1. CASE extracted' = Cached(x) /\ k = key
    BY <1>3, <1>4, <1>5, <2>1
  <2>2. CASE ~(extracted' = Cached(x) /\ k = key)
    <3>1. k \in DOMAIN extracted /\ extracted'[k] = extracted[k]
      BY <1>1, <1>4, <2>2
    <3>2. QED
      BY <3>1 DEF ExtractInv, CacheIsTrusted
  <2>3. QED
    BY <2>1, <2>2
<1>10. CandidatesAreTrusted'
  <2> SUFFICES ASSUME NEW y \in Extractions, outcome'[y] \in {"hit", "ok"}
               PROVE  Trusted(KindOf[y], SourceOf[y], given'[y])
    BY <1>2 DEF CandidatesAreTrusted, Trusted, ByRules
  <2>1. CASE y = x
    BY <1>3, <1>6, <2>1
  <2>2. CASE y # x
    BY <1>6, <2>2 DEF ExtractInv, CandidatesAreTrusted
  <2>3. QED
    BY <2>1, <2>2
<1>11. QED
  BY <1>7, <1>8, <1>9, <1>10 DEF ExtractInv

\* Every step of the caches, of the requests and of the consumer.
LEMMA ExtractionIsTrusted ==
    ASSUME ExtractInv, [CachesNext]_cachesVars
    PROVE  ExtractInv'
<1>1. CASE UNCHANGED extractVars
  <2>1. UNCHANGED Rest /\ UNCHANGED extracted
    BY <1>1 DEF extractVars, Rest
  <2>2. QED
    BY <2>1, ForgettingKeepsTrust
<1>2. CASE \E x \in Extractions : Extract(x)
  BY <1>2, LookupKeeps, AskingKeeps, AnsweringKeeps, StoringKeeps DEF Extract, ExtractStep
<1>3. CASE ModelLate
  <2>1. UNCHANGED <<turn, extracted, stage, model, outcome, given>>
    BY <1>3 DEF ModelLate, LlmLate
  <2>2. QED
    BY <2>1, QuietExtraction DEF ExtractInv, ExtractTypes
<1>4. CASE \E d \in Deletions : WipeContent(d) \/ WipeEvent(d)
  <2>1. UNCHANGED Rest
    BY <1>4 DEF WipeContent, WipeEvent, ClearExtracted, ForgetContent, ForgetEvent, extractVars, Rest
  <2>2. DOMAIN extracted' \subseteq DOMAIN extracted
        /\ \A k \in DOMAIN extracted' : extracted'[k] = extracted[k]
    BY <1>4 DEF WipeContent, WipeEvent, ClearExtracted, ForgetContent, ForgetEvent, extractVars,
                Gone, NoneExtracted
  <2>3. QED
    BY <2>1, <2>2, ForgettingKeepsTrust
<1>5. CASE \E r \in Requests : Embed(r) \/ Runs(r)
  BY <1>1, <1>5 DEF Embed, Runs
<1>6. CASE \E d \in Deletions : Deliver(d) \/ WipeEmbedding(d) \/ MarkProcessed(d) \/ Raises(d)
  BY <1>1, <1>6 DEF Deliver, WipeEmbedding, MarkProcessed, Raises
<1>7. CASE UNCHANGED cachesVars
  BY <1>1, <1>7 DEF cachesVars
<1>8. QED
  BY <1>2, <1>3, <1>4, <1>5, <1>6, <1>7 DEF CachesNext, HandleDeletion

\* Everything that is cached or given, and every answer on its way, is of the kind
\* and the event it is asked for, and fit to be used.
THEOREM ExtractionInvariant == CachesSpec => []ExtractInv
<1>1. CachesInit => ExtractInv
  BY ExtractInitEstablishes DEF CachesInit
<1>2. ExtractInv /\ [CachesNext]_cachesVars => ExtractInv'
  BY ExtractionIsTrusted
<1>3. QED
  BY <1>1, <1>2, PTL DEF CachesSpec

\* The candidates an extraction gives, fresh or from the cache, begin with what
\* the rules find; none rests on a sensitive text or is persisted though it is
\* temporary, and the model adds no second value for a key and no knowledge
\* without a tool that succeeded.
THEOREM CandidatesDeserveTrust == CachesSpec => []CandidatesAreTrusted
<1>1. ExtractInv => CandidatesAreTrusted
  BY DEF ExtractInv
<1>2. QED
  BY <1>1, ExtractionInvariant, PTL
=============================================================================
