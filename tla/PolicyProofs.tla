--------------------------- MODULE PolicyProofs ----------------------------
(***************************************************************************)
(* Proofs about the policy engine, for every set of bundles, contexts and   *)
(* observations: the preferred policy decides, enforcement is reported      *)
(* truly, a capture that is cut short is reported honestly, and the connect *)
(* hook decides like the engine.                                            *)
(*                                                                         *)
(* The order of the argument: what the least of finitely many hits is; what *)
(* is selected from a bundle; which hits the three kinds of rules make, and *)
(* what is reported of them; what a cut changes; how a network report is    *)
(* reconciled; the invariant of the engine; the theorems.                   *)
(***************************************************************************)
EXTENDS PolicyEngine, FiniteSetTheorems, SequenceTheorems, TLAPS

-----------------------------------------------------------------------------
(* Finite sets with an order. *)

\* Induction, stated with a set.
LEMMA SetInduction ==
    ASSUME NEW S, 0 \in S, \A k \in Nat : k \in S => k + 1 \in S
    PROVE  \A k \in Nat : k \in S
<1> DEFINE T == Nat \ S
<1> SUFFICES ASSUME T # {} PROVE FALSE
    BY Zenon
<1>1. T \subseteq Nat
      BY Zenon
<1>2. PICK m \in T : \A u \in T : ~(<<u, m>> \in OpToRel(<, Nat))
      BY <1>1, NatLessThanWellFounded, WFMin, Zenon
<1>3. \A u \in T : ~(u < m)
      BY <1>1, <1>2, Zenon DEF OpToRel
<1>4. m \in Nat /\ m \notin S /\ m # 0
      BY <1>2, Zenon
<1>5. m - 1 \in Nat /\ m - 1 < m /\ (m - 1) + 1 = m
      BY <1>4
<1>6. m - 1 \in S
      BY <1>3, <1>5, Zenon
<1> QED
    BY <1>4, <1>5, <1>6, Zenon

\* R orders S: any two are related, and what is ahead stays ahead.
Orders(R, S) ==
    /\ \A a, b \in S : a # b => <<a, b>> \in R \/ <<b, a>> \in R
    /\ \A a, b, c \in S : <<a, b>> \in R /\ <<b, c>> \in R => <<a, c>> \in R
IsLeast(a, R, S) == a \in S /\ \A b \in S \ {a} : <<a, b>> \in R

\* A finite set that is not empty has a first element.
LEMMA LeastExists ==
    ASSUME NEW S, IsFiniteSet(S), S # {}, NEW R, Orders(R, S)
    PROVE  \E a : IsLeast(a, R, S)
<1> DEFINE L == {k \in Nat : \A T \in SUBSET S : Cardinality(T) = k /\ T # {} => \E a : IsLeast(a, R, T)}
<1>1. \A T \in SUBSET S : IsFiniteSet(T) /\ Cardinality(T) \in Nat
      BY FS_Subset, FS_CardinalityType, Zenon
<1>2. 0 \in L
  <2>1. \A T \in SUBSET S : Cardinality(T) = 0 => T = {}
        BY <1>1, FS_EmptySet, Zenon
  <2>2. 0 \in Nat
        BY Zenon
  <2> QED
      BY <2>1, <2>2, Zenon
<1>3. ASSUME NEW k \in Nat, k \in L PROVE k + 1 \in L
  <2>1. ASSUME NEW T \in SUBSET S, Cardinality(T) = k + 1, T # {} PROVE \E a : IsLeast(a, R, T)
    <3>1. PICK x : x \in T
          BY <2>1, Zenon
    <3>2. PICK U : U = T \ {x}
          BY Zenon
    <3>3. CASE U = {}
          BY <3>1, <3>2, <3>3, Zenon DEF IsLeast
    <3>4. CASE U # {}
      <4>1. U \in SUBSET S /\ Cardinality(U) = Cardinality(T) - 1
            BY <1>1, <2>1, <3>1, <3>2, FS_RemoveElement, Zenon
      <4>2. Cardinality(U) = k
            BY <2>1, <4>1
      <4>3. PICK y : IsLeast(y, R, U)
            BY <1>3, <3>4, <4>1, <4>2, Zenon
      <4>4. y \in U /\ x # y /\ x \in S /\ y \in S
            BY <3>1, <3>2, <4>1, <4>3, Zenon DEF IsLeast
      <4>5. CASE <<y, x>> \in R
        <5>1. \A d \in T \ {y} : <<y, d>> \in R
              BY <3>2, <4>3, <4>5, Zenon DEF IsLeast
        <5> QED
            BY <3>2, <4>4, <5>1, Zenon DEF IsLeast
      <4>6. CASE <<x, y>> \in R
        <5>1. ASSUME NEW d \in T \ {x} PROVE <<x, d>> \in R
          <6>1. d = y \/ (<<y, d>> \in R /\ d \in S)
                BY <3>2, <4>1, <4>3, Zenon DEF IsLeast
          <6> QED
              BY <4>4, <4>6, <6>1, Zenon DEF Orders
        <5> QED
            BY <3>1, <5>1, Zenon DEF IsLeast
      <4> QED
          BY <4>4, <4>5, <4>6, Zenon DEF Orders
    <3> QED
        BY <3>3, <3>4, Zenon
  <2>2. k + 1 \in Nat
        OBVIOUS
  <2> QED
      BY <2>1, <2>2, Zenon
<1> HIDE DEF L
<1>4. \A k \in Nat : k \in L
      BY <1>2, <1>3, SetInduction, Zenon
<1>5. S \in SUBSET S
      BY Zenon
<1> QED
    BY <1>1, <1>4, <1>5, Zenon DEF L
-----------------------------------------------------------------------------
(* Precedence. *)

Comparable(p) == p.id \in Int /\ p.priority \in Int

\* Policies that can be ranked: finitely many, with an ID each.
Rankable(policies) ==
    /\ IsFiniteSet(policies)
    /\ \A p \in policies : Comparable(p)
    /\ \A p, q \in policies : p.id = q.id => p = q

\* A scope's specificity is a number.
LEMMA SpecificityType == \A scope : specificity(scope) \in Int
BY DEF specificity

\* HigherPrecedence is a total order of the policies of a bundle.
LEMMA PrecedenceIsOrder ==
    ASSUME NEW p, NEW q, Comparable(p), Comparable(q)
    PROVE  /\ p.id # q.id => HigherPrecedence(p, q) \/ HigherPrecedence(q, p)
           /\ ~(HigherPrecedence(p, q) /\ HigherPrecedence(q, p))
<1>1. specificity(p.scope) \in Int /\ specificity(q.scope) \in Int
      BY SpecificityType, Zenon
<1> QED
    BY <1>1 DEF Comparable, HigherPrecedence

\* Precedence is transitive.
LEMMA PrecedenceIsTransitive ==
    ASSUME NEW p, NEW q, NEW r, Comparable(p), Comparable(q), Comparable(r),
           HigherPrecedence(p, q), HigherPrecedence(q, r)
    PROVE  HigherPrecedence(p, r)
<1>1. specificity(p.scope) \in Int /\ specificity(q.scope) \in Int /\ specificity(r.scope) \in Int
      BY SpecificityType, Zenon
<1> QED
    BY <1>1 DEF Comparable, HigherPrecedence

\* The rank counts what is preferred, so it follows precedence.
LEMMA RankFollowsPrecedence ==
    ASSUME NEW policies, Rankable(policies), NEW p \in policies, NEW q \in policies
    PROVE  /\ rank(policies, p) \in Nat
           /\ HigherPrecedence(p, q) => rank(policies, p) < rank(policies, q)
<1> DEFINE above(x) == {y \in policies : HigherPrecedence(y, x)}
<1>1. \A x : IsFiniteSet(above(x)) /\ Cardinality(above(x)) \in Nat
  <2>1. \A x : above(x) \in SUBSET policies
        BY Zenon
  <2> QED
      BY <2>1, FS_Subset, FS_CardinalityType, Zenon DEF Rankable
<1>2. ASSUME HigherPrecedence(p, q) PROVE Cardinality(above(p)) < Cardinality(above(q))
  <2>1. above(p) \in SUBSET above(q)
    <3>1. ASSUME NEW y \in policies, HigherPrecedence(y, p) PROVE HigherPrecedence(y, q)
          BY <1>2, <3>1, PrecedenceIsTransitive, Zenon DEF Rankable
    <3> QED
        BY <3>1, Zenon
  <2>2. p \in above(q) /\ p \notin above(p)
        BY <1>2, PrecedenceIsOrder, Zenon DEF Rankable
  <2>3. above(p) # above(q)
        BY <2>2, Zenon
  <2>4. PICK m, n : m = Cardinality(above(p)) /\ n = Cardinality(above(q))
        BY Zenon
  <2> HIDE DEF above
  <2>5. m <= n /\ m # n /\ m \in Nat /\ n \in Nat
        BY <1>1, <2>1, <2>3, <2>4, FS_Subset, Zenon
  <2>6. m < n
        BY <2>5
  <2> QED
      BY <2>4, <2>6, Zenon
<1> QED
    BY <1>1, <1>2, Zenon DEF rank

\* Hits of the policies: each names its policy and rule, and is the only one.
HitsOf(hits, policies) ==
    /\ IsFiniteSet(hits)
    /\ \A hit \in hits : hit.rule \in Int /\ \E p \in policies : p.id = hit.policy /\ p.action = hit.requested
    /\ \A hit, other \in hits : hit.policy = other.policy /\ hit.rule = other.rule => hit = other

Winner(policies, hits) ==
    CHOOSE hit \in hits : \A other \in hits \ {hit} : HitAhead(policies, hit, other)

\* A hit names one of the selected policies.
LEMMA PolicyOfHit ==
    ASSUME NEW policies, Rankable(policies), NEW hits, HitsOf(hits, policies), NEW hit \in hits
    PROVE  /\ PolicyOf(policies, hit) \in policies /\ PolicyOf(policies, hit).id = hit.policy
           /\ PolicyOf(policies, hit).action = hit.requested
           /\ \A p \in policies : p.id = hit.policy => p = PolicyOf(policies, hit)
<1>1. PICK p \in policies : p.id = hit.policy /\ p.action = hit.requested
      BY Zenon DEF HitsOf
<1>2. PolicyOf(policies, hit) \in policies /\ PolicyOf(policies, hit).id = hit.policy
      BY <1>1, Zenon DEF PolicyOf
<1> QED
    BY <1>1, <1>2, Zenon DEF Rankable

\* The first of the hits exists, and no policy with a hit is preferred to its policy.
LEMMA WinnerIsPreferred ==
    ASSUME NEW policies, Rankable(policies), NEW hits, HitsOf(hits, policies), hits # {}
    PROVE  /\ Winner(policies, hits) \in hits
           /\ \A hit \in hits : ~HigherPrecedence(PolicyOf(policies, hit), PolicyOf(policies, Winner(policies, hits)))
<1> DEFINE of(hit) == PolicyOf(policies, hit)
           place(hit) == rank(policies, of(hit))
           R == {e \in hits \X hits : HitAhead(policies, e[1], e[2])}
<1>0. \A a, b \in hits : <<a, b>> \in R <=> HitAhead(policies, a, b)
      BY Zenon
<1>1. ASSUME NEW a \in hits PROVE of(a) \in policies /\ of(a).id = a.policy
  <2>1. PolicyOf(policies, a) \in policies /\ PolicyOf(policies, a).id = a.policy
        BY PolicyOfHit, Zenon
  <2> QED
      BY <2>1, Zenon
<1>2. \A a \in hits : place(a) \in Nat /\ a.rule \in Int
      BY <1>1, RankFollowsPrecedence, Zenon DEF HitsOf
<1>3. \A a, b \in hits : HitAhead(policies, a, b) <=> place(a) < place(b) \/ (a.policy = b.policy /\ a.rule < b.rule)
      BY Zenon DEF HitAhead
<1>4. \A a, b \in hits : a.policy = b.policy => place(a) = place(b)
      BY Zenon DEF PolicyOf
<1>5. \A a, b \in hits : HigherPrecedence(of(a), of(b)) => place(a) < place(b)
      BY <1>1, RankFollowsPrecedence, Zenon
<1>6. \A a, b \in hits : a.policy # b.policy => HigherPrecedence(of(a), of(b)) \/ HigherPrecedence(of(b), of(a))
      BY <1>1, PrecedenceIsOrder, Zenon DEF Rankable
<1> HIDE DEF place, of, R
<1>7. ASSUME NEW a \in hits, NEW b \in hits, a # b PROVE <<a, b>> \in R \/ <<b, a>> \in R
  <2>1. CASE a.policy # b.policy
        BY <1>0, <1>3, <1>5, <1>6, <2>1, Zenon
  <2>2. CASE a.policy = b.policy
    <3>1. a.rule # b.rule
          BY <1>7, <2>2, Zenon DEF HitsOf
    <3>2. a.rule < b.rule \/ b.rule < a.rule
          BY <1>2, <3>1
    <3> QED
        BY <1>0, <1>3, <2>2, <3>2, Zenon
  <2> QED
      BY <2>1, <2>2, Zenon
<1>8. ASSUME NEW a \in hits, NEW b \in hits, NEW c \in hits, <<a, b>> \in R, <<b, c>> \in R
      PROVE  <<a, c>> \in R
  <2>1. /\ place(a) < place(b) \/ (a.policy = b.policy /\ a.rule < b.rule)
        /\ place(b) < place(c) \/ (b.policy = c.policy /\ b.rule < c.rule)
        BY <1>0, <1>3, <1>8, Zenon
  <2>2. PICK x, y, z : x = place(a) /\ y = place(b) /\ z = place(c)
        BY Zenon
  <2>3. x \in Nat /\ y \in Nat /\ z \in Nat /\ (a.policy = b.policy => x = y) /\ (b.policy = c.policy => y = z)
        BY <1>2, <1>4, <2>2, Zenon
  <2>4. x < z \/ (a.policy = c.policy /\ a.rule < c.rule)
    <3>1. /\ x < y \/ (a.policy = b.policy /\ a.rule < b.rule)
          /\ y < z \/ (b.policy = c.policy /\ b.rule < c.rule)
          BY <2>1, <2>2, Zenon
    <3>2. a.rule \in Int /\ b.rule \in Int /\ c.rule \in Int
          BY <1>2, Zenon
    <3> QED
        BY <2>3, <3>1, <3>2
  <2> QED
      BY <1>0, <1>3, <2>2, <2>4, Zenon
<1>9. PICK w : IsLeast(w, R, hits)
  <2>1. Orders(R, hits)
        BY <1>7, <1>8, Zenon DEF Orders
  <2> QED
      BY <2>1, LeastExists, Zenon DEF HitsOf
<1>10. \E hit \in hits : \A other \in hits \ {hit} : HitAhead(policies, hit, other)
      BY <1>0, <1>9, Zenon DEF IsLeast
<1>11. PICK v : v = Winner(policies, hits)
      BY Zenon
<1>12. v \in hits /\ \A other \in hits \ {v} : HitAhead(policies, v, other)
      BY <1>10, <1>11, Zenon DEF Winner
<1>13. ASSUME NEW hit \in hits, HigherPrecedence(of(hit), of(v)) PROVE FALSE
  <2>1. place(hit) < place(v) /\ place(hit) \in Nat /\ place(v) \in Nat
        BY <1>2, <1>5, <1>12, <1>13, Zenon
  <2>2. hit # v
        BY <2>1
  <2>3. place(v) < place(hit) \/ place(v) = place(hit)
        BY <1>3, <1>4, <1>12, <2>2, Zenon
  <2> QED
      BY <2>1, <2>3
<1> QED
    BY <1>11, <1>12, <1>13, Zenon DEF of
-----------------------------------------------------------------------------
(* Bundles and what is selected from them. *)

\* What the engine publishes.
Prepared == {Normalize(bundle) : bundle \in {b \in Bundles : prepareEngineBundle(b)}}

\* Normalizing renames actions and leaves the rest of a policy as it is.
LEMMA NormalizeKeeps ==
    ASSUME NEW bundle \in Bundles
    PROVE  /\ DOMAIN Normalize(bundle) = DOMAIN bundle
           /\ \A i \in DOMAIN bundle : IsPolicy(Normalize(bundle)[i])
<1> DEFINE new(i) == IF bundle[i].action = "kill" THEN [bundle[i] EXCEPT !.action = "contain"] ELSE bundle[i]
<1>1. Normalize(bundle) = [i \in DOMAIN bundle |-> new(i)]
      BY Zenon DEF Normalize
<1>2. ASSUME NEW i \in DOMAIN bundle PROVE IsPolicy(new(i))
  <2>1. PICK p : p = bundle[i]
        BY Zenon
  <2>2. IsPolicy(p)
        BY <2>1, EngineAssumption, Zenon
  <2>3. PICK q : q = [p EXCEPT !.action = "contain"]
        BY Zenon
  <2>4. /\ DOMAIN q = PolicyFields /\ q.id = p.id /\ q.priority = p.priority /\ q.kind = p.kind
        /\ q.conditions = p.conditions
        BY <2>2, <2>3, Zenon DEF IsPolicy, PolicyFields
  <2>5. IsPolicy(q)
        BY <2>2, <2>4, Zenon DEF IsPolicy
  <2> QED
      BY <2>1, <2>2, <2>3, <2>5, Zenon
<1> HIDE DEF new
<1> QED
    BY <1>1, <1>2, Zenon

\* A published bundle is finite, typed and valid.
LEMMA PreparedBundle ==
    ASSUME NEW bundle \in Prepared
    PROVE  /\ IsFiniteSet(Range(bundle))
           /\ \A p \in Range(bundle) : IsPolicy(p)
           /\ \A p, q \in Range(bundle) : p.id = q.id => p = q
           /\ \A p \in Range(bundle) : ValidConditions(p)
<1>1. PICK b \in Bundles : bundle = Normalize(b) /\ prepareEngineBundle(b)
      BY Zenon DEF Prepared
<1>2. /\ DOMAIN bundle = 1 .. Len(b) /\ Len(b) \in Nat
      /\ \A i \in DOMAIN bundle : IsPolicy(bundle[i])
      BY <1>1, NormalizeKeeps, EngineAssumption, Zenon
<1>3. Validate(bundle)
      BY <1>1, Zenon DEF prepareEngineBundle
<1>4. Range(bundle) = {bundle[i] : i \in DOMAIN bundle}
      BY Zenon DEF Range
<1>5. IsFiniteSet(Range(bundle))
  <2>1. Len(b) \in Int /\ 1 \in Int
        BY <1>2
  <2>2. IsFiniteSet(DOMAIN bundle)
        BY <1>2, <2>1, FS_Interval, Zenon
  <2>3. PICK f : f = [i \in DOMAIN bundle |-> bundle[i]]
        BY Zenon
  <2>4. f \in Surjection(DOMAIN bundle, Range(bundle))
        BY <1>4, <2>3, Zenon DEF Surjection
  <2> QED
      BY <2>2, <2>4, FS_Surjection, Zenon
<1> QED
    BY <1>2, <1>3, <1>4, <1>5, Zenon DEF Validate

\* What selectPolicies returns is finite, and IDs tell its policies apart.
LEMMA SelectedAreRankable ==
    ASSUME NEW bundle \in Prepared, NEW context, NEW kind
    PROVE  LET policies == selectPolicies(bundle, context, kind)
           IN  /\ Rankable(policies)
               /\ \A p \in policies : p \in Range(bundle) /\ IsPolicy(p) /\ p.kind = kind /\ ValidConditions(p)
<1>0. PICK policies : policies = selectPolicies(bundle, context, kind)
      BY Zenon
<1>1. policies \in SUBSET Range(bundle) /\ \A p \in policies : p.kind = kind
      BY <1>0, Zenon DEF selectPolicies
<1>2. IsFiniteSet(policies)
      BY <1>1, PreparedBundle, FS_Subset, Zenon
<1>3. \A p \in policies : Comparable(p)
  <2>1. \A p \in policies : IsPolicy(p)
        BY <1>1, PreparedBundle, Zenon
  <2> QED
      BY <2>1 DEF IsPolicy, Comparable
<1>4. \A p, q \in policies : p.id = q.id => p = q
      BY <1>1, PreparedBundle, Zenon
<1> QED
    BY <1>0, <1>1, <1>2, <1>3, <1>4, PreparedBundle, Zenon DEF Rankable

\* It consists of typed policies of the kind asked for, valid ones.
LEMMA SelectedArePolicies ==
    ASSUME NEW bundle \in Prepared, NEW context, NEW kind, NEW p \in selectPolicies(bundle, context, kind)
    PROVE  IsPolicy(p) /\ p.kind = kind /\ ValidConditions(p)
    BY SelectedAreRankable, Zenon
-----------------------------------------------------------------------------
(* The hits. *)

RuleOf(p, i) == [policy |-> p, index |-> i, kind |-> Rules(p)[i].kind, value |-> Rules(p)[i].value]

\* The rules of finitely many policies are finitely many, one per policy and index.
LEMMA SelectedRules ==
    ASSUME NEW policies, IsFiniteSet(policies), \A p \in policies : Rules(p) \in Seq(RuleType)
    PROVE  /\ IsFiniteSet(SelectRules(policies))
           /\ \A rule \in SelectRules(policies) :
                 \E p \in policies : \E i \in DOMAIN Rules(p) : rule = RuleOf(p, i)
           /\ \A p \in policies : \A i \in DOMAIN Rules(p) : RuleOf(p, i) \in SelectRules(policies)
<1> DEFINE of(p) == {RuleOf(p, i) : i \in DOMAIN Rules(p)}
           all == {of(p) : p \in policies}
<1>1. SelectRules(policies) = UNION all
      BY Zenon DEF SelectRules, RuleOf
<1>2. ASSUME NEW p \in policies PROVE IsFiniteSet(of(p))
  <2>1. PICK rules \in Seq(RuleType) : rules = Rules(p)
        BY Zenon
  <2>2. DOMAIN Rules(p) = 1 .. Len(rules) /\ Len(rules) \in Int /\ 1 \in Int
        BY <2>1
  <2>3. IsFiniteSet(DOMAIN Rules(p))
        BY <2>2, FS_Interval, Zenon
  <2>4. PICK f : f = [i \in DOMAIN Rules(p) |-> RuleOf(p, i)]
        BY Zenon
  <2>5. f \in Surjection(DOMAIN Rules(p), of(p))
        BY <2>4, Zenon DEF Surjection
  <2> QED
      BY <2>3, <2>5, FS_Surjection, Zenon
<1> HIDE DEF of
<1>3. IsFiniteSet(all)
  <2>1. PICK f : f = [p \in policies |-> of(p)]
        BY Zenon
  <2>2. f \in Surjection(policies, all)
        BY <2>1, Zenon DEF Surjection
  <2> QED
      BY <2>2, FS_Surjection, Zenon
<1>4. IsFiniteSet(UNION all)
  <2>1. \A T \in all : IsFiniteSet(T)
        BY <1>2, Zenon
  <2> HIDE DEF all
  <2> QED
      BY <1>3, <2>1, FS_UNION, Zenon
<1>5. \A rule \in UNION all : \E p \in policies : \E i \in DOMAIN Rules(p) : rule = RuleOf(p, i)
      BY Zenon DEF of
<1>6. \A p \in policies : \A i \in DOMAIN Rules(p) : RuleOf(p, i) \in UNION all
  <2>1. ASSUME NEW p \in policies, NEW i \in DOMAIN Rules(p) PROVE RuleOf(p, i) \in UNION all
    <3>1. RuleOf(p, i) \in of(p)
          BY Zenon DEF of
    <3>2. of(p) \in all
          BY Zenon
    <3> HIDE DEF all
    <3> QED
        BY <3>1, <3>2, Zenon
  <2> QED
      BY <2>1, Zenon
<1> HIDE DEF all
<1> QED
    BY <1>1, <1>4, <1>5, <1>6, Zenon

\* Hits made of rules, each for its policy and index.
Reports(hit, rule) ==
    hit.policy = rule.policy.id /\ hit.rule = rule.index /\ hit.requested = rule.policy.action

Named(hits) == {<<hit.policy, hit.rule>> : hit \in hits}
RulesOf(matched) == {<<rule.policy.id, rule.index>> : rule \in matched}
MadeOf(hits, f, matched) == hits = {f[rule] : rule \in matched} /\ \A rule \in matched : Reports(f[rule], rule)

\* Hits made of matched rules are hits of the policies, and name those rules.
LEMMA RuleHits ==
    ASSUME NEW policies, Rankable(policies), \A p \in policies : Rules(p) \in Seq(RuleType),
           NEW matched \in SUBSET SelectRules(policies),
           NEW f, NEW hits, MadeOf(hits, f, matched)
    PROVE  HitsOf(hits, policies) /\ Named(hits) = RulesOf(matched)
<1>0. hits = {f[rule] : rule \in matched} /\ \A rule \in matched : Reports(f[rule], rule)
      BY Zenon DEF MadeOf
<1>1. IsFiniteSet(matched)
      BY SelectedRules, FS_Subset, Zenon DEF Rankable
<1>2. IsFiniteSet(hits)
  <2>1. PICK g : g = [rule \in matched |-> f[rule]]
        BY Zenon
  <2>2. g \in Surjection(matched, hits)
        BY <1>0, <2>1, Zenon DEF Surjection
  <2> QED
      BY <1>1, <2>2, FS_Surjection, Zenon
<1>3. ASSUME NEW rule \in matched
      PROVE  \E p \in policies : \E i \in Int :
                 rule = RuleOf(p, i) /\ f[rule].policy = p.id /\ f[rule].rule = i /\ f[rule].requested = p.action
  <2>0. PICK p \in policies : \E i \in DOMAIN Rules(p) : rule = RuleOf(p, i)
        BY SelectedRules, Zenon DEF Rankable
  <2>1. PICK i \in DOMAIN Rules(p) : rule = RuleOf(p, i)
        BY <2>0, Zenon
  <2>2. rule.policy = p /\ rule.index = i
        BY <2>1, Zenon DEF RuleOf
  <2>3. i \in Int
    <3>1. PICK rules \in Seq(RuleType) : rules = Rules(p)
          BY Zenon
    <3>2. i \in DOMAIN rules
          BY <3>1, Zenon
    <3> QED
        BY <3>2
  <2> QED
      BY <1>0, <2>1, <2>2, <2>3, Zenon DEF Reports
<1>4. ASSUME NEW hit \in hits
      PROVE  hit.rule \in Int /\ \E p \in policies : p.id = hit.policy /\ p.action = hit.requested
  <2>1. PICK rule \in matched : hit = f[rule]
        BY <1>0, Zenon
  <2>2. PICK p \in policies, i \in Int : hit.policy = p.id /\ hit.rule = i /\ hit.requested = p.action
        BY <1>3, <2>1, Zenon
  <2> QED
      BY <2>2, Zenon
<1>5. ASSUME NEW hit \in hits, NEW other \in hits, hit.policy = other.policy, hit.rule = other.rule
      PROVE  hit = other
  <2>1. PICK rule \in matched : hit = f[rule]
        BY <1>0, Zenon
  <2>2. PICK second \in matched : other = f[second]
        BY <1>0, Zenon
  <2>3. PICK p \in policies, i \in Int : rule = RuleOf(p, i) /\ hit.policy = p.id /\ hit.rule = i
        BY <1>3, <2>1, Zenon
  <2>4. PICK q \in policies, j \in Int : second = RuleOf(q, j) /\ other.policy = q.id /\ other.rule = j
        BY <1>3, <2>2, Zenon
  <2>5. p = q /\ i = j
        BY <1>5, <2>3, <2>4, Zenon DEF Rankable
  <2> QED
      BY <2>1, <2>2, <2>3, <2>4, <2>5, Zenon
<1>6. Named(hits) = RulesOf(matched)
  <2>1. \A rule \in matched : <<f[rule].policy, f[rule].rule>> = <<rule.policy.id, rule.index>>
        BY <1>0, Zenon DEF Reports
  <2>2. Named(hits) = {<<f[rule].policy, f[rule].rule>> : rule \in matched}
    <3>1. ASSUME NEW e \in Named(hits) PROVE e \in {<<f[rule].policy, f[rule].rule>> : rule \in matched}
      <4>1. PICK hit \in hits : e = <<hit.policy, hit.rule>>
            BY Zenon DEF Named
      <4> QED
          BY <1>0, <4>1, Zenon
    <3>2. ASSUME NEW rule \in matched PROVE <<f[rule].policy, f[rule].rule>> \in Named(hits)
          BY <1>0, Zenon DEF Named
    <3> QED
        BY <3>1, <3>2, Zenon
  <2> QED
      BY <2>1, <2>2, Zenon DEF RulesOf
<1> QED
    BY <1>2, <1>4, <1>5, <1>6, Zenon DEF HitsOf

FileMatched(policies, o) ==
    {rule \in SelectRules(policies) :
        /\ \E access \in o.access : access \in rule.policy.conditions.access
        /\ fileRuleMatches(rule, FileCandidate(o.path, o.truncated))}
FileHits(policies, o) ==
    UNION {matchFileRules(SelectRules(policies), FileCandidate(o.path, o.truncated), access) : access \in o.access}

\* The hits of matchFileRules are those of the rules that match.
LEMMA FileHitsAreHits ==
    ASSUME NEW policies, Rankable(policies), \A p \in policies : Rules(p) \in Seq(RuleType), NEW o
    PROVE  /\ HitsOf(FileHits(policies, o), policies)
           /\ Named(FileHits(policies, o)) = RulesOf(FileMatched(policies, o))
<1>1. PICK rules, candidate : rules = SelectRules(policies) /\ candidate = FileCandidate(o.path, o.truncated)
      BY Zenon
<1> DEFINE hit(rule) == Hit(rule.policy, rule.index, rule.policy.action, candidate.confidence)
           matched == FileMatched(policies, o)
<1>2. PICK f : f = [rule \in matched |-> hit(rule)]
      BY Zenon
<1>3. \A rule \in matched : f[rule] = hit(rule)
      BY <1>2, Zenon
<1>4. \A rule \in matched : Reports(f[rule], rule)
  <2>1. ASSUME NEW rule \in matched PROVE Reports(hit(rule), rule)
        BY Zenon DEF Reports, Hit
  <2> HIDE DEF hit, matched
  <2> QED
      BY <1>3, <2>1, Zenon
<1>5. FileHits(policies, o) = {f[rule] : rule \in matched}
  <2>1. matched = {rule \in rules : /\ \E access \in o.access : access \in rule.policy.conditions.access
                                    /\ fileRuleMatches(rule, candidate)}
        BY <1>1, Zenon DEF FileMatched
  <2>2. FileHits(policies, o) = {hit(rule) : rule \in matched}
    <3> DEFINE by(access) == {rule \in rules : access \in rule.policy.conditions.access /\ fileRuleMatches(rule, candidate)}
    <3>1. FileHits(policies, o) = UNION {{hit(rule) : rule \in by(access)} : access \in o.access}
      <4>1. \A access : matchFileRules(rules, candidate, access) = {hit(rule) : rule \in by(access)}
            BY Zenon DEF matchFileRules
      <4>2. FileHits(policies, o) = UNION {matchFileRules(rules, candidate, access) : access \in o.access}
            BY <1>1, Zenon DEF FileHits
      <4> HIDE DEF by, hit
      <4> QED
          BY <4>1, <4>2, Zenon
    <3>2. \A rule : rule \in matched <=> \E access \in o.access : rule \in by(access)
          BY <2>1, Zenon
    <3> HIDE DEF by, hit, matched
    <3>3. ASSUME NEW e \in FileHits(policies, o) PROVE e \in {hit(rule) : rule \in matched}
      <4>1. PICK access \in o.access : e \in {hit(rule) : rule \in by(access)}
            BY <3>1, Zenon
      <4> QED
          BY <3>2, <4>1, Zenon
    <3>4. ASSUME NEW rule \in matched PROVE hit(rule) \in FileHits(policies, o)
      <4>1. PICK access \in o.access : rule \in by(access)
            BY <3>2, Zenon
      <4>2. hit(rule) \in {hit(one) : one \in by(access)}
            BY <4>1, Zenon
      <4> QED
          BY <3>1, <4>2, Zenon
    <3> QED
        BY <3>3, <3>4, Zenon
  <2> HIDE DEF matched, hit
  <2> QED
      BY <1>3, <2>2, Zenon
<1>6. matched \in SUBSET SelectRules(policies)
      BY Zenon DEF FileMatched
<1> HIDE DEF matched
<1>7. PICK hits : hits = FileHits(policies, o)
      BY Zenon
<1>9. MadeOf(hits, f, matched)
      BY <1>4, <1>5, <1>7, Zenon DEF MadeOf
<1>8. HitsOf(hits, policies) /\ Named(hits) = RulesOf(matched)
  <2> HIDE DEF hit
  <2> QED
      BY <1>6, <1>9, RuleHits, Zenon
<1> QED
    BY <1>7, <1>8, Zenon DEF matched

ExecMatched(policies, o) == {rule \in SelectRules(policies) : execRuleMatches(rule, o)}
ExecHits(policies, o) == matchExecRules(SelectRules(policies), o)

\* So are those of matchExecRules.
LEMMA ExecHitsAreHits ==
    ASSUME NEW policies, Rankable(policies), \A p \in policies : Rules(p) \in Seq(RuleType), NEW o
    PROVE  /\ HitsOf(ExecHits(policies, o), policies)
           /\ Named(ExecHits(policies, o)) = RulesOf(ExecMatched(policies, o))
<1> DEFINE contain(rule) == rule.policy.action = "contain"
           effective(rule) == IF contain(rule) THEN "alert" ELSE rule.policy.action
           hit(rule) == [Hit(rule.policy, rule.index, effective(rule), ExecConfidence(rule, o)) EXCEPT
                            !.hint = contain(rule)]
           matched == ExecMatched(policies, o)
<1>2. PICK f : f = [rule \in matched |-> hit(rule)]
      BY Zenon
<1>3. \A rule \in matched : f[rule] = hit(rule)
      BY <1>2, Zenon
<1>4. \A rule \in matched : Reports(f[rule], rule)
  <2>1. ASSUME NEW rule \in matched PROVE Reports(hit(rule), rule)
        BY Zenon DEF Reports, Hit
  <2> HIDE DEF hit, matched
  <2> QED
      BY <1>3, <2>1, Zenon
<1>5. ExecHits(policies, o) = {f[rule] : rule \in matched}
  <2>2. ExecHits(policies, o) = {hit(rule) : rule \in matched}
        BY Zenon DEF ExecHits, ExecMatched, matchExecRules
  <2> HIDE DEF matched, hit
  <2> QED
      BY <1>3, <2>2, Zenon
<1>6. matched \in SUBSET SelectRules(policies)
      BY Zenon DEF ExecMatched
<1> HIDE DEF matched
<1>7. PICK hits : hits = ExecHits(policies, o)
      BY Zenon
<1>9. MadeOf(hits, f, matched)
      BY <1>4, <1>5, <1>7, Zenon DEF MadeOf
<1>8. HitsOf(hits, policies) /\ Named(hits) = RulesOf(matched)
  <2> HIDE DEF hit
  <2> QED
      BY <1>6, <1>9, RuleHits, Zenon
<1> QED
    BY <1>7, <1>8, Zenon DEF matched

\* What a network hit says of its policy.
NetworkHitOf(hit, p, o) ==
    /\ hit.policy = p.id /\ hit.rule = 0 /\ hit.requested = p.action
    /\ hit.effective = NetworkEffective(p, PolicyDisposition(p, o))
    /\ PolicyDisposition(p, o) # "not_applicable"
    /\ {"policy", "rule", "requested"} \subseteq DOMAIN hit

\* The hits of matchNetworkRules are one for every policy that is applicable.
LEMMA NetworkHitsAreHits ==
    ASSUME NEW policies, Rankable(policies), NEW o
    PROVE  LET hits == matchNetworkRules(policies, o)
           IN  /\ HitsOf(hits, policies)
               /\ \A hit \in hits : \E p \in policies : NetworkHitOf(hit, p, o)
               /\ \A p \in policies : PolicyDisposition(p, o) # "not_applicable" =>
                     \E hit \in hits : NetworkHitOf(hit, p, o)
<1> DEFINE new(p) == [Hit(p, 0, NetworkEffective(p, PolicyDisposition(p, o)), "exact") EXCEPT
                          !.hint = PolicyDisposition(p, o) = "denied" /\ p.action = "contain"]
           hitting == {q \in policies : PolicyDisposition(q, o) # "not_applicable"}
<1>1. matchNetworkRules(policies, o) = {new(p) : p \in hitting}
      BY Zenon DEF matchNetworkRules
<1>2. \A p \in hitting : NetworkHitOf(new(p), p, o)
      BY Zenon DEF NetworkHitOf, Hit
<1>3. hitting \in SUBSET policies /\ \A p \in policies : PolicyDisposition(p, o) # "not_applicable" => p \in hitting
      BY Zenon
<1> HIDE DEF new, hitting
<1>4. PICK hits : hits = matchNetworkRules(policies, o)
      BY Zenon
<1>5. IsFiniteSet(hits)
  <2>1. IsFiniteSet(hitting)
        BY <1>3, FS_Subset, Zenon DEF Rankable
  <2>2. PICK f : f = [p \in hitting |-> new(p)]
        BY Zenon
  <2>3. f \in Surjection(hitting, hits)
        BY <1>1, <1>4, <2>2, Zenon DEF Surjection
  <2> QED
      BY <2>1, <2>3, FS_Surjection, Zenon
<1>6. \A hit \in hits : \E p \in policies : hit = new(p) /\ NetworkHitOf(hit, p, o)
      BY <1>1, <1>2, <1>3, <1>4, Zenon
<1>7. \A hit \in hits : hit.rule \in Int /\ \E p \in policies : p.id = hit.policy /\ p.action = hit.requested
  <2>1. 0 \in Int
        OBVIOUS
  <2> QED
      BY <1>6, <2>1, Zenon DEF NetworkHitOf
<1>8. ASSUME NEW hit \in hits, NEW other \in hits, hit.policy = other.policy PROVE hit = other
  <2>1. PICK p \in policies : hit = new(p) /\ NetworkHitOf(hit, p, o)
        BY <1>6, Zenon
  <2>2. PICK q \in policies : other = new(q) /\ NetworkHitOf(other, q, o)
        BY <1>6, Zenon
  <2>3. p = q
        BY <1>8, <2>1, <2>2, Zenon DEF Rankable, NetworkHitOf
  <2> QED
      BY <2>1, <2>2, <2>3, Zenon
<1>9. \A p \in policies : PolicyDisposition(p, o) # "not_applicable" => \E hit \in hits : NetworkHitOf(hit, p, o)
      BY <1>1, <1>2, <1>3, <1>4, Zenon
<1> QED
    BY <1>4, <1>5, <1>6, <1>7, <1>8, <1>9, Zenon DEF HitsOf
-----------------------------------------------------------------------------
(* The report. *)

FinalOf(policies, hits) ==
    IF hits = {} THEN NoDecision
    ELSE [policy |-> Winner(policies, hits).policy, rule |-> Winner(policies, hits).rule,
          decision |-> PolicyOf(policies, Winner(policies, hits)).decision,
          requested |-> Winner(policies, hits).requested, effective |-> Winner(policies, hits).effective,
          disposition |-> "", enforced |-> FALSE]

\* What buildDecisionReport builds.
LEMMA BuiltReport ==
    ASSUME NEW generation, NEW policies, NEW hits, NEW gaps
    PROVE  buildDecisionReport(generation, policies, hits, gaps) =
               [generation |-> generation, hits |-> hits, gaps |-> gaps, decisions |-> {},
                final |-> FinalOf(policies, hits)]
    BY Zenon DEF buildDecisionReport, FinalOf, Winner

\* The report's hits are of the policies, and its decision of the preferred one.
Prefers(r, policies) ==
    /\ \A hit \in r.hits : \E p \in policies : p.id = hit.policy /\ p.action = hit.requested
    /\ r.final.policy # 0 =>
          \E p \in policies :
              /\ p.id = r.final.policy /\ p.decision = r.final.decision
              /\ \A hit \in r.hits, q \in policies : hit.policy = q.id => ~HigherPrecedence(q, p)

\* Its final decision is that of a preferred policy.
LEMMA BuiltPrefers ==
    ASSUME NEW policies, Rankable(policies), NEW hits, HitsOf(hits, policies), NEW r,
           r.hits = hits, r.final.policy = FinalOf(policies, hits).policy,
           r.final.decision = FinalOf(policies, hits).decision
    PROVE  Prefers(r, policies)
<1>1. \A hit \in r.hits : \E p \in policies : p.id = hit.policy /\ p.action = hit.requested
      BY Zenon DEF HitsOf
<1>2. CASE hits = {}
  <2>1. r.final.policy = 0
        BY <1>2, Zenon DEF FinalOf, NoDecision
  <2> QED
      BY <1>1, <2>1, Zenon DEF Prefers
<1>3. CASE hits # {}
  <2>1. PICK winner : winner = Winner(policies, hits)
        BY Zenon
  <2>2. r.final.policy = winner.policy /\ r.final.decision = PolicyOf(policies, winner).decision
        BY <1>3, <2>1, Zenon DEF FinalOf
  <2>3. winner \in hits
        BY <1>3, <2>1, WinnerIsPreferred, Zenon
  <2>4. PICK p : p = PolicyOf(policies, winner)
        BY Zenon
  <2>5. p \in policies /\ p.id = winner.policy
        BY <2>3, <2>4, PolicyOfHit
  <2>6. ASSUME NEW hit \in hits, NEW q \in policies, hit.policy = q.id PROVE ~HigherPrecedence(q, p)
    <3>1. q = PolicyOf(policies, hit)
          BY <2>6, PolicyOfHit
    <3> QED
        BY <1>3, <2>1, <2>4, <3>1, WinnerIsPreferred, Zenon
  <2> QED
      BY <1>1, <2>2, <2>4, <2>5, <2>6, Zenon DEF Prefers
<1> QED
    BY <1>2, <1>3, Zenon
-----------------------------------------------------------------------------
(* What the three kinds of evaluation report. *)

\* A snapshot the engine may hold.
IsSnapshot(s) == s.bundle \in Prepared

\* The rules of file and exec policies are sequences.
LEMMA SelectedHaveRules ==
    ASSUME NEW bundle \in Prepared, NEW context, NEW kind \in {"file", "exec"}
    PROVE  \A p \in selectPolicies(bundle, context, kind) : Rules(p) \in Seq(RuleType)
<1>1. \A p \in selectPolicies(bundle, context, kind) : IsPolicy(p) /\ p.kind = kind
      BY SelectedAreRankable, Zenon
<1>2. kind # "network"
      OBVIOUS
<1> QED
    BY <1>1, <1>2, Zenon DEF IsPolicy, Rules

\* A report of these hits and gaps, in which nothing is enforced yet.
Says(r, generation, policies, hits, gaps) ==
    /\ r.generation = generation /\ r.hits = hits /\ r.gaps = gaps
    /\ ~r.final.enforced /\ Prefers(r, policies)

\* No decision names no policy and enforces nothing.
LEMMA NoDecisionFields == NoDecision.policy = 0 /\ ~NoDecision.enforced
    BY Zenon DEF NoDecision

\* A report without hits decides nothing,
LEMMA NothingIsReported ==
    ASSUME NEW generation, NEW gaps, NEW policies, NEW r,
           r.generation = generation, r.hits = {}, r.gaps = gaps, r.final = NoDecision
    PROVE  Says(r, generation, policies, {}, gaps)
<1>1. ~r.final.enforced /\ r.final.policy = 0
      BY NoDecisionFields, Zenon
<1> QED
    BY <1>1, Zenon DEF Prefers, Says

\* like the empty report.
LEMMA EmptyIsReported ==
    ASSUME NEW generation, NEW policies, NEW r, r = EmptyReport(generation)
    PROVE  Says(r, generation, policies, {}, {})
<1>1. r.generation = generation /\ r.hits = {} /\ r.gaps = {} /\ r.final = NoDecision
      BY DEF EmptyReport
<1> QED
    BY <1>1, NothingIsReported, Zenon

\* A built report says what it was given and prefers.
LEMMA BuiltIsReported ==
    ASSUME NEW generation, NEW policies, Rankable(policies), NEW hits, HitsOf(hits, policies), NEW gaps, NEW r,
           r = buildDecisionReport(generation, policies, hits, gaps)
    PROVE  Says(r, generation, policies, hits, gaps)
<1>1. r.generation = generation /\ r.hits = hits /\ r.gaps = gaps /\ r.final = FinalOf(policies, hits)
  <2>1. r = [generation |-> generation, hits |-> hits, gaps |-> gaps, decisions |-> {}, final |-> FinalOf(policies, hits)]
        BY BuiltReport, Zenon
  <2> QED
      BY <2>1
<1>2. ~r.final.enforced
  <2>1. CASE hits = {}
        BY <1>1, <2>1, NoDecisionFields, Zenon DEF FinalOf
  <2>2. CASE hits # {}
    <3>1. PICK winner, decision :
              winner = Winner(policies, hits) /\ decision = PolicyOf(policies, winner).decision
          BY Zenon
    <3>2. PICK final : final = r.final
          BY Zenon
    <3>3. final = [policy |-> winner.policy, rule |-> winner.rule, decision |-> decision,
                     requested |-> winner.requested, effective |-> winner.effective,
                     disposition |-> "", enforced |-> FALSE]
          BY <1>1, <2>2, <3>1, <3>2, Zenon DEF FinalOf
    <3>4. ~final.enforced
          BY <3>3
    <3> QED
        BY <3>2, <3>4, Zenon
  <2> QED
      BY <2>1, <2>2, Zenon
<1> QED
    BY <1>1, <1>2, BuiltPrefers, Zenon DEF Says

\* The hits and gaps of a file report.
FileHitsOf(policies, o) == IF policies = {} \/ o.openPath \/ o.path = <<>> THEN {} ELSE FileHits(policies, o)
FileGapsOf(policies, o) ==
    IF policies = {} THEN {} ELSE IF o.openPath THEN {"open_path_not_content_access"}
    ELSE IF o.path = <<>> THEN {"user_path_unavailable"} ELSE FileCandidate(o.path, o.truncated).gaps

\* What evaluateFile reports.
LEMMA FileReport ==
    ASSUME NEW s, IsSnapshot(s), NEW context, NEW o, NEW policies,
           policies = selectPolicies(s.bundle, context, "file"), NEW r, r = evaluateFile(s, context, o)
    PROVE  Says(r, s.generation, policies, FileHitsOf(policies, o), FileGapsOf(policies, o))
<1>0. PICK generation, hits, gaps :
          generation = s.generation /\ hits = FileHitsOf(policies, o) /\ gaps = FileGapsOf(policies, o)
      BY Zenon
<1>1. CASE policies = {}
  <2>1. r = EmptyReport(generation) /\ hits = {} /\ gaps = {}
        BY <1>0, <1>1, Zenon DEF evaluateFile, FileHitsOf, FileGapsOf
  <2> QED
      BY <1>0, <2>1, EmptyIsReported, Zenon
<1>2. CASE policies # {} /\ o.openPath
  <2>1. r = [EmptyReport(generation) EXCEPT !.gaps = gaps] /\ hits = {}
        BY <1>0, <1>2, Zenon DEF evaluateFile, FileHitsOf, FileGapsOf
  <2>2. r.generation = generation /\ r.hits = {} /\ r.gaps = gaps /\ r.final = NoDecision
        BY <2>1 DEF EmptyReport
  <2>3. Says(r, generation, policies, {}, gaps)
        BY <2>2, NothingIsReported, Zenon
  <2> QED
      BY <1>0, <2>1, <2>3, Zenon
<1>3. CASE policies # {} /\ ~o.openPath /\ o.path = <<>>
  <2>1. r = [EmptyReport(generation) EXCEPT !.gaps = gaps] /\ hits = {}
        BY <1>0, <1>3, Zenon DEF evaluateFile, FileHitsOf, FileGapsOf
  <2>2. r.generation = generation /\ r.hits = {} /\ r.gaps = gaps /\ r.final = NoDecision
        BY <2>1 DEF EmptyReport
  <2>3. Says(r, generation, policies, {}, gaps)
        BY <2>2, NothingIsReported, Zenon
  <2> QED
      BY <1>0, <2>1, <2>3, Zenon
<1>4. CASE policies # {} /\ ~o.openPath /\ o.path # <<>>
  <2>1. hits = FileHits(policies, o) /\ gaps = FileCandidate(o.path, o.truncated).gaps
        BY <1>0, <1>4, Zenon DEF FileHitsOf, FileGapsOf
  <2>2. r = buildDecisionReport(generation, policies, hits, gaps)
        BY <1>0, <1>4, <2>1, Zenon DEF evaluateFile, FileHits
  <2>3. Rankable(policies) /\ \A p \in policies : Rules(p) \in Seq(RuleType)
        BY SelectedAreRankable, SelectedHaveRules, Zenon DEF IsSnapshot
  <2>4. HitsOf(hits, policies)
        BY <2>1, <2>3, FileHitsAreHits, Zenon
  <2> QED
      BY <1>0, <2>2, <2>3, <2>4, BuiltIsReported, Zenon
<1> QED
    BY <1>1, <1>2, <1>3, <1>4, Zenon

ExecHitsOf(policies, o) == IF policies = {} THEN {} ELSE ExecHits(policies, o)
ExecGapsOf(policies, o) == IF policies = {} THEN {} ELSE ExecCaptureGaps(o)

\* What EvaluateExec reports.
LEMMA ExecReport ==
    ASSUME NEW s, IsSnapshot(s), NEW context, NEW o, NEW policies,
           policies = selectPolicies(s.bundle, context, "exec"), NEW r, r = EvaluateExec(s, context, o)
    PROVE  Says(r, s.generation, policies, ExecHitsOf(policies, o), ExecGapsOf(policies, o))
<1>0. PICK generation, hits, gaps :
          generation = s.generation /\ hits = ExecHitsOf(policies, o) /\ gaps = ExecGapsOf(policies, o)
      BY Zenon
<1>1. CASE policies = {}
  <2>1. r = EmptyReport(generation) /\ hits = {} /\ gaps = {}
        BY <1>0, <1>1, Zenon DEF EvaluateExec, ExecHitsOf, ExecGapsOf
  <2> QED
      BY <1>0, <2>1, EmptyIsReported, Zenon
<1>2. CASE policies # {}
  <2>1. hits = ExecHits(policies, o) /\ gaps = ExecCaptureGaps(o)
        BY <1>0, <1>2, Zenon DEF ExecHitsOf, ExecGapsOf
  <2>2. r = buildDecisionReport(generation, policies, hits, gaps)
        BY <1>0, <1>2, <2>1, Zenon DEF EvaluateExec, ExecHits
  <2>3. Rankable(policies) /\ \A p \in policies : Rules(p) \in Seq(RuleType)
        BY SelectedAreRankable, SelectedHaveRules, Zenon DEF IsSnapshot
  <2>4. HitsOf(hits, policies)
        BY <2>1, <2>3, ExecHitsAreHits, Zenon
  <2> QED
      BY <1>0, <2>2, <2>3, <2>4, BuiltIsReported, Zenon
<1> QED
    BY <1>1, <1>2, Zenon
-----------------------------------------------------------------------------
(* Captures that are cut short. *)

\* A rule that matches a cut pathname matches the whole one.
LEMMA FileCutMatches ==
    ASSUME NEW rule, rule.value \in Seq(STRING), NEW path \in Seq(STRING), NEW n \in 0 .. Len(path),
           NEW truncated \in BOOLEAN, truncated <=> n < Len(path),
           fileRuleMatches(rule, FileCandidate(SubSeq(path, 1, n), truncated))
    PROVE  fileRuleMatches(rule, FileCandidate(path, FALSE))
<1>1. PICK cut : cut = FileCandidate(SubSeq(path, 1, n), truncated)
      BY Zenon
<1>2. PICK whole : whole = FileCandidate(path, FALSE)
      BY Zenon
<1>3. /\ cut.value = SubSeq(path, 1, n) /\ cut.truncated = truncated
      /\ whole.value = path /\ whole.truncated = FALSE
      BY <1>1, <1>2, Zenon DEF FileCandidate
<1>4. CASE ~truncated
  <2>1. n = Len(path)
        BY <1>4
  <2>2. cut.value = whole.value
        BY <1>3, <2>1, SubSeqFull, Zenon
  <2>3. cut.truncated = whole.truncated
        BY <1>3, <1>4, Zenon
  <2> QED
      BY <1>1, <1>2, <2>2, <2>3, Zenon DEF fileRuleMatches
<1>5. CASE truncated
  <2>1. rule.kind = "prefix" /\ HasPrefix(cut.value, rule.value)
        BY <1>1, <1>3, <1>5, Zenon DEF fileRuleMatches
  <2>2. PICK prefix \in Seq(STRING) : prefix = rule.value
        BY Zenon
  <2>3. /\ Len(cut.value) = n
        /\ \A i \in 1 .. n : cut.value[i] = path[i]
        BY <1>3
  <2>4. Len(prefix) <= n /\ \A i \in DOMAIN prefix : i \in 1 .. n /\ cut.value[i] = prefix[i]
        BY <2>1, <2>2, <2>3 DEF HasPrefix
  <2>5. HasPrefix(path, prefix)
        BY <2>3, <2>4 DEF HasPrefix
  <2> QED
      BY <1>2, <1>3, <2>1, <2>2, <2>5, Zenon DEF fileRuleMatches
<1> QED
    BY <1>4, <1>5, Zenon

\* The value of a rule is a sequence of segments or words.
LEMMA SelectedValues ==
    ASSUME NEW policies, IsFiniteSet(policies), \A p \in policies : Rules(p) \in Seq(RuleType),
           NEW rule \in SelectRules(policies)
    PROVE  rule.value \in Seq(STRING)
<1>1. PICK p \in policies : \E i \in DOMAIN Rules(p) : rule = RuleOf(p, i)
      BY SelectedRules, Zenon
<1>2. PICK i \in DOMAIN Rules(p) : rule = RuleOf(p, i)
      BY <1>1, Zenon
<1>3. PICK rules \in Seq(RuleType) : rules = Rules(p)
      BY Zenon
<1>4. rules[i] \in RuleType
      BY <1>2, <1>3
<1>5. rules[i].value \in Seq(STRING)
      BY <1>4, Zenon DEF RuleType
<1> QED
    BY <1>2, <1>3, <1>5, Zenon DEF RuleOf

\* More matched rules name more.
LEMMA MatchedMonotone ==
    ASSUME NEW matched, NEW more, matched \subseteq more
    PROVE  RulesOf(matched) \subseteq RulesOf(more)
    BY Zenon DEF RulesOf

\* What is honest of a cut capture: nothing is invented, and what is lost is announced.
Honest(hits, whole, gaps) ==
    Named(hits) \subseteq Named(whole) /\ (Named(hits) # Named(whole) => gaps # {})

\* A file report of a cut pathname is honest.
LEMMA FileCutIsHonest ==
    ASSUME NEW policies, Rankable(policies), \A p \in policies : Rules(p) \in Seq(RuleType),
           NEW path \in Seq(STRING), NEW n \in 0 .. Len(path), NEW o, NEW w,
           o.path = SubSeq(path, 1, n), o.truncated \in BOOLEAN, o.truncated <=> n < Len(path),
           w.path = path, w.truncated = FALSE, w.access = o.access, w.openPath = o.openPath
    PROVE  Honest(FileHitsOf(policies, o), FileHitsOf(policies, w), FileGapsOf(policies, o))
<1>1. CASE policies = {} \/ o.openPath
  <2>1. FileHitsOf(policies, o) = {} /\ FileHitsOf(policies, w) = {}
        BY <1>1, Zenon DEF FileHitsOf
  <2> QED
      BY <2>1, Zenon DEF Honest, Named
<1>2. CASE ~(policies = {} \/ o.openPath) /\ o.path = <<>>
  <2>1. FileHitsOf(policies, o) = {} /\ FileGapsOf(policies, o) = {"user_path_unavailable"}
        BY <1>2, Zenon DEF FileHitsOf, FileGapsOf
  <2> QED
      BY <2>1, Zenon DEF Honest, Named
<1>3. CASE ~(policies = {} \/ o.openPath) /\ o.path # <<>>
  <2>1. path # <<>>
    <3>1. SUFFICES ASSUME path = <<>> PROVE FALSE
          OBVIOUS
    <3>2. SubSeq(path, 1, n) = <<>>
      <4>1. n = 0
            BY <3>1
      <4> QED
          BY <4>1, SubSeqEmpty
    <3> QED
        BY <1>3, <3>2, Zenon
  <2>2. /\ FileHitsOf(policies, o) = FileHits(policies, o) /\ FileHitsOf(policies, w) = FileHits(policies, w)
        /\ FileGapsOf(policies, o) = FileCandidate(o.path, o.truncated).gaps
        BY <1>3, <2>1, Zenon DEF FileHitsOf, FileGapsOf
  <2>3. /\ Named(FileHits(policies, o)) = RulesOf(FileMatched(policies, o))
        /\ Named(FileHits(policies, w)) = RulesOf(FileMatched(policies, w))
        BY FileHitsAreHits, Zenon
  <2>4. ASSUME NEW rule \in FileMatched(policies, o) PROVE rule \in FileMatched(policies, w)
    <3>1. /\ rule \in SelectRules(policies) /\ \E access \in o.access : access \in rule.policy.conditions.access
          /\ fileRuleMatches(rule, FileCandidate(SubSeq(path, 1, n), o.truncated))
          BY Zenon DEF FileMatched
    <3>2. rule.value \in Seq(STRING)
          BY <3>1, SelectedValues, Zenon DEF Rankable
    <3>3. fileRuleMatches(rule, FileCandidate(w.path, w.truncated))
          BY <3>1, <3>2, FileCutMatches
    <3> QED
        BY <3>1, <3>3, Zenon DEF FileMatched
  <2>5. CASE o.truncated
    <3>1. "user_path_truncated" \in FileCandidate(o.path, o.truncated).gaps
          BY <2>5, Zenon DEF FileCandidate
    <3>2. FileMatched(policies, o) \subseteq FileMatched(policies, w)
          BY <2>4, Zenon
    <3>3. RulesOf(FileMatched(policies, o)) \subseteq RulesOf(FileMatched(policies, w))
          BY <3>2, MatchedMonotone, Zenon
    <3>4. FileGapsOf(policies, o) # {}
          BY <2>2, <3>1, Zenon
    <3> QED
        BY <2>2, <2>3, <3>3, <3>4, Zenon DEF Honest
  <2>6. CASE ~o.truncated
    <3>1. n = Len(path)
          BY <2>6
    <3>2. o.path = w.path
          BY <3>1, SubSeqFull
    <3>3. o.truncated = w.truncated
          BY <2>6, Zenon
    <3>4. FileMatched(policies, o) = FileMatched(policies, w)
          BY <3>2, <3>3, Zenon DEF FileMatched
    <3> QED
        BY <2>2, <2>3, <3>4, Zenon DEF Honest
  <2> QED
      BY <2>5, <2>6, Zenon
<1> QED
    BY <1>1, <1>2, <1>3, Zenon

\* Sequences of one length with the same elements are equal.
LEMMA SameSequence ==
    ASSUME NEW S, NEW a \in Seq(S), NEW b \in Seq(S), NEW n, Len(a) = n, Len(b) = n,
           \A i \in 1 .. n : a[i] = b[i]
    PROVE  a = b
    BY SeqEqual

\* The words between two places of a prefix are those of the whole.
SameWords(cut, words, from, to) ==
    from \in DOMAIN words /\ to \in DOMAIN words /\ SubSeq(cut, from, to) = SubSeq(words, from, to)

\* Words found in a prefix are found in the whole.
LEMMA WordsOfPrefix ==
    ASSUME NEW S, NEW words \in Seq(S), NEW k \in 0 .. Len(words), NEW cut, cut = SubSeq(words, 1, k),
           NEW from \in DOMAIN cut, NEW to \in DOMAIN cut
    PROVE  SameWords(cut, words, from, to)
<1>0. k \in Nat /\ k <= Len(words) /\ Len(words) \in Nat
      OBVIOUS
<1>1. DOMAIN cut = 1 .. k /\ DOMAIN words = 1 .. Len(words)
  <2>1. \A i \in 1 .. k : words[i] \in S
        BY <1>0
  <2>2. cut \in Seq(S) /\ Len(cut) = IF 1 <= k THEN k - 1 + 1 ELSE 0
        BY <1>0, <2>1, SubSeqProperties
  <2> QED
      BY <1>0, <2>2
<1>2. from \in 1 .. k /\ to \in 1 .. k
      BY <1>1, Zenon
<1>3. from \in DOMAIN words /\ to \in DOMAIN words
      BY <1>0, <1>1, <1>2
<1>4. \A i \in 1 .. k : cut[i] = words[i] /\ words[i] \in S /\ cut[i] \in S
      BY <1>0, SubSeqProperties
<1>5. CASE to < from
      BY <1>2, <1>3, <1>5, SubSeqEmpty DEF SameWords
<1>6. CASE from <= to
  <2>1. \A i \in from .. to : i \in 1 .. k
        BY <1>2
  <2>2. /\ SubSeq(cut, from, to) \in Seq(S) /\ Len(SubSeq(cut, from, to)) = to - from + 1
        /\ \A i \in 1 .. to - from + 1 : SubSeq(cut, from, to)[i] = cut[from + i - 1]
        BY <1>2, <1>4, <1>6, <2>1, SubSeqProperties
  <2>3. /\ SubSeq(words, from, to) \in Seq(S) /\ Len(SubSeq(words, from, to)) = to - from + 1
        /\ \A i \in 1 .. to - from + 1 : SubSeq(words, from, to)[i] = words[from + i - 1]
        BY <1>2, <1>4, <1>6, <2>1, SubSeqProperties
  <2>4. \A i \in 1 .. to - from + 1 : from + i - 1 \in 1 .. k
        BY <1>2, <1>6
  <2>5. SubSeq(cut, from, to) = SubSeq(words, from, to)
    <3>1. PICK a, b, m : a = SubSeq(cut, from, to) /\ b = SubSeq(words, from, to) /\ m = to - from + 1
          BY Zenon
    <3>2. a \in Seq(S) /\ b \in Seq(S) /\ Len(a) = m /\ Len(b) = m
          BY <2>2, <2>3, <3>1, Zenon
    <3>3. \A i \in 1 .. m : a[i] = b[i]
          BY <1>4, <2>2, <2>3, <2>4, <3>1, Zenon
    <3> QED
        BY <3>1, <3>2, <3>3, SameSequence, Zenon
  <2> QED
      BY <1>3, <2>5, Zenon DEF SameWords
<1> QED
    BY <1>2, <1>5, <1>6

\* An exec report of a cut capture is honest.
LEMMA ExecCutIsHonest ==
    ASSUME NEW policies, Rankable(policies), \A p \in policies : Rules(p) \in Seq(RuleType),
           NEW executable \in Seq(STRING), NEW arguments \in Seq(STRING),
           NEW n \in 0 .. Len(executable), NEW k \in 0 .. Len(arguments), NEW o, NEW w,
           o.executable = SubSeq(executable, 1, n), o.executableTruncated \in BOOLEAN,
           o.executableTruncated <=> n < Len(executable),
           o.arguments = SubSeq(arguments, 1, k), o.argumentsState \in {"complete", "truncated"},
           o.argumentsState = "complete" => k = Len(arguments),
           w.executable = executable, w.executableTruncated = FALSE,
           w.arguments = arguments, w.argumentsState = "complete"
    PROVE  Honest(ExecHitsOf(policies, o), ExecHitsOf(policies, w), ExecGapsOf(policies, o))
<1>1. CASE policies = {}
  <2>1. ExecHitsOf(policies, o) = {} /\ ExecHitsOf(policies, w) = {}
        BY <1>1, Zenon DEF ExecHitsOf
  <2> QED
      BY <2>1, Zenon DEF Honest, Named
<1>2. CASE policies # {}
  <2>1. /\ ExecHitsOf(policies, o) = ExecHits(policies, o) /\ ExecHitsOf(policies, w) = ExecHits(policies, w)
        /\ ExecGapsOf(policies, o) = ExecCaptureGaps(o)
        BY <1>2, Zenon DEF ExecHitsOf, ExecGapsOf
  <2>2. /\ Named(ExecHits(policies, o)) = RulesOf(ExecMatched(policies, o))
        /\ Named(ExecHits(policies, w)) = RulesOf(ExecMatched(policies, w))
        BY ExecHitsAreHits, Zenon
  <2>3. ~o.executableTruncated => o.executable = w.executable /\ o.executableTruncated = w.executableTruncated
    <3>1. SUFFICES ASSUME ~o.executableTruncated PROVE o.executable = w.executable
          BY Zenon
    <3>2. n = Len(executable)
          BY <3>1
    <3> QED
        BY <3>2, SubSeqFull
  <2>4. o.argumentsState = "complete" => o.arguments = w.arguments
        BY SubSeqFull
  <2>5. ASSUME NEW from \in DOMAIN o.arguments, NEW to \in DOMAIN o.arguments
        PROVE  /\ from \in DOMAIN w.arguments /\ to \in DOMAIN w.arguments
               /\ SubSeq(o.arguments, from, to) = SubSeq(w.arguments, from, to)
    <3>1. PICK cut : cut = o.arguments
          BY Zenon
    <3>2. cut = SubSeq(arguments, 1, k) /\ from \in DOMAIN cut /\ to \in DOMAIN cut
          BY <3>1, Zenon
    <3>3. SameWords(cut, arguments, from, to)
          BY <3>2, WordsOfPrefix, Zenon
    <3> QED
        BY <3>1, <3>3, Zenon DEF SameWords
  <2>6. ASSUME NEW rule \in ExecMatched(policies, o) PROVE rule \in ExecMatched(policies, w)
    <3>1. rule \in SelectRules(policies) /\ execRuleMatches(rule, o)
          BY Zenon DEF ExecMatched
    <3>2. CASE rule.kind = "executable"
      <4>1. ~o.executableTruncated
            BY <3>1, <3>2, Zenon DEF execRuleMatches
      <4> QED
          BY <2>3, <3>1, <3>2, <4>1, Zenon DEF execRuleMatches, ExecMatched
    <3>3. CASE rule.kind # "executable"
      <4>1. PICK from \in DOMAIN o.arguments, to \in DOMAIN o.arguments : SubSeq(o.arguments, from, to) = rule.value
            BY <3>1, <3>3, Zenon DEF execRuleMatches
      <4>2. \E a, b \in DOMAIN w.arguments : SubSeq(w.arguments, a, b) = rule.value
            BY <2>5, <4>1, Zenon
      <4>3. w.argumentsState # "unavailable"
            OBVIOUS
      <4> QED
          BY <3>1, <3>3, <4>2, <4>3, Zenon DEF execRuleMatches, ExecMatched
    <3> QED
        BY <3>2, <3>3, Zenon
  <2>7. CASE o.executableTruncated \/ o.argumentsState = "truncated"
    <3>1. "executable_truncated" \in ExecCaptureGaps(o) \/ "arguments_truncated" \in ExecCaptureGaps(o)
          BY <2>7, Zenon DEF ExecCaptureGaps
    <3>2. ExecMatched(policies, o) \subseteq ExecMatched(policies, w)
          BY <2>6, Zenon
    <3>3. RulesOf(ExecMatched(policies, o)) \subseteq RulesOf(ExecMatched(policies, w))
          BY <3>2, MatchedMonotone, Zenon
    <3>4. ExecGapsOf(policies, o) # {}
          BY <2>1, <3>1, Zenon
    <3> QED
        BY <2>1, <2>2, <3>3, <3>4, Zenon DEF Honest
  <2>8. CASE ~o.executableTruncated /\ o.argumentsState # "truncated"
    <3>1. o.argumentsState = w.argumentsState /\ o.arguments = w.arguments
          BY <2>4, <2>8
    <3>2. o.executable = w.executable /\ o.executableTruncated = w.executableTruncated
          BY <2>3, <2>8, Zenon
    <3>3. \A rule : execRuleMatches(rule, o) = execRuleMatches(rule, w)
          BY <3>1, <3>2, Zenon DEF execRuleMatches
    <3>4. ExecMatched(policies, o) = ExecMatched(policies, w)
          BY <3>3, Zenon DEF ExecMatched
    <3> QED
        BY <2>1, <2>2, <3>4, Zenon DEF Honest
  <2> QED
      BY <2>7, <2>8, Zenon
<1> QED
    BY <1>1, <1>2, Zenon
-----------------------------------------------------------------------------
(* Network reports and what the connect hook did. *)

FinalFields == {"policy", "rule", "decision", "requested", "effective", "disposition", "enforced"}

\* The final decision of a network report before it is reconciled.
NetworkFinal(final, policies, hits, o) ==
    /\ DOMAIN final = FinalFields /\ ~final.enforced
    /\ final.policy = FinalOf(policies, hits).policy /\ final.decision = FinalOf(policies, hits).decision
    /\ final.policy # 0 =>
          \E p \in policies :
              /\ p.id = final.policy /\ final.requested = p.action
              /\ final.disposition = PolicyDisposition(p, o)
              /\ final.effective = NetworkEffective(p, PolicyDisposition(p, o))

\* The fields of the final decision of a built report.
LEMMA FinalOfDomain ==
    ASSUME NEW policies, NEW hits
    PROVE  DOMAIN FinalOf(policies, hits) = FinalFields /\ ~FinalOf(policies, hits).enforced
<1>1. CASE hits = {}
      BY <1>1 DEF FinalOf, FinalFields, NoDecision
<1>2. CASE hits # {}
  <2>1. PICK winner, decision :
            winner = Winner(policies, hits) /\ decision = PolicyOf(policies, winner).decision
        BY Zenon
  <2>2. PICK final : final = FinalOf(policies, hits)
        BY Zenon
  <2>3. final = [policy |-> winner.policy, rule |-> winner.rule, decision |-> decision,
                 requested |-> winner.requested, effective |-> winner.effective,
                 disposition |-> "", enforced |-> FALSE]
        BY <1>2, <2>1, <2>2, Zenon DEF FinalOf
  <2>4. DOMAIN final = FinalFields /\ ~final.enforced
        BY <2>3 DEF FinalFields
  <2> QED
      BY <2>2, <2>4, Zenon
<1> QED
    BY <1>1, <1>2, Zenon

\* A policy has one decision.
LEMMA DecisionOfPolicy ==
    ASSUME NEW policies, NEW o, NEW p \in policies
    PROVE  \E d \in NetworkDecisions(policies, o) : d.policy = p.id
<1> DEFINE new(q) == [policy |-> q.id, disposition |-> PolicyDisposition(q, o), enforced |-> FALSE]
<1>1. NetworkDecisions(policies, o) = {new(q) : q \in policies}
      BY Zenon DEF NetworkDecisions
<1>2. \A q : new(q).policy = q.id
      BY Zenon
<1> HIDE DEF new
<1> QED
    BY <1>1, <1>2, Zenon

\* It holds the policy's disposition.
LEMMA DecisionDisposes ==
    ASSUME NEW policies, Rankable(policies), NEW o, NEW p \in policies,
           NEW d \in NetworkDecisions(policies, o), d.policy = p.id
    PROVE  d.disposition = PolicyDisposition(p, o)
<1> DEFINE new(q) == [policy |-> q.id, disposition |-> PolicyDisposition(q, o), enforced |-> FALSE]
<1>1. NetworkDecisions(policies, o) = {new(q) : q \in policies}
      BY Zenon DEF NetworkDecisions
<1>2. \A q : new(q).policy = q.id /\ new(q).disposition = PolicyDisposition(q, o)
      BY Zenon
<1> HIDE DEF new
<1>3. PICK q \in policies : d = new(q)
      BY <1>1, Zenon
<1>4. q = p
      BY <1>2, <1>3, Zenon DEF Rankable
<1> QED
    BY <1>2, <1>3, <1>4, Zenon

\* A network report: its hits, its decisions and its final decision.
NetworkReported(r, generation, policies, o, final) ==
    /\ r = [generation |-> generation, hits |-> matchNetworkRules(policies, o), gaps |-> {},
            decisions |-> NetworkDecisions(policies, o), final |-> final]
    /\ NetworkFinal(final, policies, matchNetworkRules(policies, o), o)

\* What EvaluateNetwork reports.
LEMMA NetworkReport ==
    ASSUME NEW s, IsSnapshot(s), NEW context, NEW o, NEW policies,
           policies = selectPolicies(s.bundle, context, "network"), NEW r, r = EvaluateNetwork(s, context, o)
    PROVE  \E final : NetworkReported(r, s.generation, policies, o, final)
<1>0. PICK generation, hits, decisions :
          /\ generation = s.generation /\ hits = matchNetworkRules(policies, o)
          /\ decisions = NetworkDecisions(policies, o)
      BY Zenon
<1>1. CASE policies = {}
  <2>1. r = EmptyReport(generation)
        BY <1>0, <1>1, Zenon DEF EvaluateNetwork
  <2>2. hits = {} /\ decisions = {}
        BY <1>0, <1>1, Zenon DEF matchNetworkRules, NetworkDecisions
  <2>3. r = [generation |-> generation, hits |-> hits, gaps |-> {}, decisions |-> decisions, final |-> NoDecision]
        BY <2>1, <2>2, Zenon DEF EmptyReport
  <2>4. FinalOf(policies, hits) = NoDecision
        BY <2>2, Zenon DEF FinalOf
  <2>5. NetworkFinal(NoDecision, policies, hits, o)
        BY <2>4, FinalOfDomain, NoDecisionFields, Zenon DEF NetworkFinal
  <2> QED
      BY <1>0, <2>3, <2>5, Zenon DEF NetworkReported
<1>2. CASE policies # {}
  <2>1. PICK built : built = buildDecisionReport(generation, policies, hits, {})
        BY Zenon
  <2>2. PICK first : first = FinalOf(policies, hits)
        BY Zenon
  <2>3. built = [generation |-> generation, hits |-> hits, gaps |-> {}, decisions |-> {}, final |-> first]
        BY <2>1, <2>2, BuiltReport, Zenon
  <2> DEFINE named(d) == d.policy = built.final.policy
             choice == IF \E d \in decisions : named(d) THEN (CHOOSE d \in decisions : named(d)).disposition ELSE ""
  <2>4. PICK disposition : disposition = choice
        BY Zenon
  <2>5. r = [built EXCEPT !.decisions = decisions, !.final.disposition = disposition]
        BY <1>0, <1>2, <2>1, <2>4, Zenon DEF EvaluateNetwork
  <2>6. PICK final : final = [first EXCEPT !.disposition = disposition]
        BY Zenon
  <2>7. r = [generation |-> generation, hits |-> hits, gaps |-> {}, decisions |-> decisions, final |-> final]
        BY <2>3, <2>5, <2>6
  <2>8. DOMAIN first = FinalFields /\ ~first.enforced
        BY <2>2, FinalOfDomain, Zenon
  <2>9. /\ DOMAIN final = FinalFields /\ final.disposition = disposition
        /\ final.policy = first.policy /\ final.decision = first.decision /\ final.requested = first.requested
        /\ final.effective = first.effective /\ final.enforced = first.enforced
        BY <2>6, <2>8, Zenon DEF FinalFields
  <2>10. Rankable(policies)
        BY SelectedAreRankable, Zenon DEF IsSnapshot
  <2>11. /\ HitsOf(hits, policies) /\ \A hit \in hits : \E p \in policies : NetworkHitOf(hit, p, o)
        BY <1>0, <2>10, NetworkHitsAreHits, Zenon
  <2>12. ASSUME final.policy # 0
         PROVE  \E p \in policies :
                    /\ p.id = final.policy /\ final.requested = p.action
                    /\ final.disposition = PolicyDisposition(p, o)
                    /\ final.effective = NetworkEffective(p, PolicyDisposition(p, o))
    <3>1. hits # {}
          BY <2>2, <2>9, <2>12, NoDecisionFields, Zenon DEF FinalOf
    <3>2. PICK winner : winner = Winner(policies, hits)
          BY Zenon
    <3>3. winner \in hits
          BY <2>10, <2>11, <3>1, <3>2, WinnerIsPreferred, Zenon
    <3>4. PICK p \in policies : NetworkHitOf(winner, p, o)
          BY <2>11, <3>3, Zenon
    <3>5. final.policy = winner.policy /\ final.requested = winner.requested /\ final.effective = winner.effective
          BY <2>2, <2>9, <3>1, <3>2, Zenon DEF FinalOf
    <3>6. p.id = final.policy /\ final.requested = p.action /\ final.effective = NetworkEffective(p, PolicyDisposition(p, o))
          BY <3>4, <3>5, Zenon DEF NetworkHitOf
    <3>7. built.final.policy = p.id
          BY <2>3, <2>9, <3>6, Zenon
    <3>8. \E d \in decisions : named(d)
      <4>1. PICK d \in NetworkDecisions(policies, o) : d.policy = p.id
            BY <2>10, DecisionOfPolicy, Zenon
      <4> QED
          BY <1>0, <3>7, <4>1, Zenon
    <3>9. PICK d \in decisions : named(d) /\ disposition = d.disposition
          BY <2>4, <3>8, Zenon
    <3>10. disposition = PolicyDisposition(p, o)
      <4>1. d \in NetworkDecisions(policies, o) /\ d.policy = p.id
            BY <1>0, <3>7, <3>9, Zenon
      <4>2. d.disposition = PolicyDisposition(p, o)
            BY <2>10, <4>1, DecisionDisposes, Zenon
      <4> QED
          BY <3>9, <4>2, Zenon
    <3> QED
        BY <2>9, <3>6, <3>10, Zenon
  <2>13. NetworkFinal(final, policies, hits, o)
        BY <2>2, <2>8, <2>9, <2>12, Zenon DEF NetworkFinal
  <2> QED
      BY <1>0, <2>7, <2>13, Zenon DEF NetworkReported
<1> QED
    BY <1>1, <1>2, Zenon

\* When a report and the hook's verdict agree.
Agreeing(r, e) ==
    /\ e.action = "block" /\ e.policy # 0
    /\ r.final.policy = e.policy /\ r.final.requested = "block"
    /\ \E d \in r.decisions : d.policy = e.policy /\ d.disposition = (IF e.result = "blocked" THEN "denied" ELSE "allowed")

\* What is true of an enforced decision.
EnforcedTruly(r, e) ==
    r.final.enforced =>
        /\ e.policy = r.final.policy /\ r.final.requested = "block"
        /\ e.result = "blocked" <=> r.final.disposition = "denied"
        /\ e.result = "blocked" <=> r.final.effective = "block"

ReconciledTruly(q, r, generation, policies, e) ==
    /\ q.generation = generation
    /\ Prefers(q, policies)
    /\ EnforcedTruly(q, e)
    /\ Agreeing(r, e) => q.final.enforced

\* Reconciliation marks as enforced exactly what agrees with the hook's verdict.
LEMMA Reconciled ==
    ASSUME NEW generation, NEW policies, Rankable(policies), NEW e, NEW final, NEW r,
           NetworkReported(r, generation, policies, e, final), NEW q, q = reconcileNetworkEnforcement(r, e)
    PROVE  ReconciledTruly(q, r, generation, policies, e)
<1>0. PICK hits, decisions : hits = matchNetworkRules(policies, e) /\ decisions = NetworkDecisions(policies, e)
      BY Zenon
<1>1. /\ r = [generation |-> generation, hits |-> hits, gaps |-> {}, decisions |-> decisions, final |-> final]
      /\ NetworkFinal(final, policies, hits, e)
      BY <1>0, Zenon DEF NetworkReported
<1>2. r.generation = generation /\ r.hits = hits /\ r.decisions = decisions /\ r.final = final
      BY <1>1
<1>3. HitsOf(hits, policies) /\ \A hit \in hits : \E p \in policies : NetworkHitOf(hit, p, e)
      BY <1>0, NetworkHitsAreHits, Zenon
<1>4. Prefers(r, policies)
  <2>1. r.final.policy = FinalOf(policies, hits).policy /\ r.final.decision = FinalOf(policies, hits).decision
        BY <1>1, <1>2, Zenon DEF NetworkFinal
  <2> QED
      BY <1>2, <1>3, <2>1, BuiltPrefers, Zenon
<1>5. CASE ~Agreeing(r, e)
  <2>1. q = r
        BY <1>5, Zenon DEF Agreeing, reconcileNetworkEnforcement
  <2>2. ~r.final.enforced
        BY <1>1, <1>2, Zenon DEF NetworkFinal
  <2> QED
      BY <1>2, <1>4, <1>5, <2>1, <2>2, Zenon DEF EnforcedTruly, ReconciledTruly
<1>6. CASE Agreeing(r, e)
  <2> DEFINE expected == IF e.result = "blocked" THEN "denied" ELSE "allowed"
             agrees(d) == d.policy = e.policy /\ d.disposition = expected
             mark(hit) == IF hit.policy # e.policy \/ hit.requested # "block" THEN hit
                          ELSE [hit EXCEPT !.enforced = TRUE,
                                  !.effective = IF e.result = "blocked" THEN "block" ELSE @]
  <2>1. PICK marked, judged :
            marked = {mark(hit) : hit \in hits} /\ judged = {[d EXCEPT !.enforced = agrees(d)] : d \in decisions}
        BY Zenon
  <2>2. q = [r EXCEPT !.decisions = judged, !.hits = marked, !.final.enforced = TRUE,
                      !.final.effective = IF e.result = "blocked" THEN "block" ELSE @]
        BY <1>2, <1>6, <2>1, Zenon DEF Agreeing, reconcileNetworkEnforcement
  <2>3. PICK effective : effective = IF e.result = "blocked" THEN "block" ELSE final.effective
        BY Zenon
  <2>4. PICK last : last = [final EXCEPT !.enforced = TRUE, !.effective = effective]
        BY Zenon
  <2>5. q.generation = generation /\ q.hits = marked /\ q.final = last
        BY <1>1, <2>2, <2>3, <2>4
  <2>6. /\ last.policy = final.policy /\ last.decision = final.decision /\ last.requested = final.requested
        /\ last.disposition = final.disposition /\ last.effective = effective /\ last.enforced
        BY <1>1, <2>4, Zenon DEF NetworkFinal, FinalFields
  <2>7. \A hit \in hits : mark(hit).policy = hit.policy /\ mark(hit).requested = hit.requested
        BY <1>3, Zenon DEF NetworkHitOf
  <2>8. Prefers(q, policies)
    <3> HIDE DEF mark
    <3>1. \A hit \in marked : \E one \in hits : hit.policy = one.policy /\ hit.requested = one.requested
          BY <2>1, <2>7, Zenon
    <3>2. q.final.policy = r.final.policy /\ q.final.decision = r.final.decision
          BY <1>2, <2>5, <2>6, Zenon
    <3>3. \A hit \in q.hits : \E p \in policies : p.id = hit.policy /\ p.action = hit.requested
      <4>1. \A hit \in hits : \E p \in policies : p.id = hit.policy /\ p.action = hit.requested
            BY <1>2, <1>4, Zenon DEF Prefers
      <4>2. ASSUME NEW hit \in marked
            PROVE  \E p \in policies : p.id = hit.policy /\ p.action = hit.requested
        <5>1. PICK one \in hits : hit.policy = one.policy /\ hit.requested = one.requested
              BY <3>1, Zenon
        <5>2. PICK p \in policies : p.id = one.policy /\ p.action = one.requested
              BY <4>1, Zenon
        <5> QED
            BY <5>1, <5>2, Zenon
      <4> QED
          BY <2>5, <4>2, Zenon
    <3>4. ASSUME q.final.policy # 0
          PROVE  \E p \in policies :
                     /\ p.id = q.final.policy /\ p.decision = q.final.decision
                     /\ \A hit \in q.hits, other \in policies :
                            hit.policy = other.id => ~HigherPrecedence(other, p)
      <4>1. PICK p \in policies :
                /\ p.id = q.final.policy /\ p.decision = q.final.decision
                /\ \A hit \in hits, other \in policies : hit.policy = other.id => ~HigherPrecedence(other, p)
            BY <1>2, <1>4, <3>2, <3>4, Zenon DEF Prefers
      <4>2. ASSUME NEW hit \in q.hits, NEW other \in policies, hit.policy = other.id
            PROVE  ~HigherPrecedence(other, p)
        <5>1. hit \in marked
              BY <2>5, Zenon
        <5>2. PICK one \in hits : hit.policy = one.policy
              BY <3>1, <5>1, Zenon
        <5>3. one.policy = other.id
              BY <4>2, <5>2, Zenon
        <5> QED
            BY <4>1, <5>3, Zenon
      <4> QED
          BY <4>1, <4>2, Zenon
    <3> QED
        BY <3>3, <3>4, Zenon DEF Prefers
  <2>9. PICK p \in policies :
            /\ p.id = final.policy /\ final.requested = p.action
            /\ final.disposition = PolicyDisposition(p, e)
            /\ final.effective = NetworkEffective(p, PolicyDisposition(p, e))
        BY <1>1, <1>2, <1>6, Zenon DEF Agreeing, NetworkFinal
  <2>10. e.policy = final.policy /\ final.requested = "block"
        BY <1>2, <1>6, Zenon DEF Agreeing
  <2>11. final.disposition = expected
    <3>1. PICK d \in decisions : d.policy = p.id /\ d.disposition = expected
          BY <1>2, <1>6, <2>9, <2>10, Zenon DEF Agreeing
    <3>2. d.disposition = PolicyDisposition(p, e)
          BY <1>0, <3>1, DecisionDisposes, Zenon
    <3> QED
        BY <2>9, <3>1, <3>2, Zenon
  <2>12. e.result = "blocked" <=> final.disposition = "denied"
        BY <2>11
  <2>13. e.result = "blocked" <=> effective = "block"
    <3>1. CASE e.result = "blocked"
          BY <2>3, <3>1, Zenon
    <3>2. CASE e.result # "blocked"
      <4>1. PolicyDisposition(p, e) = "allowed"
            BY <2>9, <2>11, <3>2, Zenon
      <4>2. effective = "audit"
            BY <2>3, <2>9, <3>2, <4>1, Zenon DEF NetworkEffective
      <4> QED
          BY <3>2, <4>2
    <3> QED
        BY <3>1, <3>2, Zenon
  <2>14. EnforcedTruly(q, e)
        BY <2>5, <2>6, <2>10, <2>12, <2>13, Zenon DEF EnforcedTruly
  <2> QED
      BY <2>5, <2>6, <2>8, <2>14, Zenon DEF ReconciledTruly
<1> QED
    BY <1>5, <1>6, Zenon
-----------------------------------------------------------------------------
(* The network condition. *)

\* A condition that can be enforced: valid, representable, deny by default
\* (CompileNetworkEnforcement).
Enforceable(c) ==
    c \in NetworkCondition /\ ValidNetwork(c) /\ Representable(c) /\ c.default = "deny"
-----------------------------------------------------------------------------
\* A tuple is in the map exactly when its address and port are compiled and its
\* flags are those of the condition.
LEMMA TupleInMap ==
    ASSUME NEW c, NEW f, NEW h, NEW p, NEW g, ~(c.cidrs = {} /\ c.ports = {})
    PROVE  AllowTuple(f, h, p, g) \in crossNetworkAllows(c) <=>
               /\ \E a \in enforcementAddresses(c) : a.family = f /\ a.host = h
               /\ p \in enforcementPorts(c)
               /\ g = MatchFlags(c)
BY DEF AllowTuple, crossNetworkAllows

\* The compiled addresses: those of the CIDRs, or one blank of each family.
LEMMA Addresses ==
    ASSUME NEW c, Enforceable(c), NEW f \in Families, NEW h \in Hosts
    PROVE  (\E a \in enforcementAddresses(c) : a.family = f /\ a.host = h) <=>
               IF c.cidrs = {} THEN f \in c.families /\ h = ZeroHost
               ELSE \E cidr \in c.cidrs : cidr.family = f /\ h \in cidr.hosts
<1> DEFINE b == [family |-> f, host |-> h]
<1>1. b.family = f /\ b.host = h /\ b \in [family : Families, host : Hosts]
      BY Zenon
<1> HIDE DEF b
<1>2. CASE c.cidrs = {}
  <2>1. enforcementAddresses(c) = {[family |-> k, host |-> ZeroHost] : k \in c.families}
        BY <1>2, Zenon DEF enforcementAddresses
  <2>2. \A a : a \in enforcementAddresses(c) <=> \E k \in c.families : a = [family |-> k, host |-> ZeroHost]
        BY <2>1, Zenon
  <2>3. \A k : [family |-> k, host |-> ZeroHost].family = k /\ [family |-> k, host |-> ZeroHost].host = ZeroHost
        BY Zenon
  <2>4. ASSUME f \in c.families, h = ZeroHost
        PROVE  b \in enforcementAddresses(c)
        BY <2>2, <2>4, Zenon DEF b
  <2> QED
        BY <1>1, <1>2, <2>2, <2>3, <2>4
<1>3. CASE c.cidrs # {}
  <2>1. enforcementAddresses(c) = {a \in [family : Families, host : Hosts] :
                                     \E cidr \in c.cidrs : cidr.family = a.family /\ a.host \in cidr.hosts}
        BY <1>3, Zenon DEF enforcementAddresses
  <2>2. \A a \in enforcementAddresses(c) : \E cidr \in c.cidrs : cidr.family = a.family /\ a.host \in cidr.hosts
        BY <2>1, Zenon
  <2>3. ASSUME NEW cidr \in c.cidrs, cidr.family = f, h \in cidr.hosts
        PROVE  b \in enforcementAddresses(c)
        BY <1>1, <2>1, <2>3, SMTT(30)
  <2> QED
        BY <1>1, <1>3, <2>2, <2>3, Zenon
<1> QED
      BY <1>2, <1>3, Zenon

\* A port is an integer.
LEMMA PortsAreIntegers == \A q \in Ports : q \in Int
<1>1. \A a, b \in Int : \A q \in a .. b : q \in Int
      OBVIOUS
<1>2. 1 \in Int /\ MaxPort \in Int
      BY DEF MaxPort
<1> QED
      BY <1>1, <1>2, Zenon DEF Ports

\* The compiled ports are the single ports of the ranges.
LEMMA CompiledPorts ==
    ASSUME NEW c, Enforceable(c), c.ports # {}, NEW p \in Ports
    PROVE  p \in enforcementPorts(c) <=> matchPort(c, p)
<1>0. c.ports \in SUBSET PortRange
      BY Zenon DEF Enforceable, NetworkCondition
<1>1. \A range \in c.ports : range \in PortRange /\ range.from = range.to
      BY <1>0, Zenon DEF Enforceable, Representable
<1>2. \A range \in c.ports : range.from \in Int /\ range.to \in Int
  <2>1. ASSUME NEW range \in PortRange
        PROVE  range.from \in Ports /\ range.to \in Ports
        BY Zenon DEF PortRange
  <2>2. \A q \in Ports : q \in Int
        BY PortsAreIntegers, Zenon
  <2> QED
        BY <1>1, <2>1, <2>2, Zenon
<1>3. p \in Int
      BY PortsAreIntegers, Zenon
<1>4. \A range \in c.ports : range.from <= p /\ p <= range.to <=> range.from = p
      BY <1>1, <1>2, <1>3
<1> QED
      BY <1>4, Zenon DEF enforcementPorts, matchPort

\* The connect hook admits a native destination exactly when the engine's
\* evaluation of the condition it was compiled from allows it: the lookups of
\* agentshield_network_tuple_allowed in the tuples of crossNetworkAllows decide
\* like evaluateNetworkPolicy.
THEOREM HookAgreesWithEngine ==
    ASSUME NEW c, Enforceable(c), NEW f \in Families, NEW h \in Hosts, NEW port \in Ports
    PROVE  HookDecidesLikeEngine(c, [family |-> f, host |-> h], port)
<1> DEFINE a == [family |-> f, host |-> h]
<1> DEFINE allows == crossNetworkAllows(c)
<1> SUFFICES HookDecidesLikeEngine(c, a, port)
      BY Zenon
<1>1. a.family = f /\ a.host = h /\ f # "mapped"
      BY Zenon DEF Families
<1>2. KernelKey(a) = a /\ Unmap(a) = a
      BY <1>1, Zenon DEF KernelKey, Unmap
<1>3. network_tuple_allowed(allows, a, port) <=>
          \/ AllowTuple(f, h, port, {}) \in allows
          \/ AllowTuple(f, h, 0, {"any_port"}) \in allows
          \/ AllowTuple(f, ZeroHost, port, {"any_address"}) \in allows
      BY <1>1, <1>2, Zenon DEF network_tuple_allowed
<1>4. Disposition(c, a, port, "tcp") = "allowed" <=>
          /\ f \in c.families /\ matchCIDR(c, a) /\ matchPort(c, port)
          /\ c.cidrs # {} \/ c.ports # {}
      BY <1>1, <1>2, Zenon DEF Disposition, Selected, Enforceable
<1>5. \A cidr \in c.cidrs : cidr.family \in c.families
      BY SMTT(30) DEF Enforceable, ValidNetwork
<1>6. 0 \notin Ports /\ ZeroHost \in Hosts
  <2>1. MaxPort \in Int /\ \A n \in Int : 0 \notin 1 .. n
        BY DEF MaxPort
  <2> QED
      BY <2>1, HostAssumption, Zenon DEF Ports
<1> HIDE DEF a, allows
<1>7. CASE c.cidrs = {} /\ c.ports = {}
      BY <1>3, <1>4, <1>7 DEF crossNetworkAllows, allows, HookDecidesLikeEngine, a
<1>8. ASSUME ~(c.cidrs = {} /\ c.ports = {}), NEW k \in Hosts, NEW p, NEW g
      PROVE  AllowTuple(f, k, p, g) \in allows <=>
                 /\ IF c.cidrs = {} THEN f \in c.families /\ k = ZeroHost
                    ELSE \E cidr \in c.cidrs : cidr.family = f /\ k \in cidr.hosts
                 /\ p \in enforcementPorts(c)
                 /\ g = MatchFlags(c)
  <2>1. AllowTuple(f, k, p, g) \in allows <=>
            /\ \E b \in enforcementAddresses(c) : b.family = f /\ b.host = k
            /\ p \in enforcementPorts(c)
            /\ g = MatchFlags(c)
        BY <1>8, TupleInMap, Zenon DEF allows
  <2> QED
        BY <2>1, Addresses
<1>9. CASE c.cidrs = {} /\ c.ports # {}
  <2>1. MatchFlags(c) = {"any_address"}
        BY <1>9, Zenon DEF MatchFlags
  <2>2. /\ ~(AllowTuple(f, h, port, {}) \in allows)
        /\ ~(AllowTuple(f, h, 0, {"any_port"}) \in allows)
        BY <1>8, <1>9, <2>1, Zenon
  <2>3. AllowTuple(f, ZeroHost, port, {"any_address"}) \in allows <=>
            f \in c.families /\ port \in enforcementPorts(c)
        BY <1>6, <1>8, <1>9, <2>1, Zenon
  <2> QED
        BY <1>3, <1>4, <1>9, <2>2, <2>3, CompiledPorts, Zenon DEF matchCIDR, HookDecidesLikeEngine, allows
<1>10. CASE c.cidrs # {} /\ c.ports = {}
  <2>1. MatchFlags(c) = {"any_port"} /\ enforcementPorts(c) = {0}
        BY <1>10, Zenon DEF MatchFlags, enforcementPorts
  <2>2. /\ ~(AllowTuple(f, h, port, {}) \in allows)
        /\ ~(AllowTuple(f, ZeroHost, port, {"any_address"}) \in allows)
        BY <1>6, <1>8, <1>10, <2>1, Zenon
  <2>3. AllowTuple(f, h, 0, {"any_port"}) \in allows <=>
            \E cidr \in c.cidrs : cidr.family = f /\ h \in cidr.hosts
        BY <1>8, <1>10, <2>1, Zenon
  <2> QED
        BY <1>1, <1>3, <1>4, <1>5, <1>10, <2>2, <2>3, Zenon DEF matchCIDR, matchPort, HookDecidesLikeEngine, allows
<1>11. CASE c.cidrs # {} /\ c.ports # {}
  <2>1. MatchFlags(c) = {}
        BY <1>11, Zenon DEF MatchFlags
  <2>2. /\ ~(AllowTuple(f, h, 0, {"any_port"}) \in allows)
        /\ ~(AllowTuple(f, ZeroHost, port, {"any_address"}) \in allows)
        BY <1>6, <1>8, <1>11, <2>1
  <2>3. AllowTuple(f, h, port, {}) \in allows <=>
            /\ \E cidr \in c.cidrs : cidr.family = f /\ h \in cidr.hosts
            /\ port \in enforcementPorts(c)
        BY <1>8, <1>11, <2>1, Zenon
  <2> QED
        BY <1>1, <1>3, <1>4, <1>5, <1>11, <2>2, <2>3, CompiledPorts, Zenon DEF matchCIDR, HookDecidesLikeEngine, allows
<1> QED
      BY <1>7, <1>9, <1>10, <1>11, Zenon
-----------------------------------------------------------------------------
(* The invariant. *)

\* The event is what a hook captured: of a watched context, under the profile.
ConnectEvent(c, d, port) ==
    [type |-> "connect", context |-> c, destination |-> d, port |-> port,
     action |-> IF profile # NoProfile THEN "block" ELSE "", policy |-> profile.policy,
     result |-> IF ~(profile # NoProfile) THEN ""
                ELSE IF profile # NoProfile /\ ~network_tuple_allowed(profile.allows, d, port) THEN "blocked" ELSE "allowed"]
OpenEvent(c, open, n) ==
    [type |-> "open", context |-> c, open |-> open,
     path |-> SubSeq(open.path, 1, n), access |-> open.access,
     openPath |-> open.openPath, truncated |-> n < Len(open.path)]
ExecEvent(c, exec, n, k, state) ==
    [type |-> "exec", context |-> c, exec |-> exec,
     executable |-> SubSeq(exec.executable, 1, n), executableTruncated |-> n < Len(exec.executable),
     arguments |-> SubSeq(exec.arguments, 1, k), argumentsState |-> state]

IsConnect ==
    \E c \in Contexts, d \in Destinations, port \in DestinationPorts :
        Watched(c) /\ captured = ConnectEvent(c, d, port)
IsOpen ==
    \E c \in Contexts, open \in Opens : \E n \in 0 .. Len(open.path) : captured = OpenEvent(c, open, n)
IsExec ==
    \E c \in Contexts, exec \in Execs :
        \E n \in 0 .. Len(exec.executable), k \in 0 .. Len(exec.arguments), state \in {"complete", "truncated"} :
            /\ state = "complete" => k = Len(exec.arguments)
            /\ captured = ExecEvent(c, exec, n, k, state)

CapturedInv == captured = NoEvent \/ IsConnect \/ IsOpen \/ IsExec

\* Generations are published one after the other and never changed.
PublishedInv ==
    /\ published \in Seq(Prepared)
    /\ snapshot.generation = Len(published)
    /\ Len(published) # 0 => snapshot.bundle = published[Len(published)]

\* The profile is that of the first generation, in the context of the startup.
ProfileInv ==
    IF mode = "" THEN published = <<>> /\ profile = NoProfile /\ captured = NoEvent
    ELSE /\ Len(published) # 0
         /\ \E c \in Contexts :
               /\ watched = StartContext(mode, c).cgroup
               /\ profile = CompileNetworkEnforcement(published[1], StartContext(mode, c))
               /\ Blocking(published[1], StartContext(mode, c)) => Compilable(published[1], StartContext(mode, c))

\* An evaluation holds a published bundle, and its report is of that bundle.
EvaluationInv ==
    /\ held.generation \in 0 .. Len(published)
    /\ held.generation # 0 => held.bundle = published[held.generation] /\ captured # NoEvent
    /\ report.generation # 0 => held.generation # 0 /\ report = Evaluate(held, captured)

EngineInv == PublishedInv /\ ProfileInv /\ CapturedInv /\ EvaluationInv

\* A sequence of one element.
LEMMA ShortSequences ==
    ASSUME NEW S, NEW x \in S
    PROVE  <<x>> \in Seq(S) /\ Len(<<x>>) = 1 /\ <<x>>[1] = x
    OBVIOUS

Prolongs(longer, seq, x, n, S) ==
    /\ longer \in Seq(S) /\ Len(longer) = n + 1 /\ n \in Nat /\ longer[n + 1] = x
    /\ \A g \in 1 .. n : longer[g] = seq[g]

\* A sequence with one more element.
LEMMA LongerSequence ==
    ASSUME NEW S, NEW seq \in Seq(S), NEW x \in S
    PROVE  Prolongs(Append(seq, x), seq, x, Len(seq), S)
    BY DEF Prolongs

\* Two small facts about numbers.
LEMMA SmallNumbers == 1 # 0 /\ 0 \in 0 .. 1
    OBVIOUS

\* The empty sequence.
LEMMA NoSequence == \A S : <<>> \in Seq(S) /\ Len(<<>>) = 0
    OBVIOUS

\* An empty history is all there is to evaluate against.
LEMMA NothingHeld ==
    ASSUME EvaluationInv, Len(published) = 0
    PROVE  held.generation = 0 /\ report.generation = 0
<1>1. PICK g : g = held.generation
      BY Zenon
<1>2. g \in 0 .. 0
      BY <1>1, Zenon DEF EvaluationInv
<1>3. g = 0
      BY <1>2
<1> QED
    BY <1>1, <1>3, Zenon DEF EvaluationInv

\* The invariant holds at the start.
LEMMA EngineInitInv == EngineInit => EngineInv
<1> SUFFICES ASSUME EngineInit PROVE EngineInv
    OBVIOUS
<1>1. /\ mode = "" /\ published = <<>> /\ profile = NoProfile /\ captured = NoEvent
      /\ snapshot.generation = 0 /\ held.generation = 0 /\ report.generation = 0
      BY DEF EngineInit, NoReport, EmptyReport
<1>2. PublishedInv
      BY <1>1, NoSequence, Zenon DEF PublishedInv
<1>3. ProfileInv
      BY <1>1, Zenon DEF ProfileInv
<1>4. EvaluationInv
  <2>1. 0 \in 0 .. 0
        OBVIOUS
  <2> QED
      BY <1>1, <2>1, NoSequence, Zenon DEF EvaluationInv
<1> QED
    BY <1>1, <1>2, <1>3, <1>4, Zenon DEF EngineInv, CapturedInv

\* No event has no type.
LEMMA NoEventType == NoEvent.type = "" BY Zenon DEF NoEvent

\* A captured event stays what it was while mode, profile and cgroup stay.
LEMMA CaptureStays ==
    ASSUME CapturedInv, UNCHANGED <<mode, profile, watched, captured>>
    PROVE  CapturedInv'
<1>1. \A c : Watched(c)' <=> Watched(c)
      BY Zenon DEF Watched
<1>2. \A c, d, port : ConnectEvent(c, d, port)' = ConnectEvent(c, d, port)
      BY Zenon DEF ConnectEvent
<1>3. IsConnect => IsConnect'
      BY <1>1, <1>2, Zenon DEF IsConnect
<1>4. IsOpen => IsOpen'
      BY Zenon DEF IsOpen
<1>5. IsExec => IsExec'
      BY Zenon DEF IsExec
<1> QED
    BY <1>3, <1>4, <1>5, Zenon DEF CapturedInv

\* So does the profile, while the first generation stays.
LEMMA ProfileStays ==
    ASSUME ProfileInv, UNCHANGED <<mode, published, profile, watched, captured>>
    PROVE  ProfileInv'
    BY Zenon DEF ProfileInv, StartContext

\* A startup publishes the first generation and compiles its profile.
LEMMA StartKeepsInv ==
    ASSUME EngineInv, NEW m \in Modes, NEW bundle \in Bundles, NEW c \in Contexts, m # "", Start(m, bundle, c)
    PROVE  EngineInv'
<1>1. PICK prepared, known : prepared = Normalize(bundle) /\ known = StartContext(m, c)
      BY Zenon
<1>2. /\ mode = "" /\ prepareEngineBundle(bundle) /\ mode' = m
      /\ snapshot' = [generation |-> 1, bundle |-> prepared] /\ published' = <<prepared>>
      /\ profile' = CompileNetworkEnforcement(prepared, known) /\ watched' = known.cgroup
      /\ Blocking(prepared, known) => Compilable(prepared, known)
      /\ UNCHANGED <<captured, held, report>>
      BY <1>1, Zenon DEF Start
<1>3. prepared \in Prepared
      BY <1>1, <1>2, Zenon DEF Prepared
<1>4. published' \in Seq(Prepared) /\ Len(published') = 1 /\ published'[1] = prepared
      BY <1>2, <1>3, ShortSequences, Zenon
<1>5. snapshot'.generation = 1 /\ snapshot'.bundle = prepared
      BY <1>2
<1>6. published = <<>> /\ captured = NoEvent
      BY <1>2, Zenon DEF EngineInv, ProfileInv
<1>7. PublishedInv'
      BY <1>4, <1>5 DEF PublishedInv
<1>8. ProfileInv'
  <2>1. Len(published') # 0 /\ mode' # ""
        BY <1>2, <1>4, SmallNumbers, Zenon
  <2> QED
      BY <1>1, <1>2, <1>4, <2>1, Zenon DEF ProfileInv
<1>9. CapturedInv'
      BY <1>2, <1>6, Zenon DEF CapturedInv
<1>10. EvaluationInv'
  <2>1. held.generation = 0 /\ report.generation = 0
        BY <1>6, NoSequence, NothingHeld, Zenon DEF EngineInv
  <2>2. held'.generation = 0 /\ report'.generation = 0
        BY <1>2, <2>1, Zenon
  <2> QED
      BY <1>4, <2>2, SmallNumbers, Zenon DEF EvaluationInv
<1> QED
    BY <1>7, <1>8, <1>9, <1>10, Zenon DEF EngineInv

\* Evaluation depends on the mode only through the event's context.
LEMMA EvaluationStays ==
    ASSUME EvaluationInv, UNCHANGED <<mode, captured, held, report>>,
           Len(published) \in Nat, Len(published') \in Nat, Len(published) <= Len(published'),
           \A g \in 1 .. Len(published) : published'[g] = published[g]
    PROVE  EvaluationInv'
<1>1. Evaluate(held, captured)' = Evaluate(held, captured)
      BY Zenon DEF Evaluate, EventContext
<1>2. PICK g : g = held.generation
      BY Zenon
<1>3. g \in 0 .. Len(published)
      BY <1>2, Zenon DEF EvaluationInv
<1>4. g \in 0 .. Len(published') /\ (g # 0 => g \in 1 .. Len(published))
      BY <1>3
<1>5. g # 0 => held.bundle = published'[g] /\ captured # NoEvent
      BY <1>2, <1>4, Zenon DEF EvaluationInv
<1> QED
    BY <1>1, <1>2, <1>4, <1>5, Zenon DEF EvaluationInv

\* An activation adds a generation and leaves the profile and the evaluation alone.
LEMMA ActivateKeepsInv ==
    ASSUME EngineInv, NEW bundle \in Bundles, ActivateBundle(bundle)
    PROVE  EngineInv'
<1>1. PICK prepared, n : prepared = Normalize(bundle) /\ n = Len(published)
      BY Zenon
<1>2. /\ mode # "" /\ prepareEngineBundle(bundle)
      /\ snapshot' = [generation |-> snapshot.generation + 1, bundle |-> prepared]
      /\ published' = Append(published, prepared)
      /\ UNCHANGED <<mode, profile, watched, captured, held, report>>
      BY <1>1, Zenon DEF ActivateBundle
<1>3. prepared \in Prepared
      BY <1>1, <1>2, Zenon DEF Prepared
<1>4. published \in Seq(Prepared) /\ snapshot.generation = n
      BY <1>1, Zenon DEF EngineInv, PublishedInv
<1>5. /\ published' \in Seq(Prepared) /\ Len(published') = n + 1 /\ n \in Nat /\ published'[n + 1] = prepared
      /\ \A g \in 1 .. n : published'[g] = published[g]
  <2>1. Prolongs(Append(published, prepared), published, prepared, Len(published), Prepared)
        BY <1>3, <1>4, LongerSequence, Zenon
  <2>2. Prolongs(published', published, prepared, n, Prepared)
        BY <1>1, <1>2, <2>1, Zenon
  <2> QED
      BY <2>2, Zenon DEF Prolongs
<1>6. snapshot'.generation = n + 1 /\ snapshot'.bundle = prepared
      BY <1>2, <1>4
<1>7. PublishedInv'
      BY <1>5, <1>6, Zenon DEF PublishedInv
<1>8. ProfileInv'
  <2>1. n # 0
        BY <1>1, <1>2, Zenon DEF EngineInv, ProfileInv
  <2>2. n + 1 # 0 /\ 1 \in 1 .. n
        BY <1>5, <2>1
  <2>3. published'[1] = published[1]
        BY <1>5, <2>2, Zenon
  <2> QED
      BY <1>2, <1>5, <2>2, <2>3, Zenon DEF EngineInv, ProfileInv, StartContext
<1>9. CapturedInv'
      BY <1>2, CaptureStays, Zenon DEF EngineInv
<1>10. EvaluationInv'
  <2>1. n <= n + 1 /\ n + 1 \in Nat
        BY <1>5
  <2> QED
      BY <1>1, <1>2, <1>5, <2>1, EvaluationStays, Zenon DEF EngineInv
<1> QED
    BY <1>7, <1>8, <1>9, <1>10, Zenon DEF EngineInv

\* Steps of an event leave bundles and profile alone.
LEMMA BundlesStay ==
    ASSUME EngineInv, mode # "", UNCHANGED <<mode, snapshot, published, profile, watched>>
    PROVE  PublishedInv' /\ ProfileInv'
<1>1. PublishedInv'
      BY Zenon DEF EngineInv, PublishedInv
<1>2. ProfileInv'
      BY Zenon DEF EngineInv, ProfileInv, StartContext
<1> QED
    BY <1>1, <1>2, Zenon

\* Nothing is being evaluated while no event is captured.
LEMMA NoEventNothingHeld ==
    ASSUME EngineInv, captured.type = "" PROVE captured = NoEvent /\ held.generation = 0 /\ report.generation = 0
<1>1. captured = NoEvent
  <2>1. ~IsConnect
    <3>1. SUFFICES ASSUME IsConnect PROVE FALSE
          BY Zenon
    <3>2. PICK c, d, port : captured = ConnectEvent(c, d, port)
          BY <3>1, Zenon DEF IsConnect
    <3>3. captured.type = "connect"
          BY <3>2, Zenon DEF ConnectEvent
    <3> QED
        BY <3>3
  <2>2. ~IsOpen
    <3>1. SUFFICES ASSUME IsOpen PROVE FALSE
          BY Zenon
    <3>2. PICK c, open, n : captured = OpenEvent(c, open, n)
          BY <3>1, Zenon DEF IsOpen
    <3>3. captured.type = "open"
          BY <3>2, Zenon DEF OpenEvent
    <3> QED
        BY <3>3
  <2>3. ~IsExec
    <3>1. SUFFICES ASSUME IsExec PROVE FALSE
          BY Zenon
    <3>2. PICK c, exec, n, k, state : captured = ExecEvent(c, exec, n, k, state)
          BY <3>1, Zenon DEF IsExec
    <3>3. captured.type = "exec"
          BY <3>2, Zenon DEF ExecEvent
    <3> QED
        BY <3>3
  <2> QED
      BY <2>1, <2>2, <2>3, Zenon DEF EngineInv, CapturedInv
<1> QED
    BY <1>1, Zenon DEF EngineInv, EvaluationInv

\* A capture keeps the invariant,
LEMMA HooksKeepInv ==
    ASSUME EngineInv, mode # "", captured.type = "", CapturedInv',
           UNCHANGED <<mode, snapshot, published, profile, watched, held, report>>
    PROVE  EngineInv'
<1>1. held'.generation = 0 /\ report'.generation = 0
      BY NoEventNothingHeld, Zenon
<1>2. held'.generation \in 0 .. Len(published')
      BY Zenon DEF EngineInv, EvaluationInv
<1>3. EvaluationInv'
      BY <1>1, <1>2, Zenon DEF EvaluationInv
<1> QED
    BY <1>3, BundlesStay, Zenon DEF EngineInv

\* for a connection,
LEMMA ConnectKeepsInv ==
    ASSUME EngineInv, NEW c \in Contexts, NEW d \in Destinations, NEW port \in DestinationPorts, Connect(c, d, port)
    PROVE  EngineInv'
<1>1. /\ mode # "" /\ captured.type = "" /\ Watched(c) /\ captured' = ConnectEvent(c, d, port)
      /\ UNCHANGED <<mode, snapshot, published, profile, watched, held, report>>
      BY Zenon DEF Connect, ConnectEvent
<1>2. Watched(c)' /\ ConnectEvent(c, d, port)' = ConnectEvent(c, d, port)
      BY <1>1, Zenon DEF Watched, ConnectEvent
<1>3. CapturedInv'
      BY <1>1, <1>2, Zenon DEF CapturedInv, IsConnect
<1> QED
    BY <1>1, <1>3, HooksKeepInv, Zenon

\* an open
LEMMA OpenKeepsInv ==
    ASSUME EngineInv, NEW c \in Contexts, NEW open \in Opens, FileOpen(c, open)
    PROVE  EngineInv'
<1>1. /\ mode # "" /\ captured.type = "" /\ \E n \in 0 .. Len(open.path) : captured' = OpenEvent(c, open, n)
      /\ UNCHANGED <<mode, snapshot, published, profile, watched, held, report>>
      BY Zenon DEF FileOpen, OpenEvent
<1>2. CapturedInv'
      BY <1>1, Zenon DEF CapturedInv, IsOpen
<1> QED
    BY <1>1, <1>2, HooksKeepInv, Zenon

\* and an exec.
LEMMA ExecKeepsInv ==
    ASSUME EngineInv, NEW c \in Contexts, NEW exec \in Execs, ExecAttempt(c, exec)
    PROVE  EngineInv'
<1>1. /\ mode # "" /\ captured.type = ""
      /\ \E n \in 0 .. Len(exec.executable), k \in 0 .. Len(exec.arguments), state \in {"complete", "truncated"} :
            (state = "complete" => k = Len(exec.arguments)) /\ captured' = ExecEvent(c, exec, n, k, state)
      /\ UNCHANGED <<mode, snapshot, published, profile, watched, held, report>>
      BY Zenon DEF ExecAttempt, ExecEvent
<1>2. CapturedInv'
      BY <1>1, Zenon DEF CapturedInv, IsExec
<1> QED
    BY <1>1, <1>2, HooksKeepInv, Zenon

\* An evaluation holds what it loaded and reports on it.
LEMMA EvaluationKeepsInv ==
    ASSUME EngineInv, LoadSnapshot \/ EvaluateAuditDecision \/ NextEvent
    PROVE  EngineInv'
<1>0. UNCHANGED <<mode, snapshot, published, profile, watched>>
      BY Zenon DEF LoadSnapshot, EvaluateAuditDecision, NextEvent
<1>1. PublishedInv'
      BY <1>0, Zenon DEF EngineInv, PublishedInv
<1>2. CASE LoadSnapshot
  <2>1. /\ captured.type # "" /\ held.generation = 0 /\ held' = snapshot /\ captured' = captured /\ report' = report
        BY <1>2, Zenon DEF LoadSnapshot
  <2>2. captured # NoEvent
        BY <2>1, NoEventType, Zenon
  <2>3. report.generation = 0
        BY <2>1, Zenon DEF EngineInv, EvaluationInv
  <2>4. ProfileInv' /\ CapturedInv'
        BY <1>0, <2>1, CaptureStays, ProfileStays, Zenon DEF EngineInv
  <2>5. PICK n : n = Len(published)
        BY Zenon
  <2>6. n \in 0 .. n
    <3>1. published \in Seq(Prepared)
          BY Zenon DEF EngineInv, PublishedInv
    <3> QED
        BY <2>5, <3>1
  <2>7. held'.generation = n /\ (n # 0 => held'.bundle = published[n])
        BY <2>1, <2>5, Zenon DEF EngineInv, PublishedInv
  <2>8. EvaluationInv'
        BY <1>0, <2>1, <2>2, <2>3, <2>5, <2>6, <2>7, Zenon DEF EvaluationInv
  <2> QED
      BY <1>1, <2>4, <2>8, Zenon DEF EngineInv
<1>3. CASE EvaluateAuditDecision
  <2>1. /\ held.generation # 0 /\ report' = Evaluate(held, captured) /\ captured' = captured /\ held' = held
        BY <1>3, Zenon DEF EvaluateAuditDecision
  <2>2. Evaluate(held, captured)' = Evaluate(held, captured)
        BY <1>0, <2>1, Zenon DEF Evaluate, EventContext
  <2>3. ProfileInv' /\ CapturedInv'
        BY <1>0, <2>1, CaptureStays, ProfileStays, Zenon DEF EngineInv
  <2>4. EvaluationInv'
        BY <1>0, <2>1, <2>2, Zenon DEF EngineInv, EvaluationInv
  <2> QED
      BY <1>1, <2>3, <2>4, Zenon DEF EngineInv
<1>4. CASE NextEvent
  <2>1. captured' = NoEvent /\ held'.generation = 0 /\ report' = NoReport
        BY <1>4 DEF NextEvent
  <2>2. report'.generation = 0
        BY <2>1 DEF NoReport, EmptyReport
  <2>3. ProfileInv' /\ CapturedInv'
        BY <1>0, <2>1, Zenon DEF EngineInv, ProfileInv, StartContext, CapturedInv
  <2>4. 0 \in 0 .. Len(published)
    <3>1. published \in Seq(Prepared)
          BY Zenon DEF EngineInv, PublishedInv
    <3> QED
        BY <3>1
  <2>5. EvaluationInv'
        BY <1>0, <2>1, <2>2, <2>4, Zenon DEF EvaluationInv
  <2> QED
      BY <1>1, <2>3, <2>5, Zenon DEF EngineInv
<1> QED
    BY <1>2, <1>3, <1>4, Zenon

\* Every step keeps the invariant.
LEMMA EngineStepInv == EngineInv /\ [EngineNext]_engineVars => EngineInv'
<1> SUFFICES ASSUME EngineInv, [EngineNext]_engineVars PROVE EngineInv'
    OBVIOUS
<1>1. ASSUME NEW m \in Modes, NEW b \in Bundles, NEW c \in Contexts, Start(m, b, c) PROVE EngineInv'
  <2>1. m # ""
        BY EngineAssumption
  <2> QED
      BY <1>1, <2>1, StartKeepsInv, Zenon
<1>2. CASE UNCHANGED engineVars
  <2>1. UNCHANGED <<mode, snapshot, published, profile, watched, captured, held, report>>
        BY <1>2, Zenon DEF engineVars
  <2>2. Evaluate(held, captured)' = Evaluate(held, captured)
        BY <2>1, Zenon DEF Evaluate, EventContext
  <2>3. ProfileInv' /\ CapturedInv'
        BY <2>1, CaptureStays, ProfileStays, Zenon DEF EngineInv
  <2>4. PublishedInv'
        BY <2>1, Zenon DEF EngineInv, PublishedInv
  <2>5. EvaluationInv'
        BY <2>1, <2>2, Zenon DEF EngineInv, EvaluationInv
  <2> QED
      BY <2>3, <2>4, <2>5, Zenon DEF EngineInv
<1> QED
    BY <1>1, <1>2, ActivateKeepsInv, ConnectKeepsInv, OpenKeepsInv, ExecKeepsInv, EvaluationKeepsInv, Zenon DEF EngineNext

\* The invariant holds in every state.
LEMMA EngineInvariance == EngineSpec => []EngineInv
    BY EngineInitInv, EngineStepInv, PTL DEF EngineSpec
-----------------------------------------------------------------------------
(* What the reports say. *)

\* A report is the evaluation of a captured event under a published bundle.
LEMMA ReportIsEvaluation ==
    ASSUME EngineInv, Reported
    PROVE  /\ held.generation \in 1 .. Len(published) /\ held.bundle = published[held.generation]
           /\ IsSnapshot(held) /\ report = Evaluate(held, captured)
           /\ IsConnect \/ IsOpen \/ IsExec
<1>1. held.generation # 0 /\ report = Evaluate(held, captured)
      BY Zenon DEF EngineInv, EvaluationInv, Reported
<1>2. held.bundle = published[held.generation] /\ captured # NoEvent
      BY <1>1, Zenon DEF EngineInv, EvaluationInv
<1>3. held.generation \in 1 .. Len(published)
  <2>1. PICK g : g = held.generation
        BY Zenon
  <2>2. g # 0 /\ g \in 0 .. Len(published)
        BY <1>1, <2>1, Zenon DEF EngineInv, EvaluationInv
  <2>3. g \in 1 .. Len(published)
        BY <2>2
  <2> QED
      BY <2>1, <2>3, Zenon
<1>4. published[held.generation] \in Prepared
  <2>1. published \in Seq(Prepared)
        BY Zenon DEF EngineInv, PublishedInv
  <2> QED
      BY <1>3, <2>1
<1> QED
    BY <1>1, <1>2, <1>3, <1>4, Zenon DEF IsSnapshot, EngineInv, CapturedInv

\* The type of an event tells which hook captured it.
LEMMA EventTypes ==
    /\ IsConnect => captured.type = "connect"
    /\ IsOpen => captured.type = "open"
    /\ IsExec => captured.type = "exec"
<1>1. ASSUME IsConnect PROVE captured.type = "connect"
  <2>1. PICK c, d, port : captured = ConnectEvent(c, d, port)
        BY <1>1, Zenon DEF IsConnect
  <2> QED
      BY <2>1, Zenon DEF ConnectEvent
<1>2. ASSUME IsOpen PROVE captured.type = "open"
  <2>1. PICK c, open, n : captured = OpenEvent(c, open, n)
        BY <1>2, Zenon DEF IsOpen
  <2> QED
      BY <2>1, Zenon DEF OpenEvent
<1>3. ASSUME IsExec PROVE captured.type = "exec"
  <2>1. PICK c, exec, n, k, state : captured = ExecEvent(c, exec, n, k, state)
        BY <1>3, Zenon DEF IsExec
  <2> QED
      BY <2>1, Zenon DEF ExecEvent
<1> QED
    BY <1>1, <1>2, <1>3, Zenon

\* The policies an evaluation selects.
SelectedNow == selectPolicies(held.bundle, EventContext(captured), Kind(captured))

\* What every report says: its generation, the preferred policy, and enforcement
\* only of a connect event.
LEMMA ReportSays ==
    ASSUME EngineInv, Reported
    PROVE  /\ report.generation = held.generation
           /\ Prefers(report, SelectedNow)
           /\ report.final.enforced => IsConnect /\ EnforcedTruly(report, captured)
<1>0. PICK policies, context : policies = SelectedNow /\ context = EventContext(captured)
      BY Zenon
<1>1. IsSnapshot(held) /\ report = Evaluate(held, captured) /\ (IsConnect \/ IsOpen \/ IsExec)
      BY ReportIsEvaluation, Zenon
<1>2. CASE IsOpen
  <2>1. captured.type = "open"
        BY <1>2, EventTypes, Zenon
  <2>2. report = evaluateFile(held, context, captured) /\ policies = selectPolicies(held.bundle, context, "file")
        BY <1>0, <1>1, <2>1, Zenon DEF Evaluate, Kind, SelectedNow
  <2>3. Says(report, held.generation, policies, FileHitsOf(policies, captured), FileGapsOf(policies, captured))
        BY <1>1, <2>2, FileReport, Zenon
  <2> QED
      BY <1>0, <2>3, Zenon DEF Says
<1>3. CASE IsExec
  <2>1. captured.type = "exec" /\ captured.type # "open"
        BY <1>3, EventTypes
  <2>2. report = EvaluateExec(held, context, captured) /\ policies = selectPolicies(held.bundle, context, "exec")
        BY <1>0, <1>1, <2>1, Zenon DEF Evaluate, Kind, SelectedNow
  <2>3. Says(report, held.generation, policies, ExecHitsOf(policies, captured), ExecGapsOf(policies, captured))
        BY <1>1, <2>2, ExecReport, Zenon
  <2> QED
      BY <1>0, <2>3, Zenon DEF Says
<1>4. CASE IsConnect
  <2>1. captured.type # "open" /\ captured.type # "exec"
        BY <1>4, EventTypes
  <2>2. PICK r : r = EvaluateNetwork(held, context, captured)
        BY Zenon
  <2>3. report = reconcileNetworkEnforcement(r, captured) /\ policies = selectPolicies(held.bundle, context, "network")
        BY <1>0, <1>1, <2>1, <2>2, Zenon DEF Evaluate, Kind, SelectedNow
  <2>4. PICK final : NetworkReported(r, held.generation, policies, captured, final)
        BY <1>1, <2>2, <2>3, NetworkReport, Zenon
  <2>5. Rankable(policies)
        BY <1>1, <2>3, SelectedAreRankable, Zenon DEF IsSnapshot
  <2>6. ReconciledTruly(report, r, held.generation, policies, captured)
        BY <2>3, <2>4, <2>5, Reconciled, Zenon
  <2> QED
      BY <1>0, <1>4, <2>6, Zenon DEF ReconciledTruly
<1> QED
    BY <1>1, <1>2, <1>3, <1>4, Zenon

\* The invariant implies that the final decision is preferred.
LEMMA PreferredState == EngineInv => FinalIsPreferred
<1> SUFFICES ASSUME EngineInv, Reported PROVE FinalIsPreferred
    BY Zenon DEF FinalIsPreferred
<1>1. report.generation = held.generation /\ Prefers(report, SelectedNow)
      BY ReportSays, Zenon
<1>2. held.bundle = published[held.generation]
      BY ReportIsEvaluation, Zenon
<1>3. Applicable = SelectedNow
      BY <1>1, <1>2, Zenon DEF Applicable, SelectedNow, selectPolicies
<1>4. Prefers(report, Applicable)
      BY <1>1, <1>3, Zenon
<1> QED
    BY <1>4, Zenon DEF FinalIsPreferred, Prefers

\* Whatever bundles are activated while events are captured and evaluated, the
\* final decision of a report is that of a policy of the one generation the report
\* names, applicable to the event, to which no policy with a hit is preferred
\* (EvaluateAuditDecision, selectPolicies, buildDecisionReport).
THEOREM FinalsArePreferred == EngineSpec => []FinalIsPreferred
    BY EngineInvariance, PreferredState, PTL

\* The policy compiled for audit's cgroup is the only one that applies in it, so
\* the engine's decision is the hook's.
LEMMA AuditAgrees ==
    ASSUME EngineInv, Reported, mode = "audit", report.generation = 1, IsConnect,
           captured.destination.family # "mapped", captured.result # ""
    PROVE  report.final.enforced
<1>0. PICK bundle, context : bundle = held.bundle /\ context = EventContext(captured)
      BY Zenon
<1>1. /\ IsSnapshot(held) /\ bundle \in Prepared /\ report = Evaluate(held, captured)
      /\ held.generation = 1 /\ bundle = published[1]
      BY <1>0, ReportIsEvaluation, ReportSays, Zenon DEF IsSnapshot
<1>2. PICK c \in Contexts, d \in Destinations, port \in DestinationPorts :
          Watched(c) /\ captured = ConnectEvent(c, d, port)
      BY Zenon DEF IsConnect
<1>3. profile # NoProfile
  <2>1. SUFFICES ASSUME profile = NoProfile PROVE FALSE
        BY Zenon
  <2>2. captured.result = ""
        BY <1>2, <2>1, Zenon DEF ConnectEvent
  <2> QED
      BY <2>2, Zenon
<1>4. /\ captured.type = "connect" /\ captured.context = c /\ captured.destination = d /\ captured.port = port
      /\ captured.action = "block" /\ captured.policy = profile.policy
      /\ captured.result = IF ~network_tuple_allowed(profile.allows, d, port) THEN "blocked" ELSE "allowed"
      BY <1>2, <1>3, Zenon DEF ConnectEvent
<1>5. mode # "" /\ mode # "serve"
      OBVIOUS
<1>6. PICK start \in Contexts :
          /\ watched = StartContext(mode, start).cgroup
          /\ profile = CompileNetworkEnforcement(published[1], StartContext(mode, start))
          /\ Blocking(published[1], StartContext(mode, start)) => Compilable(published[1], StartContext(mode, start))
      BY <1>5, Zenon DEF EngineInv, ProfileInv
<1>7. context = StartContext(mode, start)
  <2>1. StartContext(mode, start) = [NoContext EXCEPT !.cgroup = start.cgroup]
        BY Zenon DEF StartContext
  <2>2. watched = start.cgroup
        BY <1>6, <2>1, Zenon DEF NoContext
  <2>3. c.cgroup = start.cgroup
        BY <1>2, <1>5, <2>2, Zenon DEF Watched
  <2>4. context = [NoContext EXCEPT !.cgroup = c.cgroup]
        BY <1>0, <1>4, <1>5, Zenon DEF EventContext
  <2> QED
      BY <2>1, <2>3, <2>4, Zenon
<1>8. Blocking(bundle, context) /\ Compilable(bundle, context) /\ profile = CompileNetworkEnforcement(bundle, context)
      BY <1>1, <1>3, <1>6, <1>7, Zenon DEF CompileNetworkEnforcement
<1>9. PICK policy \in Range(bundle) : selectPolicies(bundle, context, "network") = {policy} /\ CanEnforce(policy)
      BY <1>8, Zenon DEF Compilable
<1>10. policy.action = "block"
      BY <1>8, <1>9, Zenon DEF Blocking
<1>11. profile = [policy |-> policy.id, allows |-> crossNetworkAllows(policy.conditions)]
  <2>1. (CHOOSE p \in {policy} : p.action = "block") = policy
        BY <1>10, Zenon
  <2> QED
      BY <1>8, <1>9, <2>1, Zenon DEF CompileNetworkEnforcement
<1>12. PICK condition : condition = policy.conditions
      BY Zenon
<1>13. IsPolicy(policy) /\ policy.kind = "network" /\ ValidConditions(policy)
  <2>1. policy \in selectPolicies(bundle, context, "network")
        BY <1>9, Zenon
  <2> QED
      BY <1>1, <2>1, SelectedArePolicies, Zenon
<1>14. Enforceable(condition) /\ policy.id # 0
  <2>1. "network" # "file" /\ "network" # "exec"
        OBVIOUS
  <2>2. condition \in NetworkCondition
        BY <1>12, <1>13, <2>1, Zenon DEF IsPolicy
  <2>3. ValidNetwork(condition)
        BY <1>12, <1>13, <2>1, Zenon DEF ValidConditions
  <2>4. policy.id # 0
        BY <1>13, Zenon DEF IsPolicy
  <2> QED
      BY <1>9, <1>12, <2>2, <2>3, <2>4, Zenon DEF CanEnforce, Enforceable
<1>15. network_tuple_allowed(crossNetworkAllows(condition), d, port) <=> Disposition(condition, d, port, "tcp") = "allowed"
  <2>1. d \in Address /\ port \in Ports
        BY EngineAssumption, Zenon
  <2>2. d.family \in Families /\ d.host \in Hosts /\ d = [family |-> d.family, host |-> d.host]
        BY <1>4, <2>1 DEF Address
  <2>3. PICK f, h : f = d.family /\ h = d.host
        BY Zenon
  <2>4. HookDecidesLikeEngine(condition, [family |-> f, host |-> h], port)
        BY <1>14, <2>1, <2>2, <2>3, HookAgreesWithEngine, Zenon
  <2>5. d = [family |-> f, host |-> h]
        BY <2>2, <2>3, Zenon
  <2> QED
      BY <2>4, <2>5, Zenon DEF HookDecidesLikeEngine
<1>16. PICK disposition : disposition = PolicyDisposition(policy, captured)
      BY Zenon
<1>17. disposition = Disposition(condition, d, port, "tcp")
      BY <1>4, <1>12, <1>16, Zenon DEF PolicyDisposition
<1>18. disposition \in {"allowed", "denied"}
  <2>1. condition.default # "observe"
        BY <1>14 DEF Enforceable
  <2> QED
      BY <1>17, <2>1, Zenon DEF Disposition
<1>19. disposition = IF captured.result = "blocked" THEN "denied" ELSE "allowed"
  <2>1. profile.allows = crossNetworkAllows(condition)
        BY <1>11, <1>12, Zenon
  <2>2. CASE network_tuple_allowed(profile.allows, d, port)
    <3>1. captured.result = "allowed" /\ disposition = "allowed"
          BY <1>4, <1>15, <1>17, <2>1, <2>2, Zenon
    <3> QED
        BY <3>1
  <2>3. CASE ~network_tuple_allowed(profile.allows, d, port)
    <3>1. captured.result = "blocked" /\ disposition # "allowed"
          BY <1>4, <1>15, <1>17, <2>1, <2>3, Zenon
    <3> QED
        BY <1>18, <3>1
  <2> QED
      BY <2>2, <2>3, Zenon
<1>20. PICK r : r = EvaluateNetwork(held, context, captured)
      BY Zenon
<1>21. report = reconcileNetworkEnforcement(r, captured)
  <2>1. captured.type # "open" /\ captured.type # "exec"
        BY <1>4
  <2> QED
      BY <1>0, <1>1, <1>20, <2>1, Zenon DEF Evaluate
<1>22. PICK policies : policies = {policy} /\ policies = selectPolicies(held.bundle, context, "network")
      BY <1>0, <1>9, Zenon
<1>23. Rankable(policies)
  <2>1. Rankable(selectPolicies(bundle, context, "network"))
        BY <1>1, SelectedAreRankable, Zenon
  <2> QED
      BY <1>0, <1>22, <2>1, Zenon
<1>24. PICK final : NetworkReported(r, held.generation, policies, captured, final)
      BY <1>1, <1>20, <1>22, NetworkReport, Zenon
<1>25. PICK hits, decisions : hits = matchNetworkRules(policies, captured) /\ decisions = NetworkDecisions(policies, captured)
      BY Zenon
<1>26. r.final = final /\ r.decisions = decisions /\ NetworkFinal(final, policies, hits, captured)
      BY <1>24, <1>25, Zenon DEF NetworkReported
<1>27. hits # {} /\ HitsOf(hits, policies) /\ \A hit \in hits : hit.policy = policy.id
  <2>1. disposition # "not_applicable"
        BY <1>18
  <2>2. /\ HitsOf(hits, policies) /\ \A hit \in hits : \E p \in policies : NetworkHitOf(hit, p, captured)
        /\ \A p \in policies : PolicyDisposition(p, captured) # "not_applicable" => \E hit \in hits : NetworkHitOf(hit, p, captured)
        BY <1>23, <1>25, NetworkHitsAreHits, Zenon
  <2> QED
      BY <1>16, <1>22, <2>1, <2>2, Zenon DEF NetworkHitOf
<1>28. final.policy = policy.id
  <2>1. Winner(policies, hits) \in hits
        BY <1>23, <1>27, WinnerIsPreferred, Zenon
  <2>2. FinalOf(policies, hits).policy = policy.id
        BY <1>27, <2>1, Zenon DEF FinalOf
  <2> QED
      BY <1>26, <2>2, Zenon DEF NetworkFinal
<1>29. final.requested = "block"
      BY <1>10, <1>14, <1>22, <1>26, <1>28, Zenon DEF NetworkFinal
<1>30. PICK one \in decisions : one.policy = policy.id
      BY <1>22, <1>25, DecisionOfPolicy, Zenon
<1>31. one.disposition = disposition
      BY <1>16, <1>22, <1>23, <1>25, <1>30, DecisionDisposes, Zenon
<1>32. captured.policy = policy.id
      BY <1>4, <1>11, Zenon
<1>33. Agreeing(r, captured)
      BY <1>4, <1>14, <1>19, <1>26, <1>28, <1>29, <1>30, <1>31, <1>32, Zenon DEF Agreeing
<1>34. ReconciledTruly(report, r, held.generation, policies, captured)
      BY <1>21, <1>23, <1>24, Reconciled, Zenon
<1> QED
    BY <1>33, <1>34, Zenon DEF ReconciledTruly

\* The invariant implies that enforcement is reported truly.
LEMMA EnforcedState == EngineInv => EnforcedIsTrue
<1> SUFFICES ASSUME EngineInv PROVE EnforcedIsTrue
    OBVIOUS
<1>1. ASSUME Reported, report.final.enforced
      PROVE  /\ captured.type = "connect" /\ captured.policy = report.final.policy
             /\ report.final.requested = "block"
             /\ captured.result = "blocked" <=> report.final.disposition = "denied"
             /\ captured.result = "blocked" <=> report.final.effective = "block"
  <2>1. IsConnect /\ EnforcedTruly(report, captured)
        BY <1>1, ReportSays, Zenon
  <2> QED
      BY <1>1, <2>1, EventTypes, Zenon DEF EnforcedTruly
<1>2. ASSUME mode = "audit", Reported, report.generation = 1, captured.type = "connect",
             captured.destination.family # "mapped", captured.result # ""
      PROVE  report.final.enforced
  <2>1. IsConnect
    <3>1. captured.type # "open" /\ captured.type # "exec"
          BY <1>2
    <3> QED
        BY <1>2, <3>1, ReportIsEvaluation, EventTypes, Zenon
  <2> QED
      BY <1>2, <2>1, AuditAgrees, Zenon
<1> QED
    BY <1>1, <1>2, Zenon DEF EnforcedIsTrue

\* A report says enforced only when the hook's policy asked to block and its verdict
\* is the engine's disposition, whatever was activated since; and under audit every
\* verdict of the hook under the startup bundle on a native destination is reported
\* as enforced (CompileNetworkEnforcement, reconcileNetworkEnforcement).
THEOREM EnforcementIsReportedTruly == EngineSpec => []EnforcedIsTrue
    BY EngineInvariance, EnforcedState, PTL

\* What the report of a file or exec evaluation names.
LEMMA NamedBySays ==
    ASSUME NEW r, NEW generation, NEW policies, NEW hits, NEW gaps, Says(r, generation, policies, hits, gaps)
    PROVE  RulesHit(r) = Named(hits) /\ r.gaps = gaps
<1>1. r.hits = hits /\ r.gaps = gaps
      BY Zenon DEF Says
<1> QED
    BY <1>1, Zenon DEF RulesHit, Named

\* A flag that holds a comparison.
LEMMA FlagIsBoolean ==
    ASSUME NEW a \in Int, NEW b \in Int, NEW flag, flag = (a < b)
    PROVE  flag \in BOOLEAN
    OBVIOUS

\* What such a flag says.
LEMMA FlagCompares ==
    ASSUME NEW a \in Int, NEW b \in Int, NEW flag, flag = (a < b)
    PROVE  flag <=> a < b
    OBVIOUS

\* A report of an open is honest,
LEMMA OpenIsHonest ==
    ASSUME EngineInv, Reported, IsOpen
    PROVE  CutCaptureIsHonest
<1>0. PICK context : context = EventContext(captured)
      BY Zenon
<1>1. IsSnapshot(held) /\ report = Evaluate(held, captured)
      BY ReportIsEvaluation, Zenon
<1>2. PICK c \in Contexts, open \in Opens : \E n \in 0 .. Len(open.path) : captured = OpenEvent(c, open, n)
      BY Zenon DEF IsOpen
<1>3. PICK n \in 0 .. Len(open.path) : captured = OpenEvent(c, open, n)
      BY <1>2, Zenon
<1>4. PICK path \in Seq(STRING) : path = open.path
      BY EngineAssumption, Zenon
<1>5. /\ captured.type = "open" /\ captured.context = c /\ captured.open = open /\ captured.path = SubSeq(path, 1, n)
      /\ captured.access = open.access /\ captured.openPath = open.openPath
      /\ captured.truncated = (n < Len(path))
      /\ DOMAIN captured = {"type", "context", "open", "path", "access", "openPath", "truncated"}
      BY <1>3, <1>4, Zenon DEF OpenEvent
<1>6. PICK w : w = Whole(captured)
      BY Zenon
<1>7. w = [captured EXCEPT !.path = path, !.truncated = FALSE]
      BY <1>4, <1>5, <1>6, Zenon DEF Whole
<1>8. /\ w.type = "open" /\ w.context = c /\ w.path = path /\ w.truncated = FALSE
      /\ w.access = captured.access /\ w.openPath = captured.openPath
      BY <1>5, <1>7, Zenon
<1>9. EventContext(w) = context
      BY <1>0, <1>5, <1>8, Zenon DEF EventContext
<1>10. PICK policies, whole : policies = selectPolicies(held.bundle, context, "file") /\ whole = Evaluate(held, w)
      BY Zenon
<1>11. report = evaluateFile(held, context, captured) /\ whole = evaluateFile(held, context, w)
      BY <1>0, <1>1, <1>5, <1>8, <1>9, <1>10, Zenon DEF Evaluate
<1>12. Says(report, held.generation, policies, FileHitsOf(policies, captured), FileGapsOf(policies, captured))
      BY <1>1, <1>10, <1>11, FileReport, Zenon
<1>13. Says(whole, held.generation, policies, FileHitsOf(policies, w), FileGapsOf(policies, w))
      BY <1>1, <1>10, <1>11, FileReport, Zenon
<1>14. Rankable(policies) /\ \A p \in policies : Rules(p) \in Seq(RuleType)
  <2>1. Rankable(selectPolicies(held.bundle, context, "file"))
        BY <1>1, SelectedAreRankable, Zenon DEF IsSnapshot
  <2>2. \A p \in selectPolicies(held.bundle, context, "file") : Rules(p) \in Seq(RuleType)
        BY <1>1, SelectedHaveRules, Zenon DEF IsSnapshot
  <2> QED
      BY <1>10, <2>1, <2>2, Zenon
<1>15. captured.truncated \in BOOLEAN /\ (captured.truncated <=> n < Len(path))
  <2>1. PICK cut : cut = captured.truncated
        BY Zenon
  <2>2. cut = (n < Len(path))
        BY <1>5, <2>1, Zenon
  <2>4. n \in Int /\ Len(path) \in Int
        BY <1>4
  <2>3. cut \in BOOLEAN /\ (cut <=> n < Len(path))
        BY <2>2, <2>4, FlagIsBoolean, FlagCompares, Zenon
  <2> QED
      BY <2>1, <2>3, Zenon
<1>16. n \in 0 .. Len(path)
      BY <1>4, Zenon
<1>17. Honest(FileHitsOf(policies, captured), FileHitsOf(policies, w), FileGapsOf(policies, captured))
      BY <1>5, <1>8, <1>14, <1>15, <1>16, FileCutIsHonest, Zenon
<1>18. /\ RulesHit(report) = Named(FileHitsOf(policies, captured)) /\ report.gaps = FileGapsOf(policies, captured)
       /\ RulesHit(whole) = Named(FileHitsOf(policies, w))
      BY <1>12, <1>13, NamedBySays, Zenon
<1> QED
    BY <1>6, <1>10, <1>17, <1>18, Zenon DEF CutCaptureIsHonest, Honest

\* and so is a report of an exec.
LEMMA ExecIsHonest ==
    ASSUME EngineInv, Reported, IsExec
    PROVE  CutCaptureIsHonest
<1>0. PICK context : context = EventContext(captured)
      BY Zenon
<1>1. IsSnapshot(held) /\ report = Evaluate(held, captured)
      BY ReportIsEvaluation, Zenon
<1>2. PICK c \in Contexts, exec \in Execs :
          \E n \in 0 .. Len(exec.executable), k \in 0 .. Len(exec.arguments), state \in {"complete", "truncated"} :
              (state = "complete" => k = Len(exec.arguments)) /\ captured = ExecEvent(c, exec, n, k, state)
      BY Zenon DEF IsExec
<1>3. PICK n \in 0 .. Len(exec.executable), k \in 0 .. Len(exec.arguments), state \in {"complete", "truncated"} :
          (state = "complete" => k = Len(exec.arguments)) /\ captured = ExecEvent(c, exec, n, k, state)
      BY <1>2, Zenon
<1>4. PICK executable \in Seq(STRING), arguments \in Seq(STRING) :
          executable = exec.executable /\ arguments = exec.arguments
      BY EngineAssumption, Zenon
<1>5. /\ captured.type = "exec" /\ captured.context = c /\ captured.exec = exec
      /\ captured.executable = SubSeq(executable, 1, n) /\ captured.executableTruncated = (n < Len(executable))
      /\ captured.arguments = SubSeq(arguments, 1, k) /\ captured.argumentsState = state
      /\ DOMAIN captured = {"type", "context", "exec", "executable", "executableTruncated", "arguments", "argumentsState"}
      BY <1>3, <1>4, Zenon DEF ExecEvent
<1>6. PICK w : w = Whole(captured)
      BY Zenon
<1>7. w = [captured EXCEPT !.executable = executable, !.executableTruncated = FALSE,
                           !.arguments = arguments, !.argumentsState = "complete"]
  <2>1. captured.type # "open"
        BY <1>5
  <2> QED
      BY <1>4, <1>5, <1>6, <2>1, Zenon DEF Whole
<1>8. /\ w.type = "exec" /\ w.context = c /\ w.executable = executable /\ w.executableTruncated = FALSE
      /\ w.arguments = arguments /\ w.argumentsState = "complete"
      BY <1>5, <1>7, Zenon
<1>9. EventContext(w) = context
      BY <1>0, <1>5, <1>8, Zenon DEF EventContext
<1>10. PICK policies, whole : policies = selectPolicies(held.bundle, context, "exec") /\ whole = Evaluate(held, w)
      BY Zenon
<1>11. report = EvaluateExec(held, context, captured) /\ whole = EvaluateExec(held, context, w)
  <2>1. captured.type # "open" /\ w.type # "open"
        BY <1>5, <1>8
  <2> QED
      BY <1>0, <1>1, <1>5, <1>8, <1>9, <1>10, <2>1, Zenon DEF Evaluate
<1>12. Says(report, held.generation, policies, ExecHitsOf(policies, captured), ExecGapsOf(policies, captured))
      BY <1>1, <1>10, <1>11, ExecReport, Zenon
<1>13. Says(whole, held.generation, policies, ExecHitsOf(policies, w), ExecGapsOf(policies, w))
      BY <1>1, <1>10, <1>11, ExecReport, Zenon
<1>14. Rankable(policies) /\ \A p \in policies : Rules(p) \in Seq(RuleType)
  <2>1. Rankable(selectPolicies(held.bundle, context, "exec"))
        BY <1>1, SelectedAreRankable, Zenon DEF IsSnapshot
  <2>2. \A p \in selectPolicies(held.bundle, context, "exec") : Rules(p) \in Seq(RuleType)
        BY <1>1, SelectedHaveRules, Zenon DEF IsSnapshot
  <2> QED
      BY <1>10, <2>1, <2>2, Zenon
<1>16. captured.executableTruncated \in BOOLEAN /\ (captured.executableTruncated <=> n < Len(executable))
  <2>1. PICK cut : cut = captured.executableTruncated
        BY Zenon
  <2>2. cut = (n < Len(executable))
        BY <1>5, <2>1, Zenon
  <2>4. n \in Int /\ Len(executable) \in Int
        BY <1>4
  <2>3. cut \in BOOLEAN /\ (cut <=> n < Len(executable))
        BY <2>2, <2>4, FlagIsBoolean, FlagCompares, Zenon
  <2> QED
      BY <2>1, <2>3, Zenon
<1>15. /\ captured.argumentsState \in {"complete", "truncated"}
       /\ captured.argumentsState = "complete" => k = Len(arguments)
       /\ n \in 0 .. Len(executable) /\ k \in 0 .. Len(arguments)
      BY <1>3, <1>4, <1>5, Zenon
<1>17. Honest(ExecHitsOf(policies, captured), ExecHitsOf(policies, w), ExecGapsOf(policies, captured))
      BY <1>5, <1>8, <1>14, <1>15, <1>16, ExecCutIsHonest, Zenon
<1>18. /\ RulesHit(report) = Named(ExecHitsOf(policies, captured)) /\ report.gaps = ExecGapsOf(policies, captured)
       /\ RulesHit(whole) = Named(ExecHitsOf(policies, w))
      BY <1>12, <1>13, NamedBySays, Zenon
<1> QED
    BY <1>6, <1>10, <1>17, <1>18, Zenon DEF CutCaptureIsHonest, Honest

\* The invariant implies that cut captures are reported honestly.
LEMMA HonestState == EngineInv => CutCaptureIsHonest
<1> SUFFICES ASSUME EngineInv, Reported PROVE CutCaptureIsHonest
    BY Zenon DEF CutCaptureIsHonest
<1>1. IsConnect \/ IsOpen \/ IsExec
      BY ReportIsEvaluation, Zenon
<1>2. CASE IsConnect
  <2>1. captured.type # "open" /\ captured.type # "exec"
        BY <1>2, EventTypes
  <2>2. Whole(captured) = captured
        BY <2>1, Zenon DEF Whole
  <2>3. Evaluate(held, Whole(captured)) = report
        BY <2>2, ReportIsEvaluation, Zenon
  <2> QED
      BY <2>3, Zenon DEF CutCaptureIsHonest
<1> QED
    BY <1>1, <1>2, OpenIsHonest, ExecIsHonest, Zenon

\* However a pathname, an executable or an argument vector is cut short by a hook,
\* the report names no rule that the whole capture would not hit, and has a gap when
\* it misses one (fileRuleMatches, execRuleMatches, addExecCaptureGaps).
THEOREM CutCapturesAreHonest == EngineSpec => []CutCaptureIsHonest
    BY EngineInvariance, HonestState, PTL
=============================================================================
