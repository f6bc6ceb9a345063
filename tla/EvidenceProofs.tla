--------------------------- MODULE EvidenceProofs ---------------------------
(***************************************************************************)
(* Proofs about the evidence path: no record is lost uncounted, overtaken   *)
(* or left behind between the pipeline and the database, for any records    *)
(* and capacities.                                                          *)
(***************************************************************************)
EXTENDS EvidencePath, FiniteSetTheorems, WellFoundedInduction, TLAPS

-----------------------------------------------------------------------------
(* Sequences without repetition, and recursion over 0 .. n. *)

\* What appending adds; a new element repeats nothing.
LEMMA RangeOfAppend ==
    ASSUME NEW X, NEW s \in Seq(X), NEW x \in X
    PROVE  /\ Append(s, x) \in Seq(X)
           /\ Range(Append(s, x)) = Range(s) \cup {x}
           /\ IsInjective(s) /\ x \notin Range(s) => IsInjective(Append(s, x))
<1>1. /\ Append(s, x) \in Seq(X) /\ Len(s) \in Nat /\ DOMAIN s = 1 .. Len(s)
      /\ DOMAIN Append(s, x) = 1 .. Len(s) + 1
      /\ \A i \in 1 .. Len(s) : Append(s, x)[i] = s[i]
      /\ Append(s, x)[Len(s) + 1] = x
      OBVIOUS
<1>2. Range(Append(s, x)) \subseteq Range(s) \cup {x}
      BY <1>1 DEF Range
<1>3. Range(s) \subseteq Range(Append(s, x))
      BY <1>1 DEF Range
<1>4. x \in Range(Append(s, x))
      BY <1>1 DEF Range
<1>5. IsInjective(s) /\ x \notin Range(s) => IsInjective(Append(s, x))
      BY <1>1 DEF Range, IsInjective
<1> QED
    BY <1>1, <1>2, <1>3, <1>4, <1>5, Zenon

\* What the tail of a sequence holds.
LEMMA RangeOfTail ==
    ASSUME NEW X, NEW s \in Seq(X), s # <<>>
    PROVE  /\ Head(s) \in X /\ Tail(s) \in Seq(X)
           /\ Range(s) = {Head(s)} \cup Range(Tail(s))
           /\ IsInjective(s) => IsInjective(Tail(s)) /\ Head(s) \notin Range(Tail(s))
<1>1. /\ Head(s) \in X /\ Head(s) = s[1] /\ Tail(s) \in Seq(X) /\ Len(s) \in Nat \ {0}
      /\ Len(Tail(s)) = Len(s) - 1 /\ \A i \in 1 .. Len(s) - 1 : Tail(s)[i] = s[i + 1]
      OBVIOUS
<1>2. \A i \in 2 .. Len(s) : i - 1 \in 1 .. Len(s) - 1 /\ Tail(s)[i - 1] = s[i]
      BY <1>1
<1>3. DOMAIN s = 1 .. Len(s) /\ DOMAIN Tail(s) = 1 .. Len(s) - 1
      BY <1>1
<1>4. Range(s) \subseteq {Head(s)} \cup Range(Tail(s))
  <2> SUFFICES ASSUME NEW i \in 1 .. Len(s), i # 1 PROVE s[i] \in Range(Tail(s))
      BY <1>1, <1>3, Zenon DEF Range
  <2>1. i - 1 \in DOMAIN Tail(s) /\ Tail(s)[i - 1] = s[i]
        BY <1>1, <1>2, <1>3
  <2> QED
      BY <2>1, Zenon DEF Range
<1>5. {Head(s)} \cup Range(Tail(s)) \subseteq Range(s)
      BY <1>1, <1>3 DEF Range
<1>6. ASSUME IsInjective(s) PROVE IsInjective(Tail(s)) /\ Head(s) \notin Range(Tail(s))
      BY <1>1, <1>3, <1>6 DEF Range, IsInjective
<1> QED
    BY <1>1, <1>4, <1>5, <1>6, Zenon

\* What a concatenation holds; two disjoint sequences repeat nothing.
LEMMA RangeOfConcat ==
    ASSUME NEW X, NEW s \in Seq(X), NEW t \in Seq(X)
    PROVE  /\ s \o t \in Seq(X)
           /\ Range(s \o t) = Range(s) \cup Range(t)
           /\ IsInjective(s) /\ IsInjective(t) /\ Range(s) \cap Range(t) = {} => IsInjective(s \o t)
<1>1. /\ s \o t \in Seq(X) /\ Len(s \o t) = Len(s) + Len(t) /\ Len(s) \in Nat /\ Len(t) \in Nat
      /\ \A i \in 1 .. Len(s) : (s \o t)[i] = s[i]
      /\ \A i \in Len(s) + 1 .. Len(s) + Len(t) : (s \o t)[i] = t[i - Len(s)]
      OBVIOUS
<1>2. \A i \in 1 .. Len(t) : (s \o t)[i + Len(s)] = t[i]
      BY <1>1
<1>3. DOMAIN s = 1 .. Len(s) /\ DOMAIN t = 1 .. Len(t) /\ DOMAIN (s \o t) = 1 .. Len(s) + Len(t)
      BY <1>1
<1>4. Range(s \o t) \subseteq Range(s) \cup Range(t)
      BY <1>1, <1>3 DEF Range
<1>5. Range(s) \subseteq Range(s \o t)
      BY <1>1, <1>3 DEF Range
<1>6. Range(t) \subseteq Range(s \o t)
      BY <1>1, <1>2, <1>3, SMTT(30) DEF Range
<1>7. ASSUME IsInjective(s), IsInjective(t), Range(s) \cap Range(t) = {},
             NEW i \in DOMAIN (s \o t), NEW j \in DOMAIN (s \o t), (s \o t)[i] = (s \o t)[j]
      PROVE  i = j
  <2>1. CASE i <= Len(s) /\ j <= Len(s)
        BY <1>1, <1>3, <1>7, <2>1 DEF IsInjective
  <2>2. CASE i > Len(s) /\ j > Len(s)
    <3>1. i - Len(s) \in DOMAIN t /\ j - Len(s) \in DOMAIN t /\ t[i - Len(s)] = t[j - Len(s)]
          BY <1>1, <1>3, <1>7, <2>2
    <3>2. i - Len(s) = j - Len(s)
          BY <1>7, <3>1, Zenon DEF IsInjective
    <3> QED
        BY <1>1, <1>3, <3>2
  <2>3. \A k \in DOMAIN (s \o t) : /\ k <= Len(s) => (s \o t)[k] \in Range(s)
                                   /\ k > Len(s) => (s \o t)[k] \in Range(t)
        BY <1>1, <1>3 DEF Range
  <2> QED
      BY <1>1, <1>3, <1>7, <2>1, <2>2, <2>3
<1>8. IsInjective(s) /\ IsInjective(t) /\ Range(s) \cap Range(t) = {} => IsInjective(s \o t)
      BY <1>7, Zenon DEF IsInjective
<1> QED
    BY <1>1, <1>4, <1>5, <1>6, <1>8, Zenon

\* A sequence without repetition has as many elements as it is long.
LEMMA RangeCounts ==
    ASSUME NEW X, NEW s \in Seq(X), IsInjective(s)
    PROVE  IsFiniteSet(Range(s)) /\ Cardinality(Range(s)) = Len(s)
<1>1. Len(s) \in Nat /\ DOMAIN s = 1 .. Len(s) /\ s \in [1 .. Len(s) -> Range(s)]
      BY DEF Range
<1>2. IsFiniteSet(1 .. Len(s)) /\ Cardinality(1 .. Len(s)) = Len(s)
      BY <1>1, FS_Interval, SMTT(30)
<1>3. s \in Bijection(1 .. Len(s), Range(s))
  <2>1. \A x \in Range(s) : \E i \in 1 .. Len(s) : s[i] = x
        BY <1>1, Zenon DEF Range
  <2> QED
      BY <1>1, <2>1, Zenon DEF Bijection, Injection, Surjection
<1>4. ExistsBijection(1 .. Len(s), Range(s))
      BY <1>3, Zenon DEF ExistsBijection
<1> QED
    BY <1>2, <1>4, FS_Bijection, Zenon

\* The size of a union of disjoint sets.
LEMMA DisjointUnion ==
    ASSUME NEW S, NEW T, IsFiniteSet(S), IsFiniteSet(T), S \cap T = {}
    PROVE  IsFiniteSet(S \cup T) /\ Cardinality(S \cup T) = Cardinality(S) + Cardinality(T)
<1>1. /\ IsFiniteSet(S \cup T)
      /\ Cardinality(S \cup T) = Cardinality(S) + Cardinality(T) - Cardinality(S \cap T)
      BY FS_Union, Zenon
<1>2. Cardinality(S \cap T) = 0 /\ Cardinality(S) \in Nat /\ Cardinality(T) \in Nat
      BY FS_EmptySet, FS_CardinalityType, Zenon
<1> QED
    BY <1>1, <1>2

\* Induction, stated with a set.
LEMMA SetInduction ==
    ASSUME NEW S, 0 \in S, \A k \in Nat : k \in S => k + 1 \in S
    PROVE  \A k \in Nat : k \in S
<1> DEFINE T == Nat \ S
<1> SUFFICES ASSUME T # {} PROVE FALSE
    BY Zenon
<1>1. PICK m \in T : \A u \in T : ~(u < m)
  <2>1. T \subseteq Nat
        BY Zenon
  <2>2. PICK m \in T : \A u \in T : ~(<<u, m>> \in OpToRel(<, Nat))
        BY <2>1, NatLessThanWellFounded, WFMin, Zenon
  <2>3. \A u \in T : ~(u < m)
        BY <2>1, <2>2, Zenon DEF OpToRel
  <2> QED
      BY <2>3, Zenon
<1>2. m \in T /\ \A u \in T : ~(u < m)
      BY <1>1, Zenon
<1>3. m \in Nat /\ m # 0 /\ m - 1 \in Nat /\ m - 1 < m
      BY <1>2
<1>4. m - 1 \in S
      BY <1>2, <1>3, Zenon
<1>5. (m - 1) + 1 \in S
      BY <1>3, <1>4, Zenon
<1>6. m \in S
      BY <1>3, <1>5
<1> QED
    BY <1>2, <1>6, Zenon

\* f is defined step by step over 0 .. n.
Stepwise(f, n, X, base, step) ==
    f \in [0 .. n -> X] /\ f[0] = base /\ \A i \in 1 .. n : f[i] = step[<<f[i - 1], i>>]

\* A function on 0 .. n that is defined step by step exists.
LEMMA StepwiseFunction ==
    ASSUME NEW n, NEW X, NEW base, NEW step,
           n \in Nat, base \in X, step \in [X \X (1 .. n) -> X]
    PROVE  \E f : Stepwise(f, n, X, base, step)
<1> DEFINE Upto(k) == \E f \in [0 .. k -> X] : f[0] = base /\ \A i \in 1 .. k : f[i] = step[<<f[i - 1], i>>]
           S == {k \in Nat : k <= n => Upto(k)}
<1>1. 0 \in S
  <2> DEFINE f == [i \in 0 .. 0 |-> base]
  <2>1. f \in [0 .. 0 -> X] /\ f[0] = base /\ \A i \in 1 .. 0 : f[i] = step[<<f[i - 1], i>>]
        OBVIOUS
  <2> HIDE DEF f
  <2> QED
      BY <2>1, Zenon
<1>2. ASSUME NEW k \in Nat, k \in S PROVE k + 1 \in S
  <2> SUFFICES ASSUME k + 1 <= n PROVE Upto(k + 1)
      OBVIOUS
  <2>1. PICK f \in [0 .. k -> X] : f[0] = base /\ \A i \in 1 .. k : f[i] = step[<<f[i - 1], i>>]
        BY <1>2
  <2> DEFINE last == step[<<f[k], k + 1>>]
             g == [i \in 0 .. k + 1 |-> IF i <= k THEN f[i] ELSE last]
  <2>2. f[k] \in X /\ k + 1 \in 1 .. n
        BY <2>1
  <2>3. last \in X
        BY <2>2, Zenon
  <2> HIDE DEF last
  <2>4. g \in [0 .. k + 1 -> X] /\ g[0] = base
        BY <2>1, <2>3
  <2>5. ASSUME NEW i \in 1 .. k + 1 PROVE g[i] = step[<<g[i - 1], i>>]
    <3>1. g[i - 1] = f[i - 1]
          OBVIOUS
    <3>2. CASE i <= k
          BY <2>1, <3>1, <3>2
    <3>3. CASE i = k + 1
          BY <3>1, <3>3, SMTT(30) DEF last
    <3> QED
        BY <3>2, <3>3
  <2> HIDE DEF g
  <2> QED
      BY <2>4, <2>5, Zenon
<1> HIDE DEF S
<1>3. n \in S
      BY <1>1, <1>2, SetInduction, Zenon
<1> QED
    BY <1>3 DEF S, Stepwise

-----------------------------------------------------------------------------
(* The recent buffer. *)

\* f is the function that BytesOf chooses.
IsSum(f, s) == f = [i \in 0 .. Len(s) |-> IF i = 0 THEN 0 ELSE f[i - 1] + SizeOf[s[i]]]

\* Every record has a size.
LEMMA SizesAreNat ==
    ASSUME NEW s \in Seq(Records), NEW i \in 1 .. Len(s)
    PROVE  s[i] \in Records /\ SizeOf[s[i]] \in Nat
<1>1. s[i] \in Records
      OBVIOUS
<1>2. SizeOf \in [Records -> Nat \ {0}]
      BY WriterAssumption, Zenon
<1> QED
    BY <1>1, <1>2, Zenon

\* The recursion of BytesOf has a solution.
LEMMA SumExists ==
    ASSUME NEW s \in Seq(Records)
    PROVE  \E f : IsSum(f, s) /\ f \in [0 .. Len(s) -> Nat]
<1> DEFINE n == Len(s)
           step == [p \in Nat \X (1 .. n) |-> p[1] + SizeOf[s[p[2]]]]
<1>1. n \in Nat /\ \A i \in 1 .. n : SizeOf[s[i]] \in Nat
      BY SizesAreNat
<1>2. step \in [Nat \X (1 .. n) -> Nat]
      BY <1>1
<1>3. \A x \in Nat, i \in 1 .. n : step[<<x, i>>] = x + SizeOf[s[i]]
      BY Zenon
<1> HIDE DEF n, step
<1>0. 0 \in Nat
      BY Zenon
<1>4. PICK f : Stepwise(f, n, Nat, 0, step)
      BY <1>0, <1>1, <1>2, StepwiseFunction, Zenon
<1>5. ASSUME NEW i \in 1 .. n PROVE f[i] = f[i - 1] + SizeOf[s[i]]
  <2>1. f[i - 1] \in Nat
        BY <1>1, <1>4 DEF Stepwise
  <2>2. f[i] = step[<<f[i - 1], i>>] /\ step[<<f[i - 1], i>>] = f[i - 1] + SizeOf[s[i]]
        BY <1>3, <1>4, <2>1, Zenon DEF Stepwise
  <2> QED
      BY <2>2, Zenon
<1>6. f = [i \in 0 .. n |-> IF i = 0 THEN 0 ELSE f[i - 1] + SizeOf[s[i]]] /\ f \in [0 .. n -> Nat]
      BY <1>1, <1>4, <1>5 DEF Stepwise
<1> QED
    BY <1>6, Zenon DEF IsSum, n

\* BytesOf is the last of the partial sums.
LEMMA BytesAreSummed ==
    ASSUME NEW s \in Seq(Records)
    PROVE  \E f \in [0 .. Len(s) -> Nat] :
               /\ f[0] = 0 /\ BytesOf(s) = f[Len(s)]
               /\ \A i \in 1 .. Len(s) : f[i] = f[i - 1] + SizeOf[s[i]]
<1>1. PICK f : f = CHOOSE g : IsSum(g, s)
      BY Zenon
<1>2. IsSum(f, s)
      BY <1>1, SumExists, Zenon
<1>3. BytesOf(s) = f[Len(s)]
      BY <1>1, Zenon DEF BytesOf, IsSum
<1>4. Len(s) \in Nat /\ f[0] = 0 /\ \A i \in 1 .. Len(s) : f[i] = f[i - 1] + SizeOf[s[i]]
      BY <1>2 DEF IsSum
<1> DEFINE S == {k \in Nat : k <= Len(s) => f[k] \in Nat}
<1>5. \A i \in 1 .. Len(s) : SizeOf[s[i]] \in Nat
      BY SizesAreNat, Zenon
<1>6. 0 \in S /\ \A k \in Nat : k \in S => k + 1 \in S
  <2>1. 0 \in S
        BY <1>4
  <2>2. ASSUME NEW k \in Nat, k \in S PROVE k + 1 \in S
    <3> SUFFICES ASSUME k + 1 <= Len(s) PROVE f[k + 1] \in Nat
        OBVIOUS
    <3>1. k + 1 \in 1 .. Len(s) /\ (k + 1) - 1 = k /\ f[k] \in Nat
          BY <1>4, <2>2
    <3>2. f[k + 1] = f[k] + SizeOf[s[k + 1]] /\ SizeOf[s[k + 1]] \in Nat
          BY <1>4, <1>5, <3>1, Zenon
    <3> QED
        BY <3>1, <3>2
  <2> QED
      BY <2>1, <2>2, Zenon
<1> HIDE DEF S
<1>7. \A k \in Nat : k \in S
      BY <1>6, SetInduction, Zenon
<1>8. \A k \in 0 .. Len(s) : f[k] \in Nat
      BY <1>4, <1>7 DEF S
<1>9. f \in [0 .. Len(s) -> Nat]
  <2>1. f = [i \in 0 .. Len(s) |-> f[i]]
        BY <1>2, Zenon DEF IsSum
  <2> QED
      BY <1>8, <2>1, Zenon
<1> QED
    BY <1>3, <1>4, <1>9, Zenon

\* An empty buffer holds no bytes.
LEMMA BytesOfNone == BytesOf(<<>>) = 0
<1>1. <<>> \in Seq(Records) /\ Len(<<>>) = 0
      OBVIOUS
<1> QED
    BY <1>1, BytesAreSummed, Zenon

\* One more record adds its size.
LEMMA BytesOfAppend ==
    ASSUME NEW s \in Seq(Records), NEW r \in Records
    PROVE  BytesOf(s) \in Nat /\ BytesOf(Append(s, r)) = BytesOf(s) + SizeOf[r]
<1> DEFINE t == Append(s, r)
<1>1. /\ t \in Seq(Records) /\ Len(s) \in Nat /\ Len(t) = Len(s) + 1 /\ t[Len(s) + 1] = r
      /\ \A i \in 1 .. Len(s) : t[i] = s[i]
      OBVIOUS
<1> HIDE DEF t
<1>2. PICK f \in [0 .. Len(s) -> Nat] : /\ f[0] = 0 /\ BytesOf(s) = f[Len(s)]
                                        /\ \A i \in 1 .. Len(s) : f[i] = f[i - 1] + SizeOf[s[i]]
      BY BytesAreSummed, Zenon
<1>3. PICK g \in [0 .. Len(t) -> Nat] : /\ g[0] = 0 /\ BytesOf(t) = g[Len(t)]
                                        /\ \A i \in 1 .. Len(t) : g[i] = g[i - 1] + SizeOf[t[i]]
      BY <1>1, BytesAreSummed, SMTT(30)
<1> DEFINE S == {k \in Nat : k <= Len(s) => g[k] = f[k]}
<1>4. 0 \in S
      BY <1>2, <1>3, Zenon
<1>5. ASSUME NEW k \in Nat, k \in S PROVE k + 1 \in S
  <2> SUFFICES ASSUME k + 1 <= Len(s) PROVE g[k + 1] = f[k + 1]
      OBVIOUS
  <2>1. k + 1 \in 1 .. Len(s) /\ k + 1 \in 1 .. Len(t) /\ (k + 1) - 1 = k /\ g[k] = f[k] /\ t[k + 1] = s[k + 1]
        BY <1>1, <1>5
  <2>2. f[k + 1] = f[k] + SizeOf[s[k + 1]] /\ g[k + 1] = g[k] + SizeOf[t[k + 1]]
        BY <1>2, <1>3, <2>1, Zenon
  <2> QED
      BY <2>1, <2>2, Zenon
<1> HIDE DEF S
<1>6. \A k \in Nat : k \in S
      BY <1>4, <1>5, SetInduction, Zenon
<1>7. g[Len(s)] = f[Len(s)]
      BY <1>1, <1>6 DEF S
<1>8. Len(t) \in 1 .. Len(t) /\ Len(t) - 1 = Len(s)
      BY <1>1
<1>9. g[Len(t)] = g[Len(s)] + SizeOf[r]
      BY <1>1, <1>3, <1>8, Zenon
<1> QED
    BY <1>1, <1>2, <1>3, <1>7, <1>9 DEF t

\* What buffer's loop works on.
BufferState == [recent : Seq(Records), bytes : Nat, lost : SUBSET Records]

\* The record is within both limits of the recent buffer.
Fits(state, record) == ~(Len(state.recent) >= RecentCapacity \/ state.bytes + SizeOf[record] > RecentBytes)

\* What the loop does with one record.
LEMMA BufferOneFields ==
    ASSUME NEW state \in BufferState, NEW r \in Records
    PROVE  /\ BufferOne(state, r) \in BufferState
           /\ Fits(state, r) => /\ BufferOne(state, r).recent = Append(state.recent, r)
                                /\ BufferOne(state, r).bytes = state.bytes + SizeOf[r]
                                /\ BufferOne(state, r).lost = state.lost
           /\ ~Fits(state, r) => /\ BufferOne(state, r).recent = state.recent
                                 /\ BufferOne(state, r).bytes = state.bytes
                                 /\ BufferOne(state, r).lost = state.lost \cup {r}
<1>1. SizeOf[r] \in Nat
      BY WriterAssumption, Zenon
<1>2. /\ state.recent \in Seq(Records) /\ state.bytes \in Nat /\ state.lost \in SUBSET Records
      /\ Append(state.recent, r) \in Seq(Records) /\ state.bytes + SizeOf[r] \in Nat
      BY <1>1 DEF BufferState
<1>3. CASE Fits(state, r)
  <2>1. BufferOne(state, r) = [state EXCEPT !.recent = Append(@, r), !.bytes = @ + SizeOf[r]]
        BY <1>3, Zenon DEF Fits, BufferOne
  <2> QED
      BY <1>2, <1>3, <2>1, Zenon DEF BufferState
<1>4. CASE ~Fits(state, r)
  <2>1. BufferOne(state, r) = [state EXCEPT !.lost = @ \cup {r}]
        BY <1>4, Zenon DEF Fits, BufferOne
  <2>2. state.lost \cup {r} \in SUBSET Records
        BY <1>2, Zenon
  <2> QED
      BY <1>2, <1>4, <2>1, <2>2, Zenon DEF BufferState
<1> QED
    BY <1>3, <1>4, Zenon

\* Where the loop starts.
Unbuffered == [recent |-> recent, bytes |-> recentBytes, lost |-> {}]

\* f is the function that Buffered chooses.
IsBuffering(f, s) == f = [i \in 0 .. Len(s) |-> IF i = 0 THEN [recent |-> recent, bytes |-> recentBytes, lost |-> {}]
                                                ELSE BufferOne(f[i - 1], s[i])]

\* The loop of buffer goes through its records one by one.
LEMMA BufferLoop ==
    ASSUME NEW s \in Seq(Records), Unbuffered \in BufferState
    PROVE  \E f : /\ f[0] = Unbuffered /\ Buffered(s) = f[Len(s)]
                  /\ \A i \in 0 .. Len(s) : f[i] \in BufferState
                  /\ \A i \in 1 .. Len(s) : f[i] = BufferOne(f[i - 1], s[i])
<1> DEFINE n == Len(s)
           step == [p \in BufferState \X (1 .. n) |-> BufferOne(p[1], s[p[2]])]
<1>0. n \in Nat /\ \A i \in 1 .. n : s[i] \in Records
      OBVIOUS
<1>1. \A x \in BufferState, i \in 1 .. n : BufferOne(x, s[i]) \in BufferState
      BY <1>0, BufferOneFields, Zenon
<1>2. step \in [BufferState \X (1 .. n) -> BufferState]
      BY <1>1, Zenon
<1>3. \A x \in BufferState, i \in 1 .. n : step[<<x, i>>] = BufferOne(x, s[i])
      BY Zenon
<1> HIDE DEF n, step
<1>4. PICK f : Stepwise(f, n, BufferState, Unbuffered, step)
      BY <1>0, <1>2, StepwiseFunction, Zenon
<1>5. ASSUME NEW i \in 1 .. n PROVE f[i] = BufferOne(f[i - 1], s[i])
  <2>1. i - 1 \in 0 .. n
        BY <1>0
  <2>2. f[i - 1] \in BufferState
        BY <1>4, <2>1, Zenon DEF Stepwise
  <2> QED
      BY <1>3, <1>4, <2>2, Zenon DEF Stepwise
<1>6. f = [i \in 0 .. n |-> IF i = 0 THEN Unbuffered ELSE BufferOne(f[i - 1], s[i])]
  <2>1. f = [i \in 0 .. n |-> f[i]] /\ f[0] = Unbuffered
        BY <1>4, Zenon DEF Stepwise
  <2>2. \A i \in 0 .. n : f[i] = IF i = 0 THEN Unbuffered ELSE BufferOne(f[i - 1], s[i])
    <3> SUFFICES ASSUME NEW i \in 0 .. n PROVE f[i] = IF i = 0 THEN Unbuffered ELSE BufferOne(f[i - 1], s[i])
        BY Zenon
    <3>1. i = 0 \/ i \in 1 .. n
          BY <1>0
    <3>2. CASE i = 0
          BY <2>1, <3>2, Zenon
    <3>3. CASE i # 0 /\ i \in 1 .. n
          BY <1>5, <3>3, Zenon
    <3> QED
        BY <3>1, <3>2, <3>3, Zenon
  <2> QED
      BY <2>1, <2>2, Zenon
<1>7. \E g : IsBuffering(g, s)
      BY <1>6, Zenon DEF IsBuffering, Unbuffered, n
<1>8. PICK g : g = CHOOSE h : IsBuffering(h, s)
      BY Zenon
<1>9. IsBuffering(g, s)
      BY <1>7, <1>8, Zenon
<1>10. Buffered(s) = g[n]
      BY <1>8, Zenon DEF Buffered, IsBuffering, n
<1>11. g[0] = Unbuffered /\ \A i \in 1 .. n : g[i] = BufferOne(g[i - 1], s[i])
  <2>1. 0 \in 0 .. n /\ \A i \in 1 .. n : i \in 0 .. n /\ i # 0
        BY <1>0
  <2> QED
      BY <1>9, <2>1, Zenon DEF IsBuffering, Unbuffered, n
<1> DEFINE S == {k \in Nat : k <= n => g[k] \in BufferState}
<1>12. 0 \in S
      BY <1>11, Zenon
<1>13. ASSUME NEW k \in Nat, k \in S PROVE k + 1 \in S
  <2> SUFFICES ASSUME k + 1 <= n PROVE g[k + 1] \in BufferState
      OBVIOUS
  <2>1. k + 1 \in 1 .. n /\ (k + 1) - 1 = k /\ g[k] \in BufferState
        BY <1>0, <1>13
  <2>2. g[k + 1] = BufferOne(g[k], s[k + 1])
        BY <1>11, <2>1, Zenon
  <2> QED
      BY <1>1, <2>1, <2>2, Zenon
<1> HIDE DEF S
<1>14. \A k \in Nat : k \in S
      BY <1>12, <1>13, SetInduction, Zenon
<1>15. \A i \in 0 .. n : g[i] \in BufferState
      BY <1>0, <1>14 DEF S
<1> QED
    BY <1>10, <1>11, <1>15, Zenon DEF n

\* What buffering the records of a set comes to.
BufferedAll(state, records) ==
    /\ state \in BufferState
    /\ IsFiniteSet(state.lost)
    /\ Range(recent) \subseteq Range(state.recent)
    /\ Range(state.recent) \subseteq Range(recent) \cup records
    /\ state.lost \subseteq records
    /\ records \subseteq Range(state.recent) \cup state.lost
    /\ state.lost \cap Range(state.recent) = {}
    /\ IsInjective(state.recent)
    /\ Len(state.recent) <= RecentCapacity
    /\ state.bytes = BytesOf(state.recent) /\ state.bytes <= RecentBytes

\* One more record is kept, or counted as lost.
LEMMA BufferMore ==
    ASSUME NEW state, NEW records, BufferedAll(state, records),
           NEW r \in Records, r \notin records, r \notin Range(recent)
    PROVE  BufferedAll(BufferOne(state, r), records \cup {r})
<1>1. PICK next_ : next_ = BufferOne(state, r)
      BY Zenon
<1>2. state \in BufferState /\ next_ \in BufferState /\ state.recent \in Seq(Records)
      BY <1>1, BufferOneFields, Zenon DEF BufferedAll, BufferState
<1>3. r \notin Range(state.recent) /\ r \notin state.lost
      BY Zenon DEF BufferedAll
<1>4. CASE Fits(state, r)
  <2>1. /\ next_.recent = Append(state.recent, r) /\ next_.bytes = state.bytes + SizeOf[r]
        /\ next_.lost = state.lost
        BY <1>1, <1>2, <1>4, BufferOneFields, Zenon
  <2>2. Range(next_.recent) = Range(state.recent) \cup {r} /\ IsInjective(next_.recent)
        BY <1>2, <1>3, <2>1, RangeOfAppend, Zenon DEF BufferedAll
  <2>3. next_.bytes = BytesOf(next_.recent)
        BY <1>2, <2>1, BytesOfAppend, Zenon DEF BufferedAll
  <2>4. Len(next_.recent) <= RecentCapacity /\ next_.bytes <= RecentBytes
    <3>1. Len(next_.recent) = Len(state.recent) + 1 /\ Len(state.recent) \in Nat
          BY <1>2, <2>1
    <3>2. RecentCapacity \in Nat /\ RecentBytes \in Nat /\ SizeOf[r] \in Nat /\ state.bytes \in Nat
          BY <1>2, WriterAssumption, Zenon DEF BufferState
    <3> QED
        BY <1>4, <2>1, <3>1, <3>2 DEF Fits
  <2>5. /\ IsFiniteSet(next_.lost) /\ next_.lost \subseteq records \cup {r}
        /\ next_.lost \cap Range(next_.recent) = {}
        BY <1>3, <2>1, <2>2, Zenon DEF BufferedAll
  <2>6. /\ Range(recent) \subseteq Range(next_.recent)
        /\ Range(next_.recent) \subseteq Range(recent) \cup (records \cup {r})
        /\ records \cup {r} \subseteq Range(next_.recent) \cup next_.lost
        BY <2>1, <2>2, Zenon DEF BufferedAll
  <2> QED
      BY <1>1, <1>2, <2>2, <2>3, <2>4, <2>5, <2>6, Zenon DEF BufferedAll
<1>5. CASE ~Fits(state, r)
  <2>1. /\ next_.recent = state.recent /\ next_.bytes = state.bytes /\ next_.lost = state.lost \cup {r}
        BY <1>1, <1>2, <1>5, BufferOneFields, Zenon
  <2>2. IsFiniteSet(next_.lost)
        BY <2>1, FS_AddElement DEF BufferedAll
  <2>3. /\ next_.lost \subseteq records \cup {r} /\ next_.lost \cap Range(next_.recent) = {}
        /\ Range(recent) \subseteq Range(next_.recent)
        /\ Range(next_.recent) \subseteq Range(recent) \cup (records \cup {r})
        /\ records \cup {r} \subseteq Range(next_.recent) \cup next_.lost
        BY <1>3, <2>1, Zenon DEF BufferedAll
  <2>4. /\ IsInjective(next_.recent) /\ Len(next_.recent) <= RecentCapacity
        /\ next_.bytes = BytesOf(next_.recent) /\ next_.bytes <= RecentBytes
        BY <2>1, Zenon DEF BufferedAll
  <2> QED
      BY <1>1, <1>2, <2>2, <2>3, <2>4, Zenon DEF BufferedAll
<1> QED
    BY <1>4, <1>5, Zenon

\* What buffer does with a sequence of records, each of which it sees first.
LEMMA BufferResult ==
    ASSUME NEW s \in Seq(Records), Unbuffered \in BufferState,
           IsInjective(s), IsInjective(recent), Range(s) \cap Range(recent) = {},
           Len(recent) <= RecentCapacity, recentBytes = BytesOf(recent), recentBytes <= RecentBytes
    PROVE  BufferedAll(Buffered(s), Range(s))
<1> DEFINE Seen(k) == {s[i] : i \in 1 .. k}
<1>1. PICK f : /\ f[0] = Unbuffered /\ Buffered(s) = f[Len(s)]
               /\ \A i \in 0 .. Len(s) : f[i] \in BufferState
               /\ \A i \in 1 .. Len(s) : f[i] = BufferOne(f[i - 1], s[i])
      BY BufferLoop, Zenon
<1> DEFINE S == {k \in Nat : k <= Len(s) => BufferedAll(f[k], Seen(k))}
<1>2. 0 \in S
  <2>1. Seen(0) = {}
        OBVIOUS
  <2>2. Unbuffered.recent = recent /\ Unbuffered.bytes = recentBytes /\ Unbuffered.lost = {}
        BY Zenon DEF Unbuffered
  <2>3. BufferedAll(Unbuffered, {})
        BY <2>2, FS_EmptySet, Zenon DEF BufferedAll
  <2> QED
      BY <1>1, <2>1, <2>3, Zenon
<1>3. ASSUME NEW k \in Nat, k \in S PROVE k + 1 \in S
  <2> SUFFICES ASSUME k + 1 <= Len(s) PROVE BufferedAll(f[k + 1], Seen(k + 1))
      OBVIOUS
  <2>1. k + 1 \in 1 .. Len(s) /\ (k + 1) - 1 = k /\ BufferedAll(f[k], Seen(k))
        BY <1>3
  <2>2. f[k + 1] = BufferOne(f[k], s[k + 1])
        BY <1>1, <2>1, Zenon
  <2>3. Seen(k + 1) = Seen(k) \cup {s[k + 1]}
    <3>1. 1 .. k + 1 = (1 .. k) \cup {k + 1}
          OBVIOUS
    <3> QED
        BY <3>1, Zenon
  <2>4. s[k + 1] \in Records /\ s[k + 1] \in Range(s)
        BY <2>1 DEF Range
  <2>5. s[k + 1] \notin Seen(k)
    <3> SUFFICES ASSUME NEW i \in 1 .. k, s[i] = s[k + 1] PROVE FALSE
        BY Zenon
    <3>1. i \in DOMAIN s /\ k + 1 \in DOMAIN s /\ i # k + 1
          BY <2>1
    <3> QED
        BY <3>1, Zenon DEF IsInjective
  <2> HIDE DEF Seen
  <2>6. PICK done, r : done = Seen(k) /\ r = s[k + 1]
        BY Zenon
  <2>7. BufferedAll(BufferOne(f[k], r), done \cup {r})
        BY <2>1, <2>4, <2>5, <2>6, BufferMore, Zenon
  <2> QED
      BY <2>2, <2>3, <2>6, <2>7, Zenon
<1> HIDE DEF S
<1>4. \A k \in Nat : k \in S
      BY <1>2, <1>3, SetInduction, Zenon
<1>5. Len(s) \in Nat /\ Seen(Len(s)) = Range(s)
      BY DEF Range
<1>6. Len(s) <= Len(s)
      BY <1>5
<1>7. BufferedAll(f[Len(s)], Seen(Len(s)))
      BY <1>4, <1>5, <1>6, Zenon DEF S
<1> QED
    BY <1>1, <1>5, <1>7, Zenon

-----------------------------------------------------------------------------
(* Where records are. *)

\* In the database, or pruned from it.
Kept == rows \cup pruned

\* a was accepted before b.
Before(a, b) == \E i, j \in DOMAIN accepted : i < j /\ accepted[i] = a /\ accepted[j] = b

\* The types of the state that the places depend on.
WriterTypeInv ==
    /\ queue \in Seq(Records) /\ batch \in Seq(Records) /\ Unbuffered \in BufferState
    /\ accepted \in Seq(Records) /\ inputs \in Seq(Records)
    /\ queueDrops \in Nat /\ storeDrops \in Nat /\ next \in Nat
    /\ circuitOpen \in BOOLEAN /\ lost \subseteq Records

\* A record is new when it is submitted: none was drawn twice.
RecordsAreDrawnOnce ==
    /\ IsInjective(accepted) /\ IsInjective(inputs)
    /\ Range(inputs) \cap (Range(accepted) \cup lost) = {}
    /\ \A x \in Range(inputs) \cup Range(accepted) \cup lost : x <= next

\* Every accepted record is in one place, or lost.
RecordsArePlaced ==
    /\ Range(accepted) = InFlight \cup Kept \cup (Range(accepted) \cap lost)
    /\ lost \cap (InFlight \cup Kept) = {}
    /\ IsInjective(recent) /\ IsInjective(batch)

\* The places hold the records in the order in which they were accepted: what is
\* kept, the recent buffer, the batch, the queue.
PlacesAreOrdered ==
    /\ \A a \in Kept, b \in InFlight : Before(a, b)
    /\ \A a \in Range(recent), b \in Range(batch) \cup Range(queue) : Before(a, b)
    /\ \A a \in Range(batch), b \in Range(queue) : Before(a, b)
    /\ \A i, j \in DOMAIN queue : i < j => Before(queue[i], queue[j])

\* The buffer is within its limits, and empty while the circuit is closed.
BufferIsBounded ==
    /\ ~circuitOpen => recent = <<>>
    /\ Len(recent) <= RecentCapacity
    /\ recentBytes = BytesOf(recent) /\ recentBytes <= RecentBytes

\* Each lost record is counted once, in one of two counters.
LossesAreCounted == IsFiniteSet(lost) /\ queueDrops + storeDrops = Cardinality(lost)

\* How far the shutdown has come.
ShutdownInv ==
    /\ writerClosing \in BOOLEAN /\ closeErr \in BOOLEAN
    /\ pipeClosing \in BOOLEAN /\ hubClosed \in BOOLEAN /\ failed \in BOOLEAN
    /\ core \in {"serving", "pipeline", "hub", "writer", "wait", "database", "closed"}
    /\ writerPhase \in {"run", "probe", "flush", "done"}
    /\ core # "serving" => pipeClosing
    /\ core \notin {"serving", "pipeline"} /\ ~failed => inputs = <<>> /\ emitting = NoRecord
    /\ core \in {"writer", "wait", "database", "closed"} => hubClosed
    /\ writerClosing => core \in {"wait", "database", "closed"}
    /\ writerPhase # "run" => writerClosing /\ queue = <<>>
    /\ writerPhase = "done" => batch = <<>> /\ (~closeErr => recent = <<>>)
    /\ core \in {"database", "closed"} /\ ~failed => writerPhase = "done" /\ ~closeErr

\* The stream shows what the writer was given.
StreamInv ==
    /\ published \subseteq Range(accepted) \cup lost
    /\ ~hubClosed /\ emitting # NoRecord => emitting \in Range(accepted) \cup lost

\* All of the above.
PlacesInv ==
    /\ WriterTypeInv /\ RecordsAreDrawnOnce /\ RecordsArePlaced /\ PlacesAreOrdered
    /\ BufferIsBounded /\ LossesAreCounted

\* The inductive invariant.
PathInv == PlacesInv /\ ShutdownInv /\ StreamInv

\* No record is before itself.
LEMMA BeforeIsStrict ==
    ASSUME accepted \in Seq(Records), IsInjective(accepted), NEW a, NEW b, Before(a, b)
    PROVE  a # b /\ ~Before(b, a)
<1>1. PICK i \in DOMAIN accepted, j \in DOMAIN accepted : i < j /\ accepted[i] = a /\ accepted[j] = b
      BY Zenon DEF Before
<1>2. i \in Nat /\ j \in Nat
      OBVIOUS
<1>3. a # b
      BY <1>1, <1>2 DEF IsInjective
<1>4. ASSUME NEW k \in DOMAIN accepted, NEW l \in DOMAIN accepted, k < l, accepted[k] = b, accepted[l] = a
      PROVE  FALSE
  <2>1. k = j /\ l = i
        BY <1>1, <1>4, Zenon DEF IsInjective
  <2> QED
      BY <1>1, <1>2, <1>4, <2>1
<1> QED
    BY <1>3, <1>4, Zenon DEF Before

\* The queue repeats no record, and no two places share one.
LEMMA PlacesAreDisjoint ==
    ASSUME PlacesInv
    PROVE  /\ IsInjective(queue)
           /\ Range(queue) \cap Range(batch) = {} /\ Range(queue) \cap Range(recent) = {}
           /\ Range(batch) \cap Range(recent) = {}
           /\ Kept \cap InFlight = {}
<1>1. \A a, b : Before(a, b) => a # b
      BY BeforeIsStrict, Zenon DEF PlacesInv, WriterTypeInv, RecordsAreDrawnOnce
<1>2. IsInjective(queue)
  <2> SUFFICES ASSUME NEW i \in DOMAIN queue, NEW j \in DOMAIN queue, queue[i] = queue[j], i # j
               PROVE  FALSE
      BY Zenon DEF IsInjective
  <2>1. i \in Nat /\ j \in Nat
        BY DEF PlacesInv, WriterTypeInv
  <2>2. i < j \/ j < i
        BY <2>1
  <2>3. Before(queue[i], queue[j]) \/ Before(queue[j], queue[i])
        BY <2>2, Zenon DEF PlacesInv, PlacesAreOrdered
  <2> QED
      BY <1>1, <2>3, Zenon
<1>3. /\ Range(queue) \cap Range(batch) = {} /\ Range(queue) \cap Range(recent) = {}
      /\ Range(batch) \cap Range(recent) = {}
      BY <1>1, Zenon DEF PlacesInv, PlacesAreOrdered
<1>4. Kept \cap InFlight = {}
      BY <1>1, Zenon DEF PlacesInv, PlacesAreOrdered
<1> QED
    BY <1>2, <1>3, <1>4, Zenon

\* The order of the places keeps waiting records from being overtaken.
LEMMA PathInvOrder == PathInv => NoOvertaking
<1> SUFFICES ASSUME PathInv, NEW i \in DOMAIN accepted, NEW j \in DOMAIN accepted,
                    i < j, accepted[i] \in InFlight, accepted[j] \in Kept
             PROVE  FALSE
    BY Zenon DEF NoOvertaking, Kept
<1>1. Before(accepted[j], accepted[i])
      BY Zenon DEF PathInv, PlacesInv, PlacesAreOrdered
<1>2. Before(accepted[i], accepted[j])
      BY Zenon DEF Before
<1> QED
    BY <1>1, <1>2, BeforeIsStrict, Zenon DEF PathInv, PlacesInv, WriterTypeInv, RecordsAreDrawnOnce

\* Without a count nothing is lost, and a closed circuit has no buffer.
LEMMA PathInvQuiet == PathInv => QuietMeansStored
<1> SUFFICES ASSUME PathInv, ~DiagnosticsWarn
             PROVE  lost = {} /\ Range(accepted) \subseteq rows \cup pruned \cup Range(queue) \cup Range(batch)
    BY Zenon DEF QuietMeansStored
<1>1. ~circuitOpen /\ queueDrops = 0 /\ storeDrops = 0
      BY Zenon DEF DiagnosticsWarn
<1>2. lost = {}
      BY <1>1, FS_EmptySet DEF PathInv, PlacesInv, LossesAreCounted
<1>3. recent = <<>> /\ Range(recent) = {}
      BY <1>1 DEF PathInv, PlacesInv, BufferIsBounded, Range
<1> QED
    BY <1>2, <1>3, Zenon DEF PathInv, PlacesInv, RecordsArePlaced, InFlight, Kept

\* A finished writer without an error has emptied every place.
LEMMA PathInvExit == PathInv => CleanExitLosesNothing
<1> SUFFICES ASSUME PathInv, core = "closed", ~failed
             PROVE  /\ inputs = <<>> /\ emitting = NoRecord
                    /\ Range(accepted) \subseteq rows \cup pruned \cup lost
    BY Zenon DEF CleanExitLosesNothing
<1>1. /\ inputs = <<>> /\ emitting = NoRecord
      /\ queue = <<>> /\ batch = <<>> /\ recent = <<>>
      BY Zenon DEF PathInv, ShutdownInv
<1>2. InFlight = {}
      BY <1>1 DEF InFlight, Range
<1> QED
    BY <1>1, <1>2, Zenon DEF PathInv, PlacesInv, RecordsArePlaced, Kept

\* The places are disjoint, so their sizes add up.
LEMMA PathInvBalance == PathInv => EvidenceBalance
<1> SUFFICES ASSUME PathInv PROVE EvidenceBalance
    BY SMTT(30)
<1> DEFINE Q == Range(queue)
           B == Range(batch)
           R == Range(recent)
           L == Range(accepted) \cap lost
           A == Range(accepted)
<1>1. /\ queue \in Seq(Records) /\ batch \in Seq(Records) /\ recent \in Seq(Records) /\ accepted \in Seq(Records)
      /\ IsInjective(queue) /\ IsInjective(batch) /\ IsInjective(recent) /\ IsInjective(accepted)
      BY PlacesAreDisjoint, Zenon DEF PathInv, PlacesInv, WriterTypeInv, Unbuffered, BufferState, RecordsAreDrawnOnce, RecordsArePlaced
<1>2. /\ IsFiniteSet(Q) /\ Cardinality(Q) = Len(queue)
      /\ IsFiniteSet(B) /\ Cardinality(B) = Len(batch)
      /\ IsFiniteSet(R) /\ Cardinality(R) = Len(recent)
      /\ IsFiniteSet(A) /\ Cardinality(A) = Len(accepted)
      BY <1>1, RangeCounts, Zenon
<1>3. /\ Q \cap B = {} /\ (Q \cup B) \cap R = {}
      /\ (Q \cup B \cup R) \cap Kept = {} /\ (Q \cup B \cup R \cup Kept) \cap L = {}
      /\ A = Q \cup B \cup R \cup Kept \cup L
      BY PlacesAreDisjoint, Zenon DEF PathInv, PlacesInv, RecordsArePlaced, InFlight
<1> HIDE DEF Q, B, R, A, L
<1>4. IsFiniteSet(Kept) /\ IsFiniteSet(L)
      BY <1>2, <1>3, FS_Subset, Zenon
<1>5. \A S, T : IsFiniteSet(S) /\ IsFiniteSet(T) /\ S \cap T = {}
                  => IsFiniteSet(S \cup T) /\ Cardinality(S \cup T) = Cardinality(S) + Cardinality(T)
      BY DisjointUnion, Zenon
<1>6. IsFiniteSet(Q \cup B) /\ Cardinality(Q \cup B) = Cardinality(Q) + Cardinality(B)
      BY <1>2, <1>3, <1>5, Zenon
<1>7. /\ IsFiniteSet(Q \cup B \cup R)
      /\ Cardinality(Q \cup B \cup R) = Cardinality(Q \cup B) + Cardinality(R)
      BY <1>2, <1>3, <1>5, <1>6, Zenon
<1>8. /\ IsFiniteSet(Q \cup B \cup R \cup Kept)
      /\ Cardinality(Q \cup B \cup R \cup Kept) = Cardinality(Q \cup B \cup R) + Cardinality(Kept)
      BY <1>3, <1>4, <1>5, <1>7, Zenon
<1>9. Cardinality(A) = Cardinality(Q \cup B \cup R \cup Kept) + Cardinality(L)
      BY <1>3, <1>4, <1>5, <1>8, Zenon
<1>10. Cardinality(Kept) \in Nat /\ Cardinality(L) \in Nat /\ Len(queue) \in Nat /\ Len(batch) \in Nat
       /\ Len(recent) \in Nat /\ Len(accepted) \in Nat
      BY <1>1, <1>4, FS_CardinalityType
<1>11. Len(queue) + Len(batch) + Len(recent) + Cardinality(rows \cup pruned)
         + Cardinality(Range(accepted) \cap lost) = Len(accepted)
      BY <1>2, <1>6, <1>7, <1>8, <1>9, <1>10, Zenon DEF Kept, L
<1>12. Range(accepted) \subseteq InFlight \cup rows \cup pruned \cup lost
      BY Zenon DEF PathInv, PlacesInv, RecordsArePlaced, Kept
<1> QED
    BY <1>11, <1>12, Zenon DEF EvidenceBalance, PathInv, PlacesInv, LossesAreCounted, BufferIsBounded, StreamInv

-----------------------------------------------------------------------------
(* What the operations of the writer do to the places. *)

\* The fields of an outcome.
LEMMA OutcomeFields ==
    ASSUME NEW x, NEW b \in BOOLEAN, NEW o, o = [rows |-> x, ok |-> b]
    PROVE  o.rows = x /\ (o.ok <=> b) /\ o.ok \in BOOLEAN
<1>1. o.rows = x
      BY Zenon
<1>2. o.ok = b
      BY Zenon
<1> QED
    BY <1>1, <1>2, Zenon

\* A prune adds no row.
LEMMA PruneKeepsRows ==
    ASSUME NEW R, NEW p \in pruneLocked(R)
    PROVE  p.rows \subseteq R /\ p.ok \in BOOLEAN
<1>1. \A n : Newest(R, n) \subseteq R
      BY Zenon DEF Newest
<1>2. \/ p = [rows |-> R, ok |-> TRUE]
      \/ p = [rows |-> Newest(R, SoftLimit), ok |-> TRUE]
      \/ \E n : p = [rows |-> Newest(R, n), ok |-> FALSE]
      BY Zenon DEF pruneLocked
<1>3. p.ok \in BOOLEAN /\ (p.rows = R \/ \E n : p.rows = Newest(R, n))
  <2>1. ASSUME NEW x, NEW b \in BOOLEAN, p = [rows |-> x, ok |-> b] PROVE p.rows = x /\ p.ok \in BOOLEAN
        BY <2>1, OutcomeFields, Zenon
  <2> QED
      BY <1>2, <2>1, Zenon
<1> QED
    BY <1>1, <1>3, Zenon

\* A failing AppendBatch adds no row, a successful one only rows of the batch.
LEMMA AppendOutcome ==
    ASSUME NEW s, NEW o \in AppendBatch(s)
    PROVE  /\ o.ok \in BOOLEAN /\ o.rows \subseteq rows \cup Range(s)
           /\ ~o.ok => o.rows \subseteq rows
<1>1. ASSUME NEW p \in pruneLocked(rows), p.ok, NEW t \in Transaction(p.rows, Range(s))
      PROVE  /\ t.ok \in BOOLEAN /\ t.rows \subseteq rows \cup Range(s)
             /\ ~t.ok => t.rows \subseteq rows
  <2>1. p.rows \subseteq rows
        BY PruneKeepsRows, Zenon
  <2>2. \/ \E q \in pruneLocked(p.rows \cup Range(s)) : t = [rows |-> q.rows, ok |-> TRUE]
        \/ t = [rows |-> p.rows, ok |-> FALSE]
        BY <1>1, Zenon DEF Transaction
  <2>3. ASSUME NEW q \in pruneLocked(p.rows \cup Range(s)) PROVE q.rows \subseteq p.rows \cup Range(s)
        BY <2>3, PruneKeepsRows, Zenon
  <2>4. /\ t.ok \in BOOLEAN
        /\ (\E q \in pruneLocked(p.rows \cup Range(s)) : t.rows = q.rows /\ t.ok) \/ t.rows = p.rows
        BY <2>2, OutcomeFields, Zenon
  <2>5. (t.ok /\ t.rows \subseteq p.rows \cup Range(s)) \/ t.rows = p.rows
        BY <2>3, <2>4, Zenon
  <2> QED
      BY <2>1, <2>4, <2>5, Zenon
<1>2. \/ o = [rows |-> rows, ok |-> TRUE] \/ o = [rows |-> rows, ok |-> FALSE]
      \/ o \in UNION {IF p.ok THEN Transaction(p.rows, Range(s)) ELSE {p} : p \in pruneLocked(rows)}
  <2>1. CASE s = <<>>
        BY <2>1, Zenon DEF AppendBatch
  <2>2. CASE s # <<>> /\ (~BatchFits(s) \/ ~dbOpen)
        BY <2>2, Zenon DEF AppendBatch
  <2>3. CASE s # <<>> /\ ~(~BatchFits(s) \/ ~dbOpen)
    <3>0. o \in (UNION {IF p.ok THEN Transaction(p.rows, Range(s)) ELSE {p} : p \in pruneLocked(rows)})
                \cup (IF healthy THEN {} ELSE {[rows |-> rows, ok |-> FALSE]})
          BY <2>3, Zenon DEF AppendBatch
    <3> DEFINE U == UNION {IF p.ok THEN Transaction(p.rows, Range(s)) ELSE {p} : p \in pruneLocked(rows)}
               H == IF healthy THEN {} ELSE {[rows |-> rows, ok |-> FALSE]}
    <3>1. o \in U \cup H
          BY <3>0, Zenon
    <3>2. \A x \in H : x = [rows |-> rows, ok |-> FALSE]
          BY Zenon
    <3> HIDE DEF U, H
    <3>3. o \in U \/ o = [rows |-> rows, ok |-> FALSE]
          BY <3>1, <3>2, Zenon
    <3> QED
        BY <3>3, Zenon DEF U
  <2> QED
      BY <2>1, <2>2, <2>3, Zenon
<1>3. CASE o = [rows |-> rows, ok |-> TRUE] \/ o = [rows |-> rows, ok |-> FALSE]
  <2>1. o.rows = rows /\ o.ok \in BOOLEAN
        BY <1>3, OutcomeFields, Zenon
  <2> QED
      BY <2>1, Zenon
<1>4. CASE o \in UNION {IF p.ok THEN Transaction(p.rows, Range(s)) ELSE {p} : p \in pruneLocked(rows)}
  <2>1. PICK p \in pruneLocked(rows) : o \in IF p.ok THEN Transaction(p.rows, Range(s)) ELSE {p}
        BY <1>4, Zenon
  <2>2. CASE p.ok
        BY <1>1, <2>1, <2>2, Zenon
  <2>3. CASE ~p.ok
    <3>1. o = p
          BY <2>1, <2>3, Zenon
    <3>2. o.rows \subseteq rows /\ o.ok \in BOOLEAN
          BY <3>1, PruneKeepsRows, Zenon
    <3> QED
        BY <3>2, Zenon
  <2> QED
      BY <2>2, <2>3, Zenon
<1> QED
    BY <1>2, <1>3, <1>4, Zenon

\* A stored batch is kept; a refused one leaves what is kept.
LEMMA StoreResult ==
    ASSUME NEW s, NEW o \in AppendBatch(s), Store(s, o)
    PROVE  /\ o.ok \in BOOLEAN
           /\ o.ok => Kept' = Kept \cup Range(s)
           /\ ~o.ok => Kept' = Kept
<1>1. /\ o.ok \in BOOLEAN /\ o.rows \subseteq rows \cup Range(s)
      /\ ~o.ok => o.rows \subseteq rows
      BY AppendOutcome, Zenon
<1>2. rows' = o.rows /\ pruned' = pruned \cup ((rows \cup IF o.ok THEN Range(s) ELSE {}) \ o.rows)
      BY Zenon DEF Store
<1> QED
    BY <1>1, <1>2, Zenon DEF Kept

\* The batch is stored.
FlushStored(s) ==
    /\ Kept' = Kept \cup Range(s)
    /\ ~circuitOpen /\ circuitOpen' = FALSE
    /\ recent' = recent /\ recentBytes' = recentBytes /\ storeDrops' = storeDrops /\ lost' = lost

\* The batch goes through the recent buffer.
FlushBuffered(s) ==
    /\ Kept' = Kept
    /\ circuitOpen' = TRUE
    /\ \E b : /\ BufferedAll(b, Range(s))
              /\ recent' = b.recent /\ recentBytes' = b.bytes
              /\ storeDrops' = storeDrops + Cardinality(b.lost) /\ lost' = lost \cup b.lost

\* flush does one of the two.
LEMMA FlushResult ==
    ASSUME PlacesInv, NEW s \in Seq(Records), IsInjective(s), Range(s) \cap Range(recent) = {}, flush(s)
    PROVE  FlushStored(s) \/ FlushBuffered(s)
<1>1. BufferedAll(Buffered(s), Range(s))
      BY BufferResult, Zenon DEF PlacesInv, WriterTypeInv, RecordsArePlaced, BufferIsBounded
<1>2. CASE circuitOpen /\ buffer(s) /\ UNCHANGED <<circuitOpen, storeVars>>
  <2>1. Kept' = Kept /\ circuitOpen' = TRUE
        BY <1>2, Zenon DEF Kept, storeVars, PlacesInv, WriterTypeInv
  <2> QED
      BY <1>1, <1>2, <2>1, Zenon DEF FlushBuffered, buffer
<1>3. ASSUME ~circuitOpen, NEW o \in AppendBatch(s), Store(s, o), circuitOpen' = ~o.ok,
             IF o.ok THEN UNCHANGED <<recent, recentBytes, storeDrops, lost>> ELSE buffer(s)
      PROVE  FlushStored(s) \/ FlushBuffered(s)
  <2>1. CASE o.ok
    <3>1. Kept' = Kept \cup Range(s) /\ circuitOpen' = FALSE
          BY <1>3, <2>1, StoreResult, Zenon
    <3> QED
        BY <1>3, <2>1, <3>1, Zenon DEF FlushStored
  <2>2. CASE ~o.ok
    <3>1. Kept' = Kept /\ circuitOpen' = TRUE /\ buffer(s)
          BY <1>3, <2>2, StoreResult, Zenon
    <3> QED
        BY <1>1, <3>1, Zenon DEF FlushBuffered, buffer
  <2> QED
      BY <2>1, <2>2, Zenon
<1> QED
    BY <1>2, <1>3, Zenon DEF flush

\* What the places have to do with the other variables of the writer.
Unmoved == accepted' = accepted /\ inputs' = inputs /\ next' = next

\* The order depends on the accepted records only.
LEMMA BeforeUnmoved ==
    ASSUME accepted' = accepted
    PROVE  \A a, b : Before(a, b)' <=> Before(a, b)
BY Zenon DEF Before

\* The records of the history variables are numbers.
LEMMA LostAreRecords ==
    ASSUME PlacesInv
    PROVE  \A x \in Range(accepted) \cup lost \cup Range(inputs) : x \in Nat
<1>1. \A x \in Range(accepted) \cup Range(inputs) : x \in Records
      BY DEF PlacesInv, WriterTypeInv, Range
<1>2. lost \subseteq Records
      BY Zenon DEF PlacesInv, WriterTypeInv
<1> QED
    BY <1>1, <1>2, WriterAssumption, Zenon

\* A step that touches no place.
LEMMA PlacesFrame ==
    ASSUME PlacesInv, Unmoved, Kept' = Kept,
           queue' = queue, batch' = batch, recent' = recent, recentBytes' = recentBytes,
           queueDrops' = queueDrops, storeDrops' = storeDrops, circuitOpen' = circuitOpen, lost' = lost
    PROVE  PlacesInv'
<1>1. WriterTypeInv'
      BY Zenon DEF PlacesInv, WriterTypeInv, Unmoved, Unbuffered
<1>2. RecordsAreDrawnOnce'
      BY Zenon DEF PlacesInv, RecordsAreDrawnOnce, Unmoved
<1>3. InFlight' = InFlight
      BY Zenon DEF InFlight
<1>4. RecordsArePlaced'
      BY <1>3, Zenon DEF PlacesInv, RecordsArePlaced, Unmoved
<1>5. PlacesAreOrdered'
      BY <1>3, BeforeUnmoved, Zenon DEF PlacesInv, PlacesAreOrdered, Unmoved
<1>6. BufferIsBounded'
      BY Zenon DEF PlacesInv, BufferIsBounded
<1>7. LossesAreCounted'
      BY Zenon DEF PlacesInv, LossesAreCounted
<1> QED
    BY <1>1, <1>2, <1>4, <1>5, <1>6, <1>7, Zenon DEF PlacesInv

\* Records move from the queue to the batch.
LEMMA PlacesShift ==
    ASSUME PlacesInv, Unmoved, Kept' = Kept,
           queue' \in Seq(Records), batch' \in Seq(Records),
           Range(queue') \cup Range(batch') = Range(queue) \cup Range(batch),
           IsInjective(batch'),
           \A a \in Range(batch'), b \in Range(queue') : Before(a, b),
           \A i, j \in DOMAIN queue' : i < j => Before(queue'[i], queue'[j]),
           recent' = recent, recentBytes' = recentBytes,
           queueDrops' = queueDrops, storeDrops' = storeDrops, circuitOpen' = circuitOpen, lost' = lost
    PROVE  PlacesInv'
<1>1. WriterTypeInv'
      BY Zenon DEF PlacesInv, WriterTypeInv, Unmoved, Unbuffered
<1>2. RecordsAreDrawnOnce'
      BY Zenon DEF PlacesInv, RecordsAreDrawnOnce, Unmoved
<1>3. InFlight' = InFlight
      BY Zenon DEF InFlight
<1>4. RecordsArePlaced'
      BY <1>3, Zenon DEF PlacesInv, RecordsArePlaced, Unmoved
<1>5. PlacesAreOrdered'
  <2>1. \A a \in Kept', b \in InFlight' : Before(a, b)'
        BY <1>3, BeforeUnmoved, Zenon DEF PlacesInv, PlacesAreOrdered, Unmoved
  <2>2. \A a \in Range(recent'), b \in Range(batch') \cup Range(queue') : Before(a, b)'
    <3> SUFFICES ASSUME NEW a \in Range(recent'), NEW b \in Range(batch') \cup Range(queue') PROVE Before(a, b)'
        BY Zenon
    <3>1. b \in Range(batch) \cup Range(queue) /\ a \in Range(recent)
          BY Zenon
    <3> QED
        BY <3>1, BeforeUnmoved, Zenon DEF PlacesInv, PlacesAreOrdered, Unmoved
  <2>3. \A a \in Range(batch'), b \in Range(queue') : Before(a, b)'
        BY BeforeUnmoved, Zenon DEF Unmoved
  <2>4. \A i, j \in DOMAIN queue' : i < j => Before(queue[i], queue[j])'
    <3> SUFFICES ASSUME NEW i \in DOMAIN queue', NEW j \in DOMAIN queue', i < j
                 PROVE  Before(queue[i], queue[j])'
        BY Zenon
    <3>1. Before(queue'[i], queue'[j])
          BY Zenon
    <3> QED
        BY <3>1, Zenon DEF Unmoved, Before
  <2> QED
      BY <2>1, <2>2, <2>3, <2>4, Zenon DEF PlacesAreOrdered
<1>6. BufferIsBounded'
      BY Zenon DEF PlacesInv, BufferIsBounded
<1>7. LossesAreCounted'
      BY Zenon DEF PlacesInv, LossesAreCounted
<1> QED
    BY <1>1, <1>2, <1>4, <1>5, <1>6, <1>7, Zenon DEF PlacesInv

\* A batch is flushed: stored, or kept in the recent buffer as far as it fits.
LEMMA PlacesFlush ==
    ASSUME PlacesInv, Unmoved, NEW s \in Seq(Records), IsInjective(s),
           queue' \in Seq(Records), batch' = <<>>,
           Range(queue') \cup Range(s) = Range(queue) \cup Range(batch),
           \A a \in Range(s), b \in Range(queue') : Before(a, b),
           \A i, j \in DOMAIN queue' : i < j => Before(queue'[i], queue'[j]),
           queueDrops' = queueDrops, flush(s)
    PROVE  PlacesInv'
<1>1. /\ Range(s) \cap Range(recent) = {} /\ Range(batch') = {} /\ IsInjective(batch')
      /\ InFlight = Range(queue') \cup Range(s) \cup Range(recent)
  <2>1. Range(s) \cap Range(recent) = {}
        BY PlacesAreDisjoint, SMTT(30)
  <2>2. Range(batch') = {} /\ IsInjective(batch')
        BY DEF Range, IsInjective
  <2> QED
      BY <2>1, <2>2, Zenon DEF InFlight
<1>2. FlushStored(s) \/ FlushBuffered(s)
      BY <1>1, FlushResult, Zenon
<1>3. Range(s) \cap Range(queue') = {}
      BY BeforeIsStrict, Zenon DEF PlacesInv, WriterTypeInv, RecordsAreDrawnOnce
<1>4. \A i, j \in DOMAIN queue' : i < j => Before(queue[i], queue[j])'
  <2> SUFFICES ASSUME NEW i \in DOMAIN queue', NEW j \in DOMAIN queue', i < j
               PROVE  Before(queue[i], queue[j])'
      BY Zenon
  <2>1. Before(queue'[i], queue'[j])
        BY Zenon
  <2> QED
      BY <2>1, Zenon DEF Unmoved, Before
<1>5. CASE FlushStored(s)
  <2>1. recent = <<>> /\ recent' = <<>> /\ Range(recent) = {} /\ Range(recent') = {}
        BY <1>5 DEF FlushStored, PlacesInv, BufferIsBounded, Range
  <2>2. InFlight' = Range(queue') /\ Kept' = Kept \cup Range(s) /\ lost' = lost
        BY <1>1, <1>5, <2>1, Zenon DEF InFlight, FlushStored
  <2>3. WriterTypeInv'
    <3>1. batch' \in Seq(Records)
          OBVIOUS
    <3>2. Unbuffered' = Unbuffered
          BY <1>5, Zenon DEF Unbuffered, FlushStored
    <3>3. circuitOpen' \in BOOLEAN
          BY <1>5, Zenon DEF FlushStored
    <3>4. BufferState' = BufferState
          BY Zenon DEF BufferState
    <3> QED
        BY <1>5, <3>1, <3>2, <3>3, <3>4, Zenon DEF PlacesInv, WriterTypeInv, Unmoved, FlushStored
  <2>4. RecordsAreDrawnOnce'
        BY <2>2, Zenon DEF PlacesInv, RecordsAreDrawnOnce, Unmoved
  <2>5. RecordsArePlaced'
    <3>1. /\ Range(accepted)' = Range(accepted) /\ IsInjective(recent') /\ IsInjective(batch')
          BY <1>1, <1>5, Zenon DEF Unmoved, FlushStored, PlacesInv, RecordsArePlaced
    <3> QED
        BY <1>1, <2>1, <2>2, <3>1, Zenon DEF PlacesInv, RecordsArePlaced
  <2>6. PlacesAreOrdered'
    <3>1. \A a \in Kept', b \in InFlight' : Before(a, b)'
      <4> SUFFICES ASSUME NEW a \in Kept', NEW b \in InFlight' PROVE Before(a, b)
          BY BeforeUnmoved, Zenon DEF Unmoved
      <4>1. b \in Range(queue') /\ b \in InFlight
            BY <1>1, <2>2, Zenon
      <4> QED
          BY <2>2, <4>1, Zenon DEF PlacesInv, PlacesAreOrdered
    <3> QED
        BY <1>1, <1>4, <2>1, <3>1, Zenon DEF PlacesAreOrdered
  <2>7. BufferIsBounded'
        BY <1>5, <2>1, Zenon DEF PlacesInv, BufferIsBounded, FlushStored
  <2>8. LossesAreCounted'
        BY <1>5, Zenon DEF PlacesInv, LossesAreCounted, FlushStored
  <2> QED
      BY <2>3, <2>4, <2>5, <2>6, <2>7, <2>8, Zenon DEF PlacesInv
<1>6. CASE FlushBuffered(s)
  <2>1. PICK c : /\ BufferedAll(c, Range(s))
                 /\ recent' = c.recent /\ recentBytes' = c.bytes
                 /\ storeDrops' = storeDrops + Cardinality(c.lost) /\ lost' = lost \cup c.lost
        BY <1>6, Zenon DEF FlushBuffered
  <2>2. PICK L : L = c.lost
        BY Zenon
  <2>3. /\ IsFiniteSet(L) /\ lost' = lost \cup L /\ storeDrops' = storeDrops + Cardinality(L)
        /\ Range(recent) \subseteq Range(recent') /\ Range(recent') \subseteq Range(recent) \cup Range(s)
        /\ L \subseteq Range(s) /\ Range(s) \subseteq Range(recent') \cup L
        /\ L \cap Range(recent') = {}
        /\ IsInjective(recent') /\ Len(recent') <= RecentCapacity
        /\ recentBytes' = BytesOf(recent') /\ recentBytes' <= RecentBytes
        BY <2>1, <2>2, Zenon DEF BufferedAll
  <2>4. recent' \in Seq(Records) /\ recentBytes' \in Nat
        BY <2>1, Zenon DEF BufferedAll, BufferState
  <2>5. /\ InFlight' = Range(queue') \cup Range(recent') /\ Kept' = Kept /\ circuitOpen' = TRUE
        /\ InFlight' \subseteq InFlight /\ InFlight = InFlight' \cup L
        /\ L \subseteq Range(accepted) /\ L \cap (InFlight' \cup Kept) = {} /\ lost \cap L = {}
    <3>1. InFlight' = Range(queue') \cup Range(recent') /\ Kept' = Kept /\ circuitOpen' = TRUE
          BY <1>1, <1>6, SMTT(30) DEF InFlight, FlushBuffered
    <3>2. InFlight' \subseteq InFlight /\ InFlight = InFlight' \cup L
          BY <1>1, <2>3, <3>1, SMTT(30)
    <3>3. L \subseteq Range(accepted) /\ lost \cap L = {}
          BY <3>2, SMTT(30) DEF PlacesInv, RecordsArePlaced
    <3>4. L \cap (InFlight' \cup Kept) = {}
          BY <1>3, <2>3, <3>1, <3>2, PlacesAreDisjoint, SMTT(30)
    <3> QED
        BY <3>1, <3>2, <3>3, <3>4, Zenon
  <2>6. Cardinality(L) \in Nat /\ IsFiniteSet(lost) /\ Cardinality(lost) \in Nat
        BY <2>3, FS_CardinalityType, Zenon DEF PlacesInv, LossesAreCounted
  <2>7. WriterTypeInv'
    <3>1. Unbuffered' \in BufferState
          BY <2>4, Zenon DEF Unbuffered, BufferState
    <3>2. storeDrops' \in Nat
          BY <2>3, <2>6 DEF PlacesInv, WriterTypeInv
    <3>3. BufferState' = BufferState
          BY Zenon DEF BufferState
    <3>4. batch' \in Seq(Records)
          OBVIOUS
    <3>5. circuitOpen' \in BOOLEAN
          BY <2>5, Zenon
    <3>6. lost' \subseteq Records
      <4>1. Range(s) \subseteq Records
            BY SMTT(30) DEF Range
      <4> QED
          BY <2>3, <4>1, Zenon DEF PlacesInv, WriterTypeInv
    <3> QED
        BY <3>1, <3>2, <3>3, <3>4, <3>5, <3>6, ZenonT(30) DEF PlacesInv, WriterTypeInv, Unmoved
  <2>8. RecordsAreDrawnOnce'
        BY <2>3, <2>5, SMTT(30) DEF PlacesInv, RecordsAreDrawnOnce, Unmoved
  <2>9. RecordsArePlaced'
    <3>1. Range(accepted)' = Range(accepted)
          BY Zenon DEF Unmoved
    <3> QED
        BY <1>1, <2>3, <2>5, <3>1, Zenon DEF PlacesInv, RecordsArePlaced
  <2>10. PlacesAreOrdered'
    <3>1. \A a \in Kept', b \in InFlight' : Before(a, b)'
          BY <2>5, BeforeUnmoved, Zenon DEF PlacesInv, PlacesAreOrdered, Unmoved
    <3>2. \A a \in Range(recent'), b \in Range(queue') : Before(a, b)'
      <4> SUFFICES ASSUME NEW a \in Range(recent'), NEW b \in Range(queue') PROVE Before(a, b)
          BY BeforeUnmoved, Zenon DEF Unmoved
      <4>1. CASE a \in Range(recent)
        <5>1. b \in Range(batch) \cup Range(queue)
              BY Zenon
        <5> QED
            BY <4>1, <5>1, Zenon DEF PlacesInv, PlacesAreOrdered
      <4>2. CASE a \in Range(s)
            BY <4>2, Zenon
      <4> QED
          BY <2>3, <4>1, <4>2, Zenon
    <3> QED
        BY <1>1, <1>4, <3>1, <3>2, Zenon DEF PlacesAreOrdered
  <2>11. BufferIsBounded'
        BY <2>3, <2>5, SMTT(30) DEF BufferIsBounded
  <2>12. LossesAreCounted'
    <3>1. IsFiniteSet(lost') /\ Cardinality(lost') = Cardinality(lost) + Cardinality(L)
          BY <2>3, <2>5, <2>6, DisjointUnion, SMTT(30)
    <3> QED
        BY <2>3, <2>6, <3>1, SMTT(30) DEF PlacesInv, LossesAreCounted, WriterTypeInv
  <2> QED
      BY <2>7, <2>8, <2>9, <2>10, <2>11, <2>12, Zenon DEF PlacesInv
<1> QED
    BY <1>2, <1>5, <1>6, Zenon

\* A probe stores the whole recent buffer, or changes nothing.
LEMMA PlacesProbe ==
    ASSUME PlacesInv, Unmoved, probe, queue' = queue, batch' = batch,
           queueDrops' = queueDrops, storeDrops' = storeDrops, lost' = lost
    PROVE  PlacesInv'
<1>1. PICK o \in AppendBatch(recent) :
          /\ Store(recent, o)
          /\ recent' = IF o.ok THEN <<>> ELSE recent
          /\ recentBytes' = IF o.ok THEN 0 ELSE recentBytes
          /\ circuitOpen' = ~o.ok
      BY Zenon DEF probe
<1>2. CASE ~o.ok
  <2>1. Kept' = Kept
        BY <1>1, <1>2, StoreResult, Zenon
  <2>2. recent' = recent /\ recentBytes' = recentBytes
        BY <1>1, <1>2, Zenon
  <2>3. circuitOpen' = circuitOpen
        BY <1>1, <1>2, Zenon DEF probe, ProbeSends, PlacesInv, WriterTypeInv
  <2> QED
      BY <2>1, <2>2, <2>3, PlacesFrame, Zenon
<1>3. CASE o.ok
  <2>1. Kept' = Kept \cup Range(recent)
        BY <1>1, <1>3, StoreResult, Zenon
  <2>2. recent' = <<>> /\ recentBytes' = 0
        BY <1>1, <1>3, Zenon
  <2>3. circuitOpen' = FALSE
        BY <1>1, <1>3, Zenon
  <2>4. Range(recent') = {} /\ IsInjective(recent')
        BY <2>2 DEF Range, IsInjective
  <2>5. InFlight' = Range(queue) \cup Range(batch) /\ InFlight = InFlight' \cup Range(recent)
        BY <2>4, Zenon DEF InFlight
  <2>6. WriterTypeInv'
    <3>1. Unbuffered' \in BufferState
          BY <2>2 DEF Unbuffered, BufferState
    <3>2. BufferState' = BufferState
          BY Zenon DEF BufferState
    <3> QED
        BY <2>3, <3>1, <3>2, Zenon DEF PlacesInv, WriterTypeInv, Unmoved
  <2>7. RecordsAreDrawnOnce'
        BY Zenon DEF PlacesInv, RecordsAreDrawnOnce, Unmoved
  <2>8. RecordsArePlaced'
    <3>1. Range(accepted)' = Range(accepted)
          BY Zenon DEF Unmoved
    <3> QED
        BY <2>1, <2>4, <2>5, <3>1, Zenon DEF PlacesInv, RecordsArePlaced
  <2>9. PlacesAreOrdered'
    <3>1. \A a \in Kept', b \in InFlight' : Before(a, b)'
      <4> SUFFICES ASSUME NEW a \in Kept', NEW b \in InFlight' PROVE Before(a, b)
          BY BeforeUnmoved, Zenon DEF Unmoved
      <4>1. b \in InFlight /\ b \in Range(batch) \cup Range(queue)
            BY <2>5, Zenon
      <4> QED
          BY <2>1, <4>1, Zenon DEF PlacesInv, PlacesAreOrdered
    <3> QED
        BY <2>4, <3>1, BeforeUnmoved, Zenon DEF PlacesInv, PlacesAreOrdered, Unmoved
  <2>10. BufferIsBounded'
    <3>1. Len(recent') = 0 /\ recentBytes' = BytesOf(recent')
          BY <2>2, BytesOfNone, Zenon
    <3> QED
        BY <2>2, <3>1, WriterAssumption DEF BufferIsBounded
  <2>11. LossesAreCounted'
        BY Zenon DEF PlacesInv, LossesAreCounted
  <2> QED
      BY <2>6, <2>7, <2>8, <2>9, <2>10, <2>11, Zenon DEF PlacesInv
<1> QED
    BY <1>2, <1>3, Zenon

\* The pipeline queues or takes a record, and nothing else changes.
LEMMA PlacesInputs ==
    ASSUME PlacesInv, Kept' = Kept, accepted' = accepted,
           inputs' \in Seq(Records), IsInjective(inputs'), Range(inputs') \cap (Range(accepted) \cup lost) = {},
           next' \in Nat, next <= next', \A x \in Range(inputs') : x <= next',
           queue' = queue, batch' = batch, recent' = recent, recentBytes' = recentBytes,
           queueDrops' = queueDrops, storeDrops' = storeDrops, circuitOpen' = circuitOpen, lost' = lost
    PROVE  PlacesInv'
<1>1. WriterTypeInv'
      BY Zenon DEF PlacesInv, WriterTypeInv, Unbuffered
<1>2. RecordsAreDrawnOnce'
  <2>1. \A x \in Range(accepted) \cup lost : x <= next'
    <3> SUFFICES ASSUME NEW x \in Range(accepted) \cup lost PROVE x <= next'
        BY Zenon
    <3>1. x <= next /\ next \in Nat
          BY Zenon DEF PlacesInv, RecordsAreDrawnOnce, WriterTypeInv
    <3>2. x \in Nat
          BY LostAreRecords, Zenon
    <3> QED
        BY <3>1, <3>2
  <2> QED
      BY <2>1, Zenon DEF PlacesInv, RecordsAreDrawnOnce
<1>3. InFlight' = InFlight
      BY Zenon DEF InFlight
<1>4. RecordsArePlaced'
      BY <1>3, Zenon DEF PlacesInv, RecordsArePlaced
<1>5. PlacesAreOrdered'
      BY <1>3, BeforeUnmoved, Zenon DEF PlacesInv, PlacesAreOrdered
<1>6. BufferIsBounded'
      BY Zenon DEF PlacesInv, BufferIsBounded
<1>7. LossesAreCounted'
      BY Zenon DEF PlacesInv, LossesAreCounted
<1> QED
    BY <1>1, <1>2, <1>4, <1>5, <1>6, <1>7, Zenon DEF PlacesInv

\* An accepted record goes to the end of the queue.
LEMMA PlacesAccept ==
    ASSUME PlacesInv, NEW r \in Records, r \notin Range(accepted) \cup lost,
           Kept' = Kept, accepted' = Append(accepted, r), queue' = Append(queue, r),
           inputs' \in Seq(Records), IsInjective(inputs'), Range(inputs') \cap (Range(accepted) \cup lost) = {},
           r \notin Range(inputs'),
           next' \in Nat, next <= next', r <= next', \A x \in Range(inputs') : x <= next',
           batch' = batch, recent' = recent, recentBytes' = recentBytes,
           queueDrops' = queueDrops, storeDrops' = storeDrops, circuitOpen' = circuitOpen, lost' = lost
    PROVE  PlacesInv'
<1>1. accepted \in Seq(Records) /\ queue \in Seq(Records) /\ IsInjective(accepted) /\ next \in Nat
      BY Zenon DEF PlacesInv, WriterTypeInv, RecordsAreDrawnOnce
<1>2. Range(accepted') = Range(accepted) \cup {r} /\ IsInjective(accepted') /\ Range(queue') = Range(queue) \cup {r}
      BY <1>1, RangeOfAppend, Zenon
<1>3. Range(queue) \subseteq Range(accepted) /\ Kept \subseteq Range(accepted) /\ InFlight \subseteq Range(accepted)
      /\ InFlight' = InFlight \cup {r}
      BY <1>2, Zenon DEF PlacesInv, RecordsArePlaced, InFlight
<1>4. ASSUME NEW a, NEW b, Before(a, b) PROVE Before(a, b)'
  <2>1. PICK i \in DOMAIN accepted, j \in DOMAIN accepted : i < j /\ accepted[i] = a /\ accepted[j] = b
        BY <1>4, Zenon DEF Before
  <2>2. i \in DOMAIN accepted' /\ j \in DOMAIN accepted' /\ accepted'[i] = a /\ accepted'[j] = b
        BY <1>1, <2>1
  <2> QED
      BY <2>1, <2>2, Zenon DEF Before
<1>5. ASSUME NEW a \in Range(accepted) PROVE Before(a, r)'
  <2>1. PICK i \in DOMAIN accepted : accepted[i] = a
        BY Zenon DEF Range
  <2>2. PICK n : n = Len(accepted) + 1
        BY Zenon
  <2>3. i \in DOMAIN accepted' /\ n \in DOMAIN accepted' /\ i < n /\ accepted'[i] = a /\ accepted'[n] = r
        BY <1>1, <2>1, <2>2
  <2> QED
      BY <2>3, Zenon DEF Before
<1>6. WriterTypeInv'
  <2>1. accepted' \in Seq(Records) /\ queue' \in Seq(Records)
        BY <1>1, SMTT(30)
  <2>2. Unbuffered' = Unbuffered /\ BufferState' = BufferState
        BY Zenon DEF Unbuffered, BufferState
  <2> QED
      BY <2>1, <2>2, Zenon DEF PlacesInv, WriterTypeInv
<1>7. RecordsAreDrawnOnce'
  <2>1. \A x \in Range(accepted) \cup lost : x <= next'
    <3> SUFFICES ASSUME NEW x \in Range(accepted) \cup lost PROVE x <= next'
        BY Zenon
    <3>1. x <= next
          BY Zenon DEF PlacesInv, RecordsAreDrawnOnce
    <3>2. x \in Nat
          BY LostAreRecords, SMTT(30)
    <3> QED
        BY <1>1, <3>1, <3>2
  <2> QED
      BY <1>2, <2>1, Zenon DEF PlacesInv, RecordsAreDrawnOnce
<1>8. RecordsArePlaced'
      BY <1>2, <1>3, Zenon DEF PlacesInv, RecordsArePlaced
<1>9. PlacesAreOrdered'
  <2>1. \A a \in Kept', b \in InFlight' : Before(a, b)'
        BY <1>3, <1>4, <1>5, Zenon DEF PlacesInv, PlacesAreOrdered
  <2>2. Range(recent) \subseteq Range(accepted) /\ Range(batch) \subseteq Range(accepted)
        BY <1>3, Zenon DEF InFlight
  <2>3. \A a \in Range(recent'), b \in Range(batch') \cup Range(queue') : Before(a, b)'
    <3> SUFFICES ASSUME NEW a \in Range(recent), NEW b \in Range(batch) \cup Range(queue')
                 PROVE  Before(a, b)'
        BY Zenon
    <3>1. CASE b = r
          BY <1>5, <2>2, <3>1, Zenon
    <3>2. CASE b \in Range(batch) \cup Range(queue)
          BY <1>4, <3>2, Zenon DEF PlacesInv, PlacesAreOrdered
    <3> QED
        BY <1>2, <3>1, <3>2, Zenon
  <2>4. \A a \in Range(batch'), b \in Range(queue') : Before(a, b)'
    <3> SUFFICES ASSUME NEW a \in Range(batch), NEW b \in Range(queue') PROVE Before(a, b)'
        BY Zenon
    <3>1. CASE b = r
          BY <1>5, <2>2, <3>1, Zenon
    <3>2. CASE b \in Range(queue)
          BY <1>4, <3>2, Zenon DEF PlacesInv, PlacesAreOrdered
    <3> QED
        BY <1>2, <3>1, <3>2, Zenon
  <2>5. \A i, j \in DOMAIN queue' : i < j => Before(queue[i], queue[j])'
    <3> SUFFICES ASSUME NEW i \in DOMAIN queue', NEW j \in DOMAIN queue', i < j
                 PROVE  Before(queue[i], queue[j])'
        BY Zenon
    <3>1. i \in DOMAIN queue /\ queue'[i] = queue[i]
          BY <1>1
    <3>2. CASE j \in DOMAIN queue
      <4>1. queue'[j] = queue[j] /\ Before(queue[i], queue[j])
            BY <1>1, <3>1, <3>2 DEF PlacesInv, PlacesAreOrdered
      <4>2. PICK a, b : a = queue[i] /\ b = queue[j]
            BY Zenon
      <4>3. Before(a, b)'
            BY <1>4, <4>1, <4>2, Zenon
      <4> QED
          BY <3>1, <4>1, <4>2, <4>3, Zenon DEF Before
    <3>3. CASE j \notin DOMAIN queue
      <4>1. queue'[j] = r
            BY <1>1, <3>3
      <4>2. PICK a : a = queue[i]
            BY Zenon
      <4>3. a \in Range(accepted)
            BY <1>3, <3>1, <4>2, Zenon DEF Range
      <4>4. Before(a, r)'
            BY <1>5, <4>3, Zenon
      <4> QED
          BY <3>1, <4>1, <4>2, <4>4, Zenon DEF Before
    <3> QED
        BY <3>2, <3>3, Zenon
  <2> QED
      BY <2>1, <2>3, <2>4, <2>5, Zenon DEF PlacesAreOrdered
<1>10. BufferIsBounded'
      BY Zenon DEF PlacesInv, BufferIsBounded
<1>11. LossesAreCounted'
      BY Zenon DEF PlacesInv, LossesAreCounted
<1> QED
    BY <1>6, <1>7, <1>8, <1>9, <1>10, <1>11, Zenon DEF PlacesInv

\* A refused record is counted.
LEMMA PlacesLose ==
    ASSUME PlacesInv, NEW r \in Records, r \notin Range(accepted) \cup lost,
           Kept' = Kept, accepted' = accepted, queue' = queue, lost' = lost \cup {r},
           inputs' \in Seq(Records), IsInjective(inputs'), Range(inputs') \cap (Range(accepted) \cup lost) = {},
           r \notin Range(inputs'),
           next' \in Nat, next <= next', r <= next', \A x \in Range(inputs') : x <= next',
           batch' = batch, recent' = recent, recentBytes' = recentBytes, circuitOpen' = circuitOpen,
           \/ queueDrops' = queueDrops /\ storeDrops' = storeDrops + 1
           \/ queueDrops' = queueDrops + 1 /\ storeDrops' = storeDrops
    PROVE  PlacesInv'
<1>1. queueDrops \in Nat /\ storeDrops \in Nat /\ next \in Nat
      BY Zenon DEF PlacesInv, WriterTypeInv
<1>2. WriterTypeInv'
  <2>1. queueDrops' \in Nat /\ storeDrops' \in Nat
        BY <1>1, SMTT(30)
  <2>2. Unbuffered' = Unbuffered /\ BufferState' = BufferState
        BY SMTT(30) DEF Unbuffered, BufferState
  <2>3. lost' \subseteq Records
        BY SMTT(30) DEF PlacesInv, WriterTypeInv
  <2> QED
      BY <2>1, <2>2, <2>3, Zenon DEF PlacesInv, WriterTypeInv
<1>3. RecordsAreDrawnOnce'
  <2>1. \A x \in Range(accepted) \cup lost : x <= next'
    <3> SUFFICES ASSUME NEW x \in Range(accepted) \cup lost PROVE x <= next'
        BY SMTT(30)
    <3>1. x <= next
          BY SMTT(30) DEF PlacesInv, RecordsAreDrawnOnce
    <3>2. x \in Nat
          BY LostAreRecords, SMTT(30)
    <3> QED
        BY <1>1, <3>1, <3>2, SMTT(30)
  <2> QED
      BY <2>1, Zenon DEF PlacesInv, RecordsAreDrawnOnce
<1>4. InFlight' = InFlight
      BY Zenon DEF InFlight
<1>5. RecordsArePlaced'
      BY <1>4, Zenon DEF PlacesInv, RecordsArePlaced
<1>6. PlacesAreOrdered'
      BY <1>4, BeforeUnmoved, Zenon DEF PlacesInv, PlacesAreOrdered
<1>7. BufferIsBounded'
      BY Zenon DEF PlacesInv, BufferIsBounded
<1>8. LossesAreCounted'
  <2>1. IsFiniteSet(lost') /\ Cardinality(lost') = Cardinality(lost) + 1
        BY FS_AddElement, Zenon DEF PlacesInv, LossesAreCounted
  <2>2. queueDrops' + storeDrops' = queueDrops + storeDrops + 1
        BY <1>1
  <2> QED
      BY <2>1, <2>2, SMTT(30) DEF PlacesInv, LossesAreCounted
<1> QED
    BY <1>2, <1>3, <1>5, <1>6, <1>7, <1>8, Zenon DEF PlacesInv

\* Taking the first record leaves the order of the queue.
LEMMA TailIsOrdered ==
    ASSUME PlacesInv, queue # <<>>
    PROVE  /\ \A b \in Range(Tail(queue)) : Before(Head(queue), b)
           /\ \A i, j \in DOMAIN Tail(queue) : i < j => Before(Tail(queue)[i], Tail(queue)[j])
<1>1. queue \in Seq(Records) /\ Head(queue) = queue[1] /\ 1 \in DOMAIN queue
      BY DEF PlacesInv, WriterTypeInv
<1>2. ASSUME NEW i \in DOMAIN Tail(queue)
      PROVE  i + 1 \in DOMAIN queue /\ Tail(queue)[i] = queue[i + 1] /\ i \in Nat \ {0}
      BY <1>1
<1>3. \A i, j \in DOMAIN queue : i < j => Before(queue[i], queue[j])
      BY Zenon DEF PlacesInv, PlacesAreOrdered
<1>4. ASSUME NEW b \in Range(Tail(queue)) PROVE Before(Head(queue), b)
  <2>1. PICK i \in DOMAIN Tail(queue) : b = Tail(queue)[i]
        BY Zenon DEF Range
  <2>2. 1 < i + 1
        BY <1>2
  <2> QED
      BY <1>1, <1>2, <1>3, <2>1, <2>2, Zenon
<1>5. ASSUME NEW i \in DOMAIN Tail(queue), NEW j \in DOMAIN Tail(queue), i < j
      PROVE  Before(Tail(queue)[i], Tail(queue)[j])
  <2>1. i + 1 < j + 1
        BY <1>2, <1>5
  <2> QED
      BY <1>2, <1>3, <2>1, Zenon
<1> QED
    BY <1>4, <1>5, Zenon

\* Receive moves one record to the batch, and may flush it.
LEMMA ReceivePlaces == ASSUME PlacesInv, Receive, UNCHANGED pathVars PROVE PlacesInv'
<1>1. queue \in Seq(Records) /\ batch \in Seq(Records) /\ IsInjective(batch) /\ IsInjective(queue)
      /\ Range(queue) \cap Range(batch) = {} /\ queue # <<>>
      BY PlacesAreDisjoint, Zenon DEF PlacesInv, WriterTypeInv, RecordsArePlaced, Receive
<1>2. PICK h, t, filled : h = Head(queue) /\ t = Tail(queue) /\ filled = Append(batch, h)
      BY Zenon
<1>3. h \in Records /\ t \in Seq(Records) /\ Range(queue) = {h} \cup Range(t)
      BY <1>1, <1>2, RangeOfTail, Zenon
<1>4. filled \in Seq(Records) /\ Range(filled) = Range(batch) \cup {h} /\ IsInjective(filled)
  <2>1. h \notin Range(batch)
        BY <1>1, <1>3, Zenon
  <2>2. /\ Append(batch, h) \in Seq(Records) /\ Range(Append(batch, h)) = Range(batch) \cup {h}
        /\ IsInjective(batch) /\ h \notin Range(batch) => IsInjective(Append(batch, h))
        BY <1>1, <1>3, RangeOfAppend
  <2> QED
      BY <1>1, <1>2, <2>1, <2>2, Zenon
<1>5. Range(t) \cup Range(filled) = Range(queue) \cup Range(batch)
      BY <1>3, <1>4, Zenon
<1>6. \A a \in Range(filled), b \in Range(t) : Before(a, b)
      BY <1>1, <1>2, <1>3, <1>4, TailIsOrdered, Zenon DEF PlacesInv, PlacesAreOrdered
<1>7. \A i, j \in DOMAIN t : i < j => Before(t[i], t[j])
      BY <1>1, <1>2, TailIsOrdered, Zenon
<1>8. Unmoved /\ queue' = t /\ queueDrops' = queueDrops
      BY <1>2, Zenon DEF Receive, pathVars, Unmoved
<1>9. CASE flush(filled) /\ batch' = <<>>
      BY <1>3, <1>4, <1>5, <1>6, <1>7, <1>8, <1>9, PlacesFlush, Zenon
<1>10. CASE batch' = filled /\ UNCHANGED <<recent, recentBytes, storeDrops, lost, circuitOpen, storeVars>>
  <2>1. /\ recent' = recent /\ recentBytes' = recentBytes /\ storeDrops' = storeDrops /\ lost' = lost
        /\ circuitOpen' = circuitOpen /\ Kept' = Kept /\ batch' = filled
        BY <1>10, Zenon DEF storeVars, Kept
  <2> QED
      BY <1>3, <1>4, <1>5, <1>6, <1>7, <1>8, <2>1, PlacesShift, Zenon
<1> QED
    BY <1>2, <1>9, <1>10, Zenon DEF Receive

\* The batch as it is, flushed while the queue rests.
LEMMA BatchPlaces ==
    ASSUME PlacesInv, flush(batch), batch' = <<>>, queue' = queue, queueDrops' = queueDrops, Unmoved
    PROVE  PlacesInv'
<1>1. queue \in Seq(Records) /\ batch \in Seq(Records) /\ IsInjective(batch)
      BY Zenon DEF PlacesInv, WriterTypeInv, RecordsArePlaced
<1>2. /\ \A a \in Range(batch), b \in Range(queue) : Before(a, b)
      /\ \A i, j \in DOMAIN queue : i < j => Before(queue[i], queue[j])
      BY Zenon DEF PlacesInv, PlacesAreOrdered
<1>3. Range(queue) \cup Range(batch) = Range(queue) \cup Range(batch)
      BY Zenon
<1> QED
    BY <1>1, <1>2, <1>3, PlacesFlush, Zenon

\* Drain moves the whole queue to the batch.
LEMMA DrainPlaces == ASSUME PlacesInv, Drain, UNCHANGED pathVars PROVE PlacesInv'
<1>1. queue \in Seq(Records) /\ batch \in Seq(Records) /\ IsInjective(batch) /\ IsInjective(queue)
      /\ Range(queue) \cap Range(batch) = {}
      BY PlacesAreDisjoint, Zenon DEF PlacesInv, WriterTypeInv, RecordsArePlaced
<1>2. /\ batch' = batch \o queue /\ queue' = <<>> /\ Unmoved /\ Kept' = Kept
      /\ recent' = recent /\ recentBytes' = recentBytes /\ queueDrops' = queueDrops
      /\ storeDrops' = storeDrops /\ lost' = lost /\ circuitOpen' = circuitOpen
      BY Zenon DEF Drain, pathVars, storeVars, Unmoved, Kept
<1>3. batch' \in Seq(Records) /\ Range(batch') = Range(batch) \cup Range(queue) /\ IsInjective(batch')
      BY <1>1, <1>2, RangeOfConcat
<1>4. queue' \in Seq(Records) /\ Range(queue') = {} /\ DOMAIN queue' = {}
      BY <1>2 DEF Range
<1>5. Range(queue') \cup Range(batch') = Range(queue) \cup Range(batch)
      BY <1>3, <1>4, Zenon
<1>6. \A a \in Range(batch'), b \in Range(queue') : Before(a, b)
      BY <1>4, Zenon
<1>7. \A i, j \in DOMAIN queue' : i < j => Before(queue'[i], queue'[j])
      BY <1>4, Zenon
<1> QED
    BY <1>2, <1>3, <1>4, <1>5, <1>6, <1>7, PlacesShift, Zenon

\* Every step of the writer's goroutine keeps the places.
LEMMA WorkerPlaces == ASSUME PlacesInv, WorkerStep PROVE PlacesInv'
<1>1. CASE Receive
      BY <1>1, ReceivePlaces, Zenon DEF WorkerStep
<1>2. CASE FlushTick
  <2>1. flush(batch) /\ batch' = <<>> /\ queue' = queue /\ queueDrops' = queueDrops /\ Unmoved
        BY <1>2, Zenon DEF FlushTick, WorkerStep, pathVars, Unmoved
  <2> QED
      BY <2>1, BatchPlaces, Zenon
<1>3. CASE RetryTick
  <2>1. /\ probe /\ queue' = queue /\ batch' = batch /\ queueDrops' = queueDrops
        /\ storeDrops' = storeDrops /\ lost' = lost /\ Unmoved
        BY <1>3, Zenon DEF RetryTick, WorkerStep, pathVars, Unmoved
  <2> QED
      BY <2>1, PlacesProbe, Zenon
<1>4. CASE Drain
      BY <1>4, DrainPlaces, Zenon DEF WorkerStep
<1>5. CASE LastProbe
  <2>1. /\ queue' = queue /\ batch' = batch /\ queueDrops' = queueDrops
        /\ storeDrops' = storeDrops /\ lost' = lost /\ Unmoved
        BY <1>5, Zenon DEF LastProbe, WorkerStep, pathVars, Unmoved
  <2>2. CASE probe
        BY <2>1, <2>2, PlacesProbe, Zenon
  <2>3. CASE UNCHANGED <<recent, recentBytes, circuitOpen, storeVars>>
    <3>1. recent' = recent /\ recentBytes' = recentBytes /\ circuitOpen' = circuitOpen /\ Kept' = Kept
          BY <2>3, Zenon DEF storeVars, Kept
    <3> QED
        BY <2>1, <3>1, PlacesFrame, Zenon
  <2> QED
      BY <1>5, <2>2, <2>3, Zenon DEF LastProbe
<1>6. CASE LastFlush
  <2>1. batch' = <<>> /\ queue' = queue /\ queueDrops' = queueDrops /\ Unmoved
        BY <1>6, Zenon DEF LastFlush, WorkerStep, pathVars, Unmoved
  <2>2. CASE flush(batch)
        BY <2>1, <2>2, BatchPlaces, Zenon
  <2>3. CASE batch = <<>> /\ UNCHANGED <<recent, recentBytes, storeDrops, lost, circuitOpen, storeVars>>
    <3>1. /\ recent' = recent /\ recentBytes' = recentBytes /\ circuitOpen' = circuitOpen /\ Kept' = Kept
          /\ storeDrops' = storeDrops /\ lost' = lost /\ batch' = batch
          BY <2>1, <2>3, Zenon DEF storeVars, Kept
    <3> QED
        BY <2>1, <3>1, PlacesFrame, Zenon
  <2> QED
      BY <1>6, <2>2, <2>3, Zenon DEF LastFlush
<1> QED
    BY <1>1, <1>2, <1>3, <1>4, <1>5, <1>6, Zenon DEF WorkerStep, Worker

\* Submit takes a record that was never seen.
LEMMA SubmitPlaces ==
    ASSUME PlacesInv, NEW r \in Records, r \notin Range(accepted) \cup lost, Submit(r), Kept' = Kept,
           inputs' \in Seq(Records), IsInjective(inputs'), Range(inputs') \cap (Range(accepted) \cup lost) = {},
           r \notin Range(inputs'),
           next' \in Nat, next <= next', r <= next', \A x \in Range(inputs') : x <= next'
    PROVE  PlacesInv'
<1>1. /\ batch' = batch /\ recent' = recent /\ recentBytes' = recentBytes /\ circuitOpen' = circuitOpen
      BY SMTT(30) DEF Submit
<1>2. \/ /\ queue' = queue /\ queueDrops' = queueDrops /\ storeDrops' = storeDrops
         /\ accepted' = accepted /\ lost' = lost
      \/ /\ queue' = queue /\ queueDrops' = queueDrops /\ storeDrops' = storeDrops + 1
         /\ accepted' = accepted /\ lost' = lost \cup {r}
      \/ /\ queue' = Append(queue, r) /\ queueDrops' = queueDrops /\ storeDrops' = storeDrops
         /\ accepted' = Append(accepted, r) /\ lost' = lost
      \/ /\ queue' = queue /\ queueDrops' = queueDrops + 1 /\ storeDrops' = storeDrops
         /\ accepted' = accepted /\ lost' = lost \cup {r}
      BY Zenon DEF Submit
<1>3. CASE /\ queue' = queue /\ queueDrops' = queueDrops /\ storeDrops' = storeDrops
           /\ accepted' = accepted /\ lost' = lost
      BY <1>1, <1>3, PlacesInputs, Zenon
<1>4. CASE /\ queue' = Append(queue, r) /\ queueDrops' = queueDrops /\ storeDrops' = storeDrops
           /\ accepted' = Append(accepted, r) /\ lost' = lost
      BY <1>1, <1>4, PlacesAccept, Zenon
<1>5. CASE /\ queue' = queue /\ accepted' = accepted /\ lost' = lost \cup {r}
           /\ \/ queueDrops' = queueDrops /\ storeDrops' = storeDrops + 1
              \/ queueDrops' = queueDrops + 1 /\ storeDrops' = storeDrops
      BY <1>1, <1>5, PlacesLose, Zenon
<1> QED
    BY <1>2, <1>3, <1>4, <1>5, Zenon

\* What was submitted before stays known, and the record is known from now on
\* unless the writer is closing.
LEMMA SubmitGrows ==
    ASSUME PlacesInv, NEW r \in Records, Submit(r)
    PROVE  /\ Range(accepted) \cup lost \subseteq (Range(accepted) \cup lost)'
           /\ ~writerClosing => r \in (Range(accepted) \cup lost)'
<1>1. accepted \in Seq(Records)
      BY Zenon DEF PlacesInv, WriterTypeInv
<1>2. Range(Append(accepted, r)) = Range(accepted) \cup {r}
      BY <1>1, RangeOfAppend
<1>3. \/ writerClosing /\ accepted' = accepted /\ lost' = lost
      \/ accepted' = accepted /\ lost' = lost \cup {r}
      \/ accepted' = Append(accepted, r) /\ lost' = lost
      BY Zenon DEF Submit
<1> QED
    BY <1>2, <1>3, Zenon

\* A new record differs from all that were seen.
LEMMA NewRecordIsNew ==
    ASSUME PlacesInv, NewRecord
    PROVE  /\ next' \in Records /\ next' \in Nat /\ next <= next' /\ next' \notin Range(accepted) \cup lost \cup Range(inputs)
           /\ \A x \in Range(inputs) : x <= next'
<1>1. next \in Nat /\ next' = next + 1 /\ next' \in Records
      BY Zenon DEF PlacesInv, WriterTypeInv, NewRecord
<1>2. ASSUME NEW x \in Range(accepted) \cup lost \cup Range(inputs) PROVE x < next'
  <2>1. x \in Nat
        BY LostAreRecords, Zenon
  <2>2. x <= next
        BY Zenon DEF PlacesInv, RecordsAreDrawnOnce
  <2> QED
      BY <1>1, <2>1, <2>2
<1>3. next' \notin Range(accepted) \cup lost \cup Range(inputs)
      BY <1>1, <1>2
<1>4. ASSUME NEW x \in Range(inputs) PROVE x <= next'
  <2>1. x \in Nat /\ x < next'
        BY <1>2, LostAreRecords, Zenon
  <2> QED
      BY <1>1, <2>1
<1> QED
    BY <1>1, <1>3, <1>4

\* RuntimePipeline.submit leaves the writer alone.
LEMMA SubmitInputPlaces == ASSUME PlacesInv, SubmitInput PROVE PlacesInv'
<1>1. /\ Kept' = Kept /\ accepted' = accepted /\ queue' = queue /\ batch' = batch /\ recent' = recent
      /\ recentBytes' = recentBytes /\ queueDrops' = queueDrops /\ storeDrops' = storeDrops
      /\ circuitOpen' = circuitOpen /\ lost' = lost
      BY Zenon DEF SubmitInput, storeVars, writerVars, Kept
<1>2. /\ next' \in Records /\ next' \in Nat /\ next <= next' /\ next' \notin Range(accepted) \cup lost \cup Range(inputs)
      /\ \A x \in Range(inputs) : x <= next'
      BY NewRecordIsNew, Zenon DEF SubmitInput
<1>3. inputs \in Seq(Records) /\ IsInjective(inputs) /\ Range(inputs) \cap (Range(accepted) \cup lost) = {}
      BY Zenon DEF PlacesInv, WriterTypeInv, RecordsAreDrawnOnce
<1>4. CASE inputs' = inputs
      BY <1>1, <1>2, <1>3, <1>4, PlacesInputs, Zenon
<1>5. CASE inputs' = Append(inputs, next')
  <2>1. inputs' \in Seq(Records) /\ Range(inputs') = Range(inputs) \cup {next'} /\ IsInjective(inputs')
        BY <1>2, <1>3, <1>5, RangeOfAppend
  <2>2. Range(inputs') \cap (Range(accepted) \cup lost) = {}
        BY <1>2, <1>3, <2>1, Zenon
  <2>3. \A x \in Range(inputs') : x <= next'
        BY <1>2, <2>1
  <2> QED
      BY <1>1, <1>2, <2>1, <2>2, <2>3, PlacesInputs, Zenon
<1> QED
    BY <1>4, <1>5, Zenon DEF SubmitInput

\* RunChanged submits a new record.
LEMMA RunChangedPlaces == ASSUME PlacesInv, RunChangedRecord PROVE PlacesInv'
<1>1. Kept' = Kept /\ inputs' = inputs /\ Submit(next')
      BY Zenon DEF RunChangedRecord, storeVars, Kept
<1>2. /\ next' \in Records /\ next' \in Nat /\ next <= next' /\ next' \notin Range(accepted) \cup lost \cup Range(inputs)
      /\ \A x \in Range(inputs) : x <= next'
      BY NewRecordIsNew, Zenon DEF RunChangedRecord
<1>3. inputs \in Seq(Records) /\ IsInjective(inputs) /\ Range(inputs) \cap (Range(accepted) \cup lost) = {}
      BY Zenon DEF PlacesInv, WriterTypeInv, RecordsAreDrawnOnce
<1>4. next' <= next'
      BY <1>2
<1> QED
    BY <1>1, <1>2, <1>3, <1>4, SubmitPlaces, Zenon

\* emit submits the oldest input, or drops it.
LEMMA EmitSubmitPlaces == ASSUME PlacesInv, EmitSubmit PROVE PlacesInv'
<1>1. Kept' = Kept /\ next' = next /\ inputs' = Tail(inputs) /\ inputs # <<>>
      BY Zenon DEF EmitSubmit, storeVars, Kept
<1>2. inputs \in Seq(Records) /\ IsInjective(inputs) /\ next \in Nat
      BY Zenon DEF PlacesInv, WriterTypeInv, RecordsAreDrawnOnce
<1>3. PICK r : r = Head(inputs)
      BY Zenon
<1>4. r \in Records /\ inputs' \in Seq(Records) /\ Range(inputs) = {r} \cup Range(inputs')
      /\ IsInjective(inputs') /\ r \notin Range(inputs')
  <2>1. /\ Head(inputs) \in Records /\ Tail(inputs) \in Seq(Records)
        /\ Range(inputs) = {Head(inputs)} \cup Range(Tail(inputs))
        /\ IsInjective(inputs) => IsInjective(Tail(inputs)) /\ Head(inputs) \notin Range(Tail(inputs))
        BY <1>1, <1>2, RangeOfTail, Zenon
  <2> QED
      BY <1>1, <1>2, <1>3, <2>1, Zenon
<1>5. /\ r \notin Range(accepted) \cup lost /\ Range(inputs') \cap (Range(accepted) \cup lost) = {}
      /\ r <= next /\ \A x \in Range(inputs') : x <= next
      BY <1>4, Zenon DEF PlacesInv, RecordsAreDrawnOnce
<1>6. next <= next'
      BY <1>1, <1>2
<1>7. CASE Submit(r)
      BY <1>1, <1>2, <1>4, <1>5, <1>6, <1>7, SubmitPlaces, Zenon
<1>8. CASE UNCHANGED writerVars
  <2>1. /\ accepted' = accepted /\ queue' = queue /\ batch' = batch /\ recent' = recent
        /\ recentBytes' = recentBytes /\ queueDrops' = queueDrops /\ storeDrops' = storeDrops
        /\ circuitOpen' = circuitOpen /\ lost' = lost
        BY <1>8, Zenon DEF writerVars
  <2> QED
      BY <1>1, <1>2, <1>4, <1>5, <1>6, <2>1, PlacesInputs, Zenon
<1> QED
    BY <1>3, <1>7, <1>8, Zenon DEF EmitSubmit

\* The maintenance at Close moves rows to pruned, no further.
LEMMA CloseDatabasePlaces == ASSUME PlacesInv, CloseDatabase PROVE PlacesInv'
<1>1. /\ Unmoved /\ queue' = queue /\ batch' = batch /\ recent' = recent
      /\ recentBytes' = recentBytes /\ queueDrops' = queueDrops /\ storeDrops' = storeDrops
      /\ circuitOpen' = circuitOpen /\ lost' = lost
      BY Zenon DEF CloseDatabase, writerVars, Unmoved
<1>2. PICK p \in pruneLocked(rows) : rows' = p.rows /\ pruned' = pruned \cup (rows \ p.rows)
      BY Zenon DEF CloseDatabase, CloseSQLite
<1>3. p.rows \subseteq rows
      BY PruneKeepsRows, Zenon
<1>4. Kept' = Kept
      BY <1>2, <1>3, Zenon DEF Kept
<1> QED
    BY <1>1, <1>4, PlacesFrame, Zenon

\* Every step keeps the places.
LEMMA PlacesStep == ASSUME PlacesInv, [EvidenceNext]_evidenceVars PROVE PlacesInv'
<1>1. CASE EmitPublish \/ ClosePipeline \/ PipelineClosed \/ CloseHub \/ CloseWriter \/ WriterClosed
           \/ StorageStep \/ UNCHANGED evidenceVars
  <2>1. /\ Unmoved /\ queue' = queue /\ batch' = batch /\ recent' = recent
        /\ recentBytes' = recentBytes /\ queueDrops' = queueDrops /\ storeDrops' = storeDrops
        /\ circuitOpen' = circuitOpen /\ lost' = lost
        BY <1>1, SMTT(30) DEF EmitPublish, ClosePipeline, PipelineClosed, CloseHub, CloseWriter, WriterClosed,
               StorageStep, StorageFails, StorageRecovers, BeginClose, evidenceVars, writerVars, pathVars, Unmoved
  <2>2. Kept' = Kept
        BY <1>1, SMTT(30) DEF EmitPublish, ClosePipeline, PipelineClosed, CloseHub, CloseWriter, WriterClosed,
               StorageStep, StorageFails, StorageRecovers, evidenceVars, storeVars, Kept
  <2> QED
      BY <2>1, <2>2, PlacesFrame, Zenon
<1> QED
    BY <1>1, SubmitInputPlaces, RunChangedPlaces, EmitSubmitPlaces, CloseDatabasePlaces, WorkerPlaces, Zenon
    DEF EvidenceNext, ShutdownStep

-----------------------------------------------------------------------------
(* The shutdown. *)

\* The goroutine's steps and the shutdown.
LEMMA WorkerShutdown == ASSUME PathInv, WorkerStep PROVE ShutdownInv' /\ StreamInv'
<1>1. /\ core' = core /\ inputs' = inputs /\ emitting' = emitting /\ pipeClosing' = pipeClosing
      /\ hubClosed' = hubClosed /\ failed' = failed /\ published' = published
      BY SMTT(30) DEF WorkerStep, pathVars
<1>2. writerClosing' = writerClosing /\ accepted' = accepted
      BY SMTT(30) DEF WorkerStep, Worker, Receive, FlushTick, RetryTick, Drain, LastProbe, LastFlush
<1>3. lost \subseteq lost'
  <2>1. \A s : flush(s) => lost \subseteq lost'
        BY Zenon DEF flush, buffer
  <2> QED
      BY <2>1, SMTT(30) DEF WorkerStep, Worker, Receive, FlushTick, RetryTick, Drain, LastProbe, LastFlush
<1>4. StreamInv'
      BY <1>1, <1>2, <1>3, Zenon DEF PathInv, StreamInv
<1>5. ShutdownInv'
  <2>1. CASE Receive \/ FlushTick \/ RetryTick
    <3>1. writerPhase = "run" /\ writerPhase' = "run" /\ closeErr' = closeErr
          BY <2>1, Zenon DEF Receive, FlushTick, RetryTick
    <3> QED
        BY <1>1, <1>2, <3>1, Zenon DEF PathInv, ShutdownInv
  <2>2. CASE Drain
    <3>1. writerPhase = "run" /\ writerPhase' = "probe" /\ queue' = <<>> /\ writerClosing /\ closeErr' = closeErr
          BY <2>2, SMTT(30) DEF Drain
    <3> QED
        BY <1>1, <1>2, <3>1, Zenon DEF PathInv, ShutdownInv
  <2>3. CASE LastProbe
    <3>1. writerPhase = "probe" /\ writerPhase' = "flush" /\ queue' = queue /\ closeErr' = closeErr
          BY <2>3, SMTT(30) DEF LastProbe
    <3> QED
        BY <1>1, <1>2, <3>1, Zenon DEF PathInv, ShutdownInv
  <2>4. CASE LastFlush
    <3>1. /\ writerPhase = "flush" /\ writerPhase' = "done" /\ queue' = queue /\ batch' = <<>>
          /\ closeErr' = (recent' # <<>>)
          BY <2>4, Zenon DEF LastFlush
    <3> QED
        BY <1>1, <1>2, <3>1, Zenon DEF PathInv, ShutdownInv
  <2> QED
      BY <2>1, <2>2, <2>3, <2>4, SMTT(30) DEF WorkerStep, Worker
<1> QED
    BY <1>4, <1>5, Zenon

\* Submit and the shutdown: a record refused by a closing writer is not published.
LEMMA SubmitShutdown ==
    ASSUME PathInv, NEW r \in Records, Submit(r), core' = core, pipeClosing' = pipeClosing,
           hubClosed' = hubClosed, failed' = failed, published' = published,
           \/ inputs' = inputs /\ emitting' = emitting
           \/ inputs # <<>> /\ emitting' = r
    PROVE  ShutdownInv' /\ StreamInv'
<1>1. /\ batch' = batch /\ recent' = recent /\ writerClosing' = writerClosing /\ writerPhase' = writerPhase
      /\ closeErr' = closeErr /\ (queue' = queue \/ ~writerClosing)
      BY Zenon DEF Submit
<1>2. ShutdownInv'
      BY <1>1, Zenon DEF PathInv, ShutdownInv
<1>3. /\ Range(accepted) \cup lost \subseteq (Range(accepted) \cup lost)'
      /\ ~writerClosing => r \in (Range(accepted) \cup lost)'
      BY SubmitGrows, Zenon DEF PathInv
<1>4. ~hubClosed => ~writerClosing
      BY Zenon DEF PathInv, ShutdownInv
<1>5. StreamInv'
      BY <1>3, <1>4, Zenon DEF PathInv, StreamInv
<1> QED
    BY <1>2, <1>5, SMTT(30)

\* Every step keeps the inductive invariant.
LEMMA PathStep == ASSUME PathInv, [EvidenceNext]_evidenceVars PROVE PathInv'
<1>1. PlacesInv'
      BY PlacesStep, Zenon DEF PathInv
<1>2. CASE SubmitInput
  <2>1. /\ UNCHANGED <<storeVars, writerVars, pipeClosing, emitting, hubClosed, published, core, failed>>
        /\ pipeClosing => inputs' = inputs
        BY <1>2, SMTT(30) DEF SubmitInput
  <2>2. ShutdownInv'
        BY <2>1, Zenon DEF PathInv, ShutdownInv, writerVars
  <2>3. StreamInv'
        BY <2>1, Zenon DEF PathInv, StreamInv, writerVars
  <2> QED
      BY <1>1, <2>2, <2>3, Zenon DEF PathInv
<1>3. CASE RunChangedRecord
  <2>1. /\ Submit(next') /\ inputs' = inputs /\ emitting' = emitting /\ core' = core /\ pipeClosing' = pipeClosing
        /\ hubClosed' = hubClosed /\ failed' = failed /\ published' = published
        BY <1>3, Zenon DEF RunChangedRecord
  <2>2. PICK r : r = next'
        BY Zenon
  <2>3. r \in Records /\ Submit(r)
        BY <1>3, <2>1, <2>2, Zenon DEF RunChangedRecord, NewRecord
  <2> QED
      BY <1>1, <2>1, <2>3, SubmitShutdown, Zenon DEF PathInv
<1>4. CASE EmitSubmit
  <2>1. /\ inputs # <<>> /\ inputs' = Tail(inputs) /\ emitting = NoRecord /\ core' = core /\ pipeClosing' = pipeClosing
        /\ hubClosed' = hubClosed /\ failed' = failed /\ published' = published
        BY <1>4, Zenon DEF EmitSubmit
  <2>2. PICK r : r = Head(inputs)
        BY Zenon
  <2>3. r \in Records
        BY <2>1, <2>2 DEF PathInv, PlacesInv, WriterTypeInv
  <2>4. CASE Submit(r) /\ emitting' = r
        BY <1>1, <2>1, <2>3, <2>4, SubmitShutdown, Zenon DEF PathInv
  <2>5. CASE UNCHANGED <<writerVars, emitting>>
    <3>1. ShutdownInv'
          BY <2>1, <2>5, Zenon DEF PathInv, ShutdownInv, writerVars
    <3>2. StreamInv'
          BY <2>1, <2>5, SMTT(30) DEF PathInv, StreamInv, writerVars
    <3> QED
        BY <1>1, <3>1, <3>2, Zenon DEF PathInv
  <2> QED
      BY <1>4, <2>2, <2>4, <2>5, Zenon DEF EmitSubmit
<1>5. CASE EmitPublish
  <2>1. ShutdownInv'
        BY <1>5, SMTT(30) DEF PathInv, ShutdownInv, EmitPublish, writerVars
  <2>2. StreamInv'
        BY <1>5, Zenon DEF PathInv, StreamInv, ShutdownInv, EmitPublish, writerVars
  <2> QED
      BY <1>1, <2>1, <2>2, Zenon DEF PathInv
<1>6. CASE ClosePipeline \/ PipelineClosed \/ CloseHub
  <2>1. ShutdownInv'
    <3>1. CASE ClosePipeline
          BY <1>6, <3>1, SMTT(30) DEF PathInv, ShutdownInv, ClosePipeline, writerVars
    <3>2. CASE PipelineClosed
      <4>1. failed' \in BOOLEAN /\ (~failed' => inputs = <<>> /\ emitting = NoRecord)
            BY <3>2, Zenon DEF PipelineClosed, PathInv, ShutdownInv
      <4>2. /\ core = "pipeline" /\ core' = "hub"
            /\ UNCHANGED <<writerVars, inputs, pipeClosing, emitting, hubClosed>>
            BY <3>2, SMTT(30) DEF PipelineClosed
      <4> QED
          BY <4>1, <4>2, Zenon DEF PathInv, ShutdownInv, writerVars
    <3>3. CASE CloseHub
          BY <1>6, <3>3, SMTT(30) DEF PathInv, ShutdownInv, CloseHub, writerVars
    <3> QED
        BY <1>6, <3>1, <3>2, <3>3, SMTT(30)
  <2>2. StreamInv'
        BY <1>6, SMTT(30) DEF PathInv, StreamInv, ShutdownInv, ClosePipeline, PipelineClosed, CloseHub, writerVars
  <2> QED
      BY <1>1, <2>1, <2>2, Zenon DEF PathInv
<1>7. CASE CloseWriter
  <2>1. ShutdownInv'
        BY <1>7, Zenon DEF PathInv, ShutdownInv, CloseWriter, BeginClose
  <2>2. StreamInv'
        BY <1>7, Zenon DEF PathInv, StreamInv, CloseWriter, BeginClose
  <2> QED
      BY <1>1, <2>1, <2>2, Zenon DEF PathInv
<1>8. CASE WriterClosed \/ CloseDatabase
  <2>1. ShutdownInv'
    <3>1. CASE WriterClosed
      <4>1. failed' \in BOOLEAN /\ (~failed' => writerPhase = "done" /\ ~closeErr /\ ~failed)
            BY <3>1, Zenon DEF WriterClosed, PathInv, ShutdownInv
      <4>2. /\ core = "wait" /\ core' = "database"
            /\ UNCHANGED <<writerVars, inputs, pipeClosing, emitting, hubClosed>>
            BY <3>1, SMTT(30) DEF WriterClosed
      <4> QED
          BY <4>1, <4>2, Zenon DEF PathInv, ShutdownInv, writerVars
    <3>2. CASE CloseDatabase
      <4>1. failed' \in BOOLEAN /\ (~failed' => ~failed)
            BY <3>2, Zenon DEF CloseDatabase, PathInv, ShutdownInv
      <4>2. /\ core = "database" /\ core' = "closed"
            /\ UNCHANGED <<writerVars, inputs, pipeClosing, emitting, hubClosed>>
            BY <3>2, SMTT(30) DEF CloseDatabase
      <4> QED
          BY <4>1, <4>2, Zenon DEF PathInv, ShutdownInv, writerVars
    <3> QED
        BY <1>8, <3>1, <3>2, SMTT(30)
  <2>2. StreamInv'
        BY <1>8, Zenon DEF PathInv, StreamInv, WriterClosed, CloseDatabase, writerVars
  <2> QED
      BY <1>1, <2>1, <2>2, Zenon DEF PathInv
<1>9. CASE WorkerStep
      BY <1>1, <1>9, WorkerShutdown, Zenon DEF PathInv
<1>10. CASE StorageStep \/ UNCHANGED evidenceVars
  <2>1. UNCHANGED <<writerVars, pathVars>>
        BY <1>10, SMTT(30) DEF StorageStep, evidenceVars
  <2>2. ShutdownInv'
        BY <2>1, Zenon DEF PathInv, ShutdownInv, writerVars, pathVars
  <2>3. StreamInv'
        BY <2>1, Zenon DEF PathInv, StreamInv, writerVars, pathVars
  <2> QED
      BY <1>1, <2>2, <2>3, Zenon DEF PathInv
<1> QED
    BY <1>2, <1>3, <1>4, <1>5, <1>6, <1>7, <1>8, <1>9, <1>10, Zenon DEF EvidenceNext, ShutdownStep

\* A new writer, pipeline and hub satisfy it.
LEMMA PathInit == EvidenceInit => PathInv
<1> SUFFICES ASSUME EvidenceInit PROVE PathInv
    BY Zenon
<1>1. /\ rows = {} /\ pruned = {} /\ queue = <<>> /\ batch = <<>> /\ recent = <<>> /\ recentBytes = 0
      /\ accepted = <<>> /\ inputs = <<>> /\ lost = {} /\ queueDrops = 0 /\ storeDrops = 0 /\ next = 0
      /\ circuitOpen = FALSE
      BY Zenon DEF EvidenceInit, OpenSQLite, NewWriter
<1>2. Range(<<>>) = {} /\ IsInjective(<<>>) /\ DOMAIN <<>> = {} /\ Len(<<>>) = 0
      BY DEF Range, IsInjective
<1>3. InFlight = {} /\ Kept = {}
      BY <1>1, <1>2, Zenon DEF InFlight, Kept
<1>4. WriterTypeInv
  <2>1. Unbuffered \in BufferState
        BY <1>1 DEF Unbuffered, BufferState
  <2>2. queue \in Seq(Records) /\ batch \in Seq(Records) /\ accepted \in Seq(Records) /\ inputs \in Seq(Records)
        BY <1>1
  <2>3. queueDrops \in Nat /\ storeDrops \in Nat /\ next \in Nat /\ lost \subseteq Records
        BY <1>1, Zenon
  <2>4. circuitOpen \in BOOLEAN
        BY <1>1, Zenon
  <2> QED
      BY <2>1, <2>2, <2>3, <2>4, Zenon DEF WriterTypeInv
<1>5. RecordsAreDrawnOnce
      BY <1>1, <1>2, Zenon DEF RecordsAreDrawnOnce
<1>6. RecordsArePlaced
      BY <1>1, <1>2, <1>3, SMTT(30) DEF RecordsArePlaced
<1>7. PlacesAreOrdered
      BY <1>1, <1>2, <1>3, SMTT(30) DEF PlacesAreOrdered
<1>8. BufferIsBounded
      BY <1>1, <1>2, BytesOfNone, WriterAssumption, SMTT(30) DEF BufferIsBounded
<1>9. LossesAreCounted
      BY <1>1, FS_EmptySet DEF LossesAreCounted
<1>10. ShutdownInv
      BY Zenon DEF EvidenceInit, NewWriter, ShutdownInv
<1>11. StreamInv
      BY Zenon DEF EvidenceInit, StreamInv
<1> QED
    BY <1>4, <1>5, <1>6, <1>7, <1>8, <1>9, <1>10, <1>11, SMTT(30) DEF PathInv, PlacesInv

\* The invariant above holds on the way of the evidence through the Core, for any
\* set of records and any capacities.
THEOREM PathInvariance == EvidenceSpec => []PathInv
BY PathInit, PathStep, PTL DEF EvidenceSpec

\* No accepted record disappears between Submit and the database: each is in one
\* place or counted as lost, once.
THEOREM EvidenceIsBalanced == EvidenceSpec => []EvidenceBalance
BY PathInvariance, PathInvBalance, PTL

\* A record never reaches the database before one accepted earlier that still
\* waits, whatever the storage does.
THEOREM EvidenceKeepsOrder == EvidenceSpec => []NoOvertaking
BY PathInvariance, PathInvOrder, PTL

\* Quiet diagnostics mean that nothing is lost or left in the recent buffer.
THEOREM QuietIsTrue == EvidenceSpec => []QuietMeansStored
BY PathInvariance, PathInvQuiet, PTL

\* serveManaged without an error has stored or counted every accepted record.
THEOREM CleanExitsLoseNothing == EvidenceSpec => []CleanExitLosesNothing
BY PathInvariance, PathInvExit, PTL
=============================================================================
