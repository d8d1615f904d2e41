---------------------------- MODULE FoldTheorems ----------------------------
(***************************************************************************)
(* Folds over finite sets and over sequences: that they exist, what they   *)
(* are at the next element, that they stay in a set that each step stays   *)
(* in, and how sums move.  The library's induction theorems take an        *)
(* operator, which the provers here cannot instantiate; these are          *)
(* inductions over sets of natural numbers, and the steps of a fold are    *)
(* functions.                                                              *)
(***************************************************************************)
EXTENDS Integers, Sequences, FiniteSets, SequencesExt, FiniteSetsExt, Selection,
        FiniteSetTheorems, SequenceTheorems, WellFoundedInduction, TLAPS

\* A set of natural numbers that is not empty has a least element.
LEMMA LeastNat ==
  ASSUME NEW T \in SUBSET Nat, T # {}
  PROVE  \E n \in T : \A m \in T : n <= m
<1>1. PICK n \in T : \A m \in T : ~(<<m, n>> \in OpToRel(<, Nat))
  BY WFMin, NatLessThanWellFounded
<1>2. \A m \in T : ~(m < n)
  BY <1>1 DEF OpToRel
<1>. QED  BY <1>2

\* A set that holds 0 and the successor of each of its elements holds every
\* natural number.
LEMMA AllNat ==
  ASSUME NEW U, 0 \in U, \A n \in Nat : n \in U => n + 1 \in U
  PROVE  Nat \subseteq U
<1>. SUFFICES ASSUME NEW k \in Nat, k \notin U PROVE FALSE
  OBVIOUS
<1>1. PICK n \in Nat \ U : \A m \in Nat \ U : n <= m
  BY LeastNat
<1>2. n # 0 /\ n - 1 \in Nat
  BY <1>1
<1>. QED  BY <1>1, <1>2

LEMMA SmallestIn ==
  ASSUME NEW T \in SUBSET Nat, T # {}
  PROVE  Min(T) \in T /\ \A x \in T : Min(T) <= x
BY LeastNat DEF Min

LEMMA LargestIn ==
  ASSUME NEW T \in SUBSET Nat, IsFiniteSet(T), T # {}
  PROVE  Max(T) \in T /\ \A x \in T : Max(T) >= x
<1>. DEFINE Bounded(s) == \E x \in s : \A y \in s : x >= y
            U == {n \in Nat : \A s \in SUBSET T : Cardinality(s) = n + 1 => Bounded(s)}
<1>1. \A s \in SUBSET T : IsFiniteSet(s) /\ Cardinality(s) \in Nat
  BY FS_Subset, FS_CardinalityType
<1>2. 0 \in U
  <2>. SUFFICES ASSUME NEW s \in SUBSET T, Cardinality(s) = 1 PROVE Bounded(s)
    OBVIOUS
  <2>1. PICK x : s = {x}
    BY <1>1, FS_Singleton
  <2>. QED  BY <2>1
<1>3. ASSUME NEW n \in Nat, n \in U PROVE n + 1 \in U
  <2>. SUFFICES ASSUME NEW s \in SUBSET T, Cardinality(s) = n + 2 PROVE Bounded(s)
    OBVIOUS
  <2>0. s # {}
    BY FS_EmptySet
  <2>1. PICK a \in s : TRUE
    BY <2>0
  <2>2. s \ {a} \in SUBSET T /\ Cardinality(s \ {a}) = n + 1
    BY <1>1, <2>1, FS_RemoveElement
  <2>3. PICK x \in s \ {a} : \A y \in s \ {a} : x >= y
    BY <1>3, <2>2
  <2>. QED  BY <2>1, <2>3
<1>4. Nat \subseteq U
  <2>. HIDE DEF U
  <2>. QED  BY <1>2, <1>3, AllNat
<1>5. Cardinality(T) \in Nat /\ Cardinality(T) - 1 \in Nat
  BY FS_EmptySet, FS_CardinalityType
<1>6. \E x \in T : \A y \in T : x >= y
  <2>1. Cardinality(T) - 1 \in U
    BY <1>4, <1>5
  <2>2. Cardinality(T) = (Cardinality(T) - 1) + 1
    BY <1>5
  <2>. QED  BY <2>1, <2>2
<1>. QED  BY <1>6 DEF Max

(***************************************************************************)
(* A fold is determined by the function of its steps and by the element    *)
(* that is taken last of each set.                                         *)
(***************************************************************************)
LEMMA WithoutOne ==
  ASSUME NEW S, IsFiniteSet(S), NEW s \in SUBSET S, NEW x \in s
  PROVE  /\ s \ {x} \in SUBSET S /\ Cardinality(s) \in Nat
         /\ Cardinality(s \ {x}) = Cardinality(s) - 1
BY FS_Subset, FS_CardinalityType, FS_RemoveElement

IsStep(step, V, A) == step \in [V \X A -> V]
IsPick(pick, S) == \A s \in SUBSET S : s # {} => pick[s] \in s
FoldTable(g, step, pick, base, S, V) ==
  /\ g \in [SUBSET S -> V] /\ g[{}] = base
  /\ \A s \in SUBSET S : s # {} => g[s] = step[<<g[s \ {pick[s]}], pick[s]>>]
\* Where g and h agree before a step they agree after it.
InStep(g, h, pick, S) ==
  /\ g[{}] = h[{}]
  /\ \A s \in SUBSET S : s # {} /\ g[s \ {pick[s]}] = h[s \ {pick[s]}] => g[s] = h[s]

LEMMA FoldsSame ==
  ASSUME NEW S, IsFiniteSet(S), NEW pick, IsPick(pick, S), NEW g, NEW h, InStep(g, h, pick, S)
  PROVE  \A s \in SUBSET S : g[s] = h[s]
<1>0. /\ \A s \in SUBSET S : s # {} => pick[s] \in s
      /\ g[{}] = h[{}]
      /\ \A s \in SUBSET S :
           s # {} /\ g[s \ {pick[s]}] = h[s \ {pick[s]}] => g[s] = h[s]
  BY DEF IsPick, InStep
<1>. DEFINE U == {n \in Nat : \A s \in SUBSET S : Cardinality(s) = n => g[s] = h[s]}
<1>1. 0 \in U
  <2>. SUFFICES ASSUME NEW s \in SUBSET S, Cardinality(s) = 0 PROVE g[s] = h[s]
    OBVIOUS
  <2>1. s = {}
    BY FS_EmptySet, FS_Subset
  <2>. QED  BY <1>0, <2>1
<1>2. ASSUME NEW n \in Nat, n \in U PROVE n + 1 \in U
  <2>. SUFFICES ASSUME NEW s \in SUBSET S, Cardinality(s) = n + 1 PROVE g[s] = h[s]
    OBVIOUS
  <2>1. s # {}
    BY FS_EmptySet
  <2>2. s \ {pick[s]} \in SUBSET S /\ Cardinality(s \ {pick[s]}) = n
    BY <1>0, <2>1, WithoutOne
  <2>3. g[s \ {pick[s]}] = h[s \ {pick[s]}]
    BY <1>2, <2>2
  <2>. QED  BY <1>0, <2>1, <2>3
<1>3. Nat \subseteq U
  <2>. HIDE DEF U
  <2>. QED  BY <1>1, <1>2, AllNat
<1>4. \A s \in SUBSET S : Cardinality(s) \in Nat
  BY FS_Subset, FS_CardinalityType
<1>. QED  BY <1>3, <1>4

LEMMA FoldsExist ==
  ASSUME NEW S, IsFiniteSet(S), NEW V, NEW base \in V,
         NEW step, IsStep(step, V, S), NEW pick, IsPick(pick, S)
  PROVE  \E g : FoldTable(g, step, pick, base, S, V)
<1>a. step \in [V \X S -> V] /\ \A s \in SUBSET S : s # {} => pick[s] \in s
  BY DEF IsStep, IsPick
<1>. DEFINE Next(g, s) == step[<<g[s \ {pick[s]}], pick[s]>>]
            UpTo(g, n) == /\ g \in [SUBSET S -> V] /\ g[{}] = base
                          /\ \A s \in SUBSET S :
                               s # {} /\ Cardinality(s) <= n => g[s] = Next(g, s)
            U == {n \in Nat : \E g : UpTo(g, n)}
<1>1. 0 \in U
  <2>. DEFINE g == [s \in SUBSET S |-> base]
  <2>1. \A s \in SUBSET S : Cardinality(s) <= 0 => s = {}
    BY FS_Subset, FS_CardinalityType, FS_EmptySet
  <2>2. UpTo(g, 0)
    BY <2>1
  <2>. QED  BY <2>2
<1>2. ASSUME NEW n \in Nat, n \in U PROVE n + 1 \in U
  <2>1. PICK g : UpTo(g, n)
    BY <1>2
  <2>. DEFINE h == [s \in SUBSET S |-> IF s = {} THEN base ELSE Next(g, s)]
  <2>2. \A s \in SUBSET S : s # {} =>
          /\ pick[s] \in s /\ s \ {pick[s]} \in SUBSET S /\ Cardinality(s) \in Nat
          /\ Cardinality(s \ {pick[s]}) = Cardinality(s) - 1
    BY <1>a, WithoutOne
  <2>3. h \in [SUBSET S -> V] /\ h[{}] = base
    <3>1. \A s \in SUBSET S : s # {} => Next(g, s) \in V
      BY <1>a, <2>1, <2>2
    <3>. HIDE DEF Next
    <3>. QED  BY <3>1
  <2>4. \A s \in SUBSET S : Cardinality(s) <= n => h[s] = g[s]
    BY <2>1
  <2>5. ASSUME NEW s \in SUBSET S, s # {}, Cardinality(s) <= n + 1
        PROVE  h[s] = Next(h, s)
    <3>1. s \ {pick[s]} \in SUBSET S /\ Cardinality(s \ {pick[s]}) <= n
      BY <2>2, <2>5
    <3>2. h[s \ {pick[s]}] = g[s \ {pick[s]}]
      BY <2>4, <3>1
    <3>3. h[s] = Next(g, s)
      BY <2>5
    <3>. HIDE DEF h
    <3>. QED  BY <3>2, <3>3
  <2>. HIDE DEF h
  <2>. QED  BY <2>3, <2>5
<1>3. Nat \subseteq U
  <2>. HIDE DEF U
  <2>. QED  BY <1>1, <1>2, AllNat
<1>4. Cardinality(S) \in Nat /\ \A s \in SUBSET S : Cardinality(s) <= Cardinality(S)
  BY FS_Subset, FS_CardinalityType
<1>5. PICK g : UpTo(g, Cardinality(S))
  BY <1>3, <1>4
<1>. QED  BY <1>4, <1>5 DEF FoldTable

(***************************************************************************)
(* Folds over a sequence take its places in order, the largest last.       *)
(***************************************************************************)
SeqFolds(h, step, base, q, V) ==
  /\ h \in [SUBSET DOMAIN q -> V] /\ h[{}] = base
  /\ \A s \in SUBSET DOMAIN q :
       s # {} => h[s] = step[<<h[s \ {Max(s)}], q[Max(s)]>>]

IsFold(step, base, q, A, V) == base \in V /\ IsStep(step, V, A) /\ q \in Seq(A)

FoldBy(step, base, q, V) == (CHOOSE h : SeqFolds(h, step, base, q, V))[DOMAIN q]

LEMMA Places ==
  ASSUME NEW A, NEW q \in Seq(A)
  PROVE  /\ IsFiniteSet(DOMAIN q) /\ DOMAIN q = 1 .. Len(q) /\ Len(q) \in Nat
         /\ \A s \in SUBSET DOMAIN q : s # {} => Max(s) \in s /\ q[Max(s)] \in A
<1>1. DOMAIN q = 1 .. Len(q) /\ Len(q) \in Nat /\ q \in [1 .. Len(q) -> A]
  BY LenProperties
<1>2. IsFiniteSet(DOMAIN q)
  BY <1>1, FS_Interval
<1>3. ASSUME NEW s \in SUBSET DOMAIN q, s # {} PROVE Max(s) \in s
  <2>1. s \in SUBSET Nat /\ IsFiniteSet(s)
    BY <1>1, <1>2, FS_Subset
  <2>. QED  BY <1>3, <2>1, LargestIn
<1>. QED  BY <1>1, <1>2, <1>3

LEMMA SeqFoldsExist ==
  ASSUME NEW A, NEW V, NEW base \in V, NEW step, IsStep(step, V, A), NEW q \in Seq(A)
  PROVE  \E h : SeqFolds(h, step, base, q, V)
<1>. DEFINE S == DOMAIN q
            pick == [s \in SUBSET S |-> Max(s)]
            at == [p \in V \X S |-> step[<<p[1], q[p[2]]>>]]
<1>1. IsFiniteSet(S) /\ \A s \in SUBSET S : s # {} => Max(s) \in s /\ q[Max(s)] \in A
  BY Places
<1>2. IsPick(pick, S)
  BY <1>1 DEF IsPick
<1>3. IsStep(at, V, S)
  BY Places DEF IsStep
<1>4. PICK h : FoldTable(h, at, pick, base, S, V)
  <2>. HIDE DEF at, pick, S
  <2>. QED  BY <1>1, <1>2, <1>3, FoldsExist
<1>5. ASSUME NEW s \in SUBSET S, s # {}
      PROVE  h[s] = step[<<h[s \ {Max(s)}], q[Max(s)]>>]
  <2>1. pick[s] = Max(s) /\ Max(s) \in S /\ h[s \ {Max(s)}] \in V
    BY <1>1, <1>4, <1>5 DEF FoldTable
  <2>2. h[s] = at[<<h[s \ {Max(s)}], Max(s)>>]
    BY <1>4, <1>5, <2>1 DEF FoldTable
  <2>. HIDE DEF S, pick
  <2>. QED  BY <2>1, <2>2
<1>. QED  BY <1>4, <1>5 DEF SeqFolds, FoldTable

\* g takes the steps of h as long as they agree.
SameSteps(g, h, step, base, q) ==
  /\ g[{}] = base
  /\ \A s \in SUBSET DOMAIN q : s # {} /\ g[s \ {Max(s)}] = h[s \ {Max(s)}]
       => g[s] = step[<<h[s \ {Max(s)}], q[Max(s)]>>]

LEMMA SeqFoldsSame ==
  ASSUME NEW A, NEW V, NEW base, NEW step, NEW q, IsFold(step, base, q, A, V),
         NEW h, SeqFolds(h, step, base, q, V), NEW g, SameSteps(g, h, step, base, q)
  PROVE  \A s \in SUBSET DOMAIN q : g[s] = h[s]
<1>. DEFINE S == DOMAIN q
            pick == [s \in SUBSET S |-> Max(s)]
<1>1. IsFiniteSet(S) /\ IsPick(pick, S)
  BY Places DEF IsPick, IsFold
<1>2. InStep(g, h, pick, S)
  <2>1. g[{}] = h[{}]
    BY DEF SeqFolds, SameSteps
  <2>2. ASSUME NEW s \in SUBSET S, s # {}, g[s \ {pick[s]}] = h[s \ {pick[s]}]
        PROVE  g[s] = h[s]
    BY <2>2 DEF SeqFolds, SameSteps
  <2>. QED  BY <2>1, <2>2 DEF InStep
<1>. HIDE DEF pick, S
<1>3. \A s \in SUBSET S : g[s] = h[s]
  BY <1>1, <1>2, FoldsSame
<1>. QED  BY <1>3 DEF S

LEMMA FoldByIs ==
  ASSUME NEW A, NEW V, NEW base, NEW step, NEW q, IsFold(step, base, q, A, V)
  PROVE  \E h : SeqFolds(h, step, base, q, V) /\ FoldBy(step, base, q, V) = h[DOMAIN q]
<1>1. \E h : SeqFolds(h, step, base, q, V)
  BY SeqFoldsExist DEF IsFold
<1>. QED  BY <1>1 DEF FoldBy

\* A fold over a sequence stays where its steps stay, starts with its base and
\* takes one step for one more element.
THEOREM FoldSteps ==
  ASSUME NEW A, NEW V, NEW base, NEW step, NEW q, IsFold(step, base, q, A, V)
  PROVE  /\ FoldBy(step, base, q, V) \in V
         /\ q = <<>> => FoldBy(step, base, q, V) = base
         /\ \A x \in A : FoldBy(step, base, Append(q, x), V)
                         = step[<<FoldBy(step, base, q, V), x>>]
<1>0. base \in V /\ IsStep(step, V, A) /\ q \in Seq(A)
  BY DEF IsFold
<1>1. PICK h : SeqFolds(h, step, base, q, V) /\ FoldBy(step, base, q, V) = h[DOMAIN q]
  BY FoldByIs
<1>2. FoldBy(step, base, q, V) \in V
  BY <1>1 DEF SeqFolds
<1>3. q = <<>> => FoldBy(step, base, q, V) = base
  BY <1>1 DEF SeqFolds
<1>4. ASSUME NEW x \in A
      PROVE  FoldBy(step, base, Append(q, x), V) = step[<<h[DOMAIN q], x>>]
  <2>. DEFINE r == Append(q, x)
              n == Len(q)
  <2>1. /\ r \in Seq(A) /\ n \in Nat /\ DOMAIN q = 1 .. n /\ DOMAIN r = 1 .. n + 1
        /\ \A i \in 1 .. n : r[i] = q[i]
        /\ r[n + 1] = x
    BY <1>0, AppendProperties, LenProperties
  <2>. HIDE DEF r, n
  <2>2. PICK k : SeqFolds(k, step, base, r, V) /\ FoldBy(step, base, r, V) = k[DOMAIN r]
    <3>1. IsFold(step, base, r, A, V)
      BY <1>0, <2>1 DEF IsFold
    <3>. QED  BY <3>1, FoldByIs
  <2>3. Max(1 .. n + 1) = n + 1
    <3>1. 1 .. n + 1 \in SUBSET Nat /\ IsFiniteSet(1 .. n + 1) /\ n + 1 \in 1 .. n + 1
      BY <2>1, FS_Interval
    <3>2. Max(1 .. n + 1) \in 1 .. n + 1 /\ Max(1 .. n + 1) >= n + 1
      BY <3>1, LargestIn
    <3>. QED  BY <2>1, <3>2
  <2>4. \A s \in SUBSET DOMAIN q : k[s] = h[s]
    <3>1. k[{}] = base
      BY <2>2 DEF SeqFolds
    <3>2. ASSUME NEW s \in SUBSET DOMAIN q, s # {}, k[s \ {Max(s)}] = h[s \ {Max(s)}]
          PROVE  k[s] = step[<<h[s \ {Max(s)}], q[Max(s)]>>]
      <4>1. s \in SUBSET DOMAIN r /\ Max(s) \in s
        BY <1>0, <2>1, <3>2, Places
      <4>2. r[Max(s)] = q[Max(s)]
        BY <2>1, <4>1
      <4>. QED  BY <2>2, <3>2, <4>1, <4>2 DEF SeqFolds
    <3>3. SameSteps(k, h, step, base, q)
      BY <3>1, <3>2 DEF SameSteps
    <3>. QED  BY <1>1, <3>3, SeqFoldsSame
  <2>5. DOMAIN r \ {n + 1} = DOMAIN q /\ DOMAIN r # {}
    BY <2>1
  <2>6. k[DOMAIN r] = step[<<k[DOMAIN q], r[n + 1]>>]
    BY <2>1, <2>2, <2>3, <2>5 DEF SeqFolds
  <2>. QED  BY <2>1, <2>2, <2>4, <2>6 DEF r
<1>. QED  BY <1>1, <1>2, <1>3, <1>4

\* A set that holds the empty sequence and every sequence of A that is longer by
\* one than a sequence it holds, holds every sequence of A.
LEMMA AllSeqs ==
  ASSUME NEW A, NEW W, <<>> \in W,
         \A s \in Seq(A), x \in A : s \in W => Append(s, x) \in W
  PROVE  Seq(A) \subseteq W
<1>. DEFINE U == {n \in Nat : \A s \in Seq(A) : Len(s) = n => s \in W}
<1>1. 0 \in U
  BY EmptySeq
<1>2. ASSUME NEW n \in Nat, n \in U PROVE n + 1 \in U
  <2>. SUFFICES ASSUME NEW s \in Seq(A), Len(s) = n + 1 PROVE s \in W
    OBVIOUS
  <2>1. s # <<>>
    BY EmptySeq
  <2>2. PICK r \in Seq(A), x \in A : s = Append(r, x)
    BY <2>1, SequenceEmptyOrAppend
  <2>3. Len(r) \in Nat /\ Len(s) = Len(r) + 1
    BY <2>2, AppendProperties, LenProperties
  <2>. QED  BY <1>2, <2>2, <2>3
<1>3. Nat \subseteq U
  <2>. HIDE DEF U
  <2>. QED  BY <1>1, <1>2, AllNat
<1>. QED  BY <1>3, LenProperties

(***************************************************************************)
(* Kept, the elements of a sequence that are in a set.                     *)
(***************************************************************************)
Keep(v, x, S) == IF x \in S THEN Append(v, x) ELSE v
KeepStep(A, S) == [p \in Seq(A \cap S) \X A |-> Keep(p[1], p[2], S)]

LEMMA KeptIsFold ==
  ASSUME NEW A, NEW q \in Seq(A), NEW S
  PROVE  /\ IsFold(KeepStep(A, S), <<>>, q, A, Seq(A \cap S))
         /\ Kept(q, S) = FoldBy(KeepStep(A, S), <<>>, q, Seq(A \cap S))
<1>. DEFINE V == Seq(A \cap S)
            step == KeepStep(A, S)
            Iter(it) == it = [s \in SUBSET DOMAIN q |->
                               IF s = {} THEN <<>> ELSE Keep(it[s \ {Max(s)}], q[Max(s)], S)]
            g == CHOOSE it : Iter(it)
<1>1. \A v \in V, x \in A : Keep(v, x, S) \in V /\ step[<<v, x>>] = Keep(v, x, S)
  <2>. SUFFICES ASSUME NEW v \in V, NEW x \in A
                PROVE  Keep(v, x, S) \in V /\ step[<<v, x>>] = Keep(v, x, S)
    OBVIOUS
  <2>1. Keep(v, x, S) \in V
    BY AppendProperties DEF Keep
  <2>. QED  BY <2>1 DEF KeepStep
<1>2. IsFold(step, <<>>, q, A, V)
  <2>1. step = [p \in V \X A |-> Keep(p[1], p[2], S)]
    BY DEF KeepStep
  <2>2. \A p \in V \X A : Keep(p[1], p[2], S) \in V
    BY <1>1
  <2>3. step \in [V \X A -> V]
    BY <2>1, <2>2
  <2>. QED  BY <2>3, EmptySeq DEF IsFold, IsStep
<1>3. Kept(q, S) = g[DOMAIN q]
  BY DEF Kept, FoldLeft, MapThenFoldSet, Keep
<1>4. \A s \in SUBSET DOMAIN q : s # {} => Max(s) \in s /\ q[Max(s)] \in A
  BY Places
<1>. HIDE DEF step, V
<1>5. PICK h : SeqFolds(h, step, <<>>, q, V) /\ FoldBy(step, <<>>, q, V) = h[DOMAIN q]
  BY <1>2, FoldByIs
<1>6. Iter(h)
  BY <1>1, <1>4, <1>5 DEF SeqFolds
<1>7. Iter(g)
  BY <1>6
<1>. HIDE DEF g
<1>8. SameSteps(g, h, step, <<>>, q)
  <2>1. g[{}] = <<>>
    BY <1>7
  <2>2. ASSUME NEW s \in SUBSET DOMAIN q, s # {}, g[s \ {Max(s)}] = h[s \ {Max(s)}]
        PROVE  g[s] = step[<<h[s \ {Max(s)}], q[Max(s)]>>]
    <3>1. g[s] = Keep(h[s \ {Max(s)}], q[Max(s)], S)
      BY <1>7, <2>2
    <3>2. h[s \ {Max(s)}] \in V /\ q[Max(s)] \in A
      BY <1>4, <1>5, <2>2 DEF SeqFolds
    <3>. QED  BY <1>1, <3>1, <3>2
  <2>. QED  BY <2>1, <2>2 DEF SameSteps
<1>9. g[DOMAIN q] = h[DOMAIN q]
  BY <1>2, <1>5, <1>8, SeqFoldsSame
<1>. QED  BY <1>2, <1>3, <1>5, <1>9 DEF step, V

\* What is kept is in the set, and one more element is kept if it is in it.
THEOREM KeptIs ==
  ASSUME NEW A, NEW q \in Seq(A), NEW S
  PROVE  /\ Kept(q, S) \in Seq(A \cap S)
         /\ Kept(<<>>, S) = <<>>
         /\ \A x \in A : Kept(Append(q, x), S)
                         = IF x \in S THEN Append(Kept(q, S), x) ELSE Kept(q, S)
<1>. DEFINE step == KeepStep(A, S)
            V == Seq(A \cap S)
<1>1. IsFold(step, <<>>, q, A, V) /\ Kept(q, S) = FoldBy(step, <<>>, q, V)
  BY KeptIsFold
<1>2. <<>> \in Seq(A)
  BY EmptySeq
<1>3. IsFold(step, <<>>, <<>>, A, V) /\ Kept(<<>>, S) = FoldBy(step, <<>>, <<>>, V)
  BY <1>2, KeptIsFold
<1>. HIDE DEF step, V
<1>4. Kept(q, S) \in V /\ Kept(<<>>, S) = <<>>
  BY <1>1, <1>3, FoldSteps
<1>5. ASSUME NEW x \in A
      PROVE  Kept(Append(q, x), S) = IF x \in S THEN Append(Kept(q, S), x) ELSE Kept(q, S)
  <2>1. Append(q, x) \in Seq(A)
    BY AppendProperties
  <2>2. Kept(Append(q, x), S) = FoldBy(step, <<>>, Append(q, x), V)
    BY <2>1, KeptIsFold DEF step, V
  <2>3. FoldBy(step, <<>>, Append(q, x), V) = step[<<Kept(q, S), x>>]
    BY <1>1, FoldSteps
  <2>4. step[<<Kept(q, S), x>>] = Keep(Kept(q, S), x, S)
    BY <1>4 DEF step, V, KeepStep
  <2>. QED  BY <2>2, <2>3, <2>4 DEF Keep
<1>. QED  BY <1>4, <1>5 DEF V

\* What KeptIs says of every sequence over A.
KeptLaws(A, S) ==
  /\ Kept(<<>>, S) = <<>>
  /\ \A s \in Seq(A) :
       /\ Kept(s, S) \in Seq(A \cap S) /\ Kept(s, S) \in Seq(A)
       /\ \A x \in A : Kept(Append(s, x), S) = IF x \in S THEN Append(Kept(s, S), x) ELSE Kept(s, S)

LEMMA KeptObeys ==
  ASSUME NEW A, NEW S
  PROVE  KeptLaws(A, S)
<1>1. <<>> \in Seq(A)
  BY EmptySeq
<1>2. Kept(<<>>, S) = <<>>
  BY <1>1, KeptIs
<1>3. ASSUME NEW s \in Seq(A)
      PROVE  /\ Kept(s, S) \in Seq(A \cap S)
             /\ \A x \in A : Kept(Append(s, x), S) = IF x \in S THEN Append(Kept(s, S), x) ELSE Kept(s, S)
  BY KeptIs
<1>4. ASSUME NEW s \in Seq(A) PROVE Kept(s, S) \in Seq(A)
  <2>1. A \cap S \subseteq A
    OBVIOUS
  <2>. QED  BY <1>3, <2>1, SeqMonotonic
<1>. QED  BY <1>2, <1>3, <1>4 DEF KeptLaws

LEMMA JoinAppend ==
  ASSUME NEW A, NEW q \in Seq(A), NEW s \in Seq(A), NEW x \in A
  PROVE  q \o Append(s, x) = Append(q \o s, x)
<1>1. /\ Append(s, x) = s \o <<x>> /\ <<x>> \in Seq(A)
      /\ q \o s \in Seq(A)
  BY AppendIsConcat, ConcatProperties
<1>2. Append(q \o s, x) = (q \o s) \o <<x>>
  BY <1>1, AppendIsConcat
<1>. QED  BY <1>1, <1>2, ConcatAssociative

\* What is kept of a concatenation is the concatenation of what is kept.
THEOREM KeptJoins ==
  ASSUME NEW A, NEW q \in Seq(A), NEW r \in Seq(A), NEW S
  PROVE  Kept(q \o r, S) = Kept(q, S) \o Kept(r, S)
<1>. DEFINE W == {s \in Seq(A) : Kept(q \o s, S) = Kept(q, S) \o Kept(s, S)}
<1>a. KeptLaws(A, S)
  BY KeptObeys
<1>0. Kept(q, S) \in Seq(A)
  BY <1>a DEF KeptLaws
<1>1. <<>> \in W
  <2>1. <<>> \in Seq(A) /\ q \o <<>> = q /\ Kept(<<>>, S) = <<>>
    BY <1>a, EmptySeq, ConcatEmptySeq DEF KeptLaws
  <2>2. Kept(q, S) \o <<>> = Kept(q, S)
    BY <1>0, ConcatEmptySeq
  <2>. QED  BY <2>1, <2>2
<1>2. ASSUME NEW s \in Seq(A), NEW x \in A, s \in W PROVE Append(s, x) \in W
  <2>1. q \o s \in Seq(A) /\ Append(s, x) \in Seq(A)
    BY ConcatProperties, AppendProperties
  <2>2. q \o Append(s, x) = Append(q \o s, x)
    BY JoinAppend
  <2>3. /\ Kept(Append(q \o s, x), S)
             = IF x \in S THEN Append(Kept(q \o s, S), x) ELSE Kept(q \o s, S)
        /\ Kept(Append(s, x), S) = IF x \in S THEN Append(Kept(s, S), x) ELSE Kept(s, S)
        /\ Kept(s, S) \in Seq(A)
    BY <1>a, <2>1 DEF KeptLaws
  <2>4. CASE x \in S
    <3>1. Kept(q, S) \o Append(Kept(s, S), x) = Append(Kept(q, S) \o Kept(s, S), x)
      BY <1>0, <2>3, <2>4, JoinAppend
    <3>. QED  BY <1>2, <2>1, <2>2, <2>3, <2>4, <3>1
  <2>5. CASE x \notin S
    BY <1>2, <2>1, <2>2, <2>3, <2>5
  <2>. QED  BY <2>4, <2>5
<1>3. Seq(A) \subseteq W
  <2>. HIDE DEF W
  <2>. QED  BY <1>1, <1>2, AllSeqs
<1>. QED  BY <1>3

\* Keeping twice is keeping what is in both sets.
THEOREM KeptTwice ==
  ASSUME NEW A, NEW q \in Seq(A), NEW S, NEW T, NEW R, \A x \in A : x \in R <=> x \in S /\ x \in T
  PROVE  Kept(Kept(q, T), S) = Kept(q, R)
<1>. DEFINE W == {s \in Seq(A) : Kept(Kept(s, T), S) = Kept(s, R)}
<1>a. KeptLaws(A, S) /\ KeptLaws(A, T) /\ KeptLaws(A, R)
  BY KeptObeys
<1>1. <<>> \in W
  BY <1>a, EmptySeq DEF KeptLaws
<1>2. ASSUME NEW s \in Seq(A), NEW x \in A, s \in W PROVE Append(s, x) \in W
  <2>1. Append(s, x) \in Seq(A)
    BY AppendProperties
  <2>2. /\ Kept(s, T) \in Seq(A)
        /\ Kept(Append(s, x), T) = IF x \in T THEN Append(Kept(s, T), x) ELSE Kept(s, T)
        /\ Kept(Append(s, x), R) = IF x \in R THEN Append(Kept(s, R), x) ELSE Kept(s, R)
    BY <1>a DEF KeptLaws
  <2>4. Kept(Append(Kept(s, T), x), S)
          = IF x \in S THEN Append(Kept(Kept(s, T), S), x) ELSE Kept(Kept(s, T), S)
    BY <1>a, <2>2 DEF KeptLaws
  <2>5. Kept(Kept(s, T), S) = Kept(s, R)
    BY <1>2
  <2>6. Kept(Kept(Append(s, x), T), S) = Kept(Append(s, x), R)
    <3>1. CASE x \in T
      BY <2>2, <2>4, <2>5, <3>1
    <3>2. CASE x \notin T
      BY <2>2, <2>5, <3>2
    <3>. QED  BY <3>1, <3>2
  <2>. QED  BY <2>1, <2>6
<1>3. Seq(A) \subseteq W
  <2>. HIDE DEF W
  <2>. QED  BY <1>1, <1>2, AllSeqs
<1>. QED  BY <1>3

\* Two sets that agree on the elements keep the same of them.
THEOREM KeptSame ==
  ASSUME NEW A, NEW q \in Seq(A), NEW S, NEW T, \A x \in A : x \in S <=> x \in T
  PROVE  Kept(q, S) = Kept(q, T)
<1>. DEFINE W == {s \in Seq(A) : Kept(s, S) = Kept(s, T)}
<1>a. KeptLaws(A, S) /\ KeptLaws(A, T)
  BY KeptObeys
<1>1. <<>> \in W
  BY <1>a, EmptySeq DEF KeptLaws
<1>2. ASSUME NEW s \in Seq(A), NEW x \in A, s \in W PROVE Append(s, x) \in W
  <2>1. Append(s, x) \in Seq(A)
    BY AppendProperties
  <2>2. /\ Kept(Append(s, x), S) = IF x \in S THEN Append(Kept(s, S), x) ELSE Kept(s, S)
        /\ Kept(Append(s, x), T) = IF x \in T THEN Append(Kept(s, T), x) ELSE Kept(s, T)
    BY <1>a DEF KeptLaws
  <2>. QED  BY <1>2, <2>1, <2>2
<1>3. Seq(A) \subseteq W
  <2>. HIDE DEF W
  <2>. QED  BY <1>1, <1>2, AllSeqs
<1>. QED  BY <1>3

(***************************************************************************)
(* FlattenSeq, the concatenation of a sequence of sequences.               *)
(***************************************************************************)
\* f holds the concatenations of the first n of them.
FlatTo(f, q, n, A) ==
  /\ f \in [1 .. n -> Seq(A)]
  /\ \A i \in 1 .. n : f[i] = IF i = 1 THEN q[i] ELSE f[i - 1] \o q[i]

LEMMA FlatExists ==
  ASSUME NEW A, NEW q \in Seq(Seq(A))
  PROVE  \E f : FlatTo(f, q, Len(q), A)
<1>. DEFINE U == {n \in Nat : n <= Len(q) => \E f : FlatTo(f, q, n, A)}
<1>0. Len(q) \in Nat /\ \A i \in 1 .. Len(q) : q[i] \in Seq(A)
  BY LenProperties
<1>1. 0 \in U
  <2>1. FlatTo([i \in 1 .. 0 |-> <<>>], q, 0, A)
    BY DEF FlatTo
  <2>. QED  BY <2>1
<1>2. ASSUME NEW n \in Nat, n \in U PROVE n + 1 \in U
  <2>. SUFFICES ASSUME n + 1 <= Len(q) PROVE \E f : FlatTo(f, q, n + 1, A)
    OBVIOUS
  <2>1. PICK f : FlatTo(f, q, n, A)
    BY <1>0, <1>2
  <2>. DEFINE last == IF n = 0 THEN q[1] ELSE f[n] \o q[n + 1]
              h == [i \in 1 .. n + 1 |-> IF i <= n THEN f[i] ELSE last]
  <2>2. last \in Seq(A)
    <3>1. CASE n = 0
      BY <1>0, <3>1
    <3>2. CASE n # 0
      <4>1. f[n] \in Seq(A) /\ q[n + 1] \in Seq(A)
        BY <1>0, <2>1, <3>2 DEF FlatTo
      <4>. QED  BY <3>2, <4>1, ConcatProperties
    <3>. QED  BY <3>1, <3>2
  <2>3. h \in [1 .. n + 1 -> Seq(A)]
    <3>. HIDE DEF last
    <3>. QED  BY <2>1, <2>2 DEF FlatTo
  <2>4. ASSUME NEW i \in 1 .. n + 1
        PROVE  h[i] = IF i = 1 THEN q[i] ELSE h[i - 1] \o q[i]
    <3>1. CASE i <= n
      <4>1. h[i] = f[i] /\ (i # 1 => h[i - 1] = f[i - 1])
        <5>. HIDE DEF last
        <5>. QED  BY <3>1
      <4>2. f[i] = IF i = 1 THEN q[i] ELSE f[i - 1] \o q[i]
        <5>1. i \in 1 .. n
          BY <3>1
        <5>2. \A j \in 1 .. n : f[j] = IF j = 1 THEN q[j] ELSE f[j - 1] \o q[j]
          BY <2>1 DEF FlatTo
        <5>. HIDE DEF h, last, U
        <5>. QED  BY <5>1, <5>2
      <4>. HIDE DEF h
      <4>. QED  BY <4>1, <4>2
    <3>2. CASE i = n + 1
      BY <3>2
    <3>. QED  BY <3>1, <3>2
  <2>5. FlatTo(h, q, n + 1, A)
    <3>. HIDE DEF h
    <3>. QED  BY <2>3, <2>4 DEF FlatTo
  <2>. QED  BY <2>5
<1>3. Nat \subseteq U
  <2>. HIDE DEF U
  <2>. QED  BY <1>1, <1>2, AllNat
<1>. QED  BY <1>0, <1>3

\* The concatenation of sequences over a set, as the grids of the lab are
\* built, is a sequence over it.
THEOREM FlattenIs ==
  ASSUME NEW A, NEW q \in Seq(Seq(A))
  PROVE  FlattenSeq(q) \in Seq(A)
<1>0. Len(q) \in Nat /\ \A i \in 1 .. Len(q) : q[i] \in Seq(A)
  BY LenProperties
<1>1. CASE Len(q) = 0
  BY <1>1, EmptySeq DEF FlattenSeq
<1>2. CASE Len(q) # 0
  <2>. DEFINE n == Len(q)
              Flat(f) == f = [i \in 1 .. n |-> IF i = 1 THEN q[i] ELSE f[i - 1] \o q[i]]
              g == CHOOSE f : Flat(f)
  <2>1. FlattenSeq(q) = g[n]
    BY <1>2 DEF FlattenSeq
  <2>2. PICK f : FlatTo(f, q, n, A)
    BY FlatExists
  <2>3. Flat(f)
    BY <2>2 DEF FlatTo
  <2>4. Flat(g)
    BY <2>3
  <2>5. \A i \in 1 .. n : g[i] = IF i = 1 THEN q[i] ELSE g[i - 1] \o q[i]
    <3>. HIDE DEF g
    <3>. QED  BY <2>4
  <2>. HIDE DEF g, n
  <2>. DEFINE U == {i \in Nat : i + 1 <= n => g[i + 1] \in Seq(A)}
  <2>6. 0 \in U
    BY <1>0, <2>5 DEF n
  <2>7. ASSUME NEW i \in Nat, i \in U PROVE i + 1 \in U
    <3>. SUFFICES ASSUME i + 2 <= n PROVE g[i + 2] \in Seq(A)
      OBVIOUS
    <3>1. i + 2 \in 1 .. n /\ i + 2 # 1 /\ (i + 2) - 1 = i + 1 /\ n \in Nat
      BY <1>0 DEF n
    <3>2. g[i + 2] = g[i + 1] \o q[i + 2]
      BY <2>5, <3>1
    <3>3. g[i + 1] \in Seq(A) /\ q[i + 2] \in Seq(A)
      BY <1>0, <2>7, <3>1 DEF n
    <3>. QED  BY <3>2, <3>3, ConcatProperties
  <2>8. Nat \subseteq U
    <3>. HIDE DEF U
    <3>. QED  BY <2>6, <2>7, AllNat
  <2>9. n \in Nat /\ n - 1 \in Nat /\ (n - 1) + 1 = n
    BY <1>0, <1>2 DEF n
  <2>10. g[n] \in Seq(A)
    <3>1. n - 1 \in U
      BY <2>8, <2>9
    <3>. QED  BY <2>9, <3>1
  <2>. QED  BY <2>1, <2>10 DEF n
<1>. QED  BY <1>1, <1>2

(***************************************************************************)
(* Folds over a set take one element after the other.                      *)
(***************************************************************************)
Pick(s) == CHOOSE x \in s : TRUE

LEMMA PickIn ==
  ASSUME NEW S, IsFiniteSet(S), NEW s \in SUBSET S
  PROVE  /\ IsFiniteSet(s) /\ Cardinality(s) \in Nat
         /\ s # {} => /\ Pick(s) \in s /\ s \ {Pick(s)} \in SUBSET S
                      /\ Cardinality(s \ {Pick(s)}) = Cardinality(s) - 1
         /\ Cardinality(s) <= 0 => s = {}
<1>1. IsFiniteSet(s) /\ Cardinality(s) \in Nat
  BY FS_Subset, FS_CardinalityType
<1>2. ASSUME s # {}
      PROVE  /\ Pick(s) \in s /\ s \ {Pick(s)} \in SUBSET S
             /\ Cardinality(s \ {Pick(s)}) = Cardinality(s) - 1
  <2>1. Pick(s) \in s
    BY <1>2 DEF Pick
  <2>. QED  BY <1>1, <2>1, FS_RemoveElement
<1>3. Cardinality(s) <= 0 => s = {}
  BY <1>1, FS_EmptySet
<1>. QED  BY <1>1, <1>2, <1>3

\* g holds the sums of f over the subsets of S.
Sums(g, f, S) ==
  g = [s \in SUBSET S |-> IF s = {} THEN 0 ELSE f[Pick(s)] + g[s \ {Pick(s)}]]

LEMMA SumsAt ==
  ASSUME NEW S, NEW f, NEW g, Sums(g, f, S)
  PROVE  /\ g[{}] = 0
         /\ \A s \in SUBSET S : s # {} => g[s] = f[Pick(s)] + g[s \ {Pick(s)}]
<1>. DEFINE h == [x \in SUBSET S |-> IF x = {} THEN 0 ELSE f[Pick(x)] + g[x \ {Pick(x)}]]
<1>1. /\ h[{}] = 0
      /\ \A s \in SUBSET S : s # {} => h[s] = f[Pick(s)] + g[s \ {Pick(s)}]
  OBVIOUS
<1>2. g = h
  BY DEF Sums
<1>. HIDE DEF h
<1>. QED  BY <1>1, <1>2

SumsUpTo(g, f, S, n) ==
  \A s \in SUBSET S : Cardinality(s) <= n =>
    g[s] = IF s = {} THEN 0 ELSE f[Pick(s)] + g[s \ {Pick(s)}]

LEMMA SumsExist ==
  ASSUME NEW f, NEW S, IsFiniteSet(S)
  PROVE  \E g : Sums(g, f, S)
<1>. DEFINE U == {n \in Nat : \E g : SumsUpTo(g, f, S, n)}
<1>2. 0 \in U
  <2>. DEFINE g == [s \in SUBSET S |-> 0]
  <2>1. SumsUpTo(g, f, S, 0)
    BY PickIn DEF SumsUpTo
  <2>. QED  BY <2>1
<1>3. ASSUME NEW n \in Nat, n \in U PROVE n + 1 \in U
  <2>1. PICK g : SumsUpTo(g, f, S, n)
    BY <1>3
  <2>. DEFINE h == [s \in SUBSET S |->
                      IF s = {} THEN 0 ELSE f[Pick(s)] + g[s \ {Pick(s)}]]
  <2>2. \A s \in SUBSET S : Cardinality(s) <= n => h[s] = g[s]
    BY <2>1 DEF SumsUpTo
  <2>3. SumsUpTo(h, f, S, n + 1)
    <3>. SUFFICES ASSUME NEW s \in SUBSET S, Cardinality(s) <= n + 1, s # {}
                  PROVE  h[s] = f[Pick(s)] + h[s \ {Pick(s)}]
      BY DEF SumsUpTo
    <3>1. s \ {Pick(s)} \in SUBSET S /\ Cardinality(s \ {Pick(s)}) <= n
      BY PickIn
    <3>2. h[s \ {Pick(s)}] = g[s \ {Pick(s)}]
      BY <2>2, <3>1
    <3>3. h[s] = f[Pick(s)] + g[s \ {Pick(s)}]
      OBVIOUS
    <3>. HIDE DEF h
    <3>. QED  BY <3>2, <3>3
  <2>. HIDE DEF h
  <2>. QED  BY <2>3
<1>4. Nat \subseteq U
  <2>. HIDE DEF U
  <2>. QED  BY <1>2, <1>3, AllNat
<1>5. Cardinality(S) \in Nat /\ \A s \in SUBSET S : Cardinality(s) <= Cardinality(S)
  BY FS_Subset, FS_CardinalityType
<1>6. PICK g : SumsUpTo(g, f, S, Cardinality(S))
  BY <1>4, <1>5
<1>. DEFINE h == [s \in SUBSET S |-> g[s]]
<1>7. ASSUME NEW s \in SUBSET S
      PROVE  h[s] = IF s = {} THEN 0 ELSE f[Pick(s)] + h[s \ {Pick(s)}]
  <2>1. g[s] = IF s = {} THEN 0 ELSE f[Pick(s)] + g[s \ {Pick(s)}]
    BY <1>5, <1>6 DEF SumsUpTo
  <2>. QED  BY <2>1, PickIn
<1>8. h \in [SUBSET S -> {h[s] : s \in SUBSET S}]
  OBVIOUS
<1>. HIDE DEF h
<1>9. Sums(h, f, S)
  BY <1>7, <1>8 DEF Sums
<1>. QED  BY <1>9

\* The sum of a function is one of those sums.
LEMMA SumIs ==
  ASSUME NEW f, IsFiniteSet(DOMAIN f)
  PROVE  \E g : Sums(g, f, DOMAIN f) /\ SumFunction(f) = g[DOMAIN f]
<1>1. SumFunction(f) = (CHOOSE g : Sums(g, f, DOMAIN f))[DOMAIN f]
  BY DEF SumFunction, SumFunctionOnSet, FoldFunctionOnSet, MapThenFoldSet, Sums, Pick
<1>. QED  BY <1>1, SumsExist

\* A sum stays in a set that holds 0 and that addition stays in.
ClosedSums(V) == 0 \in V /\ \A a, b \in V : a + b \in V

LEMMA SumStays ==
  ASSUME NEW V, ClosedSums(V), NEW S, IsFiniteSet(S), NEW f, DOMAIN f = S, \A x \in S : f[x] \in V
  PROVE  SumFunction(f) \in V
<1>1. PICK g : Sums(g, f, S) /\ SumFunction(f) = g[S]
  BY SumIs
<1>0. /\ g[{}] = 0
      /\ \A s \in SUBSET S : s # {} => g[s] = f[Pick(s)] + g[s \ {Pick(s)}]
  BY <1>1, SumsAt
<1>. DEFINE U == {n \in Nat : \A s \in SUBSET S : Cardinality(s) = n => g[s] \in V}
<1>2. 0 \in U
  <2>. SUFFICES ASSUME NEW s \in SUBSET S, Cardinality(s) = 0 PROVE g[s] \in V
    OBVIOUS
  <2>1. s = {}
    BY FS_EmptySet, FS_Subset
  <2>. QED  BY <1>0, <2>1 DEF ClosedSums
<1>3. ASSUME NEW n \in Nat, n \in U PROVE n + 1 \in U
  <2>. SUFFICES ASSUME NEW s \in SUBSET S, Cardinality(s) = n + 1 PROVE g[s] \in V
    OBVIOUS
  <2>1. s # {}
    BY FS_EmptySet
  <2>2. /\ Pick(s) \in s /\ s \ {Pick(s)} \in SUBSET S
        /\ Cardinality(s \ {Pick(s)}) = n
    BY <2>1, PickIn
  <2>3. g[s \ {Pick(s)}] \in V /\ f[Pick(s)] \in V
    BY <1>3, <2>2
  <2>4. f[Pick(s)] + g[s \ {Pick(s)}] \in V
    BY <2>3 DEF ClosedSums
  <2>. QED  BY <1>0, <2>1, <2>4
<1>4. Nat \subseteq U
  <2>. HIDE DEF U
  <2>. QED  BY <1>2, <1>3, AllNat
<1>. QED  BY <1>1, <1>4, FS_CardinalityType

\* The sum of the integers of a finite function, as BooksBalance takes it over
\* the costs of the positions, is an integer.
THEOREM SumOfIntegers ==
  ASSUME NEW S, IsFiniteSet(S), NEW f \in [S -> Int]
  PROVE  SumFunction(f) \in Int
<1>1. ClosedSums(Int)
  BY DEF ClosedSums
<1>2. DOMAIN f = S /\ \A x \in S : f[x] \in Int
  OBVIOUS
<1>. QED  BY <1>1, <1>2, SumStays

\* The sum of the natural numbers of a finite function, as a backtest takes it
\* over the values of its positions, is a natural number.
THEOREM SumOfNaturals ==
  ASSUME NEW S, IsFiniteSet(S), NEW f \in [S -> Nat]
  PROVE  SumFunction(f) \in Nat
<1>1. ClosedSums(Nat)
  BY DEF ClosedSums
<1>2. DOMAIN f = S /\ \A x \in S : f[x] \in Nat
  OBVIOUS
<1>. QED  BY <1>1, <1>2, SumStays

\* A function of zeros, as the costs of an account without positions, has the
\* sum 0.
THEOREM SumOfZeros ==
  ASSUME NEW S, IsFiniteSet(S)
  PROVE  SumFunction([s \in S |-> 0]) = 0
<1>. DEFINE f == [s \in S |-> 0]
<1>a. f \in [S -> Int] /\ \A x \in S : f[x] = 0
  OBVIOUS
<1>. HIDE DEF f
<1>1. PICK g : Sums(g, f, S) /\ SumFunction(f) = g[S]
  BY <1>a, SumIs
<1>0. /\ g[{}] = 0
      /\ \A s \in SUBSET S : s # {} => g[s] = f[Pick(s)] + g[s \ {Pick(s)}]
  BY <1>1, SumsAt
<1>. DEFINE U == {n \in Nat : \A s \in SUBSET S : Cardinality(s) = n => g[s] = 0}
<1>2. 0 \in U
  <2>. SUFFICES ASSUME NEW s \in SUBSET S, Cardinality(s) = 0 PROVE g[s] = 0
    OBVIOUS
  <2>1. s = {}
    BY FS_EmptySet, FS_Subset
  <2>. QED  BY <1>0, <2>1
<1>3. ASSUME NEW n \in Nat, n \in U PROVE n + 1 \in U
  <2>. SUFFICES ASSUME NEW s \in SUBSET S, Cardinality(s) = n + 1 PROVE g[s] = 0
    OBVIOUS
  <2>1. s # {}
    BY FS_EmptySet
  <2>2. /\ Pick(s) \in s /\ s \ {Pick(s)} \in SUBSET S
        /\ Cardinality(s \ {Pick(s)}) = n
    BY <2>1, PickIn
  <2>3. g[s \ {Pick(s)}] = 0 /\ f[Pick(s)] = 0
    BY <1>3, <1>a, <2>2
  <2>. QED  BY <1>0, <2>1, <2>3
<1>4. Nat \subseteq U
  <2>. HIDE DEF U
  <2>. QED  BY <1>2, <1>3, AllNat
<1>. QED  BY <1>1, <1>4, FS_CardinalityType DEF f

\* Two functions that differ at one place only have sums that differ by as
\* much, as when a fill changes the cost of one position.
THEOREM SumMoves ==
  ASSUME NEW S, IsFiniteSet(S), NEW f \in [S -> Int], NEW h \in [S -> Int], NEW c \in S,
         \A x \in S \ {c} : h[x] = f[x]
  PROVE  SumFunction(h) = SumFunction(f) - f[c] + h[c]
<1>1. PICK g : Sums(g, f, S) /\ SumFunction(f) = g[S]
  BY SumIs
<1>2. PICK k : Sums(k, h, S) /\ SumFunction(h) = k[S]
  BY SumIs
<1>0. /\ g[{}] = 0
      /\ \A s \in SUBSET S : s # {} => g[s] = f[Pick(s)] + g[s \ {Pick(s)}]
  BY <1>1, SumsAt
<1>7. /\ k[{}] = 0
      /\ \A s \in SUBSET S : s # {} => k[s] = h[Pick(s)] + k[s \ {Pick(s)}]
  BY <1>2, SumsAt
<1>. DEFINE Moved(s) == /\ g[s] \in Int /\ k[s] \in Int
                        /\ k[s] = g[s] + (IF c \in s THEN h[c] - f[c] ELSE 0)
            U == {n \in Nat : \A s \in SUBSET S : Cardinality(s) = n => Moved(s)}
<1>3. 0 \in U
  <2>. SUFFICES ASSUME NEW s \in SUBSET S, Cardinality(s) = 0 PROVE Moved(s)
    OBVIOUS
  <2>1. s = {}
    BY FS_EmptySet, FS_Subset
  <2>. QED  BY <1>0, <1>7, <2>1
<1>4. ASSUME NEW n \in Nat, n \in U PROVE n + 1 \in U
  <2>. SUFFICES ASSUME NEW s \in SUBSET S, Cardinality(s) = n + 1 PROVE Moved(s)
    OBVIOUS
  <2>1. s # {}
    BY FS_EmptySet
  <2>. DEFINE p == Pick(s)
              r == s \ {p}
  <2>2. p \in s /\ p \in S /\ r \in SUBSET S /\ Cardinality(r) = n
    BY <2>1, PickIn
  <2>3. Moved(r)
    BY <1>4, <2>2
  <2>4. g[s] = f[p] + g[r] /\ k[s] = h[p] + k[r]
    BY <1>0, <1>7, <2>1
  <2>5. f[p] \in Int /\ h[p] \in Int /\ f[c] \in Int /\ h[c] \in Int
    BY <2>2
  <2>6. c \in s <=> (c = p \/ c \in r)
    BY <2>2
  <2>7. c = p => c \notin r
    OBVIOUS
  <2>8. c # p => f[p] = h[p]
    BY <2>2
  <2>. HIDE DEF p, r
  <2>. QED  BY <2>3, <2>4, <2>5, <2>6, <2>7, <2>8
<1>5. Nat \subseteq U
  <2>. HIDE DEF U
  <2>. QED  BY <1>3, <1>4, AllNat
<1>6. Cardinality(S) \in Nat
  BY FS_CardinalityType
<1>. QED  BY <1>1, <1>2, <1>5, <1>6

AddsUp(h, f, k, S) ==
  /\ f \in [S -> Int] /\ k \in [S -> Int]
  /\ h = [x \in S |-> f[x] + k[x]]

\* The sum of two functions is the sum of their sums, as the gains of the
\* symbols are with what a day received and spent.
THEOREM SumAdds ==
  ASSUME NEW S, IsFiniteSet(S), NEW f, NEW k, NEW h, AddsUp(h, f, k, S)
  PROVE  SumFunction(h) = SumFunction(f) + SumFunction(k)
<1>0. /\ DOMAIN f = S /\ DOMAIN k = S /\ DOMAIN h = S
      /\ \A x \in S : f[x] \in Int /\ k[x] \in Int /\ h[x] = f[x] + k[x]
  BY DEF AddsUp
<1>1. PICK a : Sums(a, f, S) /\ SumFunction(f) = a[S]
  BY <1>0, SumIs
<1>2. PICK b : Sums(b, k, S) /\ SumFunction(k) = b[S]
  BY <1>0, SumIs
<1>3. PICK c : Sums(c, h, S) /\ SumFunction(h) = c[S]
  BY <1>0, SumIs
<1>4. /\ a[{}] = 0 /\ b[{}] = 0 /\ c[{}] = 0
      /\ \A s \in SUBSET S : s # {} =>
           /\ a[s] = f[Pick(s)] + a[s \ {Pick(s)}]
           /\ b[s] = k[Pick(s)] + b[s \ {Pick(s)}]
           /\ c[s] = h[Pick(s)] + c[s \ {Pick(s)}]
  BY <1>1, <1>2, <1>3, SumsAt
<1>. DEFINE Added(s) == a[s] \in Int /\ b[s] \in Int /\ c[s] = a[s] + b[s]
            U == {n \in Nat : \A s \in SUBSET S : Cardinality(s) = n => Added(s)}
<1>5. 0 \in U
  <2>. SUFFICES ASSUME NEW s \in SUBSET S, Cardinality(s) = 0 PROVE Added(s)
    OBVIOUS
  <2>1. s = {}
    BY FS_EmptySet, FS_Subset
  <2>. QED  BY <1>4, <2>1
<1>6. ASSUME NEW n \in Nat, n \in U PROVE n + 1 \in U
  <2>. SUFFICES ASSUME NEW s \in SUBSET S, Cardinality(s) = n + 1 PROVE Added(s)
    OBVIOUS
  <2>1. s # {}
    BY FS_EmptySet
  <2>. DEFINE p == Pick(s)
              r == s \ {p}
  <2>2. p \in S /\ r \in SUBSET S /\ Cardinality(r) = n
    BY <2>1, PickIn
  <2>3. Added(r)
    BY <1>6, <2>2
  <2>4. a[s] = f[p] + a[r] /\ b[s] = k[p] + b[r] /\ c[s] = h[p] + c[r]
    BY <1>4, <2>1
  <2>5. f[p] \in Int /\ k[p] \in Int /\ h[p] = f[p] + k[p]
    BY <1>0, <2>2
  <2>. HIDE DEF p, r
  <2>. QED  BY <2>3, <2>4, <2>5
<1>7. Nat \subseteq U
  <2>. HIDE DEF U
  <2>. QED  BY <1>5, <1>6, AllNat
<1>. QED  BY <1>1, <1>2, <1>3, <1>7, FS_CardinalityType
=============================================================================
