------------------------ MODULE SectorScanner_proofs ------------------------
(***************************************************************************)
(* Proofs about a scan and about the runtime file, for every set of        *)
(* markets and ticks, every configuration, and any number of processes,    *)
(* refreshes, failed writes and cut files.                                 *)
(***************************************************************************)
EXTENDS SectorScanner, FoldTheorems

(***************************************************************************)
(* Sequences                                                               *)
(***************************************************************************)
LEMMA TakeIs ==
  ASSUME NEW A, NEW q \in Seq(A), NEW n \in Nat
  PROVE  /\ Take(q, n) \in Seq(A)
         /\ \A i \in DOMAIN Take(q, n) : \E j \in DOMAIN q : Take(q, n)[i] = q[j]
<1>. DEFINE k == Min({n, Len(q)})
<1>1. Len(q) \in Nat /\ DOMAIN q = 1 .. Len(q)
  BY LenProperties
<1>2. k \in Nat /\ k <= Len(q)
  BY <1>1, SmallestIn
<1>. HIDE DEF k
<1>3. /\ SubSeq(q, 1, k) \in Seq(A) /\ Len(SubSeq(q, 1, k)) = k
      /\ \A i \in 1 .. k : SubSeq(q, 1, k)[i] = q[i]
  BY <1>1, <1>2, SubSeqProperties
<1>4. DOMAIN SubSeq(q, 1, k) = 1 .. k
  BY <1>3, LenProperties
<1>5. Take(q, n) = SubSeq(q, 1, k)
  BY DEF Take, k
<1>6. 1 .. k \subseteq DOMAIN q
  BY <1>1, <1>2
<1>. QED  BY <1>3, <1>4, <1>5, <1>6

Seen(v, x) == IF x \in Range(v) THEN v ELSE Append(v, x)
SeenStep(A) == [p \in Seq(A) \X A |-> Seen(p[1], p[2])]

\* Distinct makes a sequence of what it is given.
LEMMA DistinctIs ==
  ASSUME NEW A, NEW q \in Seq(A)
  PROVE  Distinct(q) \in Seq(A)
<1>. DEFINE V == Seq(A)
            step == SeenStep(A)
            Iter(it) == it = [s \in SUBSET DOMAIN q |->
                               IF s = {} THEN <<>> ELSE Seen(it[s \ {Max(s)}], q[Max(s)])]
            g == CHOOSE it : Iter(it)
<1>1. \A v \in V, x \in A : Seen(v, x) \in V /\ step[<<v, x>>] = Seen(v, x)
  <2>. SUFFICES ASSUME NEW v \in V, NEW x \in A
                PROVE  Seen(v, x) \in V /\ step[<<v, x>>] = Seen(v, x)
    OBVIOUS
  <2>1. Seen(v, x) \in V
    BY AppendProperties DEF Seen
  <2>. QED  BY <2>1 DEF SeenStep
<1>2. IsFold(step, <<>>, q, A, V)
  <2>1. \A p \in V \X A : Seen(p[1], p[2]) \in V
    BY <1>1
  <2>2. step \in [V \X A -> V]
    BY <2>1 DEF SeenStep
  <2>. QED  BY <2>2, EmptySeq DEF IsFold, IsStep
<1>3. Distinct(q) = g[DOMAIN q]
  BY DEF Distinct, FoldLeft, MapThenFoldSet, Seen
<1>4. \A s \in SUBSET DOMAIN q : s # {} => Max(s) \in s /\ q[Max(s)] \in A
  BY Places
<1>. HIDE DEF step, V
<1>5. PICK h : SeqFolds(h, step, <<>>, q, V) /\ FoldBy(step, <<>>, q, V) = h[DOMAIN q]
  BY <1>2, FoldByIs
<1>6. Iter(h)
  BY <1>1, <1>4, <1>5 DEF SeqFolds
<1>7. Iter(g)
  BY <1>6
<1>. HIDE DEF g
<1>8. SameSteps(g, h, step, <<>>, q)
  <2>1. g[{}] = <<>>
    BY <1>7
  <2>2. ASSUME NEW s \in SUBSET DOMAIN q, s # {}, g[s \ {Max(s)}] = h[s \ {Max(s)}]
        PROVE  g[s] = step[<<h[s \ {Max(s)}], q[Max(s)]>>]
    <3>1. g[s] = Seen(h[s \ {Max(s)}], q[Max(s)])
      BY <1>7, <2>2
    <3>2. h[s \ {Max(s)}] \in V /\ q[Max(s)] \in A
      BY <1>4, <1>5, <2>2 DEF SeqFolds
    <3>. QED  BY <1>1, <3>1, <3>2
  <2>. QED  BY <2>1, <2>2 DEF SameSteps
<1>9. g[DOMAIN q] = h[DOMAIN q]
  BY <1>2, <1>5, <1>8, SeqFoldsSame
<1>. QED  BY <1>3, <1>5, <1>9 DEF SeqFolds, V

\* A function on 1 .. n is a sequence of its values.
LEMMA ValuesOf ==
  ASSUME NEW f, NEW n \in Nat, f = [i \in 1 .. n |-> f[i]]
  PROVE  f \in Seq({f[i] : i \in DOMAIN f})
<1>. DEFINE A == {f[i] : i \in 1 .. n}
<1>1. DOMAIN f = 1 .. n
  OBVIOUS
<1>2. f \in [1 .. n -> A]
  OBVIOUS
<1>. HIDE DEF A
<1>3. f \in Seq(A)
  BY <1>2, IsASeq
<1>. QED  BY <1>1, <1>3 DEF A

(***************************************************************************)
(* A scan: the candidates are a sequence.                                  *)
(***************************************************************************)
AllRows(m) == UNION {{m.rank[k][i] : i \in DOMAIN m.rank[k]} : k \in Range(Sources)}

LEMMA RowsAre ==
  ASSUME NEW name \in Markets, NEW i \in DOMAIN Sources
  PROVE  Rows(MarketOf[name], Sources[i]) \in Seq(AllRows(MarketOf[name]))
<1>. DEFINE m == MarketOf[name]
            k == Sources[i]
            R == {m.rank[k][j] : j \in DOMAIN m.rank[k]}
<1>1. k \in {"volume", "return", "strength", "high", "block"} /\ k \in Range(Sources)
  BY DEF Sources, Range
<1>2. m.rank[k] \in Seq(R)
  BY <1>1, ScanAssumption
<1>3. R \subseteq AllRows(m)
  BY <1>1 DEF AllRows
<1>4. m.rank[k] \in Seq(AllRows(m)) /\ <<>> \in Seq(AllRows(m))
  <2>. HIDE DEF m, k, R
  <2>. QED  BY <1>2, <1>3, SeqMonotonic, EmptySeq
<1>. QED  BY <1>4 DEF Rows

\* A sequence of whatever it holds.
Listed(c) == c \in Seq({c[i] : i \in DOMAIN c})

LEMMA CandidatesAre ==
  ASSUME NEW name \in Markets, NEW allowed, NEW dynamic
  PROVE  Listed(Candidates(MarketOf[name], allowed, dynamic))
<1>. DEFINE m == MarketOf[name]
            A == AllRows(m)
            lists == [i \in DOMAIN Sources |-> Rows(m, Sources[i])]
            all == FlattenSeq(lists)
            rows == Kept(all, {r \in Range(all) : r.symbol \in allowed})
            named == [i \in DOMAIN rows |-> rows[i].symbol]
            symbols == Distinct(named)
            c == Candidates(m, allowed, dynamic)
<1>1. lists \in Seq(Seq(A))
  <2>1. DOMAIN Sources = 1 .. 5
    BY DEF Sources
  <2>2. lists \in [1 .. 5 -> Seq(A)]
    <3>. HIDE DEF m, A
    <3>. QED  BY <2>1, RowsAre DEF m, A
  <2>. QED  BY <2>2, IsASeq
<1>2. all \in Seq(A)
  <2>. HIDE DEF lists, A
  <2>. QED  BY <1>1, FlattenIs
<1>3. rows \in Seq(A)
  <2>. HIDE DEF all, A
  <2>1. KeptLaws(A, {r \in Range(all) : r.symbol \in allowed})
    BY KeptObeys
  <2>. QED  BY <1>2, <2>1 DEF KeptLaws
<1>4. named \in Seq({named[i] : i \in DOMAIN named})
  <2>1. DOMAIN rows = 1 .. Len(rows) /\ Len(rows) \in Nat
    BY <1>3, LenProperties
  <2>2. named = [i \in 1 .. Len(rows) |-> named[i]]
    <3>. HIDE DEF rows
    <3>. QED  BY <2>1
  <2>. HIDE DEF named, rows
  <2>. QED  BY <2>1, <2>2, ValuesOf
<1>5. symbols \in Seq({named[i] : i \in DOMAIN named})
  <2>. HIDE DEF named
  <2>. QED  BY <1>4, DistinctIs
<1>6. DOMAIN symbols = 1 .. Len(symbols) /\ Len(symbols) \in Nat
  <2>. HIDE DEF symbols, named
  <2>. QED  BY <1>5, LenProperties
<1>7. c = [i \in DOMAIN symbols |-> c[i]]
  BY DEF Candidates
<1>8. c = [i \in 1 .. Len(symbols) |-> c[i]]
  <2>. HIDE DEF c, symbols
  <2>. QED  BY <1>6, <1>7
<1>. HIDE DEF c, symbols
<1>9. c \in Seq({c[i] : i \in DOMAIN c})
  BY <1>6, <1>8, ValuesOf
<1>. QED  BY <1>9 DEF c, m, Listed

(***************************************************************************)
(* A scan, stage by stage: what each leaves of the record.                 *)
(***************************************************************************)
IsScan(x) == DOMAIN x = DOMAIN Unscanned

\* The stages after the pool leave the top groups, the pool and its groups.
SamePool(x, y) ==
  /\ IsScan(y)
  /\ y.universe = x.universe /\ y.sectors = x.sectors /\ y.top = x.top /\ y.pool = x.pool

LEMMA UniverseStage ==
  ASSUME NEW m, NEW x \in Universes(m)
  PROVE  IsScan(x) /\ x.m = m
<1>1. PICK z : z = Loaded(m) /\ x = Evaluated(Grouped(Framed(z)))
  BY DEF Universes
<1>2. IsScan(z) /\ z.m = m
  BY <1>1 DEF Loaded, IsScan, Unscanned
<1>3. IsScan(Framed(z)) /\ Framed(z).m = m
  BY <1>2 DEF Framed, IsScan, Unscanned
<1>4. IsScan(Grouped(Framed(z))) /\ Grouped(Framed(z)).m = m
  BY <1>3 DEF Grouped, IsScan, Unscanned
<1>. QED  BY <1>1, <1>4 DEF Evaluated, IsScan, Unscanned

LEMMA GatherStage ==
  ASSUME NEW name \in Markets, NEW z, IsScan(z), z.m = MarketOf[name]
  PROVE  LET x == Gathered(Ranked(z))
         IN  IsScan(x) /\ x.candidates \in Seq(Range(x.candidates))
<1>. DEFINE y == Ranked(z)
            x == Gathered(y)
<1>1. IsScan(y) /\ y.m = MarketOf[name]
  BY DEF Ranked, IsScan, Unscanned
<1>. HIDE DEF y
<1>2. /\ IsScan(x)
      /\ x.candidates = IF y.universe THEN Candidates(MarketOf[name], Range(y.symbols), DynamicOf(y))
                        ELSE Candidates(MarketOf[name], AllRanked(MarketOf[name]), <<>>)
  BY <1>1 DEF Gathered, IsScan, Unscanned
<1>3. PICK allowed, dynamic : x.candidates = Candidates(MarketOf[name], allowed, dynamic)
  BY <1>2
<1>4. x.candidates \in Seq({x.candidates[i] : i \in DOMAIN x.candidates})
  <2>. HIDE DEF x
  <2>1. Listed(Candidates(MarketOf[name], allowed, dynamic))
    BY CandidatesAre
  <2>. QED  BY <1>3, <2>1 DEF Listed
<1>. QED  BY <1>2, <1>4 DEF y, Range

\* The pool holds only stocks near the top groups, or else none at all.
Alike(x) ==
  \/ \A i \in DOMAIN x.pool : InTop(x, x.pool[i])
  \/ \A i \in DOMAIN x.pool : ~InTop(x, x.pool[i])

LEMMA PoolStage ==
  ASSUME NEW x, IsScan(x), x.candidates \in Seq(Range(x.candidates))
  PROVE  IsScan(Pooled(x)) /\ Alike(Pooled(x))
<1>. DEFINE C == Range(x.candidates)
            near == {c \in C : InTop(x, c)}
            from == IF near = {} THEN x.candidates ELSE Kept(x.candidates, near)
            p == Pooled(x)
<1>1. /\ IsScan(p) /\ p.pool = Take(from, PoolLimit)
      /\ p.universe = x.universe /\ p.top = x.top
  BY DEF Pooled, IsScan, Unscanned
<1>2. \A c : InTop(p, c) <=> InTop(x, c)
  <2>. HIDE DEF p
  <2>. QED  BY <1>1 DEF InTop, KeysOf
<1>3. Kept(x.candidates, near) \in Seq(C \cap near)
  <2>. HIDE DEF C, near
  <2>. QED  BY KeptIs DEF C
<1>. DEFINE S == IF near = {} THEN C ELSE C \cap near
<1>4. from \in Seq(S)
  <2>. HIDE DEF C, near
  <2>. QED  BY <1>3 DEF C
<1>5. PoolLimit \in Nat
  BY ScanAssumption
<1>. HIDE DEF p
<1>6. \A i \in DOMAIN p.pool : p.pool[i] \in S
  <2>1. Take(from, PoolLimit) \in Seq(S)
    <3>. HIDE DEF from, S
    <3>. QED  BY <1>4, <1>5, TakeIs
  <2>. HIDE DEF from, S
  <2>. QED  BY <1>1, <2>1, ElementOfSeq, LenProperties
<1>7. CASE near = {}
  <2>1. \A i \in DOMAIN p.pool : ~InTop(x, p.pool[i])
    BY <1>6, <1>7
  <2>. QED  BY <1>1, <1>2, <2>1 DEF p, Alike
<1>8. CASE near # {}
  <2>1. \A i \in DOMAIN p.pool : InTop(x, p.pool[i])
    BY <1>6, <1>8
  <2>. QED  BY <1>1, <1>2, <2>1 DEF p, Alike
<1>. QED  BY <1>7, <1>8

(***************************************************************************)
(* The filters and the leaders.                                            *)
(***************************************************************************)
\* What the leaders depend on: a stock that passed has a group that counts, and
\* its key is a top one exactly when it is near the top groups.
Keyed(w) ==
  \A i \in DOMAIN w.scores :
    /\ i \in DOMAIN w.pool
    /\ w.scores[i].passed => (w.scores[i].key \in w.top <=> InTop(w, w.pool[i]))

LEMMA NoGroup ==
  ASSUME NEW scores
  PROVE  Best(scores, "score", {}) = 0
<1>. DEFINE none == {e["score"] : e \in {x \in Range(scores) : x.key \in {}}}
<1>1. {0} \cup none = {0}
  OBVIOUS
<1>. HIDE DEF none
<1>2. Max({0}) = 0
  BY DEF Max
<1>. QED  BY <1>1, <1>2 DEF Best, none

LEMMA KeyOfPassed ==
  ASSUME NEW x, NEW c, NEW snap, PassesFilters(snap, Best(x.sectors, "score", KeysOf(x, c)))
  PROVE  (IF x.universe THEN LeaderKey(c, x.top) ELSE LegacyKey(c)) \in x.top <=> InTop(x, c)
<1>1. KeysOf(x, c) # {}
  <2>1. Best(x.sectors, "score", KeysOf(x, c)) >= MinSectorScore
    BY DEF PassesFilters
  <2>2. MinSectorScore \in Nat \ {0}
    BY ScanAssumption
  <2>. QED  BY <2>1, <2>2, NoGroup
<1>2. CASE x.universe
  <2>1. c.sector # None \/ c.dynamic # None
    BY <1>1, <1>2 DEF KeysOf, Keys
  <2>2. InTop(x, c) <=> \/ (c.dynamic # None /\ c.dynamic \in x.top)
                       \/ (c.sector # None /\ <<"F", c.sector>> \in x.top)
    BY <1>2 DEF InTop, KeysOf, Keys
  <2>. QED  BY <1>2, <2>1, <2>2 DEF LeaderKey
<1>3. CASE ~x.universe
  <2>1. c.sector # None
    BY <1>1, <1>3 DEF KeysOf, LegacyKeys
  <2>. QED  BY <1>3, <2>1 DEF InTop, KeysOf, LegacyKeys, LegacyKey
<1>. QED  BY <1>2, <1>3

\* Group scores are looked up for the pool as it stands.
Looked(y) == y.sector = [i \in DOMAIN y.pool |-> Best(y.sectors, "score", KeysOf(y, y.pool[i]))]

LEMMA SnapStage ==
  ASSUME NEW x, IsScan(x)
  PROVE  SamePool(x, Snapped(x)) /\ Looked(Snapped(x))
<1>. DEFINE y == Snapped(x)
<1>1. SamePool(x, y)
  BY DEF Snapped, SamePool, IsScan, Unscanned
<1>2. y.sector = [i \in DOMAIN x.pool |-> Best(x.sectors, "score", KeysOf(x, x.pool[i]))]
  BY DEF Snapped, IsScan, Unscanned
<1>3. \A c : KeysOf(y, c) = KeysOf(x, c)
  <2>. HIDE DEF y
  <2>. QED  BY <1>1 DEF SamePool, KeysOf
<1>. HIDE DEF y
<1>4. Looked(y)
  BY <1>1, <1>2, <1>3 DEF SamePool, Looked
<1>. QED  BY <1>1, <1>4 DEF y

LEMMA ScoreStage ==
  ASSUME NEW x, IsScan(x), Looked(x)
  PROVE  SamePool(x, Scored(x)) /\ Looked(Scored(x))
<1>. DEFINE y == Scored(x)
<1>1. SamePool(x, y) /\ y.sector = x.sector
  BY DEF Scored, SamePool, IsScan, Unscanned
<1>2. \A c : KeysOf(y, c) = KeysOf(x, c)
  <2>. HIDE DEF y
  <2>. QED  BY <1>1 DEF SamePool, KeysOf
<1>. HIDE DEF y
<1>3. Looked(y)
  BY <1>1, <1>2 DEF SamePool, Looked
<1>. QED  BY <1>1, <1>3 DEF y

LEMMA FilterStage ==
  ASSUME NEW x, IsScan(x), Looked(x)
  PROVE  /\ SamePool(x, Filtered(x)) /\ Keyed(Filtered(x))
         /\ \A i \in DOMAIN Filtered(x).scores :
              DOMAIN Filtered(x).scores[i] = {"symbol", "score", "key", "passed"}
<1>. DEFINE w == Filtered(x)
<1>1. SamePool(x, w)
  BY DEF Filtered, SamePool, IsScan, Unscanned
<1>2. /\ DOMAIN w.scores = DOMAIN x.pool
      /\ \A i \in DOMAIN x.pool :
           /\ DOMAIN w.scores[i] = {"symbol", "score", "key", "passed"}
           /\ w.scores[i].key = IF x.universe THEN LeaderKey(x.pool[i], x.top) ELSE LegacyKey(x.pool[i])
           /\ w.scores[i].passed => PassesFilters(x.snaps[x.pool[i].symbol], x.sector[i])
  BY DEF Filtered, IsScan, Unscanned
<1>3. \A c : InTop(w, c) <=> InTop(x, c)
  <2>. HIDE DEF w
  <2>. QED  BY <1>1 DEF SamePool, InTop, KeysOf
<1>. HIDE DEF w
<1>4. ASSUME NEW i \in DOMAIN w.scores, w.scores[i].passed
      PROVE  w.scores[i].key \in w.top <=> InTop(w, w.pool[i])
  <2>1. PassesFilters(x.snaps[x.pool[i].symbol], Best(x.sectors, "score", KeysOf(x, x.pool[i])))
    BY <1>2, <1>4 DEF Looked
  <2>2. (IF x.universe THEN LeaderKey(x.pool[i], x.top) ELSE LegacyKey(x.pool[i])) \in x.top
          <=> InTop(x, x.pool[i])
    BY <2>1, KeyOfPassed
  <2>. QED  BY <1>1, <1>2, <1>3, <2>2 DEF SamePool
<1>5. Keyed(w)
  BY <1>1, <1>2, <1>4 DEF Keyed, SamePool
<1>. QED  BY <1>1, <1>2, <1>5 DEF w

(***************************************************************************)
(* What a scan finds.                                                      *)
(***************************************************************************)
IsResult(x) ==
  /\ DOMAIN x = {"top", "scores", "leaders", "snaps"}
  /\ \A i \in DOMAIN x.scores : DOMAIN x.scores[i] = {"symbol", "score", "key", "passed"}
  /\ DOMAIN x.leaders = DOMAIN Leaders(x.scores)

UnderTop(x) == DOMAIN x.leaders \cap x.top # {} => DOMAIN x.leaders \subseteq x.top

LEMMA LeaderKeys ==
  ASSUME NEW scores
  PROVE  DOMAIN Leaders(scores) = {scores[i].key : i \in {j \in DOMAIN scores : scores[j].passed}}
BY DEF Leaders

LEMMA AlikeResult ==
  ASSUME NEW w, IsScan(w), Alike(w), Keyed(w),
         \A i \in DOMAIN w.scores : DOMAIN w.scores[i] = {"symbol", "score", "key", "passed"}
  PROVE  IsResult(Result(w)) /\ UnderTop(Result(w))
<1>. DEFINE r == Result(w)
<1>1. r.scores = w.scores /\ r.top = w.top /\ r.leaders = Leaders(w.scores)
  BY DEF Result
<1>2. DOMAIN r = {"top", "scores", "leaders", "snaps"}
  BY DEF Result
<1>. HIDE DEF r
<1>3. IsResult(r)
  BY <1>1, <1>2 DEF IsResult
<1>4. DOMAIN r.leaders = {w.scores[i].key : i \in {j \in DOMAIN w.scores : w.scores[j].passed}}
  BY <1>1, LeaderKeys
<1>a. ASSUME NEW k \in DOMAIN r.leaders
      PROVE  \E i \in DOMAIN w.pool : k \in r.top <=> InTop(w, w.pool[i])
  BY <1>1, <1>4 DEF Keyed
<1>5. ASSUME \A i \in DOMAIN w.pool : InTop(w, w.pool[i]) PROVE UnderTop(r)
  BY <1>a, <1>5 DEF UnderTop
<1>6. ASSUME \A i \in DOMAIN w.pool : ~InTop(w, w.pool[i]) PROVE UnderTop(r)
  BY <1>a, <1>6 DEF UnderTop
<1>. QED  BY <1>3, <1>5, <1>6 DEF r, Alike

LEMMA SameAlike ==
  ASSUME NEW x, NEW y, SamePool(x, y), Alike(x)
  PROVE  Alike(y)
<1>1. \A c : InTop(y, c) <=> InTop(x, c)
  BY DEF SamePool, InTop, KeysOf
<1>. QED  BY <1>1 DEF SamePool, Alike

\* A scan keeps its promise on every market, whichever pipeline it takes, and
\* finds one score record for each stock of its pool.
THEOREM ScanFinds ==
  ASSUME NEW r \in Scanned
  PROVE  IsResult(r) /\ UnderTop(r)
<1>1. PICK name \in Markets : r \in ScanOnce(MarketOf[name])
  BY DEF Scanned
<1>. DEFINE m == MarketOf[name]
<1>2. PICK p \in Pools(m) : r = Result(Filtered(Scored(Snapped(p))))
  BY <1>1 DEF ScanOnce
<1>3. PICK z \in Universes(m) : p = Pooled(Gathered(Ranked(z)))
  BY <1>2 DEF Pools
<1>4. IsScan(z) /\ z.m = m
  BY <1>3, UniverseStage
<1>5. IsScan(p) /\ Alike(p)
  <2>. DEFINE x == Gathered(Ranked(z))
  <2>1. IsScan(x) /\ x.candidates \in Seq(Range(x.candidates))
    BY <1>4, GatherStage
  <2>. HIDE DEF x
  <2>2. IsScan(Pooled(x)) /\ Alike(Pooled(x))
    BY <2>1, PoolStage
  <2>. QED  BY <1>3, <2>2 DEF x
<1>. DEFINE s == Snapped(p)
            t == Scored(s)
            w == Filtered(t)
<1>6. SamePool(p, s) /\ Looked(s)
  BY <1>5, SnapStage
<1>. HIDE DEF s
<1>7. IsScan(s) /\ Alike(s)
  BY <1>5, <1>6, SameAlike DEF SamePool
<1>8. SamePool(s, t) /\ Looked(t)
  BY <1>6, <1>7, ScoreStage
<1>. HIDE DEF t
<1>9. IsScan(t) /\ Alike(t)
  BY <1>7, <1>8, SameAlike DEF SamePool
<1>10. /\ SamePool(t, w) /\ Keyed(w)
       /\ \A i \in DOMAIN w.scores : DOMAIN w.scores[i] = {"symbol", "score", "key", "passed"}
  BY <1>8, <1>9, FilterStage
<1>. HIDE DEF w
<1>11. IsScan(w) /\ Alike(w)
  BY <1>9, <1>10, SameAlike DEF SamePool
<1>12. IsResult(Result(w)) /\ UnderTop(Result(w))
  BY <1>10, <1>11, AlikeResult
<1>. QED  BY <1>2, <1>12 DEF s, t, w

(***************************************************************************)
(* The leaders of the last scan.                                           *)
(***************************************************************************)
ResultInv == IsResult(result) /\ UnderTop(result)

LEMMA NothingYet == IsResult(NoResult) /\ UnderTop(NoResult)
<1>1. DOMAIN NoResult.leaders = {} /\ DOMAIN NoResult.scores = {}
  BY DEF NoResult
<1>2. DOMAIN Leaders(NoResult.scores) = {}
  BY <1>1, LeaderKeys
<1>. QED  BY <1>1, <1>2 DEF NoResult, IsResult, UnderTop

LEMMA NextResult == ResultInv /\ [Next]_vars => ResultInv'
<1>. SUFFICES ASSUME ResultInv, [Next]_vars PROVE ResultInv'
  OBVIOUS
<1>1. CASE Start
  BY <1>1, NothingYet DEF Start, ResultInv
<1>2. ASSUME NEW found \in Scanned, Scan(found) PROVE ResultInv'
  BY <1>2, ScanFinds DEF Scan, ResultInv
<1>3. CASE result' = result
  BY <1>3 DEF ResultInv
<1>4. RefreshFails \/ Export \/ Sleep \/ Pass \/ Repair \/ Ended \/ UNCHANGED vars => result' = result
  BY DEF RefreshFails, Export, Sleep, Pass, Repair, Ended, vars
<1>5. ASSUME NEW delivery \in Deliveries, NEW retried \in 0 .. 1, NEW saved \in BOOLEAN,
             Refresh(delivery, retried, saved)
      PROVE  result' = result
  BY <1>5 DEF Refresh
<1>6. ASSUME NEW cut \in BOOLEAN, Stop(cut) PROVE result' = result
  BY <1>6 DEF Stop
<1>. QED  BY <1>1, <1>2, <1>3, <1>4, <1>5, <1>6 DEF Next

\* Once a leader is listed under one of the top groups of a scan every leader
\* is, on any market (pick_leaders_by_sector, _leader_key, the pool and the
\* filters of scan_once).
THEOREM LeadersInTopGroups == Spec => []LeadersUnderTopSectors
<1>1. Init => ResultInv
  BY NothingYet DEF Init, ResultInv
<1>2. ResultInv => LeadersUnderTopSectors
  BY DEF ResultInv, UnderTop, LeadersUnderTopSectors
<1>. QED  BY <1>1, <1>2, NextResult, PTL DEF Spec

(***************************************************************************)
(* The runtime file.                                                       *)
(***************************************************************************)
Field(f) == UNION {{d[i][f] : i \in DOMAIN d} : d \in Deliveries}
Ticks == [symbol : Field("symbol"), price : Field("price"), volume : Field("volume"), ts : Int]

\* The ticks of the window at a time, and those of a stock.
Since(now) == {t \in Ticks : InWindow(t, now)}
Of(s, now) == {t \in Ticks : t.symbol = s /\ InWindow(t, now)}

\* The file holds the delivered ticks of the window at its last refresh, and the
\* scores of the scan it belongs to moved once by them.
FileInv ==
  /\ runtime.at \in Int /\ runtime.at <= clock
  /\ runtime.buffer = Recent(delivered, runtime.at)
  /\ IsResult(runtime.of)
  /\ runtime.scores = AdjustScores(runtime.of.scores, runtime.of.snaps, runtime.buffer, runtime.at)
  /\ runtime.leaders = Leaders(runtime.scores)

RuntimeInv ==
  /\ clock \in Int /\ delivered \in Seq(Ticks)
  /\ runtime.state \in {"ok", "missing", "corrupt"}
  /\ runtime.state = "missing" => delivered = <<>>
  /\ runtime.state = "ok" => FileInv

\* Keeping the elements of a sequence that are in P is keeping P.
LEMMA KeptWhere ==
  ASSUME NEW A, NEW q \in Seq(A), NEW S, NEW P, \A t \in Range(q) : t \in S <=> t \in P
  PROVE  Kept(q, S) = Kept(q, P)
<1>1. q \in Seq(Range(q))
  <2>1. Len(q) \in Nat /\ DOMAIN q = 1 .. Len(q) /\ q = [i \in 1 .. Len(q) |-> q[i]]
    BY LenProperties, SeqDef
  <2>. QED  BY <2>1, ValuesOf DEF Range
<1>. QED  BY <1>1, KeptSame

LEMMA RangeIn ==
  ASSUME NEW A, NEW q \in Seq(A)
  PROVE  Range(q) \subseteq A
BY ElementOfSeq, LenProperties DEF Range

LEMMA RecentIs ==
  ASSUME NEW q \in Seq(Ticks), NEW now
  PROVE  Recent(q, now) = Kept(q, Since(now)) /\ Recent(q, now) \in Seq(Ticks)
<1>1. \A t \in Range(q) : t \in {u \in Range(q) : InWindow(u, now)} <=> t \in Since(now)
  BY RangeIn DEF Since
<1>2. Recent(q, now) = Kept(q, Since(now))
  <2>. HIDE DEF Since
  <2>. QED  BY <1>1, KeptWhere DEF Recent
<1>3. KeptLaws(Ticks, Since(now))
  BY KeptObeys
<1>. QED  BY <1>2, <1>3 DEF KeptLaws

\* The ticks of a stock in a buffer are its ticks among all those delivered.
LEMMA TicksOfRecent ==
  ASSUME NEW q \in Seq(Ticks), NEW now \in Int, NEW s
  PROVE  TicksOf(Recent(q, now), s, now)
           = Kept(q, {t \in Range(q) : t.symbol = s /\ t.ts + Window >= now})
<1>. DEFINE b == Recent(q, now)
<1>1. b = Kept(q, Since(now)) /\ b \in Seq(Ticks)
  BY RecentIs
<1>. HIDE DEF b
<1>2. TicksOf(b, s, now) = Kept(b, Of(s, now))
  <2>1. \A t \in Range(b) : t \in {u \in Range(b) : u.symbol = s /\ InWindow(u, now)} <=> t \in Of(s, now)
    BY <1>1, RangeIn DEF Of
  <2>. QED  BY <1>1, <2>1, KeptWhere DEF TicksOf
<1>3. Kept(Kept(q, Since(now)), Of(s, now)) = Kept(q, Of(s, now))
  <2>1. \A t \in Ticks : t \in Of(s, now) <=> t \in Of(s, now) /\ t \in Since(now)
    BY DEF Of, Since
  <2>. QED  BY <2>1, KeptTwice
<1>4. Kept(q, {t \in Range(q) : t.symbol = s /\ t.ts + Window >= now}) = Kept(q, Of(s, now))
  <2>1. Window \in Int
    BY TickAssumption
  <2>2. \A t \in Ticks : t.ts \in Int
    BY DEF Ticks
  <2>3. \A t \in Ticks : t.ts + Window >= now <=> InWindow(t, now)
    BY <2>1, <2>2 DEF InWindow
  <2>4. \A t \in Range(q) : t \in {u \in Range(q) : u.symbol = s /\ u.ts + Window >= now} <=> t \in Of(s, now)
    BY <2>3, RangeIn DEF Of
  <2>. QED  BY <2>4, KeptWhere
<1>. QED  BY <1>1, <1>2, <1>3, <1>4 DEF b

\* A later window holds nothing that an earlier one does not hold.
LEMMA MergeIs ==
  ASSUME NEW q \in Seq(Ticks), NEW events \in Seq(Ticks), NEW at \in Int, NEW now \in Int, at <= now
  PROVE  MergeTicks(Recent(q, at), events, now) = Recent(q \o events, now)
<1>. DEFINE b == Recent(q, at)
            W == Since(now)
<1>1. b = Kept(q, Since(at)) /\ b \in Seq(Ticks)
  BY RecentIs
<1>. HIDE DEF b
<1>2. b \o events \in Seq(Ticks) /\ q \o events \in Seq(Ticks)
  BY <1>1, ConcatProperties
<1>3. MergeTicks(b, events, now) = Kept(b \o events, W) /\ Recent(q \o events, now) = Kept(q \o events, W)
  BY <1>2, RecentIs DEF MergeTicks
<1>4. \A t \in Ticks : t \in W <=> t \in W /\ t \in Since(at)
  <2>1. Window \in Int
    BY TickAssumption
  <2>2. \A t \in Ticks : t.ts \in Int
    BY DEF Ticks
  <2>. QED  BY <2>1, <2>2 DEF Since, InWindow
<1>. HIDE DEF W
<1>5. Kept(Kept(q, Since(at)), W) = Kept(q, W)
  BY <1>4, KeptTwice
<1>6. Kept(b \o events, W) = Kept(b, W) \o Kept(events, W)
  <2>1. b \in Seq(Ticks)
    BY <1>1
  <2>. QED  BY <2>1, KeptJoins
<1>7. Kept(q \o events, W) = Kept(q, W) \o Kept(events, W)
  BY KeptJoins
<1>. QED  BY <1>1, <1>3, <1>5, <1>6, <1>7 DEF b

LEMMA EventsAre ==
  ASSUME clock \in Int, NEW delivery \in Deliveries, NEW retried \in 0 .. 1
  PROVE  Events(delivery, retried) \in Seq(Ticks)
<1>. DEFINE D == {delivery[i] : i \in DOMAIN delivery}
            asked == Kept(delivery, {e \in Range(delivery) : e.symbol \in Range(Subscribed(result))})
            tick(e) == [symbol |-> e.symbol, price |-> e.price, volume |-> e.volume, ts |-> clock - e.late]
            ticks == [i \in DOMAIN asked |-> tick(asked[i])]
<1>1. delivery \in Seq(D) /\ \A e \in D : e.late \in Int
  BY TickAssumption
<1>2. asked \in Seq(D)
  <2>. HIDE DEF D
  <2>1. KeptLaws(D, {e \in Range(delivery) : e.symbol \in Range(Subscribed(result))})
    BY KeptObeys
  <2>. QED  BY <1>1, <2>1 DEF KeptLaws
<1>3. \A e \in D : tick(e) \in Ticks
  BY <1>1 DEF Ticks, Field
<1>. HIDE DEF D, asked
<1>4. Len(asked) \in Nat /\ DOMAIN asked = 1 .. Len(asked) /\ \A i \in DOMAIN asked : asked[i] \in D
  BY <1>2, LenProperties, ElementOfSeq
<1>. HIDE DEF tick
<1>5. ticks \in [1 .. Len(asked) -> Ticks]
  BY <1>3, <1>4
<1>6. ticks \in Seq(Ticks)
  BY <1>4, <1>5, IsASeq
<1>. HIDE DEF ticks
<1>7. Take(ticks, retried) \in Seq(Ticks)
  <2>1. retried \in Nat
    OBVIOUS
  <2>. QED  BY <1>6, <2>1, TakeIs
<1>8. Take(ticks, retried) \o ticks \in Seq(Ticks)
  BY <1>6, <1>7, ConcatProperties
<1>9. MaxEvents \in Nat
  BY TickAssumption
<1>10. Take(Take(ticks, retried) \o ticks, MaxEvents) \in Seq(Ticks)
  BY <1>8, <1>9, TakeIs
<1>. QED  BY <1>10 DEF Events, ticks, tick, asked

LEMMA InitRuntime == Init => RuntimeInv
BY EmptySeq DEF Init, RuntimeInv, Missing

LEMMA NextRuntime == ResultInv /\ RuntimeInv /\ [Next]_vars => RuntimeInv'
<1>. SUFFICES ASSUME ResultInv, RuntimeInv, [Next]_vars PROVE RuntimeInv'
  OBVIOUS
<1>0. clock \in Int /\ delivered \in Seq(Ticks)
  BY DEF RuntimeInv
<1>1. ASSUME UNCHANGED <<runtime, delivered>>, clock' \in Int, clock' >= clock PROVE RuntimeInv'
  <2>1. runtime.state = "ok" => FileInv'
    BY <1>0, <1>1 DEF RuntimeInv, FileInv
  <2>. QED  BY <1>1, <2>1 DEF RuntimeInv
<1>2. CASE UNCHANGED <<runtime, delivered, clock>>
  BY <1>0, <1>1, <1>2
<1>3. CASE Start \/ RefreshFails \/ Export \/ Ended \/ UNCHANGED vars
  BY <1>2, <1>3 DEF Start, RefreshFails, Export, Ended, vars
<1>4. ASSUME NEW found \in Scanned, Scan(found) PROVE RuntimeInv'
  BY <1>2, <1>4 DEF Scan
<1>5. CASE Sleep \/ Pass
  BY <1>0, <1>1, <1>5 DEF Sleep, Pass
<1>6. CASE Repair
  BY <1>0, <1>6, EmptySeq DEF Repair, RuntimeInv, Missing
<1>7. ASSUME NEW cut \in BOOLEAN, Stop(cut) PROVE RuntimeInv'
  <2>1. CASE cut
    BY <1>0, <1>7, <2>1 DEF Stop, RuntimeInv, Corrupt
  <2>2. CASE ~cut
    BY <1>2, <1>7, <2>2 DEF Stop
  <2>. QED  BY <1>7, <2>1, <2>2
<1>8. ASSUME NEW delivery \in Deliveries, NEW retried \in 0 .. 1, NEW saved \in BOOLEAN,
             Refresh(delivery, retried, saved)
      PROVE  RuntimeInv'
  <2>. DEFINE old == IF runtime.state = "ok" THEN runtime.buffer ELSE <<>>
              events == Events(delivery, retried)
              buffer == MergeTicks(old, events, clock)
              scores == AdjustScores(result.scores, result.snaps, buffer, clock)
  <2>1. /\ runtime' = (IF saved THEN Refreshed(buffer, scores) ELSE runtime)
        /\ delivered' = (IF saved THEN delivered \o events ELSE delivered)
        /\ clock' = clock /\ runtime.state # "corrupt"
    BY <1>8 DEF Refresh
  <2>2. CASE ~saved
    BY <1>2, <2>1, <2>2
  <2>3. CASE saved
    <3>1. events \in Seq(Ticks)
      BY <1>0, EventsAre
    <3>. HIDE DEF events, scores
    <3>2. delivered \o events \in Seq(Ticks)
      BY <1>0, <3>1, ConcatProperties
    <3>3. buffer = Recent(delivered \o events, clock)
      <4>1. CASE runtime.state = "ok"
        <5>1. runtime.at \in Int /\ runtime.at <= clock /\ runtime.buffer = Recent(delivered, runtime.at)
          BY <4>1 DEF RuntimeInv, FileInv
        <5>2. MergeTicks(Recent(delivered, runtime.at), events, clock) = Recent(delivered \o events, clock)
          BY <1>0, <3>1, <5>1, MergeIs
        <5>. QED  BY <4>1, <5>1, <5>2
      <4>2. CASE runtime.state = "missing"
        BY <4>2 DEF RuntimeInv, MergeTicks
      <4>. QED  BY <2>1, <4>1, <4>2 DEF RuntimeInv
    <3>. HIDE DEF buffer
    <3>4. /\ runtime'.state = "ok" /\ runtime'.at = clock /\ runtime'.buffer = buffer
          /\ runtime'.scores = scores /\ runtime'.leaders = Leaders(scores) /\ runtime'.of = result
      BY <2>1, <2>3 DEF Refreshed
    <3>5. delivered' = delivered \o events /\ IsResult(result)
      BY <2>1, <2>3 DEF ResultInv
    <3>6. FileInv'
      <4>1. scores = AdjustScores(result.scores, result.snaps, buffer, clock)
        BY DEF scores
      <4>2. runtime'.at \in Int /\ runtime'.at <= clock'
        BY <1>0, <2>1, <3>4
      <4>3. runtime'.buffer = Recent(delivered', runtime'.at)
        BY <3>3, <3>4, <3>5
      <4>4. runtime'.scores = AdjustScores(runtime'.of.scores, runtime'.of.snaps, runtime'.buffer, runtime'.at)
        BY <3>4, <4>1
      <4>5. IsResult(runtime'.of) /\ runtime'.leaders = Leaders(runtime'.scores)
        BY <3>4, <3>5
      <4>. QED  BY <4>2, <4>3, <4>4, <4>5 DEF FileInv
    <3>. QED  BY <1>0, <2>1, <3>2, <3>4, <3>5, <3>6 DEF RuntimeInv
  <2>. QED  BY <2>2, <2>3
<1>. QED  BY <1>3, <1>4, <1>5, <1>6, <1>7, <1>8 DEF Next

LEMMA AdjustedIs ==
  ASSUME NEW scores, NEW snaps, NEW buffer, NEW now, NEW i \in DOMAIN scores,
         DOMAIN scores[i] = {"symbol", "score", "key", "passed"}
  PROVE  LET a == AdjustScores(scores, snaps, buffer, now)
         IN  /\ DOMAIN a = DOMAIN scores
             /\ a[i].symbol = scores[i].symbol /\ a[i].key = scores[i].key /\ a[i].passed = scores[i].passed
             /\ scores[i].symbol \in DOMAIN snaps
                  => a[i].score = Clip(scores[i].score + Delta(TicksOf(buffer, scores[i].symbol, now),
                                                              snaps[scores[i].symbol]), 0, 100)
<1>. DEFINE a == AdjustScores(scores, snaps, buffer, now)
            ticks == TicksOf(buffer, scores[i].symbol, now)
<1>1. DOMAIN a = DOMAIN scores /\ a[i] = Adjusted(scores[i], ticks, snaps)
  BY DEF AdjustScores
<1>. HIDE DEF a, ticks
<1>2. CASE scores[i].symbol \notin DOMAIN snaps
  BY <1>1, <1>2 DEF a, Adjusted
<1>3. CASE scores[i].symbol \in DOMAIN snaps
  <2>1. a[i] = [scores[i] EXCEPT !.score = Clip(scores[i].score + Delta(ticks, snaps[scores[i].symbol]), 0, 100)]
    BY <1>1, <1>3 DEF Adjusted
  <2>. QED  BY <1>1, <2>1 DEF a, ticks
<1>. QED  BY <1>2, <1>3

LEMMA LeadersAre ==
  ASSUME NEW scores, NEW k \in DOMAIN Leaders(scores), NEW l \in Leaders(scores)[k]
  PROVE  \E i \in DOMAIN scores : scores[i].passed /\ l = scores[i]
BY DEF Leaders

LEMMA FileIsOfScan == RuntimeInv => RealtimeOfScan
<1>. SUFFICES ASSUME RuntimeInv, runtime.state = "ok" PROVE RealtimeOfScan
  BY DEF RealtimeOfScan
<1>. DEFINE x == runtime.of
            a == AdjustScores(x.scores, x.snaps, runtime.buffer, runtime.at)
            recent(s) == Kept(delivered, {t \in Range(delivered) : t.symbol = s /\ t.ts + Window >= runtime.at})
<1>1. /\ delivered \in Seq(Ticks) /\ runtime.at \in Int /\ runtime.buffer = Recent(delivered, runtime.at)
      /\ IsResult(x) /\ runtime.scores = a /\ runtime.leaders = Leaders(a)
  BY DEF RuntimeInv, FileInv
<1>2. \A s : TicksOf(runtime.buffer, s, runtime.at) = recent(s)
  BY <1>1, TicksOfRecent
<1>3. ASSUME NEW i \in DOMAIN x.scores
      PROVE  /\ a[i].symbol = x.scores[i].symbol /\ a[i].key = x.scores[i].key
             /\ a[i].passed = x.scores[i].passed
             /\ x.scores[i].symbol \in DOMAIN x.snaps
                  => a[i].score = Clip(x.scores[i].score
                                        + Delta(TicksOf(runtime.buffer, x.scores[i].symbol, runtime.at),
                                                x.snaps[x.scores[i].symbol]), 0, 100)
  <2>1. DOMAIN x.scores[i] = {"symbol", "score", "key", "passed"}
    BY <1>1 DEF IsResult
  <2>. HIDE DEF x
  <2>. QED  BY <2>1, AdjustedIs
<1>4. DOMAIN a = DOMAIN x.scores
  BY DEF AdjustScores
<1>5. ASSUME NEW i \in DOMAIN x.scores, NEW s \in {x.scores[i].symbol} \cap DOMAIN x.snaps,
             NEW ticks \in {recent(s)}
      PROVE  runtime.scores[i].score = Clip(x.scores[i].score + Delta(ticks, x.snaps[s]), 0, 100)
  <2>1. s = x.scores[i].symbol /\ s \in DOMAIN x.snaps /\ ticks = TicksOf(runtime.buffer, s, runtime.at)
    BY <1>2
  <2>. HIDE DEF recent, a, x
  <2>. QED  BY <1>1, <1>3, <2>1
<1>6. DOMAIN Leaders(a) = DOMAIN x.leaders
  <2>1. DOMAIN x.leaders = {x.scores[i].key : i \in {j \in DOMAIN x.scores : x.scores[j].passed}}
    BY <1>1, LeaderKeys DEF IsResult
  <2>2. DOMAIN Leaders(a) = {a[i].key : i \in {j \in DOMAIN a : a[j].passed}}
    BY LeaderKeys
  <2>. HIDE DEF a, x
  <2>. QED  BY <1>3, <1>4, <2>1, <2>2
<1>7. ASSUME NEW k \in DOMAIN Leaders(a), NEW l \in Leaders(a)[k]
      PROVE  \E s \in Range(x.scores) : s.symbol = l.symbol /\ s.passed
  <2>1. PICK i \in DOMAIN a : a[i].passed /\ l = a[i]
    BY LeadersAre
  <2>. HIDE DEF a, x
  <2>. QED  BY <1>3, <1>4, <2>1 DEF Range
<1>. HIDE DEF a
<1>. QED  BY <1>1, <1>5, <1>6, <1>7 DEF RealtimeOfScan

\* The score of a stock in the runtime file is that of the scan moved once by
\* every tick delivered within the window and by no other, and only stocks that
\* passed the scan lead, however many refreshes, processes, failed writes, cut
\* files and deliveries that come twice lie behind it (refresh_realtime,
\* merge_tick_buffer, adjust_scores_with_ticks).
THEOREM RuntimeFollowsScan == Spec => []RealtimeOfScan
<1>1. Init => ResultInv
  BY NothingYet DEF Init, ResultInv
<1>. QED  BY <1>1, NextResult, InitRuntime, NextRuntime, FileIsOfScan, PTL DEF Spec
=============================================================================
