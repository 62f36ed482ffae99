---------------------------- MODULE EdgeRdProofs ----------------------------
(***************************************************************************)
(* Proofs about EdgeRd, for every table of bit rates that does not grow,   *)
(* every range of indices, every rate, distortion and penalty: the binary  *)
(* search finds the index its comment promises, and the cost the search    *)
(* goes on with is that of the mode it has chosen.                         *)
(*                                                                         *)
(* The binary search is a recursive function; that it computes Best is     *)
(* proved by way of a least counterexample: first that a function with its *)
(* equation exists, then that every such function is Best.                 *)
(***************************************************************************)
EXTENDS EdgeRd, TLAPS, FiniteSetTheorems, WellFoundedInduction

\* A set of natural numbers has a least element.
LEMMA LeastElement ==
    ASSUME NEW T, T \subseteq Nat, T # {}
    PROVE  \E n \in T : \A m \in T : n <= m
<1> DEFINE Below == {0..m : m \in T}
<1>1. Below \subseteq FiniteSubsetsOf(Nat)
  <2> SUFFICES ASSUME NEW m \in T PROVE 0..m \in FiniteSubsetsOf(Nat)
    OBVIOUS
  <2>1. 0 \in Int /\ m \in Int /\ 0..m \subseteq Nat
    OBVIOUS
  <2>2. IsFiniteSet(0..m)
    BY <2>1, FS_Interval
  <2> QED BY <2>1, <2>2 DEF FiniteSubsetsOf
<1>2. Below # {}
  OBVIOUS
<1> HIDE DEF Below
<1>3. PICK x \in Below : \A y \in Below : ~ (<<y, x>> \in StrictSubsetOrdering(Nat))
  BY <1>1, <1>2, FS_StrictSubsetOrderingWellFounded, WFMin
<1>4. PICK a \in T : x = 0..a
  BY DEF Below
<1>5. ASSUME NEW m \in T, m < a PROVE FALSE
  <2>1. 0..m \in Below
    BY DEF Below
  <2>2. a \in 0..a /\ a \notin 0..m /\ 0..m \subseteq 0..a /\ 0..a \subseteq Nat
    BY <1>5
  <2>3. 0..m # 0..a
    BY <2>2
  <2>4. <<0..m, 0..a>> \in StrictSubsetOrdering(Nat)
    BY <2>2, <2>3 DEF StrictSubsetOrdering
  <2> QED BY <1>3, <1>4, <2>1, <2>4
<1> QED BY <1>5

-----------------------------------------------------------------------------
\* The quantizer index of a segment.

\* av1_rc_bits_per_mb does not grow from an index to the next one, and so from
\* an index to any later one.
NeverGrows(b) == \A q \in 1..MaxQ : b[q] <= b[q - 1]
Decreasing(b) == \A p, q \in 0..MaxQ : p <= q => b[q] <= b[p]

\* By the least index at which the rate is larger than at an earlier one.
LEMMA NeverGrowsDecreases ==
    ASSUME NEW b \in [0..MaxQ -> Int], NeverGrows(b)
    PROVE  Decreasing(b)
<1> SUFFICES ASSUME NEW p \in 0..MaxQ, NEW q \in 0..MaxQ, p <= q, ~(b[q] <= b[p])
             PROVE  FALSE
  BY DEF Decreasing
<1> DEFINE T == {k \in 0..MaxQ : p <= k /\ ~(b[k] <= b[p])}
<1>1. T \subseteq Nat /\ T # {}
  OBVIOUS
<1>2. PICK k \in T : \A m \in T : k <= m
  <2> HIDE DEF T
  <2> QED BY <1>1, LeastElement
<1>3. k # p /\ MaxQ \in Nat
  BY EdgeRdAssumption
<1>4. k - 1 \in 0..MaxQ /\ p <= k - 1 /\ k \in 1..MaxQ
  BY <1>3
<1>5. b[k - 1] <= b[p]
  <2>1. k - 1 \notin T
    BY <1>2, <1>4
  <2> QED BY <2>1, <1>4
<1>6. b[k] <= b[k - 1]
  BY <1>4 DEF NeverGrows
<1> QED BY <1>4, <1>5, <1>6

\* The least of the indices from lo to hi that is good enough, or hi.
Good(b, lo, hi, desired) == {q \in lo..hi : b[q] <= desired}
Best(b, lo, hi, desired) ==
    LET good == Good(b, lo, hi, desired)
    IN IF good = {} THEN hi ELSE CHOOSE q \in good : \A p \in good : q <= p

IsBest(b, lo, hi, desired, r) ==
    /\ r \in lo..hi
    /\ \A q \in lo..hi : q < r => b[q] > desired
    /\ b[r] <= desired \/ r = hi

\* A window of indices consists of indices.
LEMMA Window ==
    ASSUME NEW lo \in 0..MaxQ, NEW hi \in 0..MaxQ
    PROVE  MaxQ \in Nat /\ lo \in Nat /\ hi \in Nat /\ hi <= MaxQ /\ lo..hi \subseteq 0..MaxQ
BY EdgeRdAssumption

\* Best has the property it is named for.
LEMMA BestIs ==
    ASSUME NEW b \in [0..MaxQ -> Int], NEW desired \in Int,
           NEW lo \in 0..MaxQ, NEW hi \in 0..MaxQ, lo <= hi
    PROVE  IsBest(b, lo, hi, desired, Best(b, lo, hi, desired))
<1> DEFINE good == Good(b, lo, hi, desired)
           r == Best(b, lo, hi, desired)
<1>1. good \subseteq lo..hi /\ lo..hi \subseteq 0..MaxQ /\ \A q \in lo..hi : q \in good <=> b[q] <= desired
  BY Window DEF Good
<1>2. CASE good = {}
  <2>1. r = hi
    BY <1>2 DEF Best
  <2>2. \A q \in lo..hi : b[q] > desired
    <3> HIDE DEF good
    <3> QED BY <1>1, <1>2
  <2> QED BY <2>1, <2>2 DEF IsBest
<1>3. CASE good # {}
  <2> HIDE DEF good
  <2>1. good \subseteq Nat
    BY <1>1
  <2>2. \E q \in good : \A p \in good : q <= p
    BY <2>1, <1>3, LeastElement
  <2>3. r = CHOOSE q \in good : \A p \in good : q <= p
    BY <1>3 DEF Best, good
  <2> HIDE DEF r
  <2>4. r \in good /\ \A p \in good : r <= p
    BY <2>2, <2>3
  <2>5. \A q \in lo..hi : q < r => b[q] > desired
    BY <1>1, <2>1, <2>4
  <2> QED BY <2>4, <2>5, <1>1 DEF IsBest, r
<1> QED BY <1>2, <1>3

\* No other index of the window has it.
LEMMA OnlyBest ==
    ASSUME NEW b \in [0..MaxQ -> Int], NEW desired \in Int,
           NEW lo \in 0..MaxQ, NEW hi \in 0..MaxQ, NEW r, IsBest(b, lo, hi, desired, r)
    PROVE  r = Best(b, lo, hi, desired)
<1> DEFINE s == Best(b, lo, hi, desired)
<1>1. r \in lo..hi /\ lo <= hi
  BY DEF IsBest
<1>2. IsBest(b, lo, hi, desired, s)
  BY <1>1, BestIs
<1> HIDE DEF s
<1>5. s \in lo..hi
  BY <1>2 DEF IsBest
<1>6. /\ b[r] \in Int /\ b[s] \in Int /\ r \in Int /\ s \in Int /\ lo \in Int /\ hi \in Int
      /\ r <= hi /\ s <= hi
  BY <1>1, <1>5, Window
<1>3. ~(r < s)
  <2>1. b[r] <= desired \/ r = hi
    BY DEF IsBest
  <2>2. r < s => b[r] > desired
    BY <1>1, <1>2 DEF IsBest
  <2> QED BY <2>1, <2>2, <1>6
<1>4. ~(s < r)
  <2>1. b[s] <= desired \/ s = hi
    BY <1>2 DEF IsBest
  <2>2. s < r => b[s] > desired
    BY <1>5 DEF IsBest
  <2> QED BY <2>1, <2>2, <1>6
<1> QED BY <1>3, <1>4, <1>6 DEF s

\* A half of the window, whichever the index in the middle points to, has the
\* best of the window.
LEMMA HalfIsEnough ==
    ASSUME NEW b \in [0..MaxQ -> Int], Decreasing(b), NEW desired \in Int,
           NEW lo \in 0..MaxQ, NEW hi \in 0..MaxQ, lo < hi
    PROVE  LET mid == (lo + hi) \div 2
           IN /\ mid \in lo..(hi - 1)
              /\ b[mid] > desired => Best(b, mid + 1, hi, desired) = Best(b, lo, hi, desired)
              /\ ~(b[mid] > desired) => Best(b, lo, mid, desired) = Best(b, lo, hi, desired)
<1> DEFINE mid == (lo + hi) \div 2
<1>1. mid \in lo..(hi - 1) /\ mid \in 0..MaxQ /\ mid + 1 \in 0..MaxQ
  BY Window
<1> HIDE DEF mid
<1>4. MaxQ \in Nat /\ lo..hi \subseteq 0..MaxQ /\ b[mid] \in Int
  BY <1>1, Window
<1>2. ASSUME b[mid] > desired
      PROVE  Best(b, mid + 1, hi, desired) = Best(b, lo, hi, desired)
  <2> DEFINE r == Best(b, mid + 1, hi, desired)
  <2>1. IsBest(b, mid + 1, hi, desired, r)
    BY <1>1, BestIs
  <2> HIDE DEF r
  <2>2. ASSUME NEW q \in lo..hi, q < r
        PROVE  b[q] > desired
    <3>1. CASE q <= mid
      <4>1. q \in 0..MaxQ
        BY <1>4
      <4>2. b[mid] <= b[q] /\ b[q] \in Int
        BY <4>1, <1>1, <3>1 DEF Decreasing
      <4> QED BY <4>2, <1>2, <1>4
    <3>2. CASE q > mid
      <4>1. q \in (mid + 1)..hi
        BY <1>1, <3>2
      <4> QED BY <4>1, <2>1, <2>2 DEF IsBest
    <3> QED BY <3>1, <3>2, <1>1
  <2>3. IsBest(b, lo, hi, desired, r)
    BY <1>1, <2>1, <2>2 DEF IsBest
  <2> QED BY <2>3, OnlyBest DEF r
<1>3. ASSUME ~(b[mid] > desired)
      PROVE  Best(b, lo, mid, desired) = Best(b, lo, hi, desired)
  <2> DEFINE r == Best(b, lo, mid, desired)
  <2>1. IsBest(b, lo, mid, desired, r)
    BY <1>1, BestIs
  <2> HIDE DEF r
  <2>2. b[mid] <= desired
    BY <1>1, <1>3
  <2>3. IsBest(b, lo, hi, desired, r)
    BY <1>1, <2>1, <2>2 DEF IsBest
  <2> QED BY <2>3, OnlyBest DEF r
<1> QED BY <1>1, <1>2, <1>3 DEF mid

\* A window of one index.
LEMMA OneIsBest ==
    ASSUME NEW b \in [0..MaxQ -> Int], NEW desired \in Int, NEW lo \in 0..MaxQ
    PROVE  Best(b, lo, lo, desired) = lo
BY BestIs DEF IsBest

\* find_qindex_by_rate, on any table: its recursion computes Best.
LEMMA SearchIsBest ==
    ASSUME bits \in [0..MaxQ -> Int], Decreasing(bits), NEW desired \in Int,
           range \in (0..MaxQ) \X (0..MaxQ), range[1] <= range[2]
    PROVE  FindQindex(desired) = Best(bits, range[1], range[2], desired)
<1> DEFINE D == (0..MaxQ) \X (0..MaxQ)
           Mid(w) == (w[1] + w[2]) \div 2
           Narrow(f, w) ==
               IF w[1] >= w[2] THEN w[1]
               ELSE IF bits[Mid(w)] > desired THEN f[<<Mid(w) + 1, w[2]>>] ELSE f[<<w[1], Mid(w)>>]
           winner(w) == Best(bits, w[1], w[2], desired)
           solution == [w \in D |-> IF w[1] >= w[2] THEN w[1] ELSE winner(w)]
           search == CHOOSE f : f = [w \in D |-> Narrow(f, w)]
<1>1. MaxQ \in Nat
  BY EdgeRdAssumption
<1>2. ASSUME NEW w \in D, w[1] < w[2]
      PROVE  /\ <<Mid(w) + 1, w[2]>> \in D /\ <<w[1], Mid(w)>> \in D
             /\ Mid(w) + 1 <= w[2] /\ w[1] <= Mid(w)
             /\ Mid(w) < w[2] /\ Mid(w) \in Nat
             /\ bits[Mid(w)] > desired => winner(<<Mid(w) + 1, w[2]>>) = winner(w)
             /\ ~(bits[Mid(w)] > desired) => winner(<<w[1], Mid(w)>>) = winner(w)
  <2>1. w[1] \in 0..MaxQ /\ w[2] \in 0..MaxQ
    OBVIOUS
  <2>2. /\ Mid(w) \in w[1]..(w[2] - 1)
        /\ bits[Mid(w)] > desired
             => Best(bits, Mid(w) + 1, w[2], desired) = Best(bits, w[1], w[2], desired)
        /\ ~(bits[Mid(w)] > desired)
             => Best(bits, w[1], Mid(w), desired) = Best(bits, w[1], w[2], desired)
    BY <2>1, <1>2, HalfIsEnough
  <2> HIDE DEF Mid, D
  <2>a. w[1] \in Nat /\ w[2] \in Nat /\ w[2] <= MaxQ
    BY <1>1, <2>1
  <2>3. Mid(w) + 1 \in 0..MaxQ /\ Mid(w) \in 0..MaxQ /\ Mid(w) + 1 <= w[2] /\ Mid(w) < w[2]
        /\ w[1] <= Mid(w) /\ Mid(w) \in Nat
    <3> DEFINE lo == w[1]
               hi == w[2]
               mid == Mid(w)
    <3>1. lo \in Nat /\ hi \in Nat /\ hi <= MaxQ /\ mid \in lo..(hi - 1)
      BY <2>a, <2>2
    <3> HIDE DEF lo, hi, mid
    <3>2. mid + 1 \in 0..MaxQ /\ mid \in 0..MaxQ /\ mid + 1 <= hi /\ mid < hi
          /\ lo <= mid /\ mid \in Nat
      BY <1>1, <3>1
    <3> QED BY <3>2 DEF lo, hi, mid
  <2> QED BY <2>1, <2>2, <2>3 DEF D
<1>3. ASSUME NEW w \in D, w[1] = w[2]
      PROVE  winner(w) = w[1]
  BY <1>3, OneIsBest
<1>4. ASSUME NEW w \in D, w[1] <= w[2]
      PROVE  solution[w] = winner(w)
  <2>1. solution[w] = IF w[1] >= w[2] THEN w[1] ELSE winner(w)
    OBVIOUS
  <2>2. w[1] >= w[2] => w[1] = w[2]
    BY <1>4
  <2> HIDE DEF solution, winner
  <2> QED BY <2>1, <2>2, <1>3
<1>5. ASSUME NEW w \in D
      PROVE  solution[w] = Narrow(solution, w)
  <2>1. CASE w[1] >= w[2]
    BY <2>1
  <2>2. CASE w[1] < w[2]
    <3> HIDE DEF D, Mid, winner, solution
    <3>1. w[1] <= w[2] /\ ~(w[1] >= w[2])
      BY <2>2 DEF D
    <3>2. solution[w] = winner(w)
      BY <3>1, <1>4
    <3>3. bits[Mid(w)] > desired => solution[<<Mid(w) + 1, w[2]>>] = winner(w)
      <4> DEFINE u == <<Mid(w) + 1, w[2]>>
      <4>1. u \in D /\ u[1] <= u[2] /\ (bits[Mid(w)] > desired => winner(u) = winner(w))
        BY <1>2, <2>2
      <4> HIDE DEF u
      <4> QED BY <4>1, <1>4 DEF u
    <3>4. ~(bits[Mid(w)] > desired) => solution[<<w[1], Mid(w)>>] = winner(w)
      <4> DEFINE u == <<w[1], Mid(w)>>
      <4>1. u \in D /\ u[1] <= u[2] /\ (~(bits[Mid(w)] > desired) => winner(u) = winner(w))
        BY <1>2, <2>2
      <4> HIDE DEF u
      <4> QED BY <4>1, <1>4 DEF u
    <3> QED BY <3>1, <3>2, <3>3, <3>4
  <2> QED BY <2>1, <2>2
<1>6. solution = [w \in D |-> Narrow(solution, w)]
  <2>1. solution = [w \in D |-> solution[w]]
    OBVIOUS
  <2> HIDE DEF solution
  <2> QED BY <1>5, <2>1
<1>7. search = [w \in D |-> Narrow(search, w)]
  <2> HIDE DEF solution
  <2> QED BY <1>6
<1> HIDE DEF search
<1>8. \A w \in D : w[1] <= w[2] => search[w] = winner(w)
  <2> SUFFICES ASSUME NEW v \in D, v[1] <= v[2], search[v] # winner(v)
               PROVE  FALSE
    OBVIOUS
  <2> DEFINE Wrong(n) == \E w \in D : w[1] <= w[2] /\ w[2] - w[1] = n /\ search[w] # winner(w)
             T == {n \in Nat : Wrong(n)}
  <2>1. T \subseteq Nat /\ T # {}
    <3>1. v[2] - v[1] \in Nat
      OBVIOUS
    <3> QED BY <3>1
  <2>2. PICK n \in T : \A m \in T : n <= m
    <3> HIDE DEF T
    <3> QED BY <2>1, LeastElement
  <2>3. PICK w \in D : w[1] <= w[2] /\ w[2] - w[1] = n /\ search[w] # winner(w)
    BY <2>2
  <2>4. search[w] = Narrow(search, w)
    BY <1>7
  <2>5. w[1] # w[2]
    <3>1. ASSUME w[1] = w[2]
          PROVE  FALSE
      <4>1. winner(w) = w[1]
        BY <3>1, <1>3
      <4>2. w[1] >= w[2]
        BY <3>1, <1>1
      <4> HIDE DEF winner, D
      <4> QED BY <4>1, <4>2, <2>3, <2>4
    <3> QED BY <3>1
  <2>6. w[1] < w[2] /\ w[1] \in Nat /\ w[2] \in Nat
    BY <2>3, <2>5
  <2>7. ASSUME NEW u \in D, u[1] <= u[2], u[2] - u[1] < w[2] - w[1]
        PROVE  search[u] = winner(u)
    <3>a. u[1] \in Int /\ u[2] \in Int /\ w[1] \in Int /\ w[2] \in Int
      OBVIOUS
    <3>1. u[2] - u[1] \in Nat /\ ~(n <= u[2] - u[1])
      <4> HIDE DEF D, T
      <4> QED BY <2>3, <2>7, <3>a
    <3>2. u[2] - u[1] \notin T
      BY <2>2, <3>1
    <3> QED BY <2>7, <3>1, <3>2
  <2> HIDE DEF D, winner, Mid, T
  <2>8. /\ <<Mid(w) + 1, w[2]>> \in D /\ <<w[1], Mid(w)>> \in D
        /\ Mid(w) + 1 <= w[2] /\ w[1] <= Mid(w)
        /\ Mid(w) < w[2] /\ Mid(w) \in Nat
        /\ bits[Mid(w)] > desired => winner(<<Mid(w) + 1, w[2]>>) = winner(w)
        /\ ~(bits[Mid(w)] > desired) => winner(<<w[1], Mid(w)>>) = winner(w)
    BY <1>2, <2>6
  <2>9. search[<<Mid(w) + 1, w[2]>>] = winner(<<Mid(w) + 1, w[2]>>)
    <3> DEFINE u == <<Mid(w) + 1, w[2]>>
    <3>1. u \in D /\ u[1] <= u[2] /\ u[2] - u[1] < w[2] - w[1]
      BY <2>6, <2>8
    <3> HIDE DEF u
    <3>2. search[u] = winner(u)
      BY <2>7, <3>1
    <3> QED BY <3>2 DEF u
  <2>10. search[<<w[1], Mid(w)>>] = winner(<<w[1], Mid(w)>>)
    <3> DEFINE u == <<w[1], Mid(w)>>
    <3>1. u \in D /\ u[1] <= u[2] /\ u[2] - u[1] < w[2] - w[1]
      BY <2>6, <2>8
    <3> HIDE DEF u
    <3>2. search[u] = winner(u)
      BY <2>7, <3>1
    <3> QED BY <3>2 DEF u
  <2>11. ~(w[1] >= w[2])
    BY <2>6
  <2> QED BY <2>3, <2>4, <2>8, <2>9, <2>10, <2>11
<1>9. FindQindex(desired) = search[range]
  BY DEF FindQindex, search, D, Narrow, Mid
<1> QED BY <1>8, <1>9


-----------------------------------------------------------------------------
\* The invariant.

\* What av1_compute_qdelta_by_rate asks for, and what a segment gets.
Asked(b, q, i) == (RateRatio[i] * b[q]) \div RateRatio[Texture]
Lossy(q, index) == IF q # 0 /\ index = 0 THEN 1 ELSE index
Given(b, r, q, i) == Lossy(q, Best(b, r[1], r[2], Asked(b, q, i)))

CostRecords == [rate : Nat, dist : Nat]

TypeOK ==
    /\ phase \in {"frame", "block", "modes"}
    /\ bits \in [0..MaxQ -> Int] /\ NeverGrows(bits)
    /\ range \in (0..MaxQ) \X (0..MaxQ) /\ range[1] <= range[2] /\ base \in 0..MaxQ
    /\ tried \in Nat
    /\ best \in CostRecords /\ rd_cost \in CostRecords
    /\ best_rd \in Nat /\ lowest \in Nat

\* The setup of the frame gave every segment its index.
IndicesGiven == phase # "frame" => qindex = [i \in Segments |-> Given(bits, range, base, i)]

NothingTried ==
    phase # "modes" => tried = 0 /\ best = NoMode /\ rd_cost = NoMode /\ best_rd = Infinity
                       /\ lowest = Infinity

CostIsOfBest ==
    /\ best_rd = RDCOST(rd_cost)
    /\ best.dist > 0 => 4 * rd_cost.dist <= 9 * best.dist

\* Without a penalty what is returned is the mode itself.
NoPenalty == ~Pays => rd_cost = best /\ best_rd = lowest

IInv == TypeOK /\ IndicesGiven /\ NothingTried /\ CostIsOfBest /\ NoPenalty

-----------------------------------------------------------------------------
\* Each action keeps the invariant.

\* The initial states satisfy the invariant.
LEMMA InitIInv ==
    ASSUME Init
    PROVE  IInv
<1>1. /\ MaxQ \in Nat /\ Infinity \in Nat /\ BitRates \subseteq Nat
      /\ Ranges \subseteq {r \in (0..MaxQ) \X (0..MaxQ) : r[1] <= r[2]}
  BY EdgeRdAssumption
<1>2. bits \in [0..MaxQ -> Int] /\ NeverGrows(bits)
  <2>1. /\ bits \in {f \in [0..MaxQ -> BitRates] : \A q \in 1..MaxQ : f[q] <= f[q - 1]}
        /\ BitRates \subseteq Int
    BY <1>1 DEF Init
  <2>2. bits \in [0..MaxQ -> BitRates] /\ \A q \in 1..MaxQ : bits[q] <= bits[q - 1]
    BY <2>1
  <2>3. bits \in [0..MaxQ -> Int]
    BY <2>1, <2>2
  <2> QED BY <2>2, <2>3 DEF NeverGrows
<1>3. range \in (0..MaxQ) \X (0..MaxQ) /\ range[1] <= range[2]
  BY <1>1 DEF Init
<1>4. base \in 0..MaxQ
  <2>1. range[1] \in 0..MaxQ /\ range[2] \in 0..MaxQ
    BY <1>3
  <2>2. range[1]..range[2] \subseteq 0..MaxQ
    BY <2>1, Window
  <2> QED BY <2>2 DEF Init
<1>5. NoMode \in CostRecords /\ RDCOST(NoMode) = Infinity /\ NoMode.dist = Infinity
  BY <1>1 DEF NoMode, CostRecords, RDCOST
<1>6. TypeOK
  BY <1>1, <1>2, <1>3, <1>4, <1>5 DEF Init, TypeOK
<1>7. CostIsOfBest
  BY <1>1, <1>5 DEF Init, CostIsOfBest
<1> QED BY <1>6, <1>7 DEF Init, IInv, IndicesGiven, NothingTried, NoPenalty

\* av1_edge_aq_frame_setup gives every segment the index its rate asks for.
LEMMA SegmentIndex ==
    ASSUME TypeOK, NEW i \in Segments
    PROVE  SegmentQindex(i) = Given(bits, range, base, i) /\ Asked(bits, base, i) \in Int
           /\ Target(i) = Asked(bits, base, i)
<1>1. Target(i) = Asked(bits, base, i)
  BY DEF Target, Asked
<1>2. Asked(bits, base, i) \in Int
  <2>1. bits[base] \in Int
    BY DEF TypeOK
  <2>2. RateRatio[i] \in Nat /\ RateRatio[Texture] = 85
    BY DEF RateRatio, Segments, Texture, Normal, Flat
  <2>3. RateRatio[i] * bits[base] \in Int
    BY <2>1, <2>2
  <2> DEFINE rate == RateRatio[i] * bits[base]
  <2> HIDE DEF rate
  <2>4. rate \div 85 \in Int
    BY <2>3 DEF rate
  <2> QED BY <2>2, <2>4 DEF Asked, rate
<1>3. FindQindex(Target(i)) = Best(bits, range[1], range[2], Asked(bits, base, i))
  <2> DEFINE desired == Asked(bits, base, i)
  <2>1. Decreasing(bits)
    BY NeverGrowsDecreases DEF TypeOK
  <2>2. desired \in Int /\ bits \in [0..MaxQ -> Int] /\ range \in (0..MaxQ) \X (0..MaxQ)
        /\ range[1] <= range[2]
    BY <1>2 DEF TypeOK
  <2> HIDE DEF desired
  <2>3. FindQindex(desired) = Best(bits, range[1], range[2], desired)
    BY <2>1, <2>2, SearchIsBest
  <2> QED BY <1>1, <2>3 DEF desired
<1> QED BY <1>1, <1>2, <1>3 DEF SegmentQindex, Given, Lossy

\* FrameSetup keeps the invariant.
LEMMA FrameSetupKept ==
    ASSUME IInv, FrameSetup
    PROVE  IInv'
<1>1. /\ phase = "frame" /\ phase' = "block"
      /\ qindex' = [i \in Segments |-> SegmentQindex(i)]
      /\ UNCHANGED <<bits, range, base, class, tried, best, rd_cost, best_rd, lowest>>
  BY DEF FrameSetup, modeVars
<1>2. TypeOK'
  BY <1>1 DEF IInv, TypeOK, NeverGrows
<1>3. IndicesGiven'
  <2>1. \A i \in Segments : SegmentQindex(i) = Given(bits, range, base, i)
    BY SegmentIndex DEF IInv
  <2>2. qindex' = [i \in Segments |-> Given(bits, range, base, i)]
    BY <1>1, <2>1
  <2> QED BY <1>1, <2>2 DEF IndicesGiven
<1>4. NothingTried'
  BY <1>1 DEF IInv, NothingTried
<1>5. CostIsOfBest'
  BY <1>1 DEF IInv, CostIsOfBest
<1>6. NoPenalty'
  BY <1>1 DEF IInv, NothingTried, NoPenalty
<1> QED BY <1>2, <1>3, <1>4, <1>5, <1>6 DEF IInv

\* BlockScore keeps the invariant.
LEMMA BlockScoreKept ==
    ASSUME IInv, BlockScore
    PROVE  IInv'
<1>1. /\ phase = "block" /\ phase' = "modes"
      /\ UNCHANGED <<bits, range, base, qindex, tried, best, rd_cost, best_rd, lowest>>
  BY DEF BlockScore, modeVars, frameVars
<1>2. TypeOK'
  BY <1>1 DEF IInv, TypeOK, NeverGrows
<1>3. IndicesGiven'
  BY <1>1 DEF IInv, IndicesGiven
<1>4. NothingTried'
  BY <1>1 DEF NothingTried
<1>5. CostIsOfBest'
  BY <1>1 DEF IInv, CostIsOfBest
<1>6. NoPenalty'
  BY <1>1 DEF IInv, NothingTried, NoPenalty
<1> QED BY <1>2, <1>3, <1>4, <1>5, <1>6 DEF IInv

\* The penalty of one evaluation is at most half of a distortion that is not zero.
LEMMA AdjustParts ==
    ASSUME NEW s \in CostRecords, NEW offset \in Nat
    PROVE  LET t == Adjust(s, offset)
           IN /\ t \in CostRecords
              /\ ~Pays => t = s
              /\ s.dist > 0 => t.dist > 0 /\ 2 * t.dist <= 3 * s.dist
<1> DEFINE c == Clamped(offset, s.dist)
           t == Adjust(s, offset)
<1>1. s.rate \in Nat /\ s.dist \in Nat /\ s = [rate |-> s.rate, dist |-> s.dist]
  BY DEF CostRecords
<1>2. c \in Nat /\ (s.dist > 0 => 2 * c <= s.dist)
  BY <1>1 DEF Clamped
<1> HIDE DEF c
<1>3. CASE Pays
  <2>1. t = [s EXCEPT !.dist = s.dist + c]
    BY <1>3 DEF Adjust, c
  <2>2. t \in CostRecords /\ t.dist = s.dist + c
    BY <2>1, <1>1, <1>2 DEF CostRecords
  <2> QED BY <2>2, <1>1, <1>2, <1>3
<1>4. CASE ~Pays
  <2>1. t = s
    BY <1>4 DEF Adjust
  <2> QED BY <2>1, <1>1
<1> QED BY <1>3, <1>4

\* A mode whose statistics are within the two halves, and without penalty its
\* own, may be compared with the best so far.
LEMMA CompareKept ==
    ASSUME IInv, NEW this_rd \in Nat, NEW mode \in CostRecords, NEW stats \in CostRecords,
           mode.dist > 0 => 4 * stats.dist <= 9 * mode.dist,
           ~Pays => stats = mode /\ this_rd = RDCOST(mode),
           Compare(this_rd, mode, stats)
    PROVE  IInv'
<1>1. /\ phase = "modes" /\ tried' = tried + 1
      /\ UNCHANGED <<phase, bits, range, base, qindex, class>>
      /\ lowest' = IF this_rd < lowest THEN this_rd ELSE lowest
  BY DEF Compare, frameVars
<1>2. \/ this_rd < best_rd /\ best' = mode /\ rd_cost' = stats /\ best_rd' = RDCOST(stats)
      \/ ~(this_rd < best_rd) /\ UNCHANGED <<best, rd_cost, best_rd>>
  BY DEF Compare, Update
<1>3. RDCOST(stats) \in Nat
  BY DEF RDCOST, CostRecords
<1>4. TypeOK'
  BY <1>1, <1>2, <1>3 DEF IInv, TypeOK, NeverGrows
<1>5. IndicesGiven'
  BY <1>1 DEF IInv, IndicesGiven
<1>6. NothingTried'
  BY <1>1 DEF NothingTried
<1>7. CostIsOfBest'
  BY <1>2 DEF IInv, CostIsOfBest
<1>8. Pays' = Pays
  BY <1>1 DEF Pays, PenaltyQindex
<1>9. NoPenalty'
  <2> SUFFICES ASSUME ~Pays
               PROVE  rd_cost' = best' /\ best_rd' = lowest'
    BY <1>8 DEF NoPenalty
  <2>1. rd_cost = best /\ best_rd = lowest /\ stats = mode /\ this_rd = RDCOST(mode)
    BY DEF IInv, NoPenalty
  <2> QED BY <2>1, <1>1, <1>2
<1> QED BY <1>4, <1>5, <1>6, <1>7, <1>9 DEF IInv

\* A mode is compared with one penalty and remembered with two.
LEMMA InterModeKept ==
    ASSUME IInv, InterMode
    PROVE  IInv'
<1>1. PICK rate \in Rates, dist \in Dists, first \in Offsets, second \in Offsets :
        Compare(RDCOST(Adjust([rate |-> rate, dist |-> dist], first)),
                [rate |-> rate, dist |-> dist],
                Adjust(Adjust([rate |-> rate, dist |-> dist], first), second))
  BY DEF InterMode
<1> DEFINE mode == [rate |-> rate, dist |-> dist]
           once == Adjust(mode, first)
           twice == Adjust(once, second)
<1>2. rate \in Nat /\ dist \in Nat /\ first \in Nat /\ second \in Nat
  BY EdgeRdAssumption
<1>3. mode \in CostRecords
  BY <1>2 DEF CostRecords
<1> HIDE DEF mode
<1>4. /\ once \in CostRecords
      /\ ~Pays => once = mode
      /\ mode.dist > 0 => once.dist > 0 /\ 2 * once.dist <= 3 * mode.dist
  BY <1>2, <1>3, AdjustParts
<1> HIDE DEF once
<1>5. /\ twice \in CostRecords
      /\ ~Pays => twice = once
      /\ once.dist > 0 => twice.dist > 0 /\ 2 * twice.dist <= 3 * once.dist
  BY <1>2, <1>4, AdjustParts
<1> HIDE DEF twice
<1>6. RDCOST(once) \in Nat
  BY <1>4 DEF RDCOST, CostRecords
<1>7. mode.dist > 0 => 4 * twice.dist <= 9 * mode.dist
  BY <1>3, <1>4, <1>5 DEF CostRecords
<1>8. ~Pays => twice = mode /\ RDCOST(once) = RDCOST(mode)
  BY <1>4, <1>5
<1>9. Compare(RDCOST(once), mode, twice)
  BY <1>1 DEF mode, once, twice
<1> QED BY <1>3, <1>5, <1>6, <1>7, <1>8, <1>9, CompareKept

\* IntraMode keeps the invariant.
LEMMA IntraModeKept ==
    ASSUME IInv, IntraMode
    PROVE  IInv'
<1>1. PICK rate \in Rates, dist \in Dists :
        Compare(RDCOST([rate |-> rate, dist |-> dist]), [rate |-> rate, dist |-> dist],
                [rate |-> rate, dist |-> dist])
  BY DEF IntraMode
<1> DEFINE mode == [rate |-> rate, dist |-> dist]
<1>2. rate \in Nat /\ dist \in Nat
  BY EdgeRdAssumption
<1>3. mode \in CostRecords
  BY <1>2 DEF CostRecords
<1>4. Compare(RDCOST(mode), mode, mode)
  BY <1>1
<1> HIDE DEF mode
<1>5. RDCOST(mode) \in Nat /\ (mode.dist > 0 => 4 * mode.dist <= 9 * mode.dist)
  BY <1>3 DEF RDCOST, CostRecords
<1> QED BY <1>3, <1>4, <1>5, CompareKept

\* Steps in which nothing changes.
LEMMA StutterKept ==
    ASSUME IInv, UNCHANGED vars
    PROVE  IInv'
<1>1. UNCHANGED <<phase, bits, range, base, qindex, class, tried, best, rd_cost, best_rd, lowest>>
  BY DEF vars, frameVars, modeVars
<1>2. TypeOK'
  BY <1>1 DEF IInv, TypeOK, NeverGrows
<1>3. IndicesGiven'
  BY <1>1 DEF IInv, IndicesGiven
<1>4. NothingTried' /\ CostIsOfBest'
  BY <1>1 DEF IInv, NothingTried, CostIsOfBest
<1>5. NoPenalty'
  BY <1>1 DEF IInv, NoPenalty, Pays, PenaltyQindex
<1> QED BY <1>2, <1>3, <1>4, <1>5 DEF IInv

\* The invariant of the specification.
LEMMA Invariant == Spec => []IInv
<1>1. Init => IInv
  BY InitIInv
<1>2. IInv /\ [Next]_vars => IInv'
  BY FrameSetupKept, BlockScoreKept, InterModeKept, IntraModeKept, StutterKept DEF Next
<1> QED BY <1>1, <1>2, PTL DEF Spec

-----------------------------------------------------------------------------

\* After av1_edge_aq_frame_setup every segment has the least index whose bits
\* per macroblock are within its share of the rate, or the greatest index rate
\* control allows where there is none: what find_qindex_by_rate says of itself.
THEOREM SegmentsHaveTheirRates == Spec => []SegmentsMeetRates
<1>1. IInv => SegmentsMeetRates
  <2> SUFFICES ASSUME IInv, phase = "block", NEW i \in Segments
               PROVE  LET good == {q \in range[1]..range[2] : bits[q] <= Target(i)}
                          least == IF good = {} THEN range[2]
                                   ELSE CHOOSE q \in good : \A p \in good : q <= p
                      IN qindex[i] = IF least = 0 /\ base # 0 THEN 1 ELSE least
    BY DEF SegmentsMeetRates
  <2>1. qindex[i] = Lossy(base, Best(bits, range[1], range[2], Asked(bits, base, i)))
    BY DEF IInv, IndicesGiven, Given
  <2>2. Target(i) = Asked(bits, base, i)
    BY SegmentIndex DEF IInv
  <2> QED BY <2>1, <2>2 DEF Lossy, Best, Good
<1> QED BY <1>1, Invariant, PTL

\* Where adjust_rdcost adds nothing, av1_rd_pick_inter_mode chooses the mode
\* of the least cost.
THEOREM PlainBlocksGetTheBest == Spec => []BestOfPlainBlocks
<1>1. IInv => BestOfPlainBlocks
  BY DEF IInv, CostIsOfBest, NoPenalty, BestOfPlainBlocks
<1> QED BY <1>1, Invariant, PTL

\* best_rd and the returned rd_cost are always those of one mode, and the two
\* calls of adjust_rdcost never more than multiply its distortion by 9/4.
THEOREM CostsAreOfTheChosen == Spec => []CostOfTheChosen
<1>1. IInv => CostOfTheChosen
  BY DEF IInv, CostIsOfBest, CostOfTheChosen
<1> QED BY <1>1, Invariant, PTL

=============================================================================
