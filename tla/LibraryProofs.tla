--------------------------- MODULE LibraryProofs ---------------------------
(***************************************************************************)
(* Three parts of the library of src/ that share nothing but this module:  *)
(* the diamond search keeps the reference block inside the frame, and the  *)
(* early exit of its refinement is a local minimum, for every frame size,  *)
(* every macroblock size and every picture; the bit reader returns what    *)
(* the bit writer was given, for words, bytes and buffers of every size;   *)
(* and no block spends so many bits that the buffer of a frame could fill. *)
(***************************************************************************)
EXTENDS MotionSearch, BitIO, BlockBudget, TLAPS, FiniteSetTheorems, WellFoundedInduction

-----------------------------------------------------------------------------
\* The diamond search.

\* The centre of the search and the vector kept are the same legal vector.
CentreLegal ==
    /\ best.x = cx /\ best.y = cy
    /\ WithinRange(cx, cy)
    /\ InsideFrame(cx, cy)

\* In the refinement, as long as nothing moved in this pass, every probe
\* already taken was illegal or no cheaper.
ProbesNoCheaper ==
    (phase \in {"small", "done"} /\ region # "FLAT" /\ ~moved) =>
        \A i \in 1..8 : i < d =>
            LET x == best.x + SmallDiamond[i][1]
                y == best.y + SmallDiamond[i][2]
            IN (WithinRange(x, y) /\ InsideFrame(x, y)) => Cost(x, y) >= best_cost

\* The search returns only after a whole pass.
AllProbed == (phase = "done" /\ region # "FLAT") => d = 9

PassBound == phase = "small" => pass < SmallPasses

IInv == TypeOK /\ CentreLegal /\ ProbesNoCheaper /\ AllProbed /\ PassBound

\* A displacement within the search range is one Sad is defined on.
LEMMA RangeBound ==
    ASSUME TypeOK, NEW x \in Int, NEW y \in Int, WithinRange(x, y)
    PROVE  x \in -32..32 /\ y \in -32..32 /\ Cost(x, y) \in Nat
<1>1. range \in {4, 16, 32}
  BY DEF TypeOK, range, SearchRange, Regions
<1>2. x \in -32..32 /\ y \in -32..32
  BY <1>1 DEF WithinRange, Abs
<1>3. Sad(scene, x, y) \in Nat
  BY <1>2, SadAssumption DEF TypeOK
<1>4. Abs(x) \in Nat /\ Abs(y) \in Nat
  BY <1>2 DEF Abs
<1>5. Cost(x, y) \in Nat
  BY <1>3, <1>4 DEF Cost
<1> QED BY <1>2, <1>5

\* A probe is a pair of integers.
LEMMA ProbeIsInteger ==
    ASSUME TypeOK, Searching
    PROVE  ProbeX \in Int /\ ProbeY \in Int
<1>1. d \in 1..8 /\ pass \in 0..3 /\ cx \in Int /\ cy \in Int
  BY DEF TypeOK, Searching
<1>2. OffsetX \in Int /\ OffsetY \in Int
  <2>1. /\ LargeDiamond[d][1] \in Int /\ LargeDiamond[d][2] \in Int
        /\ SmallDiamond[d][1] \in Int /\ SmallDiamond[d][2] \in Int
    BY <1>1 DEF LargeDiamond, SmallDiamond
  <2> QED BY <1>1, <2>1 DEF OffsetX, OffsetY
<1> QED BY <1>1, <1>2 DEF ProbeX, ProbeY

\* The initial states satisfy the invariant.
LEMMA InitIInv == Init => IInv
<1> SUFFICES ASSUME Init PROVE IInv
  OBVIOUS
<1>1. mbx \in Nat /\ mby \in Nat /\ (mbx + 1) * MB <= FrameW /\ (mby + 1) * MB <= FrameH
  BY SizeAssumption DEF Init, Columns, Rows
<1>2. mbx * MB \in Nat /\ mby * MB \in Nat
  BY <1>1, SizeAssumption
<1>3. mbx * MB + MB <= FrameW /\ mby * MB + MB <= FrameH
  BY <1>1, SizeAssumption
<1>4. TypeOK
  <2>1. best \in [x : -32..32, y : -32..32]
    BY DEF Init
  <2>2. best_cost \in Nat
    <3>1. scene \in Scenes /\ best_cost = Sad(scene, 0, 0) BY DEF Init
    <3>2. 0 \in -32..32 OBVIOUS
    <3>3. Sad(scene, 0, 0) \in Nat BY <3>1, <3>2, SadAssumption
    <3> QED BY <3>1, <3>3
  <2>3. /\ mbx \in Columns /\ mby \in Rows /\ region \in Regions /\ scene \in Scenes
        /\ phase = "start" /\ pass = 0 /\ d = 1 /\ cx = 0 /\ cy = 0 /\ moved = FALSE
    BY DEF Init
  <2>4. moved \in BOOLEAN BY <2>3, Zenon
  <2> QED BY <2>1, <2>2, <2>3, <2>4 DEF TypeOK
<1>5. CentreLegal
  <2>1. WithinRange(0, 0)
    BY DEF Init, WithinRange, Abs, range, SearchRange, Regions
  <2>2. InsideFrame(0, 0)
    BY <1>2, <1>3, SizeAssumption DEF InsideFrame
  <2> QED BY <2>1, <2>2 DEF Init, CentreLegal
<1>6. ProbesNoCheaper /\ AllProbed /\ PassBound
  BY DEF Init, ProbesNoCheaper, AllProbed, PassBound
<1> QED BY <1>4, <1>5, <1>6 DEF IInv

\* Every step keeps the invariant.
LEMMA NextIInv == IInv /\ [Next]_vars => IInv'
<1> SUFFICES ASSUME IInv, [Next]_vars PROVE IInv'
  OBVIOUS
<1>t. TypeOK /\ CentreLegal /\ ProbesNoCheaper /\ AllProbed /\ PassBound
  BY DEF IInv
<1>1. CASE ReturnZero
  <2>1. TypeOK' BY <1>t, <1>1 DEF TypeOK, ReturnZero
  <2>2. CentreLegal'
    BY <1>t, <1>1 DEF ReturnZero, CentreLegal, WithinRange, range, InsideFrame
  <2>3. ProbesNoCheaper' /\ AllProbed' BY <1>1 DEF ReturnZero, ProbesNoCheaper, AllProbed
  <2>p. PassBound' BY <1>t, <1>1 DEF PassBound, ReturnZero
  <2> QED BY <2>1, <2>2, <2>3, <2>p DEF IInv
<1>2. CASE BeginSearch
  <2>1. TypeOK' BY <1>t, <1>2 DEF TypeOK, BeginSearch
  <2>2. CentreLegal'
    BY <1>t, <1>2 DEF BeginSearch, CentreLegal, WithinRange, range, InsideFrame
  <2>3. ProbesNoCheaper' /\ AllProbed' BY <1>2 DEF BeginSearch, ProbesNoCheaper, AllProbed
  <2>p. PassBound' BY <1>t, <1>2 DEF PassBound, BeginSearch
  <2> QED BY <2>1, <2>2, <2>3, <2>p DEF IInv
<1>3. CASE ProbeOutside
  <2>1. TypeOK' BY <1>t, <1>3 DEF TypeOK, ProbeOutside, Searching
  <2>2. CentreLegal'
    BY <1>t, <1>3 DEF ProbeOutside, CentreLegal, WithinRange, range, InsideFrame
  <2>3. AllProbed' BY <1>3 DEF ProbeOutside, Searching, AllProbed
  <2>4. ProbesNoCheaper'
    <3> SUFFICES ASSUME phase = "small", region # "FLAT", ~moved,
                        NEW i \in 1..8, i < d + 1,
                        WithinRange(best.x + SmallDiamond[i][1], best.y + SmallDiamond[i][2]),
                        InsideFrame(best.x + SmallDiamond[i][1], best.y + SmallDiamond[i][2])
                 PROVE  Cost(best.x + SmallDiamond[i][1], best.y + SmallDiamond[i][2]) >= best_cost
      BY <1>3 DEF ProbeOutside, Searching, ProbesNoCheaper, WithinRange, range, InsideFrame, Cost
    <3>1. i # d
      BY <1>t, <1>3 DEF ProbeOutside, ProbeX, ProbeY, OffsetX, OffsetY, CentreLegal
    <3>2. i < d BY <1>t, <3>1 DEF TypeOK
    <3> QED BY <1>t, <3>2 DEF ProbesNoCheaper
  <2>p. PassBound' BY <1>t, <1>3 DEF PassBound, ProbeOutside, SmallPasses
  <2> QED BY <2>1, <2>2, <2>3, <2>4, <2>p DEF IInv
<1>4. CASE ProbeWorse
  <2>1. TypeOK' BY <1>t, <1>4 DEF TypeOK, ProbeWorse, Searching
  <2>2. CentreLegal'
    BY <1>t, <1>4 DEF ProbeWorse, CentreLegal, WithinRange, range, InsideFrame
  <2>3. AllProbed' BY <1>4 DEF ProbeWorse, Searching, AllProbed
  <2>4. ProbesNoCheaper'
    <3> SUFFICES ASSUME phase = "small", region # "FLAT", ~moved,
                        NEW i \in 1..8, i < d + 1,
                        WithinRange(best.x + SmallDiamond[i][1], best.y + SmallDiamond[i][2]),
                        InsideFrame(best.x + SmallDiamond[i][1], best.y + SmallDiamond[i][2])
                 PROVE  Cost(best.x + SmallDiamond[i][1], best.y + SmallDiamond[i][2]) >= best_cost
      BY <1>4 DEF ProbeWorse, Searching, ProbesNoCheaper, WithinRange, range, InsideFrame, Cost
    <3>1. CASE i = d
      BY <1>t, <1>4, <3>1 DEF ProbeWorse, ProbeX, ProbeY, OffsetX, OffsetY, CentreLegal
    <3>2. CASE i < d BY <1>t, <3>2 DEF ProbesNoCheaper
    <3> QED BY <1>t, <3>1, <3>2 DEF TypeOK
  <2>p. PassBound' BY <1>t, <1>4 DEF PassBound, ProbeWorse
  <2> QED BY <2>1, <2>2, <2>3, <2>4, <2>p DEF IInv
<1>5. CASE ProbeBetter
  <2>1. ProbeX \in -32..32 /\ ProbeY \in -32..32 /\ Cost(ProbeX, ProbeY) \in Nat
    BY <1>t, <1>5, ProbeIsInteger, RangeBound DEF ProbeBetter
  <2>2. TypeOK' BY <1>t, <1>5, <2>1 DEF TypeOK, ProbeBetter, Searching
  <2>3. CentreLegal'
    BY <1>5, <2>1 DEF ProbeBetter, CentreLegal, WithinRange, range, InsideFrame
  <2>4. ProbesNoCheaper' /\ AllProbed'
    BY <1>5 DEF ProbeBetter, ProbesNoCheaper, Searching, AllProbed
  <2>p. PassBound' BY <1>t, <1>5 DEF PassBound, ProbeBetter
  <2> QED BY <2>2, <2>3, <2>4, <2>p DEF IInv
<1>6. CASE NextPass
  <2>0. moved' \in BOOLEAN BY <1>6, Zenon DEF NextPass
  <2>1. TypeOK'
    BY <1>t, <1>6, <2>0 DEF TypeOK, PassBound, NextPass, LastPass, PassesOf, LargePasses, SmallPasses
  <2>2. CentreLegal'
    BY <1>t, <1>6 DEF NextPass, CentreLegal, WithinRange, range, InsideFrame
  <2>3. ProbesNoCheaper' /\ AllProbed' BY <1>6 DEF NextPass, ProbesNoCheaper, AllProbed
  <2>p. PassBound' BY <1>t, <1>6 DEF PassBound, NextPass, LastPass, PassesOf, TypeOK, SmallPasses
  <2> QED BY <2>1, <2>2, <2>3, <2>p DEF IInv
<1>7. CASE StartRefinement
  <2>0. moved' \in BOOLEAN BY <1>7, Zenon DEF StartRefinement
  <2>1. TypeOK' BY <1>t, <1>7, <2>0 DEF TypeOK, StartRefinement
  <2>2. CentreLegal'
    BY <1>t, <1>7 DEF StartRefinement, CentreLegal, WithinRange, range, InsideFrame
  <2>3. ProbesNoCheaper' /\ AllProbed' BY <1>7 DEF StartRefinement, ProbesNoCheaper, AllProbed
  <2>p. PassBound' BY <1>t, <1>7 DEF PassBound, StartRefinement, SmallPasses
  <2> QED BY <2>1, <2>2, <2>3, <2>p DEF IInv
<1>8. CASE Finish
  <2>1. TypeOK' BY <1>t, <1>8 DEF TypeOK, Finish
  <2>2. CentreLegal'
    BY <1>t, <1>8 DEF Finish, CentreLegal, WithinRange, range, InsideFrame
  <2>3. AllProbed' BY <1>t, <1>8 DEF TypeOK, Finish, AllProbed
  <2>4. ProbesNoCheaper'
    BY <1>t, <1>8 DEF Finish, ProbesNoCheaper, WithinRange, range, InsideFrame, Cost
  <2>p. PassBound' BY <1>t, <1>8 DEF PassBound, Finish
  <2> QED BY <2>1, <2>2, <2>3, <2>4, <2>p DEF IInv
<1>9. CASE UNCHANGED vars
  BY <1>t, <1>9 DEF IInv, TypeOK, CentreLegal, ProbesNoCheaper, AllProbed, PassBound, vars,
     WithinRange, range, InsideFrame, Cost
<1> QED
  BY <1>1, <1>2, <1>3, <1>4, <1>5, <1>6, <1>7, <1>8, <1>9 DEF Next

\* The loop counters, the vectors and the cost stay in their types.
THEOREM TypeCorrect == Spec => []TypeOK
<1>1. IInv => TypeOK BY DEF IInv
<1> QED BY InitIInv, NextIInv, <1>1, PTL DEF Spec

\* The clip of decode_mb_inter never changes the block position the encoder
\* used without clipping, whatever the frame size and the picture: encoder and
\* decoder predict from the same samples of the reference frame.
THEOREM ClipIsIdentity == Spec => []DecoderClipIsIdentity
<1>1. IInv => DecoderClipIsIdentity
  <2> SUFFICES ASSUME IInv PROVE DecoderClipIsIdentity
    OBVIOUS
  <2>1. InsideFrame(best.x, best.y) /\ best.x \in Int /\ best.y \in Int
    BY DEF IInv, CentreLegal, TypeOK
  <2>2. mbx * MB \in Int /\ mby * MB \in Int
    BY SizeAssumption DEF IInv, TypeOK, Columns, Rows
  <2> QED BY <2>1, <2>2, SizeAssumption DEF DecoderClipIsIdentity, InsideFrame, Clip
<1> QED BY InitIInv, NextIInv, <1>1, PTL DEF Spec

\* A refinement that stopped because nothing moved stopped at a vector none of
\* whose legal neighbours is cheaper, although the centre may move mid-pass.
THEOREM StopsAtLocalMinimum == Spec => []LocalMinimum
<1>1. IInv => LocalMinimum
  BY DEF IInv, LocalMinimum, ProbesNoCheaper, AllProbed
<1> QED BY InitIInv, NextIInv, <1>1, PTL DEF Spec

-----------------------------------------------------------------------------
\* Loops.

\* A set of natural numbers has a least element.
LEMMA LeastElement ==
    ASSUME NEW T, T \subseteq Nat, T # {}
    PROVE  \E n \in T : \A m \in T : n <= m
<1> DEFINE Below == {0..m : m \in T}
<1>1. Below \subseteq FiniteSubsetsOf(Nat)
  <2> SUFFICES ASSUME NEW m \in T PROVE 0..m \in FiniteSubsetsOf(Nat)
    OBVIOUS
  <2>1. 0 \in Int /\ m \in Int /\ 0..m \subseteq Nat
    OBVIOUS
  <2>2. IsFiniteSet(0..m)
    BY <2>1, FS_Interval
  <2> QED BY <2>1, <2>2 DEF FiniteSubsetsOf
<1>2. Below # {}
  OBVIOUS
<1> HIDE DEF Below
<1>3. PICK x \in Below : \A y \in Below : ~ (<<y, x>> \in StrictSubsetOrdering(Nat))
  BY <1>1, <1>2, FS_StrictSubsetOrderingWellFounded, WFMin
<1>4. PICK a \in T : x = 0..a
  BY DEF Below
<1>5. ASSUME NEW m \in T, m < a PROVE FALSE
  <2>1. 0..m \in Below
    BY DEF Below
  <2>2. a \in 0..a /\ a \notin 0..m /\ 0..m \subseteq 0..a /\ 0..a \subseteq Nat
    BY <1>5
  <2>3. 0..m # 0..a
    BY <2>2
  <2>4. <<0..m, 0..a>> \in StrictSubsetOrdering(Nat)
    BY <2>2, <2>3 DEF StrictSubsetOrdering
  <2> QED BY <1>3, <1>4, <2>1, <2>4
<1> QED BY <1>5

\* Induction up to a bound, over a set: what holds before a loop and is kept by
\* each of its turns holds throughout.
LEMMA Turns ==
    ASSUME NEW n \in Nat, NEW T, 0 \in T, \A i \in 1..n : i - 1 \in T => i \in T
    PROVE  \A i \in 0..n : i \in T
<1> DEFINE Bad == {i \in 0..n : i \notin T}
<1>1. SUFFICES ASSUME Bad # {} PROVE FALSE
  OBVIOUS
<1>2. PICK m \in Bad : \A i \in Bad : m <= i
  <2>1. Bad \subseteq Nat
    OBVIOUS
  <2> HIDE DEF Bad
  <2> QED BY <1>1, <2>1, LeastElement
<1>3. m \in 1..n /\ m - 1 \in 0..n /\ m \notin T
  BY <1>2
<1>4. m - 1 \in T
  BY <1>2, <1>3
<1> QED BY <1>3, <1>4

\* A loop over values of a set D has a trace.
Trace(D, b, n, g, s) ==
    /\ s \in [0..n -> D]
    /\ s[0] = b /\ \A i \in 1..n : s[i] = g[<<i, s[i - 1]>>]

\* Every loop has one.
LEMMA TraceExists ==
    ASSUME NEW D, NEW b \in D, NEW n \in Nat, NEW g \in [(1..n) \X D -> D]
    PROVE  \E s : Trace(D, b, n, g, s)
<1> DEFINE T == {m \in 0..n : \E s : Trace(D, b, m, g, s)}
<1>1. 0 \in T
  <2>1. Trace(D, b, 0, g, [i \in 0..0 |-> b])
    BY DEF Trace
  <2> QED BY <2>1
<1>2. ASSUME NEW m \in 1..n, m - 1 \in T
      PROVE  m \in T
  <2>1. PICK s : Trace(D, b, m - 1, g, s)
    BY <1>2
  <2> DEFINE u == [i \in 0..m |-> IF i = m THEN g[<<m, s[m - 1]>>] ELSE s[i]]
  <2>2. s \in [0..(m - 1) -> D] /\ s[0] = b /\ \A i \in 1..(m - 1) : s[i] = g[<<i, s[i - 1]>>]
    BY <2>1 DEF Trace
  <2>3. s[m - 1] \in D
    BY <2>2
  <2>4. g[<<m, s[m - 1]>>] \in D
    BY <2>3
  <2>5. u \in [0..m -> D]
    BY <2>2, <2>4
  <2>6. u[0] = b /\ u[m] = g[<<m, s[m - 1]>>] /\ \A i \in 0..(m - 1) : u[i] = s[i]
    BY <2>2
  <2> HIDE DEF u
  <2>7. ASSUME NEW i \in 1..m
        PROVE  u[i] = g[<<i, u[i - 1]>>]
    <3>1. i - 1 \in 0..(m - 1) /\ u[i - 1] = s[i - 1]
      BY <2>6
    <3>2. CASE i = m
      BY <2>6, <3>1, <3>2
    <3>3. CASE i # m
      <4>1. i \in 1..(m - 1) /\ i \in 0..(m - 1)
        BY <3>3
      <4> QED BY <2>2, <2>6, <3>1, <4>1
    <3> QED BY <3>2, <3>3
  <2>8. Trace(D, b, m, g, u)
    BY <2>5, <2>6, <2>7 DEF Trace
  <2> QED BY <2>8
<1> HIDE DEF T
<1>3. n \in T
  BY <1>1, <1>2, Turns
<1> QED BY <1>3 DEF T

-----------------------------------------------------------------------------
\* Words.

\* The powers of two.
LEMMA Powers ==
    /\ Pow2 \in [0..W -> Nat \ {0}] /\ Pow2[0] = 1
    /\ \A i \in 1..W : Pow2[i] = 2 * Pow2[i - 1]
<1>1. W \in Nat
  BY BitIOAssumption
<1> DEFINE Is(s) == s = [i \in 0..W |-> IF i = 0 THEN 1 ELSE 2 * s[i - 1]]
<1>2. \E s : Is(s)
  <2> DEFINE D == Nat \ {0}
             g == [x \in (1..W) \X D |-> 2 * x[2]]
  <2>1. 1 \in D /\ g \in [(1..W) \X D -> D]
    OBVIOUS
  <2>2. PICK s : Trace(D, 1, W, g, s)
    <3> HIDE DEF D, g
    <3> QED BY <1>1, <2>1, TraceExists
  <2>3. \A i \in 1..W : s[i] = 2 * s[i - 1]
    <3>1. \A i \in 1..W : <<i, s[i - 1]>> \in (1..W) \X D
      <4>1. s \in [0..W -> D]
        BY <2>2 DEF Trace
      <4>2. \A i \in 1..W : i - 1 \in 0..W
        BY <1>1
      <4> QED BY <4>1, <4>2
    <3>2. \A i \in 1..W : s[i] = g[<<i, s[i - 1]>>]
      BY <2>2 DEF Trace
    <3> QED BY <3>1, <3>2
  <2>4. s = [i \in 0..W |-> s[i]] /\ s[0] = 1
    BY <2>2 DEF Trace
  <2>5. \A i \in 0..W : s[i] = IF i = 0 THEN 1 ELSE 2 * s[i - 1]
    <3>1. s[0] = 1 /\ \A i \in 0..W : i # 0 => i \in 1..W
      BY <1>1, <2>4
    <3> QED BY <2>3, <3>1
  <2>6. Is(s)
    BY <2>4, <2>5
  <2> QED BY <2>6
<1>3. Is(Pow2)
  BY <1>2 DEF Pow2
<1>4. Pow2[0] = 1 /\ \A i \in 1..W : Pow2[i] = 2 * Pow2[i - 1]
  <2>1. \A i \in 0..W : Pow2[i] = IF i = 0 THEN 1 ELSE 2 * Pow2[i - 1]
    BY <1>3
  <2> HIDE DEF Is
  <2> QED BY <1>1, <2>1
<1>5. \A i \in 0..W : Pow2[i] \in Nat \ {0}
  <2> DEFINE T == {i \in 0..W : Pow2[i] \in Nat \ {0}}
  <2>1. 0 \in T /\ \A i \in 1..W : i - 1 \in T => i \in T
    <3> HIDE DEF Is
    <3> QED BY <1>1, <1>4
  <2> HIDE DEF T
  <2>2. \A i \in 0..W : i \in T
    BY <1>1, <2>1, Turns
  <2> QED BY <2>2 DEF T
<1> QED BY <1>3, <1>4, <1>5

\* A word has at least two values.
LEMMA WordSize == Word \in Nat \ {0} /\ Word >= 2
<1>1. W \in 1..W /\ W - 1 \in 0..W /\ W \in 0..W
  BY BitIOAssumption
<1>2. Word = 2 * Pow2[W - 1] /\ Pow2[W - 1] \in Nat \ {0}
  BY <1>1, Powers DEF Word
<1> QED BY <1>2

\* The shifts of a word, each half of the one before.
LEMMA ShiftsAre ==
    ASSUME NEW v \in Nat
    PROVE  /\ Shifts(v) \in [0..W -> Nat] /\ Shifts(v)[0] = v
           /\ \A i \in 1..W : Shifts(v)[i] = Shifts(v)[i - 1] \div 2
<1>1. W \in Nat
  BY BitIOAssumption
<1> DEFINE Is(s) == s = [i \in 0..W |-> IF i = 0 THEN v ELSE s[i - 1] \div 2]
           sh == Shifts(v)
<1>2. \E s : Is(s)
  <2> DEFINE g == [x \in (1..W) \X Nat |-> x[2] \div 2]
  <2>1. g \in [(1..W) \X Nat -> Nat]
    OBVIOUS
  <2>2. PICK s : Trace(Nat, v, W, g, s)
    <3> HIDE DEF g
    <3> QED BY <1>1, <2>1, TraceExists
  <2>3. \A i \in 1..W : s[i] = s[i - 1] \div 2
    <3>1. \A i \in 1..W : <<i, s[i - 1]>> \in (1..W) \X Nat
      <4>1. s \in [0..W -> Nat]
        BY <2>2 DEF Trace
      <4>2. \A i \in 1..W : i - 1 \in 0..W
        BY <1>1
      <4> QED BY <4>1, <4>2
    <3>2. \A i \in 1..W : s[i] = g[<<i, s[i - 1]>>]
      BY <2>2 DEF Trace
    <3> QED BY <3>1, <3>2
  <2>4. s = [i \in 0..W |-> s[i]] /\ s[0] = v
    BY <2>2 DEF Trace
  <2>5. \A i \in 0..W : s[i] = IF i = 0 THEN v ELSE s[i - 1] \div 2
    <3>1. s[0] = v /\ \A i \in 0..W : i # 0 => i \in 1..W
      BY <1>1, <2>4
    <3> QED BY <2>3, <3>1
  <2>6. Is(s)
    BY <2>4, <2>5
  <2> QED BY <2>6
<1>3. Is(sh)
  <2>1. sh = CHOOSE s : Is(s)
    BY DEF Shifts
  <2> HIDE DEF sh, Is
  <2> QED BY <1>2, <2>1
<1>4. sh[0] = v /\ \A i \in 1..W : sh[i] = sh[i - 1] \div 2
  <2> HIDE DEF sh
  <2>1. \A i \in 0..W : sh[i] = IF i = 0 THEN v ELSE sh[i - 1] \div 2
    BY <1>3
  <2> HIDE DEF Is
  <2> QED BY <1>1, <2>1
<1>5. \A i \in 0..W : sh[i] \in Nat
  <2> HIDE DEF sh, Is
  <2> DEFINE T == {i \in 0..W : sh[i] \in Nat}
  <2>1. 0 \in T /\ \A i \in 1..W : i - 1 \in T => i \in T
    BY <1>1, <1>4
  <2> HIDE DEF T
  <2>2. \A i \in 0..W : i \in T
    BY <1>1, <2>1, Turns
  <2> QED BY <2>2 DEF T
<1> HIDE DEF sh
<1>6. sh \in [0..W -> Nat]
  <2>1. sh = [i \in 0..W |-> sh[i]]
    BY <1>3
  <2> HIDE DEF Is
  <2> QED BY <1>5, <2>1
<1> QED BY <1>4, <1>6 DEF sh

\* A shift loses the lowest bit.
LEMMA LowestBit ==
    ASSUME NEW v \in Nat, NEW i \in 1..W
    PROVE  /\ Shifts(v)[i - 1] % 2 \in {0, 1}
           /\ Shifts(v)[i - 1] = 2 * Shifts(v)[i] + (Shifts(v)[i - 1] % 2)
<1>1. i - 1 \in 0..W
  BY BitIOAssumption
<1>2. /\ Shifts(v) \in [0..W -> Nat]
      /\ \A k \in 1..W : Shifts(v)[k] = Shifts(v)[k - 1] \div 2
  BY ShiftsAre
<1>3. Shifts(v)[i - 1] \in Nat /\ Shifts(v)[i] = Shifts(v)[i - 1] \div 2
  BY <1>1, <1>2
<1> QED BY <1>3

\* The shifts never grow.
LEMMA ShiftsShrink ==
    ASSUME NEW v \in Nat, NEW i \in 0..W
    PROVE  Shifts(v)[i] \in Nat /\ Shifts(v)[i] <= v
<1> DEFINE T == {k \in 0..W : Shifts(v)[k] \in Nat /\ Shifts(v)[k] <= v}
<1>1. W \in Nat /\ Shifts(v) \in [0..W -> Nat] /\ Shifts(v)[0] = v
  BY BitIOAssumption, ShiftsAre
<1>2. 0 \in T
  BY <1>1
<1>3. ASSUME NEW k \in 1..W, k - 1 \in T PROVE k \in T
  <2>1. Shifts(v)[k - 1] = 2 * Shifts(v)[k] + (Shifts(v)[k - 1] % 2) /\ Shifts(v)[k - 1] % 2 \in {0, 1}
    BY LowestBit
  <2>2. Shifts(v)[k] \in Nat /\ Shifts(v)[k - 1] \in Nat /\ Shifts(v)[k - 1] <= v
    BY <1>1, <1>3
  <2>3. Shifts(v)[k] <= v
    BY <2>1, <2>2
  <2> QED BY <1>1, <2>2, <2>3
<1> HIDE DEF T
<1>4. \A k \in 0..W : k \in T
  BY <1>1, <1>2, <1>3, Turns
<1> QED BY <1>4 DEF T

\* A value of k bits is gone after k shifts.
LEMMA ShiftedOut ==
    ASSUME NEW v \in Nat, NEW k \in 0..W, v < Pow2[k]
    PROVE  Shifts(v)[k] = 0
<1> DEFINE sh == Shifts(v)
           T == {i \in 0..k : sh[i] < Pow2[k - i]}
<1>1. W \in Nat /\ k \in Nat /\ \A i \in 0..k : i \in 0..W /\ k - i \in 0..W
  BY BitIOAssumption
<1>2. sh \in [0..W -> Nat] /\ sh[0] = v
  BY ShiftsAre
<1>3. 0 \in T
  BY <1>1, <1>2
<1>4. ASSUME NEW i \in 1..k, i - 1 \in T PROVE i \in T
  <2>1. i \in 1..W /\ k - i + 1 \in 1..W /\ k - (i - 1) = k - i + 1 /\ (k - i + 1) - 1 = k - i
        /\ k - i \in 0..W
    BY <1>1
  <2>2. sh[i - 1] = 2 * sh[i] + (sh[i - 1] % 2) /\ sh[i - 1] % 2 \in {0, 1}
    BY <2>1, LowestBit
  <2>3. Pow2[k - i + 1] = 2 * Pow2[k - i] /\ Pow2[k - i] \in Nat
    BY <2>1, Powers
  <2>4. sh[i - 1] < Pow2[k - i + 1]
    BY <1>4, <2>1
  <2>5. sh[i] \in Nat
    BY <2>1, <1>2
  <2> HIDE DEF sh
  <2>6. sh[i] < Pow2[k - i]
    BY <2>2, <2>3, <2>4, <2>5
  <2> QED BY <2>6
<1> HIDE DEF T
<1>5. k \in T
  BY <1>1, <1>3, <1>4, Turns
<1>6. sh[k] < Pow2[0] /\ sh[k] \in Nat
  BY <1>1, <1>2, <1>5 DEF T
<1> HIDE DEF sh
<1>7. sh[k] = 0
  BY <1>6, Powers
<1> QED BY <1>7 DEF sh

\* The n low bits of a word are bits.
LEMMA BitsOfWord ==
    ASSUME NEW v \in Nat, NEW n \in 0..W
    PROVE  \A i \in 1..n : Shifts(v)[n - i] % 2 \in {0, 1}
<1>1. W \in Nat /\ \A i \in 1..n : n - i \in 0..W
  BY BitIOAssumption
<1>2. Shifts(v) \in [0..W -> Nat]
  BY ShiftsAre
<1>3. \A i \in 1..n : Shifts(v)[n - i] \in Nat
  BY <1>1, <1>2
<1> QED BY <1>3

\* Zero shifted is zero.
LEMMA ZeroShifted == \A i \in 0..W : Shifts(0)[i] = 0
  BY ShiftsShrink

\* The number of bits of a word: its highest bit is one.
LEMMA BitLengthIs ==
    ASSUME NEW v \in Nat, v < Word
    PROVE  /\ BitLength(v) \in 0..W
           /\ Shifts(v)[BitLength(v)] = 0
           /\ v > 0 => BitLength(v) >= 1 /\ Shifts(v)[BitLength(v) - 1] = 1
<1> DEFINE Is(n) == Shifts(v)[n] = 0 /\ \A i \in 0..(n - 1) : Shifts(v)[i] > 0
           T == {n \in 0..W : Shifts(v)[n] = 0}
<1>1. W \in Nat /\ W \in 0..W
  BY BitIOAssumption
<1>2. W \in T
  BY <1>1, ShiftedOut DEF Word
<1>3. PICK m \in T : \A n \in T : m <= n
  <2>1. T \subseteq Nat /\ T # {}
    BY <1>2
  <2> HIDE DEF T
  <2> QED BY <2>1, LeastElement
<1>4. Is(m) /\ m \in 0..W
  <2>1. m \in 0..W /\ Shifts(v)[m] = 0
    BY <1>3
  <2>2. ASSUME NEW i \in 0..(m - 1) PROVE Shifts(v)[i] > 0
    <3>1. i \in 0..W /\ i < m
      BY <1>1, <2>1
    <3>2. i \notin T
      <4> HIDE DEF T
      <4> QED BY <1>1, <1>3, <2>1, <3>1
    <3> QED BY <3>1, <3>2, ShiftsShrink
  <2> QED BY <2>1, <2>2
<1> HIDE DEF Is
<1>5. BitLength(v) \in 0..W /\ Is(BitLength(v))
  BY <1>4 DEF BitLength, Is
<1> DEFINE n == BitLength(v)
<1>6. ASSUME v > 0 PROVE n >= 1 /\ Shifts(v)[n - 1] = 1
  <2>1. n \in 0..W /\ Shifts(v)[n] = 0 /\ \A i \in 0..(n - 1) : Shifts(v)[i] > 0
    BY <1>5 DEF Is
  <2> HIDE DEF n
  <2>2. n # 0
    <3>1. Shifts(v)[0] = v
      BY ShiftsAre
    <3> QED BY <1>6, <2>1, <3>1
  <2>3. n \in 1..W /\ n - 1 \in 0..(n - 1) /\ n - 1 \in 0..W
    BY <1>1, <2>1, <2>2
  <2>4. /\ Shifts(v)[n - 1] % 2 \in {0, 1}
        /\ Shifts(v)[n - 1] = 2 * Shifts(v)[n] + (Shifts(v)[n - 1] % 2)
    BY <2>3, LowestBit
  <2>5. Shifts(v)[n - 1] > 0
    BY <2>1, <2>3
  <2>6. Shifts(v)[n - 1] = 1
    BY <2>1, <2>4, <2>5
  <2> QED BY <2>3, <2>6
<1> QED BY <1>5, <1>6 DEF Is

\* Arithmetic on a word leaves a value alone that fits.
LEMMA Fits == \A v \in Nat : v < Word => v % Word = v
  BY WordSize

-----------------------------------------------------------------------------
\* Streams.

\* Bits of the output buffer.
Room == Capacity * ByteBits

\* Streams over it, the position at most at the end and on a bit of a byte.
Streams ==
    {s \in [buf : [0..(Room - 1) -> {0, 1}], capacity : 0..Capacity, byte_pos : 0..Capacity,
            bit_pos : 0..(ByteBits - 1)] :
        s.byte_pos <= s.capacity /\ (s.byte_pos = s.capacity => s.bit_pos = ByteBits - 1)}

EndOf(s) == s.capacity * ByteBits
Lesser(a, b) == IF a <= b THEN a ELSE b

\* One more of a factor.
LEMMA OneMore == ASSUME NEW a \in Nat, NEW b \in Nat PROVE (a + 1) * b = a * b + b
  OBVIOUS

\* Products grow with a factor.
LEMMA Grows == ASSUME NEW a \in Nat, NEW c \in Nat, NEW b \in Nat, a <= c PROVE a * b <= c * b /\ a * b \in Nat
<1>1. PICK e \in Nat : c = a + e
  <2>1. c - a \in Nat /\ c = a + (c - a)
    OBVIOUS
  <2> QED BY <2>1
<1>2. c * b = a * b + e * b /\ e * b >= 0 /\ a * b \in Nat /\ e * b \in Nat
  BY <1>1
<1> QED BY <1>2

\* Where a stream may stand: it is at its end exactly when no bit is left.
LEMMA Places ==
    ASSUME NEW s \in Streams
    PROVE  /\ Position(s) \in 0..EndOf(s) /\ EndOf(s) \in 0..Room /\ Room \in Nat
           /\ AtEnd(s) <=> Position(s) = EndOf(s)
<1>1. /\ Capacity \in Nat /\ ByteBits \in Nat /\ ByteBits >= 1
      /\ s.capacity \in 0..Capacity /\ s.byte_pos \in 0..s.capacity /\ s.bit_pos \in 0..(ByteBits - 1)
      /\ s.byte_pos = s.capacity => s.bit_pos = ByteBits - 1
  BY BitIOAssumption DEF Streams
<1>2. EndOf(s) \in 0..Room /\ Room \in Nat
  <2>1. s.capacity \in Nat /\ s.capacity <= Capacity
    BY <1>1
  <2>2. s.capacity * ByteBits <= Capacity * ByteBits /\ s.capacity * ByteBits \in Nat
    BY <1>1, <2>1, Grows
  <2>3. Capacity * ByteBits \in Nat
    BY <1>1
  <2> QED BY <2>2, <2>3 DEF EndOf, Room
<1>3. CASE s.byte_pos = s.capacity
  <2>1. Position(s) = EndOf(s)
    <3>1. s.byte_pos * ByteBits \in Int /\ ByteBits - 1 - s.bit_pos = 0
      BY <1>1, <1>3
    <3> QED BY <1>3, <3>1 DEF Position, EndOf
  <2> QED BY <1>1, <1>2, <1>3, <2>1 DEF AtEnd
<1>4. CASE s.byte_pos # s.capacity
  <2>1. s.byte_pos + 1 <= s.capacity /\ s.byte_pos \in Nat /\ s.capacity \in Nat
    BY <1>1, <1>4
  <2>2. (s.byte_pos + 1) * ByteBits <= s.capacity * ByteBits
    BY <1>1, <2>1, Grows
  <2>3. (s.byte_pos + 1) * ByteBits = s.byte_pos * ByteBits + ByteBits /\ s.byte_pos * ByteBits \in Nat
    BY <1>1, <2>1
  <2>4. ByteBits - 1 - s.bit_pos \in 0..(ByteBits - 1)
    BY <1>1
  <2>5. EndOf(s) = s.capacity * ByteBits /\ s.capacity * ByteBits \in Nat
    BY <1>1 DEF EndOf
  <2>6. Position(s) \in 0..(EndOf(s) - 1)
    BY <1>1, <2>2, <2>3, <2>4, <2>5 DEF Position
  <2>7. ~ AtEnd(s)
    BY <2>1 DEF AtEnd
  <2> QED BY <1>2, <2>5, <2>6, <2>7
<1> QED BY <1>3, <1>4

\* A step over a bit.
LEMMA Advanced ==
    ASSUME NEW s \in Streams, ~ AtEnd(s)
    PROVE  /\ Advance(s) \in Streams /\ Advance(s).buf = s.buf /\ Advance(s).capacity = s.capacity
           /\ Position(Advance(s)) = Position(s) + 1
<1>1. /\ Capacity \in Nat /\ ByteBits \in Nat /\ ByteBits >= 1
      /\ s.capacity \in 0..Capacity /\ s.byte_pos \in 0..Capacity /\ s.bit_pos \in 0..(ByteBits - 1)
      /\ s.byte_pos < s.capacity
      /\ s \in [buf : [0..(Room - 1) -> {0, 1}], capacity : 0..Capacity, byte_pos : 0..Capacity,
                bit_pos : 0..(ByteBits - 1)]
  BY BitIOAssumption DEF Streams, AtEnd
<1>2. CASE s.bit_pos = 0
  <2> DEFINE t == [s EXCEPT !.bit_pos = ByteBits - 1, !.byte_pos = @ + 1]
  <2>1. Advance(s) = t
    BY <1>2 DEF Advance
  <2>2. /\ t.buf = s.buf /\ t.capacity = s.capacity /\ t.byte_pos = s.byte_pos + 1
        /\ t.bit_pos = ByteBits - 1
    BY <1>1
  <2>3. t \in Streams
    <3>1. s.byte_pos + 1 \in 0..Capacity /\ ByteBits - 1 \in 0..(ByteBits - 1)
      BY <1>1
    <3>2. t \in [buf : [0..(Room - 1) -> {0, 1}], capacity : 0..Capacity, byte_pos : 0..Capacity,
                 bit_pos : 0..(ByteBits - 1)]
      BY <1>1, <3>1
    <3> HIDE DEF t
    <3> QED BY <1>1, <2>2, <3>2 DEF Streams
  <2> HIDE DEF t
  <2>4. Position(t) = Position(s) + 1
    <3>1. (s.byte_pos + 1) * ByteBits = s.byte_pos * ByteBits + ByteBits /\ s.byte_pos * ByteBits \in Nat
      BY <1>1
    <3>2. Position(t) = (s.byte_pos + 1) * ByteBits + (ByteBits - 1 - (ByteBits - 1))
      BY <2>2 DEF Position
    <3>3. Position(s) = s.byte_pos * ByteBits + (ByteBits - 1 - 0)
      BY <1>2 DEF Position
    <3> QED BY <1>1, <3>1, <3>2, <3>3
  <2> QED BY <2>1, <2>2, <2>3, <2>4
<1>3. CASE s.bit_pos # 0
  <2> DEFINE t == [s EXCEPT !.bit_pos = @ - 1]
  <2>1. Advance(s) = t
    BY <1>3 DEF Advance
  <2>2. /\ t.buf = s.buf /\ t.capacity = s.capacity /\ t.byte_pos = s.byte_pos
        /\ t.bit_pos = s.bit_pos - 1
    BY <1>1
  <2>3. t \in Streams
    <3>1. s.bit_pos - 1 \in 0..(ByteBits - 1)
      BY <1>1, <1>3
    <3>2. t \in [buf : [0..(Room - 1) -> {0, 1}], capacity : 0..Capacity, byte_pos : 0..Capacity,
                 bit_pos : 0..(ByteBits - 1)]
      BY <1>1, <3>1
    <3> HIDE DEF t
    <3> QED BY <1>1, <2>2, <3>2 DEF Streams
  <2> HIDE DEF t
  <2>4. Position(t) = Position(s) + 1
    <3>1. s.byte_pos * ByteBits \in Nat
      BY <1>1
    <3>2. Position(t) = s.byte_pos * ByteBits + (ByteBits - 1 - (s.bit_pos - 1))
      BY <2>2 DEF Position
    <3> QED BY <1>1, <3>1, <3>2 DEF Position
  <2> QED BY <2>1, <2>2, <2>3, <2>4
<1> QED BY <1>2, <1>3

\* A bit written: at the end it is dropped, elsewhere it is set when it is one.
LEMMA BitWritten ==
    ASSUME NEW s \in Streams, NEW b \in {0, 1}
    PROVE  /\ WriteBit(s, b) \in Streams /\ WriteBit(s, b).capacity = s.capacity
           /\ AtEnd(s) => WriteBit(s, b) = s
           /\ ~ AtEnd(s) => /\ Position(WriteBit(s, b)) = Position(s) + 1
                            /\ WriteBit(s, b).buf = IF b = 1 THEN [s.buf EXCEPT ![Position(s)] = 1] ELSE s.buf
<1>1. CASE AtEnd(s)
  BY <1>1 DEF WriteBit
<1>2. CASE ~ AtEnd(s)
  <2> DEFINE u == [s EXCEPT !.buf[Position(s)] = 1]
             t == IF b = 1 THEN u ELSE s
  <2>1. WriteBit(s, b) = Advance(t)
    BY <1>2 DEF WriteBit
  <2>2. /\ s \in [buf : [0..(Room - 1) -> {0, 1}], capacity : 0..Capacity, byte_pos : 0..Capacity,
                  bit_pos : 0..(ByteBits - 1)]
        /\ s.byte_pos <= s.capacity /\ (s.byte_pos = s.capacity => s.bit_pos = ByteBits - 1)
    BY DEF Streams
  <2>3. /\ u.buf = [s.buf EXCEPT ![Position(s)] = 1] /\ u.capacity = s.capacity
        /\ u.byte_pos = s.byte_pos /\ u.bit_pos = s.bit_pos
    BY <2>2
  <2>4. u \in [buf : [0..(Room - 1) -> {0, 1}], capacity : 0..Capacity, byte_pos : 0..Capacity,
               bit_pos : 0..(ByteBits - 1)]
    BY <2>2
  <2> HIDE DEF u
  <2>5. t \in Streams /\ t.capacity = s.capacity /\ Position(t) = Position(s) /\ ~ AtEnd(t)
    BY <1>2, <2>2, <2>3, <2>4 DEF Streams, Position, AtEnd
  <2>6. t.buf = IF b = 1 THEN [s.buf EXCEPT ![Position(s)] = 1] ELSE s.buf
    BY <2>3
  <2> HIDE DEF t
  <2> QED BY <1>2, <2>1, <2>5, <2>6, Advanced
<1> QED BY <1>1, <1>2

-----------------------------------------------------------------------------
\* Writing.

\* No bit is set from the position on: what is or-ed there appears as it is.
Blank(s) == \A i \in Position(s)..(Room - 1) : s.buf[i] = 0

\* t is s with the first n bits of f written, as far as they fit.
Wrote(s, t, f, n) ==
    /\ t \in Streams /\ t.capacity = s.capacity
    /\ Position(t) = Lesser(Position(s) + n, EndOf(s))
    /\ \A i \in 0..(Room - 1) :
          t.buf[i] = IF i \in Position(s)..(Position(t) - 1) THEN f[i - Position(s) + 1] ELSE s.buf[i]

\* Nothing written yet.
LEMMA WroteNothing == ASSUME NEW s \in Streams, NEW f PROVE Wrote(s, s, f, 0)
<1>1. Position(s) \in 0..EndOf(s) /\ EndOf(s) \in Nat
  BY Places
<1>2. Position(s) = Lesser(Position(s) + 0, EndOf(s))
  BY <1>1 DEF Lesser
<1>3. \A i \in 0..(Room - 1) : i \notin Position(s)..(Position(s) - 1)
  BY <1>1, Places
<1> QED BY <1>2, <1>3 DEF Wrote

\* One bit more.
LEMMA WroteBit ==
    ASSUME NEW s \in Streams, Blank(s), NEW t, NEW f, NEW n \in Nat, Wrote(s, t, f, n), f[n + 1] \in {0, 1}
    PROVE  Wrote(s, WriteBit(t, f[n + 1]), f, n + 1)
<1> DEFINE p == Position(s)
           q == Position(t)
           u == WriteBit(t, f[n + 1])
<1>1. /\ t \in Streams /\ t.capacity = s.capacity /\ EndOf(t) = EndOf(s)
      /\ q = Lesser(p + n, EndOf(s))
      /\ \A i \in 0..(Room - 1) : t.buf[i] = IF i \in p..(q - 1) THEN f[i - p + 1] ELSE s.buf[i]
  BY DEF Wrote, EndOf
<1>2. p \in 0..EndOf(s) /\ EndOf(s) \in 0..Room /\ Room \in Nat /\ q \in 0..EndOf(s)
      /\ (AtEnd(t) <=> q = EndOf(s))
  BY <1>1, Places
<1>3. /\ u \in Streams /\ u.capacity = t.capacity
      /\ AtEnd(t) => u = t
      /\ ~ AtEnd(t) => /\ Position(u) = q + 1
                       /\ u.buf = IF f[n + 1] = 1 THEN [t.buf EXCEPT ![q] = 1] ELSE t.buf
  BY <1>1, BitWritten
<1>4. CASE AtEnd(t)
  <2>1. u = t
    BY <1>3, <1>4
  <2> HIDE DEF u
  <2>2. q = Lesser(p + (n + 1), EndOf(s))
    BY <1>1, <1>2, <1>4 DEF Lesser
  <2> QED BY <1>1, <2>1, <2>2 DEF Wrote, u
<1>5. CASE ~ AtEnd(t)
  <2>1. /\ Position(u) = q + 1
        /\ u.buf = IF f[n + 1] = 1 THEN [t.buf EXCEPT ![q] = 1] ELSE t.buf
    BY <1>3, <1>5
  <2> HIDE DEF u
  <2>2. q = p + n /\ q + 1 = Lesser(p + (n + 1), EndOf(s)) /\ q \in 0..(Room - 1)
    BY <1>1, <1>2, <1>5 DEF Lesser
  <2>3. t.buf \in [0..(Room - 1) -> {0, 1}]
    BY <1>1 DEF Streams
  <2>4. t.buf[q] = 0
    <3>1. q \in p..(Room - 1) /\ q \notin p..(q - 1)
      BY <1>2, <2>2
    <3>2. s.buf[q] = 0
      BY <3>1 DEF Blank
    <3> QED BY <1>1, <2>2, <3>1, <3>2
  <2> HIDE DEF p, q
  <2>5. ASSUME NEW i \in 0..(Room - 1)
        PROVE  u.buf[i] = IF i \in p..q THEN f[i - p + 1] ELSE s.buf[i]
    <3>1. CASE i = q
      <4>1. u.buf[i] = f[n + 1]
        BY <2>1, <2>2, <2>3, <2>4, <3>1
      <4>2. i \in p..q /\ i - p + 1 = n + 1
        BY <1>2, <2>2, <3>1
      <4> QED BY <4>1, <4>2
    <3>2. CASE i # q
      <4>1. u.buf[i] = t.buf[i]
        BY <2>1, <2>2, <2>3, <3>2
      <4>2. i \in p..q <=> i \in p..(q - 1)
        BY <1>2, <3>2
      <4> QED BY <1>1, <4>1, <4>2
    <3> QED BY <3>1, <3>2
  <2>6. \A i \in 0..(Room - 1) :
           u.buf[i] = IF i \in p..(Position(u) - 1) THEN f[i - p + 1] ELSE s.buf[i]
    <3>1. Position(u) - 1 = q
      BY <1>2, <2>1
    <3> QED BY <2>5, <3>1
  <2>7. Position(u) = Lesser(p + (n + 1), EndOf(s))
    BY <2>1, <2>2
  <2>8. u \in Streams /\ u.capacity = s.capacity
    BY <1>1, <1>3 
  <2> QED BY <2>6, <2>7, <2>8 DEF Wrote, u, p
<1> QED BY <1>4, <1>5

\* The loop of bs_write_bits.
LEMMA WriteLoop ==
    ASSUME NEW s \in Streams, NEW val \in Nat, NEW n \in 0..W
    PROVE  \E w : /\ w \in [0..n -> Streams] /\ w[0] = s
                  /\ \A i \in 1..n : w[i] = WriteBit(w[i - 1], Shifts(val)[n - i] % 2)
                  /\ WriteBits(s, val, n) = w[n]
<1>1. W \in Nat /\ n \in Nat /\ \A i \in 1..n : n - i \in 0..W
  BY BitIOAssumption
<1>2. \A i \in 1..n : Shifts(val)[n - i] % 2 \in {0, 1}
  BY BitsOfWord
<1> DEFINE Is(w) == w = [i \in 0..n |-> IF i = 0 THEN s ELSE WriteBit(w[i - 1], Shifts(val)[n - i] % 2)]
<1>3. \E w : Is(w)
  <2> DEFINE g == [x \in (1..n) \X Streams |-> WriteBit(x[2], Shifts(val)[n - x[1]] % 2)]
  <2>1. g \in [(1..n) \X Streams -> Streams]
    <3>1. ASSUME NEW x \in (1..n) \X Streams PROVE WriteBit(x[2], Shifts(val)[n - x[1]] % 2) \in Streams
      <4>1. x[1] \in 1..n /\ x[2] \in Streams
        OBVIOUS
      <4> QED BY <1>2, <4>1, BitWritten
    <3> QED BY <3>1
  <2>2. PICK w : Trace(Streams, s, n, g, w)
    <3> HIDE DEF g
    <3> QED BY <1>1, <2>1, TraceExists
  <2>3. w \in [0..n -> Streams] /\ w[0] = s /\ \A i \in 1..n : w[i] = g[<<i, w[i - 1]>>]
    BY <2>2 DEF Trace
  <2>4. ASSUME NEW i \in 1..n PROVE w[i] = WriteBit(w[i - 1], Shifts(val)[n - i] % 2)
    <3>1. i - 1 \in 0..n
      BY <1>1
    <3>2. <<i, w[i - 1]>> \in (1..n) \X Streams
      BY <2>3, <3>1
    <3>3. g[<<i, w[i - 1]>>] = WriteBit(w[i - 1], Shifts(val)[n - i] % 2)
      BY <3>2
    <3> QED BY <2>3, <3>3
  <2>5. w = [i \in 0..n |-> w[i]]
    BY <2>3
  <2>6. \A i \in 0..n : w[i] = IF i = 0 THEN s ELSE WriteBit(w[i - 1], Shifts(val)[n - i] % 2)
    <3>1. \A i \in 0..n : i # 0 => i \in 1..n
      BY <1>1
    <3> QED BY <2>3, <2>4, <3>1
  <2>7. Is(w)
    BY <2>5, <2>6
  <2> QED BY <2>7
<1> DEFINE w == CHOOSE w : Is(w)
<1>4. WriteBits(s, val, n) = w[n]
  BY DEF WriteBits
<1>5. Is(w)
  <2> HIDE DEF Is
  <2> QED BY <1>3
<1> HIDE DEF w
<1>6. w[0] = s /\ \A i \in 1..n : w[i] = WriteBit(w[i - 1], Shifts(val)[n - i] % 2)
  <2>1. \A i \in 0..n : w[i] = IF i = 0 THEN s ELSE WriteBit(w[i - 1], Shifts(val)[n - i] % 2)
    BY <1>5
  <2> HIDE DEF Is
  <2> QED BY <1>1, <2>1
<1>7. w \in [0..n -> Streams]
  <2> DEFINE T == {i \in 0..n : w[i] \in Streams}
  <2>1. 0 \in T
    BY <1>1, <1>6
  <2>2. ASSUME NEW i \in 1..n, i - 1 \in T PROVE i \in T
    <3>1. w[i - 1] \in Streams /\ i \in 0..n
      BY <1>1, <2>2
    <3>2. WriteBit(w[i - 1], Shifts(val)[n - i] % 2) \in Streams
      BY <1>2, <3>1, BitWritten
    <3> QED BY <1>6, <3>1, <3>2
  <2> HIDE DEF T
  <2>3. \A i \in 0..n : i \in T
    BY <1>1, <2>1, <2>2, Turns
  <2>4. \A i \in 0..n : w[i] \in Streams
    BY <2>3 DEF T
  <2>5. w = [i \in 0..n |-> w[i]]
    BY <1>5
  <2> HIDE DEF Is
  <2> QED BY <2>4, <2>5
<1> QED BY <1>4, <1>6, <1>7

\* bs_write_bits after m bits of f writes the next n of them, if they are those of its argument.
LEMMA WroteBits ==
    ASSUME NEW s \in Streams, Blank(s), NEW t, NEW f, NEW m \in Nat, Wrote(s, t, f, m),
           NEW val \in Nat, NEW n \in 0..W, \A i \in 1..n : f[m + i] = Shifts(val)[n - i] % 2
    PROVE  Wrote(s, WriteBits(t, val, n), f, m + n)
<1>1. W \in Nat /\ n \in Nat /\ \A i \in 1..n : n - i \in 0..W
  BY BitIOAssumption
<1>2. \A i \in 1..n : Shifts(val)[n - i] % 2 \in {0, 1}
  BY BitsOfWord
<1>3. t \in Streams
  BY DEF Wrote
<1>4. PICK w : /\ w \in [0..n -> Streams] /\ w[0] = t
               /\ \A i \in 1..n : w[i] = WriteBit(w[i - 1], Shifts(val)[n - i] % 2)
               /\ WriteBits(t, val, n) = w[n]
  BY <1>3, WriteLoop, ZenonT(60)
<1> DEFINE T == {i \in 0..n : Wrote(s, w[i], f, m + i)}
<1>5. 0 \in T
  <2>1. m + 0 = m
    OBVIOUS
  <2> QED BY <1>1, <1>4, <2>1
<1>6. ASSUME NEW i \in 1..n, i - 1 \in T PROVE i \in T
  <2>1. Wrote(s, w[i - 1], f, m + (i - 1))
    BY <1>6
  <2>2. m + (i - 1) \in Nat /\ (m + (i - 1)) + 1 = m + i
    BY <1>1
  <2>3. w[i] = WriteBit(w[i - 1], f[m + i]) /\ f[m + i] \in {0, 1}
    BY <1>2, <1>4
  <2>4. f[(m + (i - 1)) + 1] = f[m + i]
    BY <2>2
  <2>5. Wrote(s, WriteBit(w[i - 1], f[(m + (i - 1)) + 1]), f, (m + (i - 1)) + 1)
    BY <2>1, <2>2, <2>3, <2>4, WroteBit
  <2>6. Wrote(s, w[i], f, m + i)
    BY <2>2, <2>3, <2>5
  <2> QED BY <1>1, <2>6
<1> HIDE DEF T
<1>7. \A i \in 0..n : i \in T
  BY <1>1, <1>5, <1>6, Turns
<1>8. n \in 0..n
  BY <1>1
<1> QED BY <1>4, <1>7, <1>8 DEF T

\* The rest of the buffer stays blank.
LEMMA StaysBlank ==
    ASSUME NEW s \in Streams, Blank(s), NEW t, NEW f, NEW n \in Nat, Wrote(s, t, f, n)
    PROVE  Blank(t)
<1>1. /\ t \in Streams /\ Position(t) = Lesser(Position(s) + n, EndOf(s))
      /\ \A i \in 0..(Room - 1) :
           t.buf[i] = IF i \in Position(s)..(Position(t) - 1) THEN f[i - Position(s) + 1] ELSE s.buf[i]
  BY DEF Wrote
<1>2. Position(s) \in 0..EndOf(s) /\ EndOf(s) \in 0..Room /\ Room \in Nat
  BY Places
<1>3. Position(t) \in Position(s)..Room
  BY <1>1, <1>2 DEF Lesser
<1>4. ASSUME NEW i \in Position(t)..(Room - 1) PROVE t.buf[i] = 0
  <2>1. i \in 0..(Room - 1) /\ i \notin Position(s)..(Position(t) - 1) /\ i \in Position(s)..(Room - 1)
    BY <1>2, <1>3
  <2> QED BY <1>1, <2>1 DEF Blank
<1> QED BY <1>4 DEF Blank

-----------------------------------------------------------------------------
\* Reading.

\* A read in progress.
Reads == [s : Streams, val : 0..(Word - 1)]

\* Reading moves the position, nothing else.
SameBits(s, t) == t \in Streams /\ t.buf = s.buf /\ t.capacity = s.capacity

\* A bit read.
LEMMA BitRead ==
    ASSUME NEW r \in Reads
    PROVE  /\ ReadBit(r) \in Reads /\ SameBits(r.s, ReadBit(r).s)
           /\ ~ AtEnd(r.s) => /\ Position(ReadBit(r).s) = Position(r.s) + 1
                              /\ ReadBit(r).val = (2 * r.val + r.s.buf[Position(r.s)]) % Word
<1>1. r.s \in Streams /\ r.val \in 0..(Word - 1)
  BY DEF Reads
<1>2. CASE AtEnd(r.s)
  <2>1. ReadBit(r) = r
    BY <1>2 DEF ReadBit
  <2> QED BY <1>1, <1>2, <2>1 DEF SameBits
<1>3. CASE ~ AtEnd(r.s)
  <2> DEFINE t == Advance(r.s)
             x == (2 * r.val + r.s.buf[Position(r.s)]) % Word
  <2>1. ReadBit(r) = [s |-> t, val |-> x]
    BY <1>3 DEF ReadBit
  <2>2. /\ t \in Streams /\ t.buf = r.s.buf /\ t.capacity = r.s.capacity
        /\ Position(t) = Position(r.s) + 1
    BY <1>1, <1>3, Advanced
  <2>3. r.s.buf[Position(r.s)] \in {0, 1}
    <3>1. Position(r.s) \in 0..(Room - 1)
      BY <1>1, <1>3, Places
    <3>2. r.s.buf \in [0..(Room - 1) -> {0, 1}]
      BY <1>1 DEF Streams
    <3> QED BY <3>1, <3>2
  <2>4. x \in 0..(Word - 1)
    BY <1>1, <2>3, WordSize
  <2> HIDE DEF t, x
  <2>5. [s |-> t, val |-> x] \in Reads
    BY <2>2, <2>4 DEF Reads
  <2>6. SameBits(r.s, t)
    BY <2>2 DEF SameBits
  <2>7. ReadBit(r) \in Reads /\ ReadBit(r).s = t /\ ReadBit(r).val = x
    BY <2>1, <2>5
  <2> QED BY <2>2, <2>6, <2>7 DEF x
<1> QED BY <1>2, <1>3

\* The loop of bs_read_bits.
LEMMA ReadLoop ==
    ASSUME NEW s \in Streams, NEW n \in 0..W
    PROVE  \E r : /\ r \in [0..n -> Reads] /\ r[0] = [s |-> s, val |-> 0]
                  /\ \A i \in 1..n : r[i] = ReadBit(r[i - 1])
                  /\ ReadBits(s, n) = r[n]
<1>1. W \in Nat /\ n \in Nat
  BY BitIOAssumption
<1> DEFINE r0 == [s |-> s, val |-> 0]
           Is(r) == r = [i \in 0..n |-> IF i = 0 THEN r0 ELSE ReadBit(r[i - 1])]
<1>2. r0 \in Reads
  BY WordSize DEF Reads
<1> HIDE DEF r0
<1>3. \E r : Is(r)
  <2> DEFINE g == [x \in (1..n) \X Reads |-> ReadBit(x[2])]
  <2>1. g \in [(1..n) \X Reads -> Reads]
    BY BitRead
  <2>2. PICK r : Trace(Reads, r0, n, g, r)
    <3> HIDE DEF g
    <3> QED BY <1>1, <1>2, <2>1, TraceExists
  <2>3. r \in [0..n -> Reads] /\ r[0] = r0 /\ \A i \in 1..n : r[i] = g[<<i, r[i - 1]>>]
    BY <2>2 DEF Trace
  <2>4. ASSUME NEW i \in 1..n PROVE r[i] = ReadBit(r[i - 1])
    <3>1. i - 1 \in 0..n
      BY <1>1
    <3>2. <<i, r[i - 1]>> \in (1..n) \X Reads
      BY <2>3, <3>1
    <3>3. g[<<i, r[i - 1]>>] = ReadBit(r[i - 1])
      BY <3>2
    <3> QED BY <2>3, <3>3
  <2>5. r = [i \in 0..n |-> r[i]]
    BY <2>3
  <2>6. \A i \in 0..n : r[i] = IF i = 0 THEN r0 ELSE ReadBit(r[i - 1])
    <3>1. \A i \in 0..n : i # 0 => i \in 1..n
      BY <1>1
    <3> QED BY <2>3, <2>4, <3>1
  <2>7. Is(r)
    BY <2>5, <2>6
  <2> QED BY <2>7
<1> DEFINE r == CHOOSE r : Is(r)
<1>4. ReadBits(s, n) = r[n]
  BY DEF ReadBits, r0
<1>5. Is(r)
  <2> HIDE DEF Is
  <2> QED BY <1>3
<1> HIDE DEF r
<1>6. r[0] = r0 /\ \A i \in 1..n : r[i] = ReadBit(r[i - 1])
  <2>1. \A i \in 0..n : r[i] = IF i = 0 THEN r0 ELSE ReadBit(r[i - 1])
    BY <1>5
  <2> HIDE DEF Is
  <2> QED BY <1>1, <2>1
<1>7. r \in [0..n -> Reads]
  <2> DEFINE T == {i \in 0..n : r[i] \in Reads}
  <2>1. 0 \in T
    BY <1>1, <1>2, <1>6
  <2>2. ASSUME NEW i \in 1..n, i - 1 \in T PROVE i \in T
    <3>1. r[i - 1] \in Reads /\ i \in 0..n
      BY <1>1, <2>2
    <3>2. ReadBit(r[i - 1]) \in Reads
      BY <3>1, BitRead
    <3> QED BY <1>6, <3>1, <3>2
  <2> HIDE DEF T
  <2>3. \A i \in 0..n : i \in T
    BY <1>1, <2>1, <2>2, Turns
  <2>4. \A i \in 0..n : r[i] \in Reads
    BY <2>3 DEF T
  <2>5. r = [i \in 0..n |-> r[i]]
    BY <1>5
  <2> HIDE DEF Is
  <2> QED BY <2>4, <2>5
<1> QED BY <1>4, <1>6, <1>7 DEF r0

\* Reading bits keeps the stream, whatever is in it.
LEMMA ReadBitsKeeps ==
    ASSUME NEW s \in Streams, NEW n \in 0..W
    PROVE  ReadBits(s, n) \in Reads /\ SameBits(s, ReadBits(s, n).s)
<1>1. n \in Nat /\ n \in 0..n
  BY BitIOAssumption
<1>2. PICK r : /\ r \in [0..n -> Reads] /\ r[0] = [s |-> s, val |-> 0]
               /\ \A i \in 1..n : r[i] = ReadBit(r[i - 1])
               /\ ReadBits(s, n) = r[n]
  BY ReadLoop, ZenonT(60)
<1> DEFINE T == {i \in 0..n : SameBits(s, r[i].s)}
<1>3. 0 \in T
  BY <1>1, <1>2 DEF SameBits
<1>4. ASSUME NEW i \in 1..n, i - 1 \in T PROVE i \in T
  <2>1. r[i - 1] \in Reads /\ SameBits(s, r[i - 1].s) /\ i \in 0..n
    BY <1>1, <1>2, <1>4
  <2>2. SameBits(r[i - 1].s, ReadBit(r[i - 1]).s)
    BY <2>1, BitRead
  <2>3. SameBits(s, ReadBit(r[i - 1]).s)
    BY <2>1, <2>2 DEF SameBits
  <2> QED BY <1>2, <2>1, <2>3
<1> HIDE DEF T
<1>5. \A i \in 0..n : i \in T
  BY <1>1, <1>3, <1>4, Turns
<1> QED BY <1>1, <1>2, <1>5 DEF T

\* One bit read, where there is one.
LEMMA ReadOne ==
    ASSUME NEW s \in Streams, Position(s) < EndOf(s)
    PROVE  /\ Position(ReadBits(s, 1).s) = Position(s) + 1
           /\ ReadBits(s, 1).val = s.buf[Position(s)]
<1>1. 1 \in 0..W /\ 1 \in 1..1 /\ 1 - 1 = 0
  BY BitIOAssumption
<1>2. PICK r : /\ r \in [0..1 -> Reads] /\ r[0] = [s |-> s, val |-> 0]
               /\ \A i \in 1..1 : r[i] = ReadBit(r[i - 1])
               /\ ReadBits(s, 1) = r[1]
  BY <1>1, ReadLoop, ZenonT(60)
<1>3. r[1] = ReadBit(r[0]) /\ r[0] \in Reads /\ r[0].s = s /\ r[0].val = 0
  BY <1>1, <1>2
<1>4. ~ AtEnd(s) /\ Position(s) \in 0..(Room - 1)
  BY Places
<1>5. /\ Position(ReadBit(r[0]).s) = Position(s) + 1
      /\ ReadBit(r[0]).val = (2 * 0 + s.buf[Position(s)]) % Word
  BY <1>3, <1>4, BitRead
<1>6. s.buf[Position(s)] \in {0, 1}
  <2>1. s.buf \in [0..(Room - 1) -> {0, 1}]
    BY DEF Streams
  <2> QED BY <1>4, <2>1
<1>7. (2 * 0 + s.buf[Position(s)]) % Word = s.buf[Position(s)]
  BY <1>6, WordSize
<1> QED BY <1>2, <1>3, <1>5, <1>7

\* The n bits of a value read back: what is lost is what lies above them.
LEMMA ReadBack ==
    ASSUME NEW s \in Streams, NEW n \in 0..W, NEW v \in Nat, v < Word, Shifts(v)[n] \in {0, 1},
           Position(s) + n <= EndOf(s),
           \A i \in 1..n : s.buf[Position(s) + i - 1] = Shifts(v)[n - i] % 2
    PROVE  /\ Position(ReadBits(s, n).s) = Position(s) + n
           /\ ReadBits(s, n).val = v - (IF Shifts(v)[n] = 0 THEN 0 ELSE Pow2[n])
<1>1. n \in Nat /\ n \in 0..n /\ W \in Nat /\ \A i \in 0..n : i \in 0..W /\ n - i \in 0..W
  BY BitIOAssumption
<1>2. PICK r : /\ r \in [0..n -> Reads] /\ r[0] = [s |-> s, val |-> 0]
               /\ \A i \in 1..n : r[i] = ReadBit(r[i - 1])
               /\ ReadBits(s, n) = r[n]
  BY ReadLoop, ZenonT(60)
<1> DEFINE sh == Shifts(v)
           p == Position(s)
           c(i) == IF sh[n] = 0 THEN 0 ELSE Pow2[i]
           T == {i \in 0..n : /\ SameBits(s, r[i].s) /\ Position(r[i].s) = p + i
                              /\ r[i].val = sh[n - i] - c(i)}
<1>3. p \in Nat /\ EndOf(s) \in Nat
  BY Places
<1>4. sh \in [0..W -> Nat] /\ sh[0] = v
  BY ShiftsAre
<1>5. 0 \in T
  <2>1. 0 \in 0..n /\ n - 0 = n /\ p + 0 = p
    BY <1>1, <1>3
  <2>2. SameBits(s, r[0].s) /\ r[0].s = s /\ r[0].val = 0
    BY <1>2 DEF SameBits
  <2>3. sh[n] - c(0) = 0
    BY Powers
  <2>4. Position(r[0].s) = p + 0
    BY <2>1, <2>2
  <2>5. r[0].val = sh[n - 0] - c(0)
    BY <2>1, <2>2, <2>3
  <2> HIDE DEF c, p, sh
  <2> QED BY <2>1, <2>2, <2>4, <2>5
<1>6. ASSUME NEW i \in 1..n, i - 1 \in T PROVE i \in T
  <2>1. /\ r[i - 1] \in Reads /\ SameBits(s, r[i - 1].s) /\ Position(r[i - 1].s) = p + (i - 1)
        /\ r[i - 1].val = sh[n - (i - 1)] - c(i - 1)
        /\ i \in 0..n
    BY <1>1, <1>2, <1>6
  <2>2. n - (i - 1) \in 0..W /\ n - i + 1 \in 1..W /\ n - (i - 1) = n - i + 1 /\ (n - i + 1) - 1 = n - i
        /\ i \in 1..W /\ n - i \in 0..W /\ i - 1 \in 0..W
    BY <1>1
  <2>3. EndOf(r[i - 1].s) = EndOf(s) /\ p + (i - 1) < EndOf(s)
    BY <1>1, <1>3, <2>1 DEF SameBits, EndOf
  <2>4. ~ AtEnd(r[i - 1].s)
    BY <1>3, <2>1, <2>3, Places DEF Reads
  <2>5. /\ SameBits(r[i - 1].s, ReadBit(r[i - 1]).s)
        /\ Position(ReadBit(r[i - 1]).s) = Position(r[i - 1].s) + 1
        /\ ReadBit(r[i - 1]).val = (2 * r[i - 1].val + r[i - 1].s.buf[Position(r[i - 1].s)]) % Word
    BY <2>1, <2>4, BitRead
  <2>6. r[i - 1].s.buf[Position(r[i - 1].s)] = sh[n - i] % 2
    <3>1. p + (i - 1) = p + i - 1
      BY <1>3
    <3>2. r[i - 1].s.buf = s.buf
      BY <2>1 DEF SameBits
    <3> QED BY <2>1, <3>1, <3>2
  <2>7. (2 * r[i - 1].val + (sh[n - i] % 2)) % Word = sh[n - i] - c(i)
    <3>1. sh[n - i] = 2 * sh[n - i + 1] + (sh[n - i] % 2) /\ sh[n - i] % 2 \in {0, 1}
      BY <2>2, LowestBit
    <3>2. c(i) = 2 * c(i - 1) /\ c(i - 1) \in Nat
      <4>1. Pow2[i] = 2 * Pow2[i - 1] /\ Pow2[i - 1] \in Nat
        BY <2>2, Powers
      <4> QED BY <4>1
    <3>3. sh[n - i] \in Nat /\ sh[n - i + 1] \in Nat /\ sh[n - i] <= v
      BY <2>2, <1>4, ShiftsShrink
    <3>4. r[i - 1].val = sh[n - i + 1] - c(i - 1) /\ r[i - 1].val \in Nat
      BY <2>1, <2>2, WordSize DEF Reads
    <3> HIDE DEF c, sh
    <3>5. 2 * r[i - 1].val + (sh[n - i] % 2) = sh[n - i] - c(i)
      BY <3>1, <3>2, <3>3, <3>4
    <3>6. 2 * r[i - 1].val + (sh[n - i] % 2) \in Nat /\ 2 * r[i - 1].val + (sh[n - i] % 2) < Word
      BY <3>1, <3>2, <3>3, <3>4, <3>5, WordSize
    <3> QED BY <3>5, <3>6, Fits
  <2>8. r[i] = ReadBit(r[i - 1])
    BY <1>2
  <2>9. SameBits(s, r[i].s)
    BY <2>1, <2>5, <2>8 DEF SameBits
  <2>10. Position(r[i].s) = p + i
    BY <1>3, <2>1, <2>5, <2>8
  <2>11. r[i].val = sh[n - i] - c(i)
    BY <2>5, <2>6, <2>7, <2>8
  <2> HIDE DEF c, p, sh
  <2> QED BY <2>1, <2>9, <2>10, <2>11
<1> HIDE DEF T
<1>7. n \in T
  BY <1>1, <1>5, <1>6, Turns
<1>8. n - n = 0
  BY <1>1
<1> QED BY <1>2, <1>4, <1>7, <1>8 DEF T

\* A count of leading zeros in progress.
Counts == [s : Streams, zeros : 0..(W - 1), done : BOOLEAN]

\* A turn of that loop.
LEMMA CountKeeps ==
    ASSUME NEW z \in Counts
    PROVE  CountZero(z) \in Counts /\ SameBits(z.s, CountZero(z).s)
<1>1. z.s \in Streams /\ z.zeros \in 0..(W - 1) /\ z.done \in BOOLEAN
  BY DEF Counts
<1>2. CASE z.done
  BY <1>1, <1>2 DEF CountZero, SameBits
<1>3. CASE ~ z.done
  <2> DEFINE r == ReadBits(z.s, 1)
  <2>1. 1 \in 0..W
    BY BitIOAssumption
  <2>2. r \in Reads /\ SameBits(z.s, r.s) /\ r.s \in Streams
    BY <1>1, <2>1, ReadBitsKeeps DEF SameBits
  <2>3. CountZero(z) = IF r.val = 0 /\ z.zeros < W - 1
                       THEN [s |-> r.s, zeros |-> z.zeros + 1, done |-> FALSE]
                       ELSE [s |-> r.s, zeros |-> z.zeros, done |-> TRUE]
    BY <1>3 DEF CountZero
  <2> HIDE DEF r
  <2>4. CASE r.val = 0 /\ z.zeros < W - 1
    <3>1. z.zeros + 1 \in 0..(W - 1)
      BY <1>1, <2>4, BitIOAssumption
    <3> QED BY <2>2, <2>3, <2>4, <3>1 DEF Counts
  <2>5. CASE ~ (r.val = 0 /\ z.zeros < W - 1)
    <3>1. CountZero(z) = [s |-> r.s, zeros |-> z.zeros, done |-> TRUE]
      BY <2>3, <2>5
    <3> QED BY <1>1, <2>2, <3>1 DEF Counts
  <2> QED BY <2>4, <2>5
<1> QED BY <1>2, <1>3

\* The loop of bs_read_ue.
LEMMA CountLoop ==
    ASSUME NEW s \in Streams
    PROVE  \E z : /\ z \in [0..W -> Counts] /\ z[0] = [s |-> s, zeros |-> 0, done |-> FALSE]
                  /\ \A i \in 1..W : z[i] = CountZero(z[i - 1])
                  /\ LeadingZeros(s) = z[W]
<1>1. W \in Nat /\ W >= 1
  BY BitIOAssumption
<1> DEFINE z0 == [s |-> s, zeros |-> 0, done |-> FALSE]
           Is(z) == z = [i \in 0..W |-> IF i = 0 THEN z0 ELSE CountZero(z[i - 1])]
<1>2. z0 \in Counts
  BY <1>1 DEF Counts
<1> HIDE DEF z0
<1>3. \E z : Is(z)
  <2> DEFINE g == [x \in (1..W) \X Counts |-> CountZero(x[2])]
  <2>1. g \in [(1..W) \X Counts -> Counts]
    BY CountKeeps
  <2>2. PICK z : Trace(Counts, z0, W, g, z)
    <3> HIDE DEF g
    <3> QED BY <1>1, <1>2, <2>1, TraceExists
  <2>3. z \in [0..W -> Counts] /\ z[0] = z0 /\ \A i \in 1..W : z[i] = g[<<i, z[i - 1]>>]
    BY <2>2 DEF Trace
  <2>4. ASSUME NEW i \in 1..W PROVE z[i] = CountZero(z[i - 1])
    <3>1. i - 1 \in 0..W
      BY <1>1
    <3>2. <<i, z[i - 1]>> \in (1..W) \X Counts
      BY <2>3, <3>1
    <3>3. g[<<i, z[i - 1]>>] = CountZero(z[i - 1])
      BY <3>2
    <3> QED BY <2>3, <3>3
  <2>5. z = [i \in 0..W |-> z[i]]
    BY <2>3
  <2>6. \A i \in 0..W : z[i] = IF i = 0 THEN z0 ELSE CountZero(z[i - 1])
    <3>1. \A i \in 0..W : i # 0 => i \in 1..W
      BY <1>1
    <3> QED BY <2>3, <2>4, <3>1
  <2>7. Is(z)
    BY <2>5, <2>6
  <2> QED BY <2>7
<1> DEFINE z == CHOOSE z : Is(z)
<1>4. LeadingZeros(s) = z[W]
  BY DEF LeadingZeros, z0
<1>5. Is(z)
  <2> HIDE DEF Is
  <2> QED BY <1>3
<1> HIDE DEF z
<1>6. z[0] = z0 /\ \A i \in 1..W : z[i] = CountZero(z[i - 1])
  <2>1. \A i \in 0..W : z[i] = IF i = 0 THEN z0 ELSE CountZero(z[i - 1])
    BY <1>5
  <2> HIDE DEF Is
  <2> QED BY <1>1, <2>1
<1>7. z \in [0..W -> Counts]
  <2> DEFINE T == {i \in 0..W : z[i] \in Counts}
  <2>1. 0 \in T
    BY <1>1, <1>2, <1>6
  <2>2. ASSUME NEW i \in 1..W, i - 1 \in T PROVE i \in T
    <3>1. z[i - 1] \in Counts /\ i \in 0..W
      BY <1>1, <2>2
    <3>2. CountZero(z[i - 1]) \in Counts
      BY <3>1, CountKeeps
    <3> QED BY <1>6, <3>1, <3>2
  <2> HIDE DEF T
  <2>3. \A i \in 0..W : i \in T
    BY <1>1, <2>1, <2>2, Turns
  <2>4. \A i \in 0..W : z[i] \in Counts
    BY <2>3 DEF T
  <2>5. z = [i \in 0..W |-> z[i]]
    BY <1>5
  <2> HIDE DEF Is
  <2> QED BY <2>4, <2>5
<1> QED BY <1>4, <1>6, <1>7 DEF z0

\* Counting keeps the stream, and the count below the width of a word.
LEMMA LeadingZerosKeeps ==
    ASSUME NEW s \in Streams
    PROVE  LeadingZeros(s) \in Counts /\ SameBits(s, LeadingZeros(s).s)
<1>1. W \in Nat /\ W \in 0..W /\ 0 \in 0..W
  BY BitIOAssumption
<1>2. PICK z : /\ z \in [0..W -> Counts] /\ z[0] = [s |-> s, zeros |-> 0, done |-> FALSE]
               /\ \A i \in 1..W : z[i] = CountZero(z[i - 1])
               /\ LeadingZeros(s) = z[W]
  BY CountLoop, ZenonT(60)
<1> DEFINE T == {i \in 0..W : SameBits(s, z[i].s)}
<1>3. 0 \in T
  BY <1>1, <1>2 DEF SameBits
<1>4. ASSUME NEW i \in 1..W, i - 1 \in T PROVE i \in T
  <2>1. z[i - 1] \in Counts /\ SameBits(s, z[i - 1].s) /\ i \in 0..W
    BY <1>1, <1>2, <1>4
  <2>2. SameBits(z[i - 1].s, CountZero(z[i - 1]).s)
    BY <2>1, CountKeeps
  <2>3. SameBits(s, CountZero(z[i - 1]).s)
    BY <2>1, <2>2 DEF SameBits
  <2> QED BY <1>2, <2>1, <2>3
<1> HIDE DEF T
<1>5. \A i \in 0..W : i \in T
  BY <1>1, <1>3, <1>4, Turns
<1> QED BY <1>1, <1>2, <1>5 DEF T

\* The zeros in front of a one are counted, and the one is consumed.
LEMMA ZerosCounted ==
    ASSUME NEW s \in Streams, NEW k \in 0..(W - 1), Position(s) + k < EndOf(s),
           \A i \in 0..(k - 1) : s.buf[Position(s) + i] = 0, s.buf[Position(s) + k] = 1
    PROVE  LeadingZeros(s).zeros = k /\ Position(LeadingZeros(s).s) = Position(s) + k + 1
<1>1. W \in Nat /\ W \in 0..W /\ W >= k + 1 /\ k \in Nat
  BY BitIOAssumption
<1>2. PICK z : /\ z \in [0..W -> Counts] /\ z[0] = [s |-> s, zeros |-> 0, done |-> FALSE]
               /\ \A i \in 1..W : z[i] = CountZero(z[i - 1])
               /\ LeadingZeros(s) = z[W]
  BY CountLoop, ZenonT(60)
<1> DEFINE p == Position(s)
           Counting(i) == /\ SameBits(s, z[i].s) /\ Position(z[i].s) = p + i
                          /\ z[i].zeros = i /\ ~ z[i].done
           Counted(i) == z[i].done /\ z[i].zeros = k /\ Position(z[i].s) = p + k + 1
           T == {i \in 0..W : IF i <= k THEN Counting(i) ELSE Counted(i)}
<1>3. p \in Nat /\ EndOf(s) \in Nat
  BY Places
<1>4. 0 \in T
  BY <1>1, <1>2, <1>3 DEF SameBits
<1>5. ASSUME NEW i \in 1..W, i - 1 \in T PROVE i \in T
  <2>1. i - 1 \in 0..W /\ i \in 0..W
    BY <1>1
  <2>2. z[i - 1] \in Counts /\ z[i] = CountZero(z[i - 1])
    BY <1>2, <2>1
  <2>3. CASE i <= k + 1
    <3>1. Counting(i - 1)
      <4>1. i - 1 <= k
        BY <2>3
      <4> HIDE DEF Counting, Counted
      <4> QED BY <1>5, <4>1
    <3> DEFINE r == ReadBits(z[i - 1].s, 1)
    <3>2. p + (i - 1) < EndOf(z[i - 1].s) /\ z[i - 1].s \in Streams /\ z[i - 1].s.buf = s.buf
      BY <1>1, <1>3, <2>3, <3>1 DEF SameBits, EndOf
    <3>3. Position(r.s) = p + i /\ r.val = s.buf[p + (i - 1)]
      <4>1. /\ Position(r.s) = Position(z[i - 1].s) + 1
            /\ r.val = z[i - 1].s.buf[Position(z[i - 1].s)]
        BY <3>1, <3>2, ReadOne
      <4>2. (p + (i - 1)) + 1 = p + i
        BY <1>3
      <4> QED BY <3>1, <3>2, <4>1, <4>2
    <3>4. SameBits(s, r.s)
      <4>1. 1 \in 0..W
        BY BitIOAssumption
      <4>2. SameBits(z[i - 1].s, r.s)
        BY <3>2, <4>1, ReadBitsKeeps
      <4> QED BY <3>1, <4>2 DEF SameBits
    <3>5. z[i] = IF r.val = 0 /\ i - 1 < W - 1
                 THEN [s |-> r.s, zeros |-> (i - 1) + 1, done |-> FALSE]
                 ELSE [s |-> r.s, zeros |-> i - 1, done |-> TRUE]
      BY <2>2, <3>1 DEF CountZero
    <3> HIDE DEF r, p
    <3>6. CASE i <= k
      <4>1. i - 1 \in 0..(k - 1) /\ i - 1 < W - 1 /\ (i - 1) + 1 = i
        BY <1>1, <3>6
      <4>2. r.val = 0
        BY <3>3, <4>1 DEF p
      <4>3. z[i] = [s |-> r.s, zeros |-> i, done |-> FALSE]
        BY <3>5, <4>1, <4>2
      <4>4. Counting(i)
        BY <3>3, <3>4, <4>3
      <4> HIDE DEF Counting, Counted
      <4> QED BY <2>1, <3>6, <4>4
    <3>7. CASE i = k + 1
      <4>1. r.val = 1 /\ i - 1 = k /\ ~ (i <= k) /\ p + i = p + k + 1
        BY <1>1, <1>3, <3>3, <3>7 DEF p
      <4>2. z[i] = [s |-> r.s, zeros |-> k, done |-> TRUE]
        <5>1. ~ (r.val = 0 /\ i - 1 < W - 1)
          BY <4>1
        <5>2. z[i] = [s |-> r.s, zeros |-> i - 1, done |-> TRUE]
          BY <3>5, <5>1, Zenon
        <5> QED BY <4>1, <5>2, Zenon
      <4>3. Counted(i)
        BY <3>3, <4>1, <4>2
      <4> HIDE DEF Counting, Counted
      <4> QED BY <2>1, <4>1, <4>3
    <3> QED BY <1>1, <2>3, <3>6, <3>7
  <2>4. CASE i > k + 1
    <3>1. ~ (i - 1 <= k) /\ ~ (i <= k)
      BY <1>1, <2>4
    <3>2. Counted(i - 1)
      <4> HIDE DEF Counting, Counted
      <4> QED BY <1>5, <3>1
    <3>3. z[i] = z[i - 1]
      BY <2>2, <3>2 DEF CountZero
    <3>4. Counted(i)
      BY <3>2, <3>3
    <3> HIDE DEF Counting, Counted
    <3> QED BY <2>1, <3>1, <3>4
  <2> QED BY <1>1, <2>3, <2>4
<1> HIDE DEF T
<1>6. W \in T
  BY <1>1, <1>4, <1>5, Turns
<1>7. Counted(W)
  <2>1. ~ (W <= k)
    BY <1>1
  <2> HIDE DEF Counting, Counted
  <2> QED BY <1>6, <2>1 DEF T
<1> QED BY <1>2, <1>7

-----------------------------------------------------------------------------
\* The codes.

\* An element some caller may write.
Legal(e) ==
    \/ e.kind = "bits" /\ e.n \in Widths /\ e.v \in 0..(Pow2[e.n] - 1)
    \/ e.kind = "ue" /\ e.v \in UeValues
    \/ e.kind = "se" /\ e.v \in SeValues

\* The word an element is coded by, the bits of it that are written, and the zeros in front.
Code(e) == IF e.kind = "bits" THEN e.v ELSE IF e.kind = "ue" THEN e.v + 1 ELSE SeMapped(e.v) + 1
Width(e) == IF e.kind = "bits" THEN e.n ELSE BitLength(Code(e))
Zeros(e) == IF e.kind = "bits" THEN 0 ELSE Width(e) - 1
CodeLength(e) == Zeros(e) + Width(e)
ElementBits(e) == [i \in 1..CodeLength(e) |->
                  IF i <= Zeros(e) THEN 0 ELSE Shifts(Code(e))[CodeLength(e) - i] % 2]

\* What a call writes, and what the matching call reads.
After(s, e) == IF e.kind = "bits" THEN WriteBits(s, e.v, e.n)
               ELSE IF e.kind = "ue" THEN WriteUe(s, e.v) ELSE WriteSe(s, e.v)
Decoded(s, e) == CASE e.kind = "bits" -> ReadBits(s, e.n)
                   [] e.kind = "ue"   -> ReadUe(s)
                   [] OTHER           -> ReadSe(s)

\* The mapping of signed values: even for zero and below, odd above.
LEMMA Mapped ==
    ASSUME NEW v \in SeValues
    PROVE  /\ SeMapped(v) \in 0..(Word - 2)
           /\ IF v > 0 THEN SeMapped(v) = 2 * v - 1 ELSE SeMapped(v) = -2 * v
<1>1. v \in Int /\ -2 * v <= Word - 2 /\ 2 * v - 1 <= Word - 2 /\ Word \in Nat /\ Word >= 2
  BY BitIOAssumption, WordSize
<1>2. CASE v > 0
  <2>1. 2 * v - 1 \in Nat /\ 2 * v - 1 < Word
    BY <1>1, <1>2
  <2>2. SeMapped(v) = 2 * v - 1
    BY <1>2, <2>1, Fits DEF SeMapped
  <2> QED BY <1>1, <1>2, <2>1, <2>2
<1>3. CASE ~ (v > 0)
  <2>1. -2 * v \in Nat /\ -2 * v < Word
    BY <1>1, <1>3
  <2>2. SeMapped(v) = -2 * v
    BY <1>3, <2>1, Fits DEF SeMapped
  <2> QED BY <1>1, <1>3, <2>1, <2>2
<1> QED BY <1>2, <1>3

\* The code of an element: a word, cut to its width, behind one zero fewer.
LEMMA Codes ==
    ASSUME NEW e, Legal(e)
    PROVE  /\ Code(e) \in 0..(Word - 1) /\ Width(e) \in 1..W /\ Zeros(e) \in 0..(W - 1)
           /\ CodeLength(e) \in Nat /\ CodeLength(e) >= 1
           /\ Shifts(Code(e))[Width(e)] = 0
           /\ e.kind = "bits" => Code(e) = e.v /\ Width(e) = e.n /\ Zeros(e) = 0
           /\ e.kind # "bits" => /\ Shifts(Code(e))[Width(e) - 1] = 1
                                 /\ Zeros(e) = Width(e) - 1 /\ Width(e) = BitLength(Code(e))
<1>1. W \in Nat /\ W >= 1 /\ Word \in Nat /\ Word >= 2
  BY BitIOAssumption, WordSize
<1>2. CASE e.kind = "bits"
  <2>1. e.n \in 1..W /\ e.n \in 0..W /\ e.v \in 0..(Pow2[e.n] - 1)
    <3>1. e.n \in Widths /\ e.v \in 0..(Pow2[e.n] - 1)
      BY <1>2 DEF Legal
    <3>2. e.n \in 1..W
      BY <3>1, BitIOAssumption
    <3> QED BY <1>1, <3>1, <3>2
  <2>2. Pow2[e.n] \in Nat
    BY <2>1, Powers
  <2>3. e.v \in Nat /\ e.v < Pow2[e.n]
    BY <2>1, <2>2
  <2>4. Shifts(e.v)[e.n] = 0
    BY <2>1, <2>3, ShiftedOut
  <2>5. Pow2[e.n] <= Word
    <3> DEFINE T == {i \in 0..W : \A j \in 0..i : Pow2[j] <= Pow2[i]}
    <3>1. 0 \in T
      BY <1>1, Powers
    <3>2. ASSUME NEW i \in 1..W, i - 1 \in T PROVE i \in T
      <4>1. Pow2[i] = 2 * Pow2[i - 1] /\ Pow2[i - 1] \in Nat /\ i - 1 \in 0..W /\ i \in 0..W
        BY <1>1, Powers
      <4>2. ASSUME NEW j \in 0..i PROVE Pow2[j] <= Pow2[i]
        <5>1. j \in 0..W
          BY <1>1
        <5>2. Pow2[j] \in Nat
          BY <5>1, Powers
        <5>3. CASE j = i
          BY <4>1, <5>2, <5>3
        <5>4. CASE j # i
          <6>1. j \in 0..(i - 1)
            BY <5>4
          <6>2. Pow2[j] <= Pow2[i - 1]
            BY <3>2, <6>1
          <6> QED BY <4>1, <5>2, <6>2
        <5> QED BY <5>3, <5>4
      <4> QED BY <4>1, <4>2
    <3> HIDE DEF T
    <3>3. W \in T
      BY <1>1, <3>1, <3>2, Turns
    <3> QED BY <2>1, <3>3 DEF T, Word
  <2>6. Code(e) = e.v /\ Width(e) = e.n /\ Zeros(e) = 0 /\ CodeLength(e) = 0 + e.n
    BY <1>2 DEF Code, Width, Zeros, CodeLength
  <2>7. e.v \in 0..(Word - 1)
    BY <1>1, <2>2, <2>3, <2>5
  <2> QED BY <1>1, <1>2, <2>1, <2>4, <2>6, <2>7
<1>3. CASE e.kind # "bits"
  <2>1. Code(e) \in 1..(Word - 1)
    <3>1. CASE e.kind = "ue"
      <4>1. e.v \in 0..(Word - 2)
        BY <3>1, BitIOAssumption DEF Legal
      <4>2. Code(e) = e.v + 1
        BY <3>1 DEF Code
      <4> QED BY <1>1, <4>1, <4>2
    <3>2. CASE e.kind = "se"
      <4>1. e.v \in SeValues
        BY <3>2 DEF Legal
      <4>2. SeMapped(e.v) \in 0..(Word - 2)
        BY <4>1, Mapped
      <4>3. Code(e) = SeMapped(e.v) + 1
        BY <3>2 DEF Code
      <4> QED BY <1>1, <4>2, <4>3
    <3> QED BY <1>3, <3>1, <3>2 DEF Legal
  <2>2. Code(e) \in Nat /\ Code(e) < Word /\ Code(e) > 0
    BY <1>1, <2>1
  <2>3. Width(e) = BitLength(Code(e)) /\ Zeros(e) = Width(e) - 1
    BY <1>3 DEF Width, Zeros
  <2>4. /\ Width(e) \in 0..W /\ Shifts(Code(e))[Width(e)] = 0
        /\ Width(e) >= 1 /\ Shifts(Code(e))[Width(e) - 1] = 1
    BY <2>2, <2>3, BitLengthIs
  <2>5. Width(e) \in 1..W /\ Zeros(e) \in 0..(W - 1) /\ CodeLength(e) \in Nat /\ CodeLength(e) >= 1
    BY <1>1, <2>3, <2>4 DEF CodeLength
  <2>6. Code(e) \in 0..(Word - 1)
    BY <1>1, <2>1
  <2> QED BY <1>3, <2>3, <2>4, <2>5, <2>6
<1> QED BY <1>2, <1>3

\* The length a call is meant to write is that of the code.
LEMMA Lengths ==
    ASSUME NEW e, Legal(e)
    PROVE  CodeLength(e) = IF e.kind = "bits" THEN e.n
                           ELSE IF e.kind = "ue" THEN UeLength(e.v) ELSE UeLength(SeMapped(e.v))
<1>1. Width(e) \in Nat
  BY Codes, BitIOAssumption
<1>2. CASE e.kind = "bits"
  BY <1>1, <1>2, Codes DEF CodeLength
<1>3. CASE e.kind # "bits"
  <2>1. CodeLength(e) = 2 * BitLength(Code(e)) - 1
    BY <1>1, <1>3, Codes DEF CodeLength
  <2> QED BY <1>3, <2>1 DEF UeLength, Code
<1> QED BY <1>2, <1>3

\* The bits of a code: zeros, then those of the word from its highest.
LEMMA BitsOfCode ==
    ASSUME NEW e, Legal(e)
    PROVE  /\ ElementBits(e) \in [1..CodeLength(e) -> {0, 1}]
           /\ \A i \in 1..Zeros(e) : ElementBits(e)[i] = 0
           /\ \A i \in 1..Width(e) : ElementBits(e)[Zeros(e) + i] = Shifts(Code(e))[Width(e) - i] % 2
<1>1. Width(e) \in 1..W /\ Zeros(e) \in 0..(W - 1) /\ Code(e) \in Nat /\ W \in Nat
  BY Codes, BitIOAssumption
<1>2. Shifts(Code(e)) \in [0..W -> Nat]
  BY <1>1, ShiftsAre
<1>3. ASSUME NEW i \in 1..CodeLength(e) PROVE ElementBits(e)[i] \in {0, 1}
  <2>1. CASE i <= Zeros(e)
    BY <2>1 DEF ElementBits
  <2>2. CASE ~ (i <= Zeros(e))
    <3>1. CodeLength(e) - i \in 0..W
      BY <1>1, <2>2 DEF CodeLength
    <3>2. Shifts(Code(e))[CodeLength(e) - i] \in Nat
      BY <1>2, <3>1
    <3>3. ElementBits(e)[i] = Shifts(Code(e))[CodeLength(e) - i] % 2
      BY <2>2 DEF ElementBits
    <3> QED BY <3>2, <3>3
  <2> QED BY <2>1, <2>2
<1>4. ASSUME NEW i \in 1..Zeros(e) PROVE ElementBits(e)[i] = 0
  <2>1. i \in 1..CodeLength(e) /\ i <= Zeros(e)
    BY <1>1 DEF CodeLength
  <2> QED BY <2>1 DEF ElementBits
<1>5. ASSUME NEW i \in 1..Width(e)
      PROVE  ElementBits(e)[Zeros(e) + i] = Shifts(Code(e))[Width(e) - i] % 2
  <2>1. /\ Zeros(e) + i \in 1..CodeLength(e) /\ ~ (Zeros(e) + i <= Zeros(e))
        /\ CodeLength(e) - (Zeros(e) + i) = Width(e) - i
    BY <1>1 DEF CodeLength
  <2> QED BY <2>1 DEF ElementBits
<1>6. ElementBits(e) = [i \in 1..CodeLength(e) |-> ElementBits(e)[i]]
  BY DEF ElementBits
<1>7. ElementBits(e) \in [1..CodeLength(e) -> {0, 1}]
  BY <1>3, <1>6
<1> QED BY <1>4, <1>5, <1>7

\* A call writes the code of its element.
LEMMA ElementWritten ==
    ASSUME NEW s \in Streams, Blank(s), NEW e, Legal(e)
    PROVE  Wrote(s, After(s, e), ElementBits(e), CodeLength(e))
<1> DEFINE f == ElementBits(e)
<1>1. /\ Code(e) \in Nat /\ Width(e) \in 0..W /\ Width(e) \in Nat /\ Zeros(e) \in 0..W /\ Zeros(e) \in Nat
      /\ W \in Nat /\ Word \in Nat
  BY Codes, BitIOAssumption, WordSize
<1>2. /\ \A i \in 1..Zeros(e) : f[i] = 0
      /\ \A i \in 1..Width(e) : f[Zeros(e) + i] = Shifts(Code(e))[Width(e) - i] % 2
  BY BitsOfCode
<1> HIDE DEF f
<1>3. Wrote(s, s, f, 0)
  BY WroteNothing
<1>4. CASE e.kind = "bits"
  <2>1. Wrote(s, WriteBits(s, Code(e), Width(e)), f, 0 + Width(e))
    <3>1. \A i \in 1..Width(e) : f[0 + i] = Shifts(Code(e))[Width(e) - i] % 2
      BY <1>2, <1>4, Codes
    <3> QED BY <1>1, <1>3, <3>1, WroteBits
  <2>2. After(s, e) = WriteBits(s, Code(e), Width(e)) /\ CodeLength(e) = 0 + Width(e)
    BY <1>4, Codes DEF After, CodeLength
  <2> QED BY <2>1, <2>2 DEF f
<1>5. CASE e.kind # "bits"
  <2> DEFINE t == WriteBits(s, 0, Zeros(e))
  <2>1. Wrote(s, t, f, 0 + Zeros(e))
    <3>1. ASSUME NEW i \in 1..Zeros(e) PROVE f[0 + i] = Shifts(0)[Zeros(e) - i] % 2
      <4>1. Zeros(e) - i \in 0..W /\ 0 + i = i
        BY <1>1
      <4>2. Shifts(0)[Zeros(e) - i] = 0
        BY <4>1, ZeroShifted
      <4> QED BY <1>2, <4>1, <4>2
    <3> QED BY <1>1, <1>3, <3>1, WroteBits
  <2> HIDE DEF t
  <2>2. Wrote(s, WriteBits(t, Code(e), Width(e)), f, Zeros(e) + Width(e))
    <3>1. 0 + Zeros(e) = Zeros(e)
      BY <1>1
    <3>2. Wrote(s, t, f, Zeros(e))
      BY <2>1, <3>1
    <3> QED BY <1>1, <1>2, <3>2, WroteBits
  <2>3. ASSUME NEW v, v + 1 = Code(e) PROVE WriteUe(s, v) = WriteBits(t, Code(e), Width(e))
    <3>1. (v + 1) % Word = Code(e)
      BY <1>1, <2>3, Codes, Fits
    <3>2. BitLength(Code(e)) = Width(e) /\ Width(e) - 1 = Zeros(e)
      BY <1>5, Codes
    <3> QED BY <3>1, <3>2 DEF WriteUe, t
  <2>4. After(s, e) = WriteBits(t, Code(e), Width(e))
    <3>1. CASE e.kind = "ue"
      BY <2>3, <3>1 DEF After, Code
    <3>2. CASE e.kind # "ue"
      BY <1>5, <2>3, <3>2 DEF After, Code, WriteSe
    <3> QED BY <3>1, <3>2
  <2> QED BY <2>2, <2>4 DEF f, CodeLength
<1> QED BY <1>4, <1>5

\* Reading a code keeps the stream, whatever is in it.
LEMMA ElementReadKeeps ==
    ASSUME NEW s \in Streams, NEW e, Legal(e)
    PROVE  SameBits(s, Decoded(s, e).s) /\ Decoded(s, e).val \in Int
<1>1. W \in Nat /\ Word \in Nat /\ Word >= 2
  BY BitIOAssumption, WordSize
<1>2. SameBits(s, ReadUe(s).s) /\ ReadUe(s).val \in Nat
  <2> DEFINE z == LeadingZeros(s)
             r == ReadBits(z.s, z.zeros)
  <2>1. z \in Counts /\ SameBits(s, z.s)
    BY LeadingZerosKeeps
  <2> HIDE DEF z
  <2>2. z.s \in Streams /\ z.zeros \in 0..(W - 1) /\ z.zeros \in 0..W
    BY <1>1, <2>1 DEF Counts
  <2>3. r \in Reads /\ SameBits(z.s, r.s)
    BY <2>2, ReadBitsKeeps
  <2>4. ReadUe(s) = [s |-> r.s, val |-> (Pow2[z.zeros] - 1 + r.val) % Word]
    BY DEF ReadUe, z
  <2> HIDE DEF r
  <2>5. SameBits(s, r.s)
    BY <2>1, <2>3 DEF SameBits
  <2>6. (Pow2[z.zeros] - 1 + r.val) % Word \in Nat
    <3>1. Pow2[z.zeros] \in Int
      BY <2>2, Powers
    <3>2. r.val \in Int
      BY <1>1, <2>3 DEF Reads
    <3>3. Pow2[z.zeros] - 1 + r.val \in Int
      BY <3>1, <3>2
    <3> QED BY <1>1, <3>3
  <2> QED BY <2>4, <2>5, <2>6
<1>3. CASE e.kind = "bits"
  <2>1. Decoded(s, e) = ReadBits(s, e.n)
    BY <1>3 DEF Decoded
  <2>2. e.n \in 0..W
    BY <1>1, <1>3, Codes
  <2>3. ReadBits(s, e.n) \in Reads /\ SameBits(s, ReadBits(s, e.n).s)
    BY <2>2, ReadBitsKeeps
  <2> QED BY <1>1, <2>1, <2>3 DEF Reads
<1>4. CASE e.kind = "ue"
  <2>1. Decoded(s, e) = ReadUe(s)
    BY <1>4 DEF Decoded
  <2> QED BY <1>2, <2>1
<1>5. CASE e.kind = "se"
  <2>1. Decoded(s, e) = ReadSe(s)
    BY <1>5 DEF Decoded
  <2> DEFINE r == ReadUe(s)
             x == IF r.val % 2 = 1 THEN (r.val + 1) \div 2 ELSE -(r.val \div 2)
  <2>2. ReadSe(s) = [s |-> r.s, val |-> x]
    BY DEF ReadSe
  <2>3. x \in Int
    <3> HIDE DEF r
    <3>1. r.val \in Nat
      BY <1>2 DEF r
    <3> QED BY <3>1
  <2> HIDE DEF x
  <2> QED BY <1>2, <2>1, <2>2, <2>3
<1> QED BY <1>3, <1>4, <1>5 DEF Legal

\* bs_read_ue on the bits of a code of zeros, a one and as many bits again.
LEMMA UeReadBack ==
    ASSUME NEW s \in Streams, NEW c \in 1..(Word - 1), NEW k \in 1..W, Shifts(c)[k - 1] = 1,
           Position(s) + (2 * k - 1) <= EndOf(s),
           \A i \in 1..(k - 1) : s.buf[Position(s) + i - 1] = 0,
           \A i \in 1..k : s.buf[Position(s) + (k - 1) + i - 1] = Shifts(c)[k - i] % 2
    PROVE  ReadUe(s).val = c - 1 /\ Position(ReadUe(s).s) = Position(s) + (2 * k - 1)
<1> DEFINE p == Position(s)
           z == LeadingZeros(s)
           r == ReadBits(z.s, k - 1)
<1>1. /\ W \in Nat /\ Word \in Nat /\ c \in Nat /\ c < Word /\ k \in Nat
      /\ k - 1 \in 0..W /\ k - 1 \in 0..(W - 1) /\ 1 \in 1..k
  BY BitIOAssumption, WordSize
<1>2. p \in Nat /\ EndOf(s) \in Nat
  BY Places
<1>3. z.zeros = k - 1 /\ Position(z.s) = p + k
  <2>1. p + (k - 1) < EndOf(s)
    BY <1>1, <1>2
  <2>2. ASSUME NEW i \in 0..((k - 1) - 1) PROVE s.buf[p + i] = 0
    <3>1. i + 1 \in 1..(k - 1) /\ p + (i + 1) - 1 = p + i
      BY <1>1, <1>2
    <3> QED BY <3>1
  <2>3. s.buf[p + (k - 1)] = 1
    <3>1. p + (k - 1) + 1 - 1 = p + (k - 1)
      BY <1>1, <1>2
    <3>2. s.buf[p + (k - 1)] = Shifts(c)[k - 1] % 2
      BY <1>1, <3>1
    <3> QED BY <3>2
  <2>4. z.zeros = k - 1 /\ Position(z.s) = p + (k - 1) + 1
    BY <1>1, <2>1, <2>2, <2>3, ZerosCounted
  <2> QED BY <1>1, <1>2, <2>4
<1>4. z.s \in Streams /\ z.s.buf = s.buf /\ EndOf(z.s) = EndOf(s)
  BY LeadingZerosKeeps DEF SameBits, EndOf
<1> HIDE DEF z
<1>5. /\ Position(r.s) = Position(z.s) + (k - 1)
      /\ r.val = c - (IF Shifts(c)[k - 1] = 0 THEN 0 ELSE Pow2[k - 1])
  <2>1. Position(z.s) + (k - 1) <= EndOf(z.s)
    BY <1>1, <1>2, <1>3, <1>4
  <2>2. ASSUME NEW i \in 1..(k - 1)
        PROVE  z.s.buf[Position(z.s) + i - 1] = Shifts(c)[(k - 1) - i] % 2
    <3>1. /\ i + 1 \in 1..k /\ k - (i + 1) = (k - 1) - i
          /\ p + (k - 1) + (i + 1) - 1 = (p + k) + i - 1
      BY <1>1, <1>2
    <3>2. s.buf[p + (k - 1) + (i + 1) - 1] = Shifts(c)[k - (i + 1)] % 2
      BY <3>1
    <3> QED BY <1>3, <1>4, <3>1, <3>2
  <2>3. Shifts(c)[k - 1] \in {0, 1}
    OBVIOUS
  <2> QED BY <1>1, <1>4, <2>1, <2>2, <2>3, ReadBack
<1>6. ReadUe(s) = [s |-> r.s, val |-> (Pow2[k - 1] - 1 + r.val) % Word]
  BY <1>3 DEF ReadUe, z
<1> HIDE DEF r
<1>7. (Pow2[k - 1] - 1 + r.val) % Word = c - 1
  <2>1. Pow2[k - 1] \in Int
    BY <1>1, Powers
  <2>2. Pow2[k - 1] - 1 + r.val = c - 1 /\ c - 1 \in Nat /\ c - 1 < Word
    BY <1>1, <1>5, <2>1
  <2> QED BY <2>2, Fits
<1>8. (p + k) + (k - 1) = p + (2 * k - 1)
  BY <1>1, <1>2
<1> QED BY <1>3, <1>5, <1>6, <1>7, <1>8

\* A call reads back the code of its element.
LEMMA ElementRead ==
    ASSUME NEW s \in Streams, NEW e, Legal(e), Position(s) + CodeLength(e) <= EndOf(s),
           \A i \in 1..CodeLength(e) : s.buf[Position(s) + i - 1] = ElementBits(e)[i]
    PROVE  Decoded(s, e).val = e.v /\ Position(Decoded(s, e).s) = Position(s) + CodeLength(e)
<1>1. /\ Code(e) \in Nat /\ Code(e) < Word /\ Width(e) \in 0..W /\ Width(e) \in 1..W /\ Width(e) \in Nat
      /\ Zeros(e) \in Nat /\ W \in Nat /\ Word \in Nat /\ CodeLength(e) = Zeros(e) + Width(e)
  BY Codes, BitIOAssumption, WordSize DEF CodeLength
<1>2. Position(s) \in Nat
  BY Places
<1>3. ASSUME NEW i \in 1..Zeros(e) PROVE s.buf[Position(s) + i - 1] = 0
  <2>1. i \in 1..CodeLength(e)
    BY <1>1
  <2> QED BY <2>1, BitsOfCode
<1>4. ASSUME NEW i \in 1..Width(e)
      PROVE  s.buf[Position(s) + Zeros(e) + i - 1] = Shifts(Code(e))[Width(e) - i] % 2
  <2>1. Zeros(e) + i \in 1..CodeLength(e)
        /\ Position(s) + (Zeros(e) + i) - 1 = Position(s) + Zeros(e) + i - 1
    BY <1>1, <1>2
  <2> QED BY <2>1, BitsOfCode
<1>5. CASE e.kind = "bits"
  <2>1. Decoded(s, e) = ReadBits(s, Width(e)) /\ Code(e) = e.v /\ Zeros(e) = 0
    BY <1>5, Codes DEF Decoded
  <2>2. ASSUME NEW i \in 1..Width(e)
        PROVE  s.buf[Position(s) + i - 1] = Shifts(Code(e))[Width(e) - i] % 2
    <3>1. Position(s) + Zeros(e) + i - 1 = Position(s) + i - 1
      BY <1>1, <1>2, <2>1
    <3> QED BY <1>4, <3>1
  <2>3. Shifts(Code(e))[Width(e)] = 0 /\ Position(s) + Width(e) <= EndOf(s)
    BY <1>1, <2>1, Codes
  <2>4. /\ Position(ReadBits(s, Width(e)).s) = Position(s) + Width(e)
        /\ ReadBits(s, Width(e)).val = Code(e) - 0
    BY <1>1, <2>2, <2>3, ReadBack
  <2> QED BY <1>1, <2>1, <2>4
<1>6. CASE e.kind # "bits"
  <2> DEFINE k == Width(e)
             c == Code(e)
  <2>1. /\ Shifts(c)[k - 1] = 1 /\ Zeros(e) = k - 1 /\ k = BitLength(c)
    BY <1>6, Codes
  <2>2. c \in 1..(Word - 1)
    <3>1. c # 0
      <4>1. k - 1 \in 0..W
        BY <1>1
      <4> QED BY <2>1, <4>1, ZeroShifted
    <3> QED BY <1>1, <3>1
  <2>3. CodeLength(e) = 2 * k - 1
    BY <1>1, <2>1
  <2> HIDE DEF k, c
  <2>4. ReadUe(s).val = c - 1 /\ Position(ReadUe(s).s) = Position(s) + (2 * k - 1)
    <3>1. k \in 1..W /\ \A i \in 1..(k - 1) : s.buf[Position(s) + i - 1] = 0
      BY <1>1, <1>3, <2>1 DEF k
    <3>2. \A i \in 1..k : s.buf[Position(s) + (k - 1) + i - 1] = Shifts(c)[k - i] % 2
      BY <1>4, <2>1 DEF k, c
    <3> QED BY <2>1, <2>2, <2>3, <3>1, <3>2, UeReadBack
  <2>5. CASE e.kind = "ue"
    <3>1. e.v \in Nat /\ c = e.v + 1
      <4>1. e.v \in UeValues
        BY <2>5 DEF Legal
      <4>2. e.v \in 0..(Word - 2)
        BY <4>1, BitIOAssumption
      <4>3. e.v \in Nat
        BY <1>1, <4>2
      <4> QED BY <2>5, <4>3 DEF Code, c
    <3>2. Decoded(s, e) = ReadUe(s)
      BY <2>5 DEF Decoded
    <3> QED BY <2>3, <2>4, <3>1, <3>2
  <2>6. CASE e.kind = "se"
    <3>1. e.v \in SeValues /\ c = SeMapped(e.v) + 1
      BY <2>6 DEF Legal, Code, c
    <3>2. e.v \in Int
      BY <3>1, BitIOAssumption
    <3>3. IF e.v > 0 THEN SeMapped(e.v) = 2 * e.v - 1 ELSE SeMapped(e.v) = -2 * e.v
      BY <3>1, Mapped
    <3> DEFINE r == ReadUe(s)
               x == IF r.val % 2 = 1 THEN (r.val + 1) \div 2 ELSE -(r.val \div 2)
    <3>4. Decoded(s, e) = [s |-> r.s, val |-> x]
      BY <2>6 DEF Decoded, ReadSe
    <3>5. r.val = IF e.v > 0 THEN 2 * e.v - 1 ELSE -2 * e.v
      BY <2>4, <3>1, <3>2, <3>3
    <3>6. x = e.v
      <4> HIDE DEF r
      <4>1. CASE e.v > 0
        BY <3>2, <3>5, <4>1
      <4>2. CASE ~ (e.v > 0)
        BY <3>2, <3>5, <4>2
      <4> QED BY <4>1, <4>2
    <3> HIDE DEF x
    <3> QED BY <2>3, <2>4, <3>4, <3>6
  <2> QED BY <1>6, <2>5, <2>6 DEF Legal
<1> QED BY <1>5, <1>6

-----------------------------------------------------------------------------
\* The invariant.

Elements == {e \in [kind : {"bits", "ue", "se"}, n : 0..W, v : Int, end : 0..Room, truncated : BOOLEAN] :
                Legal(e)}

\* The position after the first k elements.
Ends(q, k) == IF k = 0 THEN 0 ELSE q[k].end
LastEnd(q) == Ends(q, Len(q))

\* Each element starts where the one before ends, and ends a code later or at the
\* end of the buffer; only the latter truncates it, and all that follow.
Chained(q) ==
    \A i \in 1..Len(q) :
        /\ q[i].end = Lesser(Ends(q, i - 1) + CodeLength(q[i]), Room)
        /\ q[i].truncated <=> q[i].end # Ends(q, i - 1) + CodeLength(q[i])
        /\ q[i].end <= LastEnd(q)
        /\ q[i].truncated => LastEnd(q) = Room
        /\ \A j \in 1..(i - 1) : q[j].truncated => q[i].truncated

\* The buffer holds their codes, as far as there is room.
Holds(q, buf) ==
    \A i \in 1..Len(q) : \A k \in 1..CodeLength(q[i]) :
        Ends(q, i - 1) + k - 1 < Room => buf[Ends(q, i - 1) + k - 1] = ElementBits(q[i])[k]

\* The types, the elements, and what the buffer holds of them.
BitShape ==
    /\ side \in {"write", "read"} /\ bs \in Streams
    /\ script \in Seq(Elements) /\ got \in Seq([v : Int, end : Nat])
    /\ Chained(script) /\ Holds(script, bs.buf)

\* The writer stands after the last element, with nothing behind.
Writing == side = "write" =>
    /\ got = <<>>
    /\ bs.capacity = Capacity /\ Position(bs) = LastEnd(script) /\ Blank(bs)

\* The reader has the bytes of the elements, and stands after those it has read
\* until it meets one that was truncated.
Reading == side = "read" =>
    /\ bs.capacity = out_bytes
    /\ LastEnd(script) <= out_bytes * ByteBits /\ out_bytes * ByteBits < LastEnd(script) + ByteBits
    /\ Len(got) <= Len(script)
    /\ \A i \in 1..Len(got) :
          ~ script[i].truncated => got[i].v = script[i].v /\ got[i].end = script[i].end
    /\ (\A i \in 1..Len(got) : ~ script[i].truncated) => Position(bs) = Ends(script, Len(got))

BitInv == BitShape /\ Writing /\ Reading

\* The elements of a sequence, and the positions they end at.
LEMMA ElementsOf ==
    ASSUME NEW q \in Seq(Elements)
    PROVE  /\ Len(q) \in Nat
           /\ \A i \in 1..Len(q) : /\ q[i] \in Elements /\ Legal(q[i]) /\ q[i].end \in 0..Room
                                   /\ q[i].truncated \in BOOLEAN
           /\ \A i \in 0..Len(q) : Ends(q, i) \in 0..Room
           /\ LastEnd(q) \in 0..Room
<1>1. Room \in Nat
  BY BitIOAssumption DEF Room
<1>2. Len(q) \in Nat /\ \A i \in 1..Len(q) : q[i] \in Elements
  OBVIOUS
<1>3. ASSUME NEW i \in 1..Len(q)
      PROVE  q[i] \in Elements /\ Legal(q[i]) /\ q[i].end \in 0..Room /\ q[i].truncated \in BOOLEAN
  BY <1>2 DEF Elements
<1>4. ASSUME NEW i \in 0..Len(q) PROVE Ends(q, i) \in 0..Room
  <2>1. CASE i = 0
    BY <1>1, <2>1 DEF Ends
  <2>2. CASE i # 0
    <3>1. i \in 1..Len(q)
      BY <1>2, <2>2
    <3> QED BY <1>3, <2>2, <3>1 DEF Ends
  <2> QED BY <2>1, <2>2
<1>5. Len(q) \in 0..Len(q)
  BY <1>2
<1> QED BY <1>2, <1>3, <1>4, <1>5 DEF LastEnd

\* An element is appended where the last one ends, its code in the buffer.
LEMMA ElementAppended ==
    ASSUME NEW q \in Seq(Elements), NEW buf, Chained(q), Holds(q, buf), NEW e \in Elements, NEW buf2,
           e.end = Lesser(LastEnd(q) + CodeLength(e), Room),
           e.truncated <=> e.end # LastEnd(q) + CodeLength(e),
           \A i \in 0..(LastEnd(q) - 1) : buf2[i] = buf[i],
           \A k \in 1..CodeLength(e) : LastEnd(q) + k - 1 < Room => buf2[LastEnd(q) + k - 1] = ElementBits(e)[k]
    PROVE  /\ Append(q, e) \in Seq(Elements) /\ LastEnd(Append(q, e)) = e.end
           /\ Chained(Append(q, e)) /\ Holds(Append(q, e), buf2)
<1> DEFINE t == Append(q, e)
           n == Len(q) + 1
<1>1. /\ Len(q) \in Nat /\ LastEnd(q) \in 0..Room /\ Room \in Nat
      /\ \A i \in 0..Len(q) : Ends(q, i) \in 0..Room
      /\ \A i \in 1..Len(q) : Legal(q[i]) /\ q[i].end \in 0..Room /\ q[i].truncated \in BOOLEAN
  BY ElementsOf, BitIOAssumption DEF Room
<1>2. t \in Seq(Elements) /\ Len(t) = n /\ t[n] = e /\ \A i \in 1..Len(q) : t[i] = q[i]
  OBVIOUS
<1>3. Legal(e) /\ CodeLength(e) \in Nat /\ CodeLength(e) >= 1 /\ e.truncated \in BOOLEAN
  BY Codes DEF Elements
<1> HIDE DEF t
<1>4. \A i \in 0..Len(q) : Ends(t, i) = Ends(q, i)
  <2>1. \A i \in 0..Len(q) : i # 0 => i \in 1..Len(q)
    BY <1>1
  <2> QED BY <1>2, <2>1 DEF Ends
<1>5. Ends(t, n - 1) = LastEnd(q) /\ Ends(t, n) = e.end /\ LastEnd(t) = e.end
  <2>1. n - 1 = Len(q) /\ Len(q) \in 0..Len(q) /\ n # 0
    BY <1>1
  <2>2. Ends(t, n) = t[n].end
    BY <2>1 DEF Ends
  <2> HIDE DEF n
  <2> QED BY <1>2, <1>4, <2>1, <2>2 DEF LastEnd
<1>6. e.end \in LastEnd(q)..Room
  BY <1>1, <1>3 DEF Lesser
<1>7. ASSUME NEW i \in 1..n
      PROVE  /\ t[i].end = Lesser(Ends(t, i - 1) + CodeLength(t[i]), Room)
             /\ t[i].truncated <=> t[i].end # Ends(t, i - 1) + CodeLength(t[i])
             /\ t[i].end <= LastEnd(t)
             /\ t[i].truncated => LastEnd(t) = Room
             /\ \A j \in 1..(i - 1) : t[j].truncated => t[i].truncated
  <2>1. CASE i = n
    <3>1. t[i] = e /\ Ends(t, i - 1) = LastEnd(q)
      BY <1>2, <1>5, <2>1
    <3>2. e.truncated => e.end = Room
      BY <1>1, <1>3 DEF Lesser
    <3>3. ASSUME NEW j \in 1..(i - 1), t[j].truncated PROVE e.truncated
      <4>1. j \in 1..Len(q)
        BY <1>1, <2>1
      <4>2. LastEnd(q) = Room
        BY <1>2, <3>3, <4>1 DEF Chained
      <4> QED BY <1>1, <1>3, <1>6, <4>2
    <3>4. e.end <= LastEnd(t)
      BY <1>1, <1>5, <1>6
    <3> QED BY <1>5, <3>1, <3>2, <3>3, <3>4
  <2>2. CASE i # n
    <3>1. i \in 1..Len(q) /\ i - 1 \in 0..Len(q)
      BY <1>1, <2>2
    <3>2. t[i] = q[i] /\ Ends(t, i - 1) = Ends(q, i - 1)
      BY <1>2, <1>4, <3>1
    <3>3. /\ q[i].end = Lesser(Ends(q, i - 1) + CodeLength(q[i]), Room)
          /\ q[i].truncated <=> q[i].end # Ends(q, i - 1) + CodeLength(q[i])
          /\ q[i].end <= LastEnd(q)
          /\ q[i].truncated => LastEnd(q) = Room
          /\ \A j \in 1..(i - 1) : q[j].truncated => q[i].truncated
      BY <3>1 DEF Chained
    <3>4. q[i].end <= LastEnd(t) /\ (q[i].truncated => LastEnd(t) = Room)
      BY <1>1, <1>5, <1>6, <3>1, <3>3
    <3>5. ASSUME NEW j \in 1..(i - 1) PROVE t[j] = q[j]
      <4>1. j \in 1..Len(q)
        BY <1>1, <3>1
      <4> QED BY <1>2, <4>1
    <3>6. \A j \in 1..(i - 1) : t[j].truncated => t[i].truncated
      BY <3>2, <3>3, <3>5
    <3> QED BY <3>2, <3>3, <3>4, <3>6
  <2> QED BY <2>1, <2>2
<1>8. ASSUME NEW i \in 1..n, NEW k \in 1..CodeLength(t[i]), Ends(t, i - 1) + k - 1 < Room
      PROVE  buf2[Ends(t, i - 1) + k - 1] = ElementBits(t[i])[k]
  <2>1. CASE i = n
    <3>1. t[i] = e /\ Ends(t, i - 1) = LastEnd(q)
      BY <1>2, <1>5, <2>1
    <3> QED BY <1>8, <3>1
  <2>2. CASE i # n
    <3>1. i \in 1..Len(q) /\ i - 1 \in 0..Len(q)
      BY <1>1, <2>2
    <3>2. t[i] = q[i] /\ Ends(t, i - 1) = Ends(q, i - 1) /\ Ends(q, i - 1) \in 0..Room
      BY <1>1, <1>2, <1>4, <3>1
    <3>3. k \in 1..CodeLength(q[i]) /\ CodeLength(q[i]) \in Nat
      BY <1>1, <3>1, <3>2, Codes
    <3>4. /\ q[i].end = Lesser(Ends(q, i - 1) + CodeLength(q[i]), Room)
          /\ q[i].end <= LastEnd(q)
      BY <3>1 DEF Chained
    <3>5. Ends(q, i - 1) + k - 1 \in 0..(LastEnd(q) - 1)
      <4>1. q[i].end \in 0..Room
        BY <1>1, <3>1
      <4> QED BY <1>1, <1>8, <3>2, <3>3, <3>4, <4>1 DEF Lesser
    <3>6. buf[Ends(q, i - 1) + k - 1] = ElementBits(q[i])[k]
      BY <1>8, <3>1, <3>2, <3>3 DEF Holds
    <3> QED BY <3>2, <3>5, <3>6
  <2> QED BY <2>1, <2>2
<1> HIDE DEF n
<1>9. Chained(t)
  BY <1>2, <1>7 DEF Chained
<1>10. Holds(t, buf2)
  BY <1>2, <1>8 DEF Holds
<1> QED BY <1>2, <1>5, <1>9, <1>10 DEF t

\* An empty buffer at the start.
LEMMA BitInitInv == BitInit => BitInv
<1> SUFFICES ASSUME BitInit PROVE BitInv
  OBVIOUS
<1>1. /\ Capacity \in Nat /\ ByteBits \in Nat /\ ByteBits >= 1
  BY BitIOAssumption
<1>2. /\ side = "write" /\ script = <<>> /\ got = <<>>
      /\ bs = NewWriter(Capacity)
  BY DEF BitInit
<1>3. /\ bs = [buf |-> [i \in 0..(Room - 1) |-> 0], capacity |-> Capacity,
               byte_pos |-> 0, bit_pos |-> ByteBits - 1]
  BY <1>2 DEF NewWriter, Room
<1>4. bs.buf = [i \in 0..(Room - 1) |-> 0] /\ bs.capacity = Capacity /\ bs.byte_pos = 0
      /\ bs.bit_pos = ByteBits - 1
  BY <1>3
<1>5. bs \in Streams
  <2>1. bs \in [buf : [0..(Room - 1) -> {0, 1}], capacity : 0..Capacity, byte_pos : 0..Capacity,
                bit_pos : 0..(ByteBits - 1)]
    BY <1>1, <1>3
  <2> QED BY <1>1, <1>4, <2>1 DEF Streams
<1>6. Position(bs) = 0
  BY <1>1, <1>4 DEF Position
<1>7. Blank(bs)
  <2>1. \A i \in 0..(Room - 1) : bs.buf[i] = 0
    BY <1>4
  <2> QED BY <1>6, <2>1 DEF Blank
<1>8. /\ Len(script) = 0 /\ LastEnd(script) = 0 /\ script \in Seq(Elements)
      /\ got \in Seq([v : Int, end : Nat])
  BY <1>2 DEF LastEnd, Ends
<1>9. Chained(script) /\ Holds(script, bs.buf)
  <2>1. 1..Len(script) = {}
    BY <1>8
  <2> QED BY <2>1 DEF Chained, Holds
<1>10. BitShape
  BY <1>2, <1>5, <1>8, <1>9 DEF BitShape
<1>11. Writing
  BY <1>2, <1>4, <1>6, <1>7, <1>8 DEF Writing
<1>12. Reading
  BY <1>2 DEF Reading
<1> QED BY <1>10, <1>11, <1>12 DEF BitInv

\* Any of the three calls that write.
WriteElement(e) ==
    /\ side = "write"
    /\ bs' = After(bs, e)
    /\ script' = Append(script, e)
    /\ e.end = Position(bs')
    /\ e.truncated <=> Position(bs) + CodeLength(e) # Position(bs')
    /\ UNCHANGED <<side, out_bytes, got>>

\* The three calls are that, for an element that is legal.
LEMMA WritesAre ==
    ASSUME BitInv, PutBits \/ PutUe \/ PutSe
    PROVE  \E e \in Elements : WriteElement(e)
<1>1. side = "write" /\ bs \in Streams /\ Blank(bs)
  BY DEF BitInv, BitShape, Writing, PutBits, PutUe, PutSe, MayWrite
<1>2. W \in Nat /\ 0 \in 0..W
  BY BitIOAssumption
<1>3. ASSUME NEW e, Legal(e) PROVE Position(After(bs, e)) \in 0..Room
  <2>1. After(bs, e) \in Streams
    BY <1>1, <1>3, ElementWritten DEF Wrote
  <2> QED BY <2>1, Places
<1> DEFINE E(kind, n, v, after, length) ==
              [kind |-> kind, n |-> n, v |-> v, end |-> Position(after),
               truncated |-> Position(bs) + length # Position(after)]
<1>4. CASE PutBits
  <2>1. PICK n \in Widths : \E v \in 0..(Pow2[n] - 1) : Written("bits", n, v, WriteBits(bs, v, n), n)
    BY <1>4 DEF PutBits
  <2>2. PICK v \in 0..(Pow2[n] - 1) : Written("bits", n, v, WriteBits(bs, v, n), n)
    BY <2>1
  <2> DEFINE e == E("bits", n, v, WriteBits(bs, v, n), n)
  <2>3. e.kind = "bits" /\ e.n = n /\ e.v = v /\ e.end = Position(WriteBits(bs, v, n))
        /\ e.truncated = (Position(bs) + n # Position(WriteBits(bs, v, n)))
    OBVIOUS
  <2>4. Legal(e) /\ CodeLength(e) = n
    <3> HIDE DEF e
    <3>1. Legal(e)
      BY <2>3 DEF Legal
    <3> QED BY <2>3, <3>1, Lengths
  <2>5. After(bs, e) = WriteBits(bs, v, n)
    BY <2>3 DEF After
  <2>6. e \in Elements
    <3>1. n \in 0..W /\ v \in Int
      BY <1>2, BitIOAssumption
    <3>2. Position(WriteBits(bs, v, n)) \in 0..Room
      BY <1>3, <2>4, <2>5
    <3>3. e \in [kind : {"bits", "ue", "se"}, n : 0..W, v : Int, end : 0..Room, truncated : BOOLEAN]
      BY <3>1, <3>2
    <3> QED BY <2>4, <3>3 DEF Elements
  <2>7. /\ bs' = WriteBits(bs, v, n) /\ script' = Append(script, e) /\ UNCHANGED <<side, out_bytes, got>>
    BY <2>2 DEF Written
  <2> HIDE DEF e
  <2>8. WriteElement(e)
    BY <1>1, <2>3, <2>4, <2>5, <2>7 DEF WriteElement
  <2> QED BY <2>6, <2>8
<1>5. CASE PutUe
  <2>1. PICK v \in UeValues : Written("ue", 0, v, WriteUe(bs, v), UeLength(v))
    BY <1>5 DEF PutUe
  <2> DEFINE e == E("ue", 0, v, WriteUe(bs, v), UeLength(v))
  <2>2. e.kind = "ue" /\ e.n = 0 /\ e.v = v /\ e.end = Position(WriteUe(bs, v))
        /\ e.truncated = (Position(bs) + UeLength(v) # Position(WriteUe(bs, v)))
    OBVIOUS
  <2>3. Legal(e) /\ CodeLength(e) = UeLength(v)
    <3> HIDE DEF e
    <3>1. Legal(e)
      BY <2>2 DEF Legal
    <3> QED BY <2>2, <3>1, Lengths
  <2>4. After(bs, e) = WriteUe(bs, v)
    BY <2>2 DEF After
  <2>5. e \in Elements
    <3>1. v \in 0..(Word - 2)
      BY BitIOAssumption
    <3>2. Position(WriteUe(bs, v)) \in 0..Room
      BY <1>3, <2>3, <2>4
    <3>3. v \in Int
      BY <3>1
    <3>4. e \in [kind : {"bits", "ue", "se"}, n : 0..W, v : Int, end : 0..Room, truncated : BOOLEAN]
      BY <1>2, <3>2, <3>3
    <3> QED BY <2>3, <3>4 DEF Elements
  <2>6. /\ bs' = WriteUe(bs, v) /\ script' = Append(script, e) /\ UNCHANGED <<side, out_bytes, got>>
    BY <2>1 DEF Written
  <2> HIDE DEF e
  <2>7. WriteElement(e)
    BY <1>1, <2>2, <2>3, <2>4, <2>6 DEF WriteElement
  <2> QED BY <2>5, <2>7
<1>6. CASE PutSe
  <2>1. PICK v \in SeValues : Written("se", 0, v, WriteSe(bs, v), UeLength(SeMapped(v)))
    BY <1>6 DEF PutSe
  <2> DEFINE e == E("se", 0, v, WriteSe(bs, v), UeLength(SeMapped(v)))
  <2>2. e.kind = "se" /\ e.n = 0 /\ e.v = v /\ e.end = Position(WriteSe(bs, v))
        /\ e.truncated = (Position(bs) + UeLength(SeMapped(v)) # Position(WriteSe(bs, v)))
    OBVIOUS
  <2>3. Legal(e) /\ CodeLength(e) = UeLength(SeMapped(v))
    <3> HIDE DEF e
    <3>1. Legal(e)
      BY <2>2 DEF Legal
    <3> QED BY <2>2, <3>1, Lengths
  <2>4. After(bs, e) = WriteSe(bs, v)
    BY <2>2 DEF After
  <2>5. e \in Elements
    <3>1. v \in Int
      BY BitIOAssumption
    <3>2. Position(WriteSe(bs, v)) \in 0..Room
      BY <1>3, <2>3, <2>4
    <3>3. e \in [kind : {"bits", "ue", "se"}, n : 0..W, v : Int, end : 0..Room, truncated : BOOLEAN]
      BY <1>2, <3>1, <3>2
    <3> QED BY <2>3, <3>3 DEF Elements
  <2>6. /\ bs' = WriteSe(bs, v) /\ script' = Append(script, e) /\ UNCHANGED <<side, out_bytes, got>>
    BY <2>1 DEF Written
  <2> HIDE DEF e
  <2>7. WriteElement(e)
    BY <1>1, <2>2, <2>3, <2>4, <2>6 DEF WriteElement
  <2> QED BY <2>5, <2>7
<1> QED BY <1>4, <1>5, <1>6

\* A call that writes keeps what was written, and adds its element.
LEMMA WriteInv ==
    ASSUME BitInv, NEW e \in Elements, WriteElement(e)
    PROVE  BitInv' /\ \A i \in 0..(Position(bs) - 1) : bs'.buf[i] = bs.buf[i]
<1> DEFINE p == Position(bs)
           f == ElementBits(e)
<1>1. /\ side = "write" /\ bs \in Streams /\ script \in Seq(Elements) /\ got = <<>>
      /\ Chained(script) /\ Holds(script, bs.buf)
      /\ bs.capacity = Capacity /\ p = LastEnd(script) /\ Blank(bs)
  BY DEF BitInv, BitShape, Writing, WriteElement
<1>2. /\ bs' = After(bs, e) /\ script' = Append(script, e) /\ e.end = Position(bs')
      /\ e.truncated <=> p + CodeLength(e) # Position(bs')
      /\ side' = side /\ got' = got
  BY DEF WriteElement
<1>3. Legal(e) /\ CodeLength(e) \in Nat /\ CodeLength(e) >= 1
  BY Codes DEF Elements
<1>4. Wrote(bs, bs', f, CodeLength(e)) /\ Blank(bs')
  BY <1>1, <1>2, <1>3, ElementWritten, StaysBlank
<1> HIDE DEF f
<1>5. EndOf(bs) = Room /\ p \in 0..Room /\ Room \in Nat
  BY <1>1, Places DEF EndOf, Room
<1>6. /\ bs' \in Streams /\ bs'.capacity = bs.capacity
      /\ Position(bs') = Lesser(p + CodeLength(e), Room)
      /\ \A i \in 0..(Room - 1) :
            bs'.buf[i] = IF i \in p..(Position(bs') - 1) THEN f[i - p + 1] ELSE bs.buf[i]
  BY <1>4, <1>5 DEF Wrote
<1> HIDE DEF p
<1>7. \A i \in 0..(p - 1) : bs'.buf[i] = bs.buf[i]
  <2>1. \A i \in 0..(p - 1) : i \in 0..(Room - 1) /\ i \notin p..(Position(bs') - 1)
    BY <1>5
  <2> QED BY <1>6, <2>1
<1>8. ASSUME NEW k \in 1..CodeLength(e), p + k - 1 < Room
      PROVE  bs'.buf[p + k - 1] = f[k]
  <2>1. p + k - 1 \in 0..(Room - 1) /\ p + k - 1 \in p..(Position(bs') - 1) /\ (p + k - 1) - p + 1 = k
    BY <1>3, <1>5, <1>6, <1>8 DEF Lesser
  <2> QED BY <1>6, <2>1
<1>9. /\ Append(script, e) \in Seq(Elements) /\ LastEnd(Append(script, e)) = e.end
      /\ Chained(Append(script, e)) /\ Holds(Append(script, e), bs'.buf)
  <2>1. e.end = Lesser(LastEnd(script) + CodeLength(e), Room)
    BY <1>1, <1>2, <1>6
  <2>2. e.truncated <=> e.end # LastEnd(script) + CodeLength(e)
    BY <1>1, <1>2
  <2>3. \A i \in 0..(LastEnd(script) - 1) : bs'.buf[i] = bs.buf[i]
    BY <1>1, <1>7
  <2>4. \A k \in 1..CodeLength(e) : LastEnd(script) + k - 1 < Room =>
           bs'.buf[LastEnd(script) + k - 1] = ElementBits(e)[k]
    BY <1>1, <1>8 DEF f
  <2> QED BY <1>1, <2>1, <2>2, <2>3, <2>4, ElementAppended
<1>10. BitShape'
  <2>1. got' \in Seq([v : Int, end : Nat])
    BY <1>1, <1>2
  <2>2. side' \in {"write", "read"} /\ bs' \in Streams /\ script' \in Seq(Elements)
        /\ Chained(script') /\ Holds(script', bs'.buf)
    BY <1>1, <1>2, <1>6, <1>9
  <2> QED BY <2>1, <2>2 DEF BitShape
<1>11. Writing'
  <2>1. got' = <<>> /\ bs'.capacity = Capacity /\ Position(bs') = LastEnd(script') /\ Blank(bs')
    BY <1>1, <1>2, <1>4, <1>6, <1>9
  <2> QED BY <2>1 DEF Writing
<1>12. Reading'
  BY <1>1, <1>2 DEF Reading
<1> QED BY <1>7, <1>10, <1>11, <1>12 DEF BitInv, p

\* The bytes counted at the end of a frame are those begun.
LEMMA BytesCounted ==
    ASSUME NEW s \in Streams
    PROVE  /\ PosBytes(Align(s)) \in 0..Capacity
           /\ Position(s) <= PosBytes(Align(s)) * ByteBits
           /\ PosBytes(Align(s)) * ByteBits < Position(s) + ByteBits
<1>1. /\ Capacity \in Nat /\ ByteBits \in Nat /\ ByteBits >= 1
      /\ s.capacity \in 0..Capacity /\ s.byte_pos \in 0..s.capacity /\ s.bit_pos \in 0..(ByteBits - 1)
      /\ s.byte_pos = s.capacity => s.bit_pos = ByteBits - 1
      /\ s.byte_pos \in Nat /\ s.byte_pos * ByteBits \in Nat
      /\ s \in [buf : [0..(Room - 1) -> {0, 1}], capacity : 0..Capacity, byte_pos : 0..Capacity,
                bit_pos : 0..(ByteBits - 1)]
  BY BitIOAssumption DEF Streams
<1>2. CASE s.bit_pos = ByteBits - 1
  <2>1. PosBytes(Align(s)) = s.byte_pos
    BY <1>1, <1>2 DEF PosBytes, Align
  <2>2. Position(s) = s.byte_pos * ByteBits
    BY <1>1, <1>2 DEF Position
  <2> QED BY <1>1, <2>1, <2>2
<1>3. CASE s.bit_pos # ByteBits - 1
  <2> DEFINE t == [s EXCEPT !.byte_pos = @ + 1, !.bit_pos = ByteBits - 1]
  <2>1. Align(s) = t /\ t.byte_pos = s.byte_pos + 1 /\ t.bit_pos = ByteBits - 1
    BY <1>1, <1>3 DEF Align
  <2> HIDE DEF t
  <2>2. PosBytes(Align(s)) = s.byte_pos + 1
    BY <1>1, <2>1 DEF PosBytes
  <2>3. (s.byte_pos + 1) * ByteBits = s.byte_pos * ByteBits + ByteBits
    BY <1>1, OneMore
  <2>4. Position(s) = s.byte_pos * ByteBits + (ByteBits - 1 - s.bit_pos)
    BY DEF Position
  <2>5. s.byte_pos + 1 \in 0..Capacity
    BY <1>1, <1>3
  <2>6. /\ Position(s) <= s.byte_pos * ByteBits + ByteBits
        /\ s.byte_pos * ByteBits + ByteBits < Position(s) + ByteBits
    BY <1>1, <1>3, <2>4
  <2> QED BY <2>2, <2>3, <2>5, <2>6
<1> QED BY <1>2, <1>3

\* The frame is handed to the decoder.
LEMMA SealInv == ASSUME BitInv, Seal PROVE BitInv'
<1> DEFINE m == PosBytes(Align(bs))
<1>1. /\ side = "write" /\ bs \in Streams /\ script \in Seq(Elements) /\ got = <<>>
      /\ Chained(script) /\ Holds(script, bs.buf) /\ Position(bs) = LastEnd(script)
  BY DEF BitInv, BitShape, Writing, Seal
<1>2. /\ side' = "read" /\ out_bytes' = m /\ script' = script /\ got' = got
      /\ bs' = [bs EXCEPT !.capacity = m, !.byte_pos = 0, !.bit_pos = ByteBits - 1]
  BY DEF Seal, NewReader
<1>3. /\ m \in 0..Capacity /\ LastEnd(script) <= m * ByteBits /\ m * ByteBits < LastEnd(script) + ByteBits
  BY <1>1, BytesCounted
<1> HIDE DEF m
<1>4. /\ Capacity \in Nat /\ ByteBits \in Nat /\ ByteBits >= 1
      /\ bs \in [buf : [0..(Room - 1) -> {0, 1}], capacity : 0..Capacity, byte_pos : 0..Capacity,
                bit_pos : 0..(ByteBits - 1)]
  BY <1>1, BitIOAssumption DEF Streams
<1>5. /\ bs'.buf = bs.buf /\ bs'.capacity = m /\ bs'.byte_pos = 0 /\ bs'.bit_pos = ByteBits - 1
      /\ bs' \in [buf : [0..(Room - 1) -> {0, 1}], capacity : 0..Capacity, byte_pos : 0..Capacity,
                  bit_pos : 0..(ByteBits - 1)]
  <2>1. 0 \in 0..Capacity /\ ByteBits - 1 \in 0..(ByteBits - 1) /\ m \in 0..Capacity
    BY <1>3, <1>4
  <2>2. /\ bs'.buf = bs.buf /\ bs'.capacity = m /\ bs'.byte_pos = 0 /\ bs'.bit_pos = ByteBits - 1
        /\ bs' = [buf |-> bs.buf, capacity |-> m, byte_pos |-> 0, bit_pos |-> ByteBits - 1]
    BY <1>2, <1>4
  <2>3. bs.buf \in [0..(Room - 1) -> {0, 1}]
    BY <1>4
  <2> QED BY <2>1, <2>2, <2>3
<1>6. bs' \in Streams
  BY <1>3, <1>5 DEF Streams
<1>7. Position(bs') = 0
  BY <1>4, <1>5 DEF Position
<1>8. BitShape'
  BY <1>1, <1>2, <1>5, <1>6 DEF BitShape, BitInv
<1>9. Writing'
  BY <1>2 DEF Writing
<1>10. Reading'
  <2>1. Len(got') = 0 /\ Len(script') \in Nat
    BY <1>1, <1>2
  <2>2. 1..Len(got') = {} /\ Len(got') <= Len(script') /\ Ends(script', Len(got')) = 0
    BY <2>1 DEF Ends
  <2> QED BY <1>2, <1>3, <1>5, <1>7, <2>2 DEF Reading
<1> QED BY <1>8, <1>9, <1>10 DEF BitInv

\* The decoder reads the next element.
LEMMA GetInv == ASSUME BitInv, Get PROVE BitInv'
<1> DEFINE n == Len(got) + 1
           e == script[n]
           r == Decoded(bs, e)
           x == [v |-> r.val, end |-> Position(r.s)]
<1>1. /\ side = "read" /\ bs \in Streams /\ script \in Seq(Elements) /\ got \in Seq([v : Int, end : Nat])
      /\ Chained(script) /\ Holds(script, bs.buf)
      /\ bs.capacity = out_bytes /\ LastEnd(script) <= out_bytes * ByteBits
      /\ out_bytes * ByteBits < LastEnd(script) + ByteBits
      /\ \A i \in 1..Len(got) :
            ~ script[i].truncated => got[i].v = script[i].v /\ got[i].end = script[i].end
      /\ (\A i \in 1..Len(got) : ~ script[i].truncated) => Position(bs) = Ends(script, Len(got))
      /\ Len(got) < Len(script)
  BY DEF BitInv, BitShape, Reading, Get
<1>2. /\ bs' = r.s /\ got' = Append(got, x)
      /\ side' = side /\ script' = script /\ out_bytes' = out_bytes
  BY DEF Get, Decoded
<1>3. n \in 1..Len(script) /\ n - 1 = Len(got) /\ Len(got) \in Nat /\ Len(script) \in Nat
      /\ Len(got) \in 0..Len(script) /\ n # 0
  BY <1>1
<1>4. /\ Legal(e) /\ e.end \in 0..Room /\ Ends(script, n - 1) \in 0..Room
      /\ LastEnd(script) \in 0..Room /\ CodeLength(e) \in Nat /\ Room \in Nat
  <2>1. /\ Legal(e) /\ e.end \in 0..Room /\ LastEnd(script) \in 0..Room
        /\ \A i \in 0..Len(script) : Ends(script, i) \in 0..Room
    BY <1>1, <1>3, ElementsOf
  <2>2. CodeLength(e) \in Nat /\ Room \in Nat
    BY <2>1, Codes, BitIOAssumption DEF Room
  <2> HIDE DEF e, n
  <2> QED BY <1>3, <2>1, <2>2
<1>5. SameBits(bs, r.s) /\ r.val \in Int
  BY <1>1, <1>4, ElementReadKeeps
<1>6. bs' \in Streams /\ bs'.buf = bs.buf /\ bs'.capacity = bs.capacity /\ Position(bs') \in Nat
  <2>1. bs' \in Streams /\ bs'.buf = bs.buf /\ bs'.capacity = bs.capacity
    BY <1>2, <1>5 DEF SameBits
  <2> QED BY <2>1, Places
<1>7. ASSUME ~ e.truncated
      PROVE  r.val = e.v /\ Position(r.s) = e.end
  <2>1. \A i \in 1..Len(got) : ~ script[i].truncated
    <3> SUFFICES ASSUME NEW i \in 1..Len(got), script[i].truncated PROVE FALSE
      OBVIOUS
    <3>1. i \in 1..(n - 1)
      BY <1>3
    <3> QED BY <1>1, <1>3, <1>7, <3>1 DEF Chained
  <2>2. Position(bs) = Ends(script, n - 1)
    BY <1>1, <1>3, <2>1
  <2>3. e.end = Ends(script, n - 1) + CodeLength(e) /\ e.end <= LastEnd(script)
    BY <1>1, <1>3, <1>7 DEF Chained
  <2>4. Position(bs) + CodeLength(e) <= EndOf(bs)
    <3>1. EndOf(bs) \in Nat /\ EndOf(bs) = out_bytes * ByteBits
      BY <1>1, Places DEF EndOf
    <3> HIDE DEF e, n
    <3> QED BY <1>1, <1>4, <2>2, <2>3, <3>1
  <2>5. ASSUME NEW k \in 1..CodeLength(e)
        PROVE  bs.buf[Position(bs) + k - 1] = ElementBits(e)[k]
    <3>1. Ends(script, n - 1) + k - 1 < Room
      <4> HIDE DEF e, n
      <4> QED BY <1>4, <2>3
    <3> QED BY <1>1, <1>3, <2>2, <3>1 DEF Holds
  <2>6. r.val = e.v /\ Position(r.s) = Position(bs) + CodeLength(e)
    BY <1>1, <1>4, <2>4, <2>5, ElementRead
  <2> QED BY <2>2, <2>3, <2>6
<1> HIDE DEF r
<1>8. x \in [v : Int, end : Nat] /\ x.v = r.val /\ x.end = Position(r.s)
  BY <1>2, <1>5, <1>6
<1> HIDE DEF x
<1>9. /\ got' \in Seq([v : Int, end : Nat]) /\ Len(got') = n /\ got'[n] = x
      /\ \A i \in 1..Len(got) : got'[i] = got[i]
  BY <1>1, <1>2, <1>8
<1>10. BitShape'
  BY <1>1, <1>2, <1>6, <1>9 DEF BitShape
<1>11. Writing'
  BY <1>1, <1>2 DEF Writing
<1>12. Reading'
  <2>1. ASSUME NEW i \in 1..n, ~ script[i].truncated
        PROVE  got'[i].v = script[i].v /\ got'[i].end = script[i].end
    <3>1. CASE i = n
      BY <1>7, <1>8, <1>9, <2>1, <3>1
    <3>2. CASE i # n
      <4>1. i \in 1..Len(got)
        BY <1>3, <3>2
      <4> QED BY <1>1, <1>9, <2>1, <4>1
    <3> QED BY <3>1, <3>2
  <2>2. ASSUME \A i \in 1..n : ~ script[i].truncated
        PROVE  Position(bs') = Ends(script, n)
    <3>1. n \in 1..n
      BY <1>3
    <3>2. Position(r.s) = e.end
      BY <1>7, <2>2, <3>1
    <3> QED BY <1>2, <1>3, <3>2 DEF Ends
  <2>3. n <= Len(script)
    BY <1>3
  <2> HIDE DEF n
  <2> QED BY <1>1, <1>2, <1>6, <1>9, <2>1, <2>2, <2>3 DEF Reading
<1> QED BY <1>10, <1>11, <1>12 DEF BitInv

\* Every step keeps the invariant.
LEMMA BitNextInv == BitInv /\ [BitNext]_bitVars => BitInv'
<1> SUFFICES ASSUME BitInv, [BitNext]_bitVars PROVE BitInv'
  OBVIOUS
<1>1. CASE PutBits \/ PutUe \/ PutSe
  BY <1>1, WritesAre, WriteInv
<1>2. CASE Seal
  BY <1>2, SealInv
<1>3. CASE Get
  BY <1>3, GetInv
<1>4. CASE UNCHANGED bitVars
  <2>1. side' = side /\ bs' = bs /\ script' = script /\ out_bytes' = out_bytes /\ got' = got
    BY <1>4 DEF bitVars
  <2>2. BitShape' /\ Writing' /\ Reading'
    BY <2>1 DEF BitInv, BitShape, Writing, Reading
  <2> QED BY <2>2 DEF BitInv
<1> QED BY <1>1, <1>2, <1>3, <1>4 DEF BitNext

\* The invariant: the elements written follow one another, the buffer holds
\* their codes as far as there is room, the writer stands behind the last with
\* nothing but zeros ahead, and the reader has the bytes counted and stands
\* behind what it has read until it meets an element that was cut off.
THEOREM BitInvariant == BitSpec => []BitInv
<1>1. BitInit => BitInv
  BY BitInitInv
<1>2. BitInv /\ [BitNext]_bitVars => BitInv'
  BY BitNextInv
<1> QED BY <1>1, <1>2, PTL DEF BitSpec

\* bs_read_bits, bs_read_ue and bs_read_se return what bs_write_bits, bs_write_ue
\* and bs_write_se were given, and stop where those stopped, for every element
\* that fitted: for every width of the words and the bytes, every size of the
\* buffer, and any number of elements.
THEOREM ReadsBack == BitSpec => []RoundTrip
<1>1. BitInv => RoundTrip
  <2> SUFFICES ASSUME BitInv, NEW i \in DOMAIN got, ~ script[i].truncated
               PROVE  got[i].v = script[i].v /\ got[i].end = script[i].end
    BY DEF RoundTrip
  <2>1. got \in Seq([v : Int, end : Nat]) /\ side \in {"write", "read"}
    BY DEF BitInv, BitShape
  <2>2. i \in 1..Len(got)
    BY <2>1
  <2>3. side = "read"
    <3> SUFFICES ASSUME side = "write" PROVE FALSE
      BY <2>1
    <3>1. got = <<>>
      BY DEF BitInv, Writing
    <3> QED BY <3>1
  <2> QED BY <2>2, <2>3 DEF BitInv, Reading
<1> QED BY <1>1, BitInvariant, PTL

\* bs_pos_bytes after bs_align_byte counts the bytes the bits need, and no more
\* than the buffer has.
THEOREM CountsBytes == BitSpec => []SizeIsExact
<1>1. BitInv => SizeIsExact
  <2> SUFFICES ASSUME BitInv, side = "read", script # <<>>
               PROVE  /\ out_bytes * ByteBits >= script[Len(script)].end
                      /\ out_bytes * ByteBits < script[Len(script)].end + ByteBits
                      /\ out_bytes <= Capacity
    BY DEF SizeIsExact
  <2>1. script \in Seq(Elements) /\ bs \in Streams /\ bs.capacity = out_bytes
    BY DEF BitInv, BitShape, Reading
  <2>2. Len(script) # 0 /\ LastEnd(script) = script[Len(script)].end
    BY <2>1 DEF LastEnd, Ends
  <2>3. LastEnd(script) \in Int /\ out_bytes * ByteBits \in Int /\ out_bytes <= Capacity
    <3>1. EndOf(bs) \in Int /\ EndOf(bs) = out_bytes * ByteBits
      BY <2>1, Places DEF EndOf
    <3>2. bs.capacity \in 0..Capacity
      BY <2>1 DEF Streams
    <3>3. LastEnd(script) \in 0..Room
      BY <2>1, ElementsOf
    <3> QED BY <2>1, <3>1, <3>2, <3>3, BitIOAssumption
  <2>4. LastEnd(script) <= out_bytes * ByteBits /\ out_bytes * ByteBits < LastEnd(script) + ByteBits
    BY DEF BitInv, Reading
  <2> QED BY <2>2, <2>3, <2>4
<1> QED BY <1>1, BitInvariant, PTL

\* No call that writes changes a bit that was written before: the writer only
\* sets bits, and only from its position on.
THEOREM KeepsEarlierBits == BitSpec => EarlierBitsKept
<1>1. BitInv /\ [BitNext]_bitVars =>
         [side = "write" => \A i \in 0..(Position(bs) - 1) : bs'.buf[i] = bs.buf[i]]_bitVars
  <2> SUFFICES ASSUME BitInv, BitNext, side = "write"
               PROVE  \A i \in 0..(Position(bs) - 1) : bs'.buf[i] = bs.buf[i]
    OBVIOUS
  <2>1. CASE PutBits \/ PutUe \/ PutSe
    BY <2>1, WritesAre, WriteInv
  <2>2. CASE Seal
    <3>1. bs' = [bs EXCEPT !.capacity = PosBytes(Align(bs)), !.byte_pos = 0, !.bit_pos = ByteBits - 1]
      BY <2>2 DEF Seal, NewReader
    <3>2. bs \in [buf : [0..(Room - 1) -> {0, 1}], capacity : 0..Capacity, byte_pos : 0..Capacity,
                  bit_pos : 0..(ByteBits - 1)]
      BY DEF BitInv, BitShape, Streams
    <3>3. bs'.buf = bs.buf
      BY <3>1, <3>2
    <3> QED BY <3>3
  <2>3. CASE Get
    BY <2>3 DEF Get
  <2> QED BY <2>1, <2>2, <2>3 DEF BitNext
<1> QED BY <1>1, BitInvariant, PTL DEF BitSpec, EarlierBitsKept

-----------------------------------------------------------------------------
\* The bits of a block.

\* Doubling is that, and it is large from the twelfth class on.
LEMMA Doublings ==
    /\ Doubling \in [0..HighClass -> Nat \ {0}] /\ Doubling[0] = 1
    /\ \A i \in 1..HighClass : Doubling[i] = 2 * Doubling[i - 1]
    /\ \A i \in 0..HighClass : i >= 11 => Doubling[i] >= 2048
<1>1. HighClass \in Nat
  BY BudgetAssumption
<1> DEFINE Is(s) == s = [i \in 0..HighClass |-> IF i = 0 THEN 1 ELSE 2 * s[i - 1]]
<1>2. \E s : Is(s)
  <2> DEFINE g == [x \in (1..HighClass) \X Nat |-> 2 * x[2]]
  <2>1. 1 \in Nat /\ g \in [(1..HighClass) \X Nat -> Nat]
    OBVIOUS
  <2>2. PICK s : Trace(Nat, 1, HighClass, g, s)
    <3> HIDE DEF g
    <3> QED BY <1>1, <2>1, TraceExists
  <2>3. s \in [0..HighClass -> Nat] /\ s[0] = 1 /\ \A i \in 1..HighClass : s[i] = g[<<i, s[i - 1]>>]
    BY <2>2 DEF Trace
  <2>4. ASSUME NEW i \in 1..HighClass PROVE s[i] = 2 * s[i - 1]
    <3>1. i - 1 \in 0..HighClass
      BY <1>1
    <3>2. <<i, s[i - 1]>> \in (1..HighClass) \X Nat
      BY <2>3, <3>1
    <3>3. g[<<i, s[i - 1]>>] = 2 * s[i - 1]
      BY <3>2
    <3> QED BY <2>3, <3>3
  <2>5. s = [i \in 0..HighClass |-> s[i]]
    BY <2>3
  <2>6. \A i \in 0..HighClass : s[i] = IF i = 0 THEN 1 ELSE 2 * s[i - 1]
    <3>1. \A i \in 0..HighClass : i # 0 => i \in 1..HighClass
      BY <1>1
    <3> QED BY <2>3, <2>4, <3>1
  <2>7. Is(s)
    BY <2>5, <2>6
  <2> QED BY <2>7
<1>3. Is(Doubling)
  BY <1>2 DEF Doubling
<1>4. Doubling[0] = 1 /\ \A i \in 1..HighClass : Doubling[i] = 2 * Doubling[i - 1]
  <2>1. \A i \in 0..HighClass : Doubling[i] = IF i = 0 THEN 1 ELSE 2 * Doubling[i - 1]
    BY <1>3
  <2> HIDE DEF Is
  <2> QED BY <1>1, <2>1
<1>5. \A i \in 0..HighClass : Doubling[i] \in Nat \ {0} /\ (i >= 11 => Doubling[i] >= 2048)
  <2> DEFINE T == {i \in 0..HighClass : Doubling[i] \in Nat \ {0} /\ (i >= 11 => Doubling[i] >= 2048)}
  <2>1. 0 \in T
    <3> HIDE DEF Is
    <3> QED BY <1>1, <1>4
  <2>2. ASSUME NEW i \in 1..HighClass, i - 1 \in T PROVE i \in T
    <3>1. Doubling[i] = 2 * Doubling[i - 1] /\ Doubling[i - 1] \in Nat \ {0} /\ i \in 0..HighClass
      BY <1>1, <1>4, <2>2
    <3>2. CASE i = 11
      <4> HIDE DEF Is
      <4>1. /\ 1 \in 1..HighClass /\ 2 \in 1..HighClass /\ 3 \in 1..HighClass /\ 4 \in 1..HighClass
            /\ 5 \in 1..HighClass /\ 6 \in 1..HighClass /\ 7 \in 1..HighClass /\ 8 \in 1..HighClass
            /\ 9 \in 1..HighClass /\ 10 \in 1..HighClass /\ 11 \in 1..HighClass
        BY <1>1, <3>2
      <4>2. Doubling[1] = 2 /\ Doubling[2] = 4 /\ Doubling[3] = 8 /\ Doubling[4] = 16
        BY <1>4, <4>1
      <4>3. Doubling[5] = 32 /\ Doubling[6] = 64 /\ Doubling[7] = 128 /\ Doubling[8] = 256
        BY <1>4, <4>1, <4>2
      <4>4. Doubling[9] = 512 /\ Doubling[10] = 1024 /\ Doubling[11] = 2048
        BY <1>4, <4>1, <4>3
      <4> QED BY <3>1, <3>2, <4>4
    <3>3. CASE i > 11
      <4>1. i - 1 >= 11
        BY <1>1, <3>3
      <4>2. Doubling[i - 1] >= 2048
        BY <2>2, <4>1
      <4> QED BY <3>1, <4>2
    <3>4. CASE i < 11
      BY <3>1, <3>4
    <3> QED BY <1>1, <3>2, <3>3, <3>4
  <2> HIDE DEF T
  <2>3. \A i \in 0..HighClass : i \in T
    BY <1>1, <2>1, <2>2, Turns
  <2> QED BY <2>3 DEF T
<1>6. Doubling \in [0..HighClass -> Nat \ {0}]
  <2>1. Doubling = [i \in 0..HighClass |-> Doubling[i]]
    BY <1>3
  <2> HIDE DEF Is
  <2> QED BY <1>5, <2>1
<1> QED BY <1>4, <1>5, <1>6

\* The first twelve classes, as far as they are looked at.
LEMMA SmallClasses ==
    /\ CoefOf(0) = 0
    /\ HighClass >= 1 => CoefOf(1) = 1
    /\ HighClass >= 2 => CoefOf(2) = 1
    /\ HighClass >= 3 => CoefOf(3) = 3
    /\ HighClass >= 4 => CoefOf(4) = 5
    /\ HighClass >= 5 => CoefOf(5) = 10
    /\ HighClass >= 6 => CoefOf(6) = 20
    /\ HighClass >= 7 => CoefOf(7) = 41
    /\ HighClass >= 8 => CoefOf(8) = 81
    /\ HighClass >= 9 => CoefOf(9) = 161
    /\ HighClass >= 10 => CoefOf(10) = 323
    /\ HighClass >= 11 => CoefOf(11) = 645
<1>1. HighClass \in Nat /\ StepNum = 62996 /\ StepDen = 100000
  BY BudgetAssumption
<1>2. Doubling[0] = 1 /\ \A i \in 1..HighClass : Doubling[i] = 2 * Doubling[i - 1]
  BY Doublings
<1>3. \A k \in 1..HighClass : CoefOf(k) = ((2 * Doubling[k - 1] - 1) * 62996 + 199999) \div 200000
  BY <1>1 DEF CoefOf, LevelOf
<1>4. /\ HighClass >= 2 => Doubling[1] = 2
      /\ HighClass >= 3 => Doubling[2] = 4
      /\ HighClass >= 4 => Doubling[3] = 8
      /\ HighClass >= 5 => Doubling[4] = 16
  BY <1>1, <1>2
<1>5. /\ HighClass >= 6 => Doubling[5] = 32
      /\ HighClass >= 7 => Doubling[6] = 64
      /\ HighClass >= 8 => Doubling[7] = 128
      /\ HighClass >= 9 => Doubling[8] = 256
  BY <1>1, <1>2, <1>4
<1>6. /\ HighClass >= 10 => Doubling[9] = 512
      /\ HighClass >= 11 => Doubling[10] = 1024
  BY <1>1, <1>2, <1>5
<1>7. CoefOf(0) = 0
  BY DEF CoefOf
<1>8. /\ HighClass >= 1 => CoefOf(1) = 1
      /\ HighClass >= 2 => CoefOf(2) = 1
      /\ HighClass >= 3 => CoefOf(3) = 3
      /\ HighClass >= 4 => CoefOf(4) = 5
      /\ HighClass >= 5 => CoefOf(5) = 10
  BY <1>1, <1>2, <1>3, <1>4
<1>9. /\ HighClass >= 6 => CoefOf(6) = 20
      /\ HighClass >= 7 => CoefOf(7) = 41
      /\ HighClass >= 8 => CoefOf(8) = 81
      /\ HighClass >= 9 => CoefOf(9) = 161
  BY <1>1, <1>3, <1>5
<1>10. /\ HighClass >= 10 => CoefOf(10) = 323
       /\ HighClass >= 11 => CoefOf(11) = 645
  BY <1>1, <1>3, <1>6
<1> QED BY <1>7, <1>8, <1>9, <1>10

\* The energy there is.
LEMMA EnergyBound == Energy \in Nat /\ Energy <= 1046084
<1>1. Coefs = 16 /\ MaxResidual \in 0..255 /\ LowClass \in 0..5 /\ HighClass \in Nat
  BY BudgetAssumption
<1>2. SqrtCoefs = 4
  <2>1. \A r \in 0..16 : r * r = 16 => r = 4
    BY SMT
  <2>2. SqrtCoefs = CHOOSE r \in 0..16 : r * r = 16
    BY <1>1 DEF SqrtCoefs
  <2>3. 4 \in 0..16 /\ 4 * 4 = 16
    OBVIOUS
  <2> QED BY <2>1, <2>2, <2>3
<1>3. Norm \in 2..1022
  BY <1>1, <1>2 DEF Norm
<1>4. CoefOf(LowClass) \in 0..10
  <2>1. HighClass >= LowClass
    BY BudgetAssumption
  <2> QED BY <1>1, <2>1, SmallClasses
<1>5. ASSUME NEW a \in Nat, NEW b \in Nat, a <= b PROVE a * a \in Nat /\ a * a <= b * b
  <2>1. a * a <= b * a /\ a * a \in Nat
    BY <1>5, Grows
  <2>2. a * b <= b * b /\ a * b = b * a
    BY <1>5, Grows
  <2> QED BY <2>1, <2>2
<1> DEFINE n == Norm
           c == CoefOf(LowClass)
<1>6. n * n \in Nat /\ n * n <= 1022 * 1022
  BY <1>3, <1>5
<1>7. c * c \in Nat /\ c * c <= 10 * 10
  BY <1>4, <1>5
<1>8. Energy = n * n + 16 * (c * c)
  <2>1. Energy = n * n + 16 * c * c
    BY <1>1 DEF Energy
  <2>2. 16 * c * c = 16 * (c * c)
    BY <1>4
  <2> QED BY <2>1, <2>2
<1> HIDE DEF n, c
<1> QED BY <1>6, <1>7, <1>8

\* Coefficients are counted by their size.
LEMMA CoefIsNat ==
    ASSUME NEW k \in LowClass..HighClass
    PROVE  CoefOf(k) \in Nat /\ CoefOf(k) * CoefOf(k) \in Nat
<1>1. k \in Nat /\ k <= HighClass /\ HighClass \in Nat
  BY BudgetAssumption
<1>2. CASE k = 0
  BY <1>2, SmallClasses
<1>3. CASE k # 0
  <2>1. k - 1 \in 0..HighClass /\ k \in 0..HighClass
    BY <1>1, <1>3
  <2>2. Doubling[k - 1] \in Nat /\ Doubling[k - 1] # 0
    BY <2>1, Doublings
  <2>3. CoefOf(k) = ((2 * Doubling[k - 1] - 1) * 62996 + 199999) \div 200000
    BY <1>3, BudgetAssumption DEF CoefOf, LevelOf
  <2>4. CoefOf(k) \in Nat
    BY <2>2, <2>3
  <2> QED BY <2>4
<1> QED BY <1>2, <1>3

\* What a coefficient costs is paid for by a flat price and the energy it takes:
\* classes 9 and 10 meet the price exactly, and beyond class 11 no energy is enough.
LEMMA CoefPrice ==
    ASSUME NEW k \in LowClass..HighClass, CoefOf(k) * CoefOf(k) <= Energy
    PROVE  39204 * CodeBits(k) <= 718955 + CoefOf(k) * CoefOf(k)
<1>1. k \in Nat /\ k <= HighClass /\ HighClass \in Nat /\ CodeBits(k) = 2 * k + 1
  BY BudgetAssumption DEF CodeBits
<1>2. CASE k <= 4
  BY <1>1, <1>2, CoefIsNat
<1>3. CASE k \in 5..11
  <2>1. k = 5 \/ k = 6 \/ k = 7 \/ k = 8 \/ k = 9 \/ k = 10 \/ k = 11
    BY <1>3
  <2>2. \/ k = 5 /\ CoefOf(k) = 10
        \/ k = 6 /\ CoefOf(k) = 20
        \/ k = 7 /\ CoefOf(k) = 41
        \/ k = 8 /\ CoefOf(k) = 81
        \/ k = 9 /\ CoefOf(k) = 161
        \/ k = 10 /\ CoefOf(k) = 323
        \/ k = 11 /\ CoefOf(k) = 645
    BY <1>1, <2>1, SmallClasses
  <2> QED BY <1>1, <2>2
<1>4. CASE k >= 12
  <2>1. k - 1 \in 0..HighClass /\ k - 1 >= 11 /\ k # 0
    BY <1>1, <1>4
  <2>2. Doubling[k - 1] \in Nat /\ Doubling[k - 1] >= 2048
    BY <2>1, Doublings
  <2>3. CoefOf(k) = ((2 * Doubling[k - 1] - 1) * 62996 + 199999) \div 200000
    BY <2>1, BudgetAssumption DEF CoefOf, LevelOf
  <2>4. CoefOf(k) \in Nat /\ CoefOf(k) >= 1290
    BY <2>2, <2>3
  <2>5. 1290 * CoefOf(k) <= CoefOf(k) * CoefOf(k) /\ 1290 * 1290 <= 1290 * CoefOf(k)
    BY <2>4, Grows
  <2>6. CoefOf(k) * CoefOf(k) >= 1290 * 1290
    BY <2>4, <2>5
  <2> QED BY <2>4, <2>6, EnergyBound
<1> QED BY <1>1, <1>2, <1>3, <1>4

\* The bits spent are paid for by the coefficients chosen and the energy gone.
BudgetInv ==
    /\ left \in 0..16 /\ spent \in Nat /\ class \in Int /\ class <= HighClass
    /\ energy \in Nat /\ energy <= Energy
    /\ 39204 * spent <= (16 - left) * 718955 + (Energy - energy)

\* Nothing is spent at the start.
LEMMA BudgetInitInv == BudgetInit => BudgetInv
  BY EnergyBound, BudgetAssumption DEF BudgetInit, BudgetInv

\* A coefficient is paid for.
LEMMA BudgetNextInv == BudgetInv /\ [AddCoef]_budgetVars => BudgetInv'
<1> SUFFICES ASSUME BudgetInv, [AddCoef]_budgetVars PROVE BudgetInv'
  OBVIOUS
<1>1. CASE AddCoef
  <2>1. PICK k \in LowClass..class :
           /\ CoefOf(k) * CoefOf(k) <= energy
           /\ energy' = energy - CoefOf(k) * CoefOf(k)
           /\ class' = k
           /\ spent' = spent + CodeBits(k)
    BY <1>1 DEF AddCoef
  <2>2. left > 0 /\ left' = left - 1
    BY <1>1 DEF AddCoef
  <2>3. /\ left \in 0..16 /\ spent \in Nat /\ class \in Int /\ class <= HighClass
        /\ energy \in Nat /\ energy <= Energy
        /\ 39204 * spent <= (16 - left) * 718955 + (Energy - energy)
    BY DEF BudgetInv
  <2>4. k \in LowClass..HighClass /\ k \in Nat /\ CodeBits(k) = 2 * k + 1
    BY <2>3, BudgetAssumption DEF CodeBits
  <2> DEFINE c == CoefOf(k) * CoefOf(k)
             b == CodeBits(k)
  <2>5. c \in Nat /\ b \in Nat
    BY <2>4, CoefIsNat
  <2>6. c <= energy /\ energy' = energy - c /\ class' = k /\ spent' = spent + b
    BY <2>1
  <2> HIDE DEF c, b
  <2>7. c <= Energy
    BY <2>3, <2>5, <2>6, EnergyBound
  <2>8. 39204 * b <= 718955 + c
    BY <2>4, <2>7, CoefPrice DEF c, b
  <2>9. left' \in 0..16 /\ spent' \in Nat /\ energy' \in Nat /\ energy' <= Energy
    BY <2>2, <2>3, <2>5, <2>6, EnergyBound
  <2>10. 39204 * spent' <= (16 - left') * 718955 + (Energy - energy')
    BY <2>2, <2>3, <2>5, <2>6, <2>8, EnergyBound
  <2>11. class' \in Int /\ class' <= HighClass
    BY <2>4, <2>6, BudgetAssumption
  <2> QED BY <2>9, <2>10, <2>11 DEF BudgetInv
<1>2. CASE UNCHANGED budgetVars
  BY <1>2 DEF BudgetInv, budgetVars
<1> QED BY <1>1, <1>2

\* No residual of a block makes encode_blk spend more than 320 bits on its
\* coefficients, so no frame fills the w*h*4 bytes cmd_encode gives the bit writer:
\* for every largest difference of samples, and whichever classes are looked at.
THEOREM NothingDropped == BudgetSpec => []FrameFits
<1>1. BudgetInit => BudgetInv
  BY BudgetInitInv
<1>2. BudgetInv /\ [AddCoef]_budgetVars => BudgetInv'
  BY BudgetNextInv
<1>3. BudgetInv => FrameFits
  <2> SUFFICES ASSUME BudgetInv PROVE FrameFits
    OBVIOUS
  <2>1. spent \in Nat /\ 39204 * spent <= 16 * 718955 + 1046084
    BY EnergyBound DEF BudgetInv
  <2>2. spent <= 320
    BY <2>1
  <2>3. FrameHeader = 7 /\ MbOverhead = 29 /\ BlocksPerMb = 24 /\ BlockOverhead = 10 /\ BufferBitsPerMb = 8192
    BY DEF FrameHeader, MbOverhead, BlocksPerMb, BlockOverhead, BufferBitsPerMb
  <2>4. 7 + (29 + 24 * (10 + spent)) <= 8192
    BY <2>1, <2>2
  <2> QED BY <2>3, <2>4 DEF FrameFits, MbBits
<1> QED BY <1>1, <1>2, <1>3, PTL DEF BudgetSpec

=============================================================================
