------------------------- MODULE FrameBuffersProofs -------------------------
(***************************************************************************)
(* Proofs about FrameBuffers, for every number of slots, output frames and *)
(* buffers that leaves one buffer for the frame being decoded: the counts  *)
(* are those of the holders, memory is given back with the last reference, *)
(* and a free buffer is always found.                                      *)
(*                                                                         *)
(* Every step of a frame is an operation on counts and memory (Decrease,   *)
(* DecreaseAll, Increase, Refresh) that goes with a change of the slots,   *)
(* the output frames or cur_frame.  Exact(m, map, out, cur) says that m    *)
(* counts the holders map, out and cur, and the lemmas say what each pair  *)
(* of changes makes of it.  NeverExhausted then is a matter of counting    *)
(* the places a buffer can be held from (FreeIsFound).                     *)
(***************************************************************************)
EXTENDS FrameBuffers, TLAPS, FiniteSetTheorems, WellFoundedInduction

Memories == [count : [Buffers -> Nat], raw : SUBSET Buffers]
Holders == Buffers \cup {NULL}
Maps == [Slots -> Holders]

One(c, b) == IF c = b THEN 1 ELSE 0

\* The counts of m are those of the holders, and no memory is kept for a buffer
\* nobody holds.
Exact(m, map, out, c) ==
    /\ m \in Memories /\ map \in Maps /\ out \in Seq(Buffers) /\ c \in Holders
    /\ \A b \in Buffers : m.count[b] = Times(map, b) + Times(out, b) + One(c, b)
    /\ \A b \in m.raw : m.count[b] > 0

Frames == [kind : {"none", "key", "intra", "inter", "existing"}, show : BOOLEAN,
           refresh : SUBSET Slots]

Types ==
    /\ output_all_layers \in BOOLEAN /\ need_resync \in BOOLEAN
    /\ phase \in {"app", "loop"} \cup InFrame
    /\ frame \in Frames
    /\ ref_idx \in 0..NumSlots
    /\ showable \subseteq Buffers /\ key \subseteq Buffers
    /\ Len(output_frames) <= MaxLayers

\* There is a current frame between the start and the end of a frame.
CurrentInFrame == cur_frame # NULL <=> phase \in InFrame

\* Until it is decoded, the current frame is nobody else's.
CurrentIsFresh ==
    phase \in {"header", "refs", "failed", "tiles"} =>
        Times(ref_frame_map, cur_frame) = 0 /\ Times(output_frames, cur_frame) = 0

HeaderHasNoMemory == phase = "header" => cur_frame \notin raw

IInv ==
    /\ Types
    /\ Exact(Now, ref_frame_map, output_frames, cur_frame)
    /\ CurrentInFrame /\ CurrentIsFresh /\ HeaderHasNoMemory
    /\ NeverExhausted

-----------------------------------------------------------------------------
\* How often something occurs.

\* What has few places occurs finitely often.
LEMMA TimesType ==
  ASSUME NEW s, IsFiniteSet(DOMAIN s), NEW b
  PROVE  /\ IsFiniteSet({i \in DOMAIN s : s[i] = b}) /\ Times(s, b) \in Nat
         /\ Times(s, b) = 0 <=> \A i \in DOMAIN s : s[i] # b
<1> DEFINE P == {i \in DOMAIN s : s[i] = b}
<1>1. P \in SUBSET DOMAIN s
  OBVIOUS
<1>2. IsFiniteSet(P) /\ Cardinality(P) \in Nat /\ (Cardinality(P) = 0 <=> P = {})
  BY <1>1, FS_Subset, FS_CardinalityType, FS_EmptySet
<1> QED BY <1>2 DEF Times

\* f at the places of R only, and with v at these places
Part(f, R) == [i \in R |-> f[i]]
Replaced(f, S, R, v) == [i \in S |-> IF i \in R THEN v ELSE f[i]]

\* Some places get another holder: those places no longer count for what they
\* held, and all of them count for v.
LEMMA TimesReplaced ==
  ASSUME NEW S, IsFiniteSet(S), NEW f, DOMAIN f = S, NEW R, R \subseteq S, NEW v, NEW b
  PROVE  /\ Times(Replaced(f, S, R, v), b) =
                Times(f, b) - Times(Part(f, R), b) + (IF v = b THEN Cardinality(R) ELSE 0)
         /\ Times(Part(f, R), b) \in Nat /\ Times(f, b) \in Nat /\ Cardinality(R) \in Nat
         /\ Times(Part(f, R), b) <= Times(f, b)
<1> DEFINE g == Replaced(f, S, R, v)
           h == Part(f, R)
           F == {i \in S : f[i] = b}
           H == {i \in R : f[i] = b}
           G == {i \in S : g[i] = b}
           V == IF v = b THEN R ELSE {}
<1>1. IsFiniteSet(R) /\ Cardinality(R) \in Nat
  BY FS_Subset, FS_CardinalityType
<1>2. IsFiniteSet(F) /\ IsFiniteSet(H) /\ IsFiniteSet(V) /\ IsFiniteSet(F \ H)
  <2>1. F \in SUBSET S /\ H \in SUBSET S /\ V \in SUBSET S /\ F \ H \in SUBSET S
    OBVIOUS
  <2> QED BY <2>1, FS_Subset
<1>3. Cardinality(F) \in Nat /\ Cardinality(H) \in Nat /\ Cardinality(V) \in Nat
      /\ Cardinality(F \ H) \in Nat
  BY <1>2, FS_CardinalityType
<1>4. Cardinality(F \ H) = Cardinality(F) - Cardinality(H)
  <2>1. F \cap H = H
    OBVIOUS
  <2> HIDE DEF F, H
  <2> QED BY <1>2, <2>1, FS_Difference
<1>5. Cardinality(G) = Cardinality(F \ H) + Cardinality(V)
  <2>1. G = (F \ H) \cup V /\ (F \ H) \cap V = {}
    BY DEF Replaced
  <2> HIDE DEF F, H, V, G
  <2>2. Cardinality(G) = Cardinality(F \ H) + Cardinality(V) - Cardinality({})
    BY <1>2, <2>1, FS_Union
  <2> QED BY <1>3, <2>2, FS_EmptySet
<1>6. Cardinality(V) = IF v = b THEN Cardinality(R) ELSE 0
  BY FS_EmptySet
<1>7. Times(g, b) = Cardinality(G) /\ Times(h, b) = Cardinality(H) /\ Times(f, b) = Cardinality(F)
  <2>1. {i \in DOMAIN g : g[i] = b} = G /\ {i \in DOMAIN h : h[i] = b} = H
        /\ {i \in DOMAIN f : f[i] = b} = F
    BY DEF Part, Replaced
  <2> QED BY <2>1 DEF Times
<1> HIDE DEF F, H, V, G, g, h
<1>8. Times(g, b) = Times(f, b) - Times(h, b) + (IF v = b THEN Cardinality(R) ELSE 0)
      /\ Times(h, b) \in Nat /\ Times(f, b) \in Nat /\ Times(h, b) <= Times(f, b)
  BY <1>1, <1>3, <1>4, <1>5, <1>6, <1>7
<1> QED BY <1>1, <1>8 DEF g, h

\* One place gets another holder.
LEMMA TimesExcept ==
  ASSUME NEW S, IsFiniteSet(S), NEW f, f = [j \in S |-> f[j]], NEW i \in S, NEW v, NEW b
  PROVE  /\ Times([f EXCEPT ![i] = v], b) = Times(f, b) - One(f[i], b) + One(v, b)
         /\ Times(f, b) \in Nat /\ One(f[i], b) <= Times(f, b)
<1> DEFINE h == Part(f, {i})
           g == Replaced(f, S, {i}, v)
<1>1. Times(h, b) = One(f[i], b)
  <2>1. {j \in DOMAIN h : h[j] = b} = IF f[i] = b THEN {i} ELSE {}
    BY DEF Part
  <2> HIDE DEF h
  <2> QED BY <2>1, FS_Singleton, FS_EmptySet DEF Times, One
<1>2. [f EXCEPT ![i] = v] = g
  BY DEF Replaced
<1>3. DOMAIN f = S /\ {i} \subseteq S
  OBVIOUS
<1>4. /\ Times(g, b) = Times(f, b) - Times(h, b) + (IF v = b THEN Cardinality({i}) ELSE 0)
      /\ Times(f, b) \in Nat /\ Times(h, b) <= Times(f, b)
  BY <1>3, TimesReplaced
<1> HIDE DEF h, g
<1> QED BY <1>1, <1>2, <1>4, FS_Singleton DEF One

\* Nothing is in the empty sequence.
LEMMA NoTimes == ASSUME NEW b PROVE Times(<<>>, b) = 0
<1>1. {i \in DOMAIN <<>> : <<>>[i] = b} = {}
  OBVIOUS
<1> QED BY <1>1, FS_EmptySet DEF Times

\* The sequence of output frames.
LEMMA TimesOut ==
  ASSUME NEW T, NEW s \in Seq(T), NEW x \in T, NEW b
  PROVE  /\ IsFiniteSet(DOMAIN s) /\ Times(s, b) \in Nat
         /\ Times(Append(s, x), b) = Times(s, b) + One(x, b)
         /\ Times(<<x>>, b) = One(x, b)
<1> DEFINE n == Len(s)
           P == {i \in 1..n : s[i] = b}
           t == Append(s, x)
<1>1. n \in Nat /\ DOMAIN s = 1..n /\ DOMAIN t = 1..(n + 1)
  OBVIOUS
<1>2. IsFiniteSet(1..n)
  <2>1. n \in Int /\ 1 \in Int
    BY <1>1
  <2> QED BY <2>1, FS_Interval
<1>3. IsFiniteSet(P) /\ Cardinality(P) \in Nat /\ Times(s, b) = Cardinality(P)
  BY <1>1, <1>2, TimesType DEF Times
<1>4. {i \in DOMAIN t : t[i] = b} = IF x = b THEN P \cup {n + 1} ELSE P
  <2>1. \A i \in 1..n : t[i] = s[i]
    OBVIOUS
  <2>2. t[n + 1] = x /\ n + 1 \in DOMAIN t
    BY <1>1
  <2>3. \A i \in DOMAIN t : i \in 1..n \/ i = n + 1
    BY <1>1
  <2>4. \A i \in 1..n : i \in DOMAIN t
    BY <1>1
  <2> HIDE DEF t, n
  <2> QED BY <2>1, <2>2, <2>3, <2>4
<1>5. Times(t, b) = Times(s, b) + One(x, b)
  <2>1. n + 1 \notin P
    BY <1>1
  <2>2. Cardinality(P \cup {n + 1}) = Cardinality(P) + 1
    BY <1>3, <2>1, FS_AddElement
  <2>3. Times(t, b) = Cardinality(IF x = b THEN P \cup {n + 1} ELSE P)
    BY <1>4 DEF Times
  <2> HIDE DEF P, t, n
  <2> QED BY <1>3, <2>2, <2>3 DEF One
<1>6. Times(<<x>>, b) = One(x, b)
  <2>1. {i \in DOMAIN <<x>> : <<x>>[i] = b} = IF x = b THEN {1} ELSE {}
    OBVIOUS
  <2> QED BY <2>1, FS_EmptySet, FS_Singleton DEF Times, One
<1> QED BY <1>1, <1>2, <1>3, <1>5, <1>6

-----------------------------------------------------------------------------
\* What the operations on counts make of a memory that is exact.

\* Every set of naturals has a least element.
LEMMA Least ==
  ASSUME NEW T, T \subseteq Nat, T # {}
  PROVE  \E n \in T : \A m \in T : n <= m
<1> DEFINE Below == {0..m : m \in T}
<1>1. Below \subseteq FiniteSubsetsOf(Nat)
  <2> SUFFICES ASSUME NEW m \in T PROVE 0..m \in FiniteSubsetsOf(Nat)
    OBVIOUS
  <2>1. 0 \in Int /\ m \in Int /\ 0..m \subseteq Nat
    OBVIOUS
  <2>2. IsFiniteSet(0..m)
    BY <2>1, FS_Interval
  <2> QED BY <2>1, <2>2 DEF FiniteSubsetsOf
<1>2. Below # {}
  OBVIOUS
<1> HIDE DEF Below
<1>3. PICK x \in Below : \A y \in Below : ~ (<<y, x>> \in StrictSubsetOrdering(Nat))
  BY <1>1, <1>2, FS_StrictSubsetOrderingWellFounded, WFMin
<1>4. PICK a \in T : x = 0..a
  BY DEF Below
<1>5. ASSUME NEW m \in T, m < a PROVE FALSE
  <2>1. 0..m \in Below
    BY DEF Below
  <2>2. a \in 0..a /\ a \notin 0..m /\ 0..m \subseteq 0..a /\ 0..a \subseteq Nat
    BY <1>5
  <2>3. 0..m # 0..a
    BY <2>2
  <2>4. <<0..m, 0..a>> \in StrictSubsetOrdering(Nat)
    BY <2>2, <2>3 DEF StrictSubsetOrdering
  <2> QED BY <1>3, <1>4, <2>1, <2>4
<1> QED BY <1>5

\* get_free_fb returns a buffer nobody refers to, if there is one.
LEMMA FirstFreeIsFree ==
  ASSUME NEW m, Free(m) # {}
  PROVE  FirstFree(m) \in Buffers /\ m.count[FirstFree(m)] = 0
<1>1. Free(m) \subseteq Nat
  BY FrameBuffersAssumption DEF Free, Buffers
<1>2. \E b \in Free(m) : \A c \in Free(m) : b <= c
  BY <1>1, Least
<1>3. FirstFree(m) \in Free(m)
  BY <1>2 DEF FirstFree
<1> QED BY <1>3 DEF Free

\* The constants' sets.
LEMMA Places ==
  /\ NumSlots \in Nat \ {0} /\ MaxLayers \in Nat \ {0} /\ NumBuffers \in Nat
  /\ NumSlots + MaxLayers < NumBuffers
  /\ Slots \subseteq Nat /\ Buffers \subseteq Nat /\ NULL \notin Buffers
  /\ IsFiniteSet(Slots) /\ Cardinality(Slots) = NumSlots
  /\ IsFiniteSet(Buffers) /\ Cardinality(Buffers) = NumBuffers
<1>1. NumSlots \in Nat \ {0} /\ MaxLayers \in Nat \ {0} /\ NumBuffers \in Nat
      /\ NumSlots + MaxLayers < NumBuffers
  BY FrameBuffersAssumption
<1>2. Slots \subseteq Nat /\ Buffers \subseteq Nat /\ NULL \notin Buffers
  BY <1>1 DEF Slots, Buffers, NULL
<1>3. 0 \in Int /\ NumSlots - 1 \in Int /\ NumBuffers - 1 \in Int
  BY <1>1
<1>4. /\ IsFiniteSet(Slots) /\ Cardinality(Slots) = NumSlots
      /\ IsFiniteSet(Buffers) /\ Cardinality(Buffers) = NumBuffers
  BY <1>1, <1>3, FS_Interval DEF Slots, Buffers
<1> QED BY <1>1, <1>2, <1>4

\* The numbers Exact is about, and what a count of 1 says of the others.
LEMMA ExactParts ==
  ASSUME NEW m, NEW map, NEW out, NEW c, Exact(m, map, out, c), NEW b \in Buffers
  PROVE  /\ m.count[b] \in Nat /\ Times(map, b) \in Nat /\ Times(out, b) \in Nat
         /\ One(c, b) \in {0, 1} /\ m.count[b] = Times(map, b) + Times(out, b) + One(c, b)
         /\ Times(map, b) = 0 <=> \A i \in Slots : map[i] # b
         /\ DOMAIN map = Slots /\ map = [i \in Slots |-> map[i]]
         /\ \A i \in Slots : map[i] \in Holders
<1>1. DOMAIN map = Slots /\ map = [i \in Slots |-> map[i]] /\ \A i \in Slots : map[i] \in Holders
  BY DEF Exact, Maps
<1>2. Times(map, b) \in Nat /\ (Times(map, b) = 0 <=> \A i \in Slots : map[i] # b)
  BY <1>1, Places, TimesType
<1>3. Times(out, b) \in Nat
  BY TimesOut DEF Exact
<1>4. m.count[b] \in Nat /\ m.count[b] = Times(map, b) + Times(out, b) + One(c, b)
      /\ One(c, b) \in {0, 1}
  BY DEF Exact, Memories, One
<1> QED BY <1>1, <1>2, <1>3, <1>4

\* Exact looks at the counts and the memory only.
LEMMA ExactFields ==
  ASSUME NEW m, NEW map, NEW out, NEW c, Exact(m, map, out, c)
  PROVE  Exact([count |-> m.count, raw |-> m.raw], map, out, c)
BY DEF Exact, Memories

\* A buffer loses one of its holders.
LEMMA DecreaseParts ==
  ASSUME NEW m \in Memories, NEW b \in Buffers, m.count[b] > 0,
         \A d \in m.raw : m.count[d] > 0
  PROVE  /\ Decrease(m, b) \in Memories
         /\ \A d \in Buffers : Decrease(m, b).count[d] = m.count[d] - One(b, d)
         /\ \A d \in Decrease(m, b).raw : d \in m.raw /\ Decrease(m, b).count[d] > 0
<1>1. b # NULL
  BY Places
<1>2. Decrease(m, b).count = [m.count EXCEPT ![b] = @ - 1]
      /\ Decrease(m, b).raw = (IF m.count[b] = 1 THEN m.raw \ {b} ELSE m.raw)
      /\ Decrease(m, b) = [count |-> Decrease(m, b).count, raw |-> Decrease(m, b).raw]
  BY <1>1 DEF Decrease
<1>3. m.count \in [Buffers -> Nat] /\ m.raw \subseteq Buffers
  BY DEF Memories
<1>4. \A d \in Buffers : Decrease(m, b).count[d] = m.count[d] - One(b, d)
  BY <1>2, <1>3 DEF One
<1>5. \A d \in Buffers : m.count[d] - One(b, d) \in Nat
  BY <1>3 DEF One
<1>6. Decrease(m, b).count \in [Buffers -> Nat]
  BY <1>2, <1>3, <1>4, <1>5
<1>7. Decrease(m, b) \in Memories
  BY <1>2, <1>3, <1>6 DEF Memories
<1>8. ASSUME NEW d \in Decrease(m, b).raw PROVE d \in m.raw /\ Decrease(m, b).count[d] > 0
  <2>1. d \in m.raw /\ (m.count[b] = 1 => d # b) /\ d \in Buffers /\ m.count[d] \in Nat
    BY <1>2, <1>3
  <2>2. m.count[d] > 0
    BY <2>1
  <2> QED BY <1>4, <2>1, <2>2 DEF One
<1> QED BY <1>4, <1>7, <1>8

\* Many holders are lost.
LEMMA DecreaseAllParts ==
  ASSUME NEW m \in Memories, NEW s,
         \A d \in Buffers : Times(s, d) \in Nat /\ Times(s, d) <= m.count[d],
         \A d \in m.raw : m.count[d] > 0
  PROVE  /\ DecreaseAll(m, s) \in Memories
         /\ \A d \in Buffers : DecreaseAll(m, s).count[d] = m.count[d] - Times(s, d)
         /\ \A d \in DecreaseAll(m, s).raw : d \in m.raw /\ DecreaseAll(m, s).count[d] > 0
<1>1. m.count \in [Buffers -> Nat] /\ m.raw \subseteq Buffers
  BY DEF Memories
<1>2. DecreaseAll(m, s).count = [d \in Buffers |-> m.count[d] - Times(s, d)]
      /\ DecreaseAll(m, s).raw = {d \in m.raw : Times(s, d) = 0 \/ m.count[d] > Times(s, d)}
      /\ DecreaseAll(m, s) = [count |-> DecreaseAll(m, s).count, raw |-> DecreaseAll(m, s).raw]
  BY DEF DecreaseAll
<1>3. \A d \in Buffers : m.count[d] - Times(s, d) \in Nat
  BY <1>1
<1>4. DecreaseAll(m, s) \in Memories
  BY <1>1, <1>2, <1>3 DEF Memories
<1> QED BY <1>1, <1>2, <1>4

\* A buffer gets n more holders.
LEMMA IncreaseParts ==
  ASSUME NEW m \in Memories, NEW b \in Buffers, NEW n \in Nat,
         \A d \in m.raw : m.count[d] > 0
  PROVE  /\ Increase(m, b, n) \in Memories /\ Increase(m, b, n).raw = m.raw
         /\ \A d \in Buffers :
                Increase(m, b, n).count[d] = m.count[d] + (IF b = d THEN n ELSE 0)
         /\ \A d \in m.raw : Increase(m, b, n).count[d] > 0
<1>1. m.count \in [Buffers -> Nat] /\ m.raw \subseteq Buffers
      /\ m = [count |-> m.count, raw |-> m.raw]
  BY DEF Memories
<1>2. Increase(m, b, n) = [count |-> [m.count EXCEPT ![b] = @ + n], raw |-> m.raw]
  BY <1>1 DEF Increase
<1>3. \A d \in Buffers : Increase(m, b, n).count[d] = m.count[d] + (IF b = d THEN n ELSE 0)
  BY <1>1, <1>2
<1>4. Increase(m, b, n) \in Memories /\ Increase(m, b, n).raw = m.raw
  BY <1>1, <1>2 DEF Memories
<1>5. ASSUME NEW d \in m.raw PROVE Increase(m, b, n).count[d] > 0
  <2>1. d \in Buffers /\ m.count[d] \in Nat /\ m.count[d] > 0
    BY <1>1
  <2> QED BY <1>3, <2>1
<1> QED BY <1>3, <1>4, <1>5

-----------------------------------------------------------------------------
\* The holders change, and the counts with them.

\* The current frame is given up.
LEMMA CurrentGivenUp ==
  ASSUME NEW m, NEW map, NEW out, NEW c \in Buffers, Exact(m, map, out, c)
  PROVE  Exact(Decrease(m, c), map, out, NULL)
<1>1. m \in Memories /\ \A d \in m.raw : m.count[d] > 0
  BY DEF Exact
<1>2. m.count[c] > 0
  BY ExactParts DEF One
<1>3. Decrease(m, c) \in Memories
      /\ (\A d \in Buffers : Decrease(m, c).count[d] = m.count[d] - One(c, d))
      /\ \A d \in Decrease(m, c).raw : Decrease(m, c).count[d] > 0
  BY <1>1, <1>2, DecreaseParts
<1>4. ASSUME NEW b \in Buffers
      PROVE  Decrease(m, c).count[b] = Times(map, b) + Times(out, b) + One(NULL, b)
  <2>1. One(NULL, b) = 0
    BY Places DEF One
  <2> QED BY <1>3, <2>1, ExactParts
<1> QED BY <1>3, <1>4 DEF Exact, Holders

\* A buffer becomes the current frame.
LEMMA CurrentTaken ==
  ASSUME NEW m, NEW map, NEW out, NEW c \in Buffers, Exact(m, map, out, NULL)
  PROVE  /\ Exact(Increase(m, c, 1), map, out, c)
         /\ Increase(m, c, 1).raw = m.raw
<1>1. m \in Memories /\ \A d \in m.raw : m.count[d] > 0
  BY DEF Exact
<1>2. Increase(m, c, 1) \in Memories /\ Increase(m, c, 1).raw = m.raw
      /\ (\A d \in Buffers : Increase(m, c, 1).count[d] = m.count[d] + (IF c = d THEN 1 ELSE 0))
      /\ \A d \in m.raw : Increase(m, c, 1).count[d] > 0
  BY <1>1, IncreaseParts
<1>3. ASSUME NEW b \in Buffers
      PROVE  Increase(m, c, 1).count[b] = Times(map, b) + Times(out, b) + One(c, b)
  <2>1. One(NULL, b) = 0
    BY Places DEF One
  <2>2. One(c, b) = IF c = b THEN 1 ELSE 0
    BY DEF One
  <2> QED BY <1>2, <2>1, <2>2, ExactParts
<1> QED BY <1>2, <1>3 DEF Exact, Holders

\* Another buffer becomes the current frame, and nobody held the first one.
LEMMA CurrentExchanged ==
  ASSUME NEW m, NEW map, NEW out, NEW c \in Buffers, NEW b \in Buffers, b # c,
         Exact(m, map, out, c), m.count[c] = 1, c \notin m.raw
  PROVE  Exact([m EXCEPT !.count[c] = @ - 1, !.count[b] = @ + 1], map, out, b)
<1> DEFINE n == [m EXCEPT !.count[c] = @ - 1, !.count[b] = @ + 1]
<1>1. m \in Memories /\ m.count \in [Buffers -> Nat] /\ m.raw \subseteq Buffers
      /\ m = [count |-> m.count, raw |-> m.raw] /\ \A d \in m.raw : m.count[d] > 0
  BY DEF Exact, Memories
<1>2. /\ n.count = [m.count EXCEPT ![c] = @ - 1, ![b] = @ + 1] /\ n.raw = m.raw
      /\ n = [count |-> n.count, raw |-> n.raw]
  <2> DEFINE k == [m EXCEPT !.count = [m.count EXCEPT ![c] = @ - 1]]
             g == [k.count EXCEPT ![b] = m.count[b] + 1]
  <2>1. k = [count |-> [m.count EXCEPT ![c] = @ - 1], raw |-> m.raw]
    BY <1>1
  <2>2. n = [k EXCEPT !.count = g]
    OBVIOUS
  <2>3. g = [m.count EXCEPT ![c] = @ - 1, ![b] = @ + 1]
    BY <2>1
  <2> HIDE DEF n, k, g
  <2>4. n = [count |-> g, raw |-> k.raw]
    BY <2>1, <2>2
  <2> QED BY <2>1, <2>3, <2>4
<1> HIDE DEF n
<1>3. \A d \in Buffers : n.count[d] = m.count[d] - One(c, d) + One(b, d)
  BY <1>1, <1>2 DEF One
<1>4. n \in Memories /\ n.raw = m.raw
  BY <1>1, <1>2 DEF Memories
<1>5. ASSUME NEW d \in m.raw PROVE n.count[d] > 0
  <2>1. d \in Buffers /\ m.count[d] \in Nat /\ m.count[d] > 0 /\ d # c
    BY <1>1
  <2> QED BY <1>3, <2>1 DEF One
<1>6. ASSUME NEW d \in Buffers
      PROVE  n.count[d] = Times(map, d) + Times(out, d) + One(b, d)
  <2>1. One(b, d) \in {0, 1}
    BY DEF One
  <2> QED BY <1>3, <2>1, ExactParts
<1>7. Exact(n, map, out, b)
  BY <1>4, <1>5, <1>6 DEF Exact, Holders
<1> QED BY <1>7 DEF n

\* The current frame becomes an output frame.
LEMMA CurrentToOutput ==
  ASSUME NEW m, NEW map, NEW out, NEW c \in Buffers, Exact(m, map, out, c)
  PROVE  Exact(m, map, Append(out, c), NULL)
<1>1. out \in Seq(Buffers) /\ Append(out, c) \in Seq(Buffers)
  BY DEF Exact
<1>2. ASSUME NEW b \in Buffers
      PROVE  m.count[b] = Times(map, b) + Times(Append(out, c), b) + One(NULL, b)
  <2>1. One(NULL, b) = 0
    BY Places DEF One
  <2>2. Times(Append(out, c), b) = Times(out, b) + One(c, b)
    BY <1>1, TimesOut
  <2> QED BY <2>1, <2>2, ExactParts
<1> QED BY <1>1, <1>2 DEF Exact, Holders

\* The output frames are given up.
LEMMA OutputGivenUp ==
  ASSUME NEW m, NEW map, NEW out, NEW c, Exact(m, map, out, c)
  PROVE  Exact(DecreaseAll(m, out), map, <<>>, c)
<1>1. m \in Memories /\ \A d \in m.raw : m.count[d] > 0
  BY DEF Exact
<1>2. \A d \in Buffers : Times(out, d) \in Nat /\ Times(out, d) <= m.count[d]
  BY ExactParts
<1>3. DecreaseAll(m, out) \in Memories
      /\ (\A d \in Buffers : DecreaseAll(m, out).count[d] = m.count[d] - Times(out, d))
      /\ \A d \in DecreaseAll(m, out).raw : DecreaseAll(m, out).count[d] > 0
  BY <1>1, <1>2, DecreaseAllParts
<1>4. ASSUME NEW b \in Buffers
      PROVE  DecreaseAll(m, out).count[b] = Times(map, b) + Times(<<>>, b) + One(c, b)
  <2>1. Times(<<>>, b) = 0
    BY NoTimes
  <2> QED BY <1>3, <2>1, ExactParts
<1>5. <<>> \in Seq(Buffers)
  OBVIOUS
<1> QED BY <1>3, <1>4, <1>5 DEF Exact

\* All slots are emptied.
LEMMA SlotsGivenUp ==
  ASSUME NEW m, NEW map, NEW out, NEW c, Exact(m, map, out, c)
  PROVE  Exact(DecreaseAll(m, map), NoRefs, out, c)
<1>1. m \in Memories /\ \A d \in m.raw : m.count[d] > 0
  BY DEF Exact
<1>2. \A d \in Buffers : Times(map, d) \in Nat /\ Times(map, d) <= m.count[d]
  BY ExactParts
<1>3. DecreaseAll(m, map) \in Memories
      /\ (\A d \in Buffers : DecreaseAll(m, map).count[d] = m.count[d] - Times(map, d))
      /\ \A d \in DecreaseAll(m, map).raw : DecreaseAll(m, map).count[d] > 0
  BY <1>1, <1>2, DecreaseAllParts
<1>4. ASSUME NEW b \in Buffers
      PROVE  DecreaseAll(m, map).count[b] = Times(NoRefs, b) + Times(out, b) + One(c, b)
  <2>1. DOMAIN NoRefs = Slots /\ \A i \in Slots : NoRefs[i] # b
    BY Places DEF NoRefs
  <2>2. Times(NoRefs, b) = 0
    BY <2>1, Places, TimesType
  <2> QED BY <1>3, <2>2, ExactParts
<1>5. NoRefs \in Maps
  BY DEF NoRefs, Maps, Holders
<1> QED BY <1>3, <1>4, <1>5 DEF Exact

\* One slot is emptied.
LEMMA SlotGivenUp ==
  ASSUME NEW m, NEW map, NEW out, NEW c, Exact(m, map, out, c), NEW i \in Slots
  PROVE  Exact(Decrease(m, map[i]), [map EXCEPT ![i] = NULL], out, c)
<1> DEFINE n == [map EXCEPT ![i] = NULL]
<1>1. m \in Memories /\ (\A d \in m.raw : m.count[d] > 0) /\ map \in Maps
  BY DEF Exact
<1>2. n \in Maps
  BY <1>1 DEF Maps, Holders
<1>3. CASE map[i] = NULL
  <2>1. n = map
    BY <1>1, <1>3 DEF Maps
  <2>2. Decrease(m, map[i]) = m
    BY <1>3 DEF Decrease
  <2> QED BY <2>1, <2>2
<1>4. CASE map[i] # NULL
  <2> DEFINE o == map[i]
  <2>1. o \in Buffers
    BY <1>1, <1>4 DEF Maps, Holders
  <2>2. ASSUME NEW b \in Buffers
        PROVE  Times(n, b) = Times(map, b) - One(o, b) /\ One(o, b) <= Times(map, b)
    <3>1. map = [j \in Slots |-> map[j]]
      BY <1>1 DEF Maps
    <3>2. One(NULL, b) = 0
      BY Places DEF One
    <3>3. Times(n, b) = Times(map, b) - One(o, b) + One(NULL, b) /\ One(o, b) <= Times(map, b)
          /\ Times(map, b) \in Nat
      BY <3>1, Places, TimesExcept
    <3>4. One(o, b) \in {0, 1}
      BY DEF One
    <3> QED BY <3>2, <3>3, <3>4
  <2> HIDE DEF o, n
  <2>3. m.count[o] > 0
    <3>1. One(o, o) = 1
      BY DEF One
    <3> QED BY <2>1, <2>2, <3>1, ExactParts
  <2>4. Decrease(m, o) \in Memories
        /\ (\A d \in Buffers : Decrease(m, o).count[d] = m.count[d] - One(o, d))
        /\ \A d \in Decrease(m, o).raw : Decrease(m, o).count[d] > 0
    BY <1>1, <2>1, <2>3, DecreaseParts
  <2>5. ASSUME NEW b \in Buffers
        PROVE  Decrease(m, o).count[b] = Times(n, b) + Times(out, b) + One(c, b)
    <3>1. One(o, b) \in {0, 1}
      BY DEF One
    <3> QED BY <2>2, <2>4, <3>1, ExactParts
  <2>6. Exact(Decrease(m, o), n, out, c)
    BY <1>2, <2>4, <2>5 DEF Exact
  <2> QED BY <2>6 DEF o, n
<1> QED BY <1>3, <1>4

\* An empty slot gets a buffer, and the buffer memory.
LEMMA SlotFilled ==
  ASSUME NEW m, NEW map, NEW out, NEW c, Exact(m, map, out, c),
         NEW i \in Slots, map[i] = NULL, NEW b \in Buffers
  PROVE  Exact([Increase(m, b, 1) EXCEPT !.raw = @ \cup {b}], [map EXCEPT ![i] = b], out, c)
<1> DEFINE n == [map EXCEPT ![i] = b]
           k == [Increase(m, b, 1) EXCEPT !.raw = @ \cup {b}]
<1>1. m \in Memories /\ (\A d \in m.raw : m.count[d] > 0) /\ map \in Maps
  BY DEF Exact
<1>2. n \in Maps
  BY <1>1 DEF Maps, Holders
<1>3. Increase(m, b, 1) \in Memories /\ Increase(m, b, 1).raw = m.raw
      /\ (\A d \in Buffers : Increase(m, b, 1).count[d] = m.count[d] + (IF b = d THEN 1 ELSE 0))
      /\ \A d \in m.raw : Increase(m, b, 1).count[d] > 0
  BY <1>1, IncreaseParts
<1>4. k \in Memories /\ k.raw = m.raw \cup {b} /\ k.count = Increase(m, b, 1).count
  BY <1>3 DEF Memories
<1>5. ASSUME NEW d \in Buffers
      PROVE  Times(n, d) = Times(map, d) + One(b, d)
  <2>1. map = [j \in Slots |-> map[j]]
    BY <1>1 DEF Maps
  <2>2. One(NULL, d) = 0
    BY Places DEF One
  <2>3. Times(n, d) = Times(map, d) - One(NULL, d) + One(b, d) /\ Times(map, d) \in Nat
    BY <2>1, Places, TimesExcept
  <2> QED BY <2>2, <2>3
<1> HIDE DEF n, k
<1>6. ASSUME NEW d \in Buffers
      PROVE  k.count[d] = Times(n, d) + Times(out, d) + One(c, d)
  <2>1. One(b, d) = IF b = d THEN 1 ELSE 0
    BY DEF One
  <2> QED BY <1>3, <1>4, <1>5, <2>1, ExactParts
<1>7. k.count[b] > 0
  <2>1. m.count[b] \in Nat
    BY ExactParts
  <2> QED BY <1>3, <1>4, <2>1
<1>8. Exact(k, n, out, c)
  BY <1>2, <1>3, <1>4, <1>6, <1>7 DEF Exact
<1> QED BY <1>8 DEF n, k

\* The slots of R give up their frames for the current one.
LEMMA SlotsRefreshed ==
  ASSUME NEW m, NEW map, NEW out, NEW c \in Buffers, Exact(m, map, out, c),
         NEW R \in SUBSET Slots
  PROVE  Exact(Increase(DecreaseAll(m, Part(map, R)), c, Cardinality(R)),
               Replaced(map, Slots, R, c), out, c)
<1> DEFINE p == Part(map, R)
           n == Replaced(map, Slots, R, c)
           k == DecreaseAll(m, p)
           j == Increase(k, c, Cardinality(R))
<1>1. m \in Memories /\ (\A d \in m.raw : m.count[d] > 0) /\ map \in Maps /\ DOMAIN map = Slots
  BY DEF Exact, Maps
<1>2. n \in Maps
  BY <1>1 DEF Replaced, Maps, Holders
<1>3. \A b \in Buffers :
          /\ Times(n, b) = Times(map, b) - Times(p, b) + (IF c = b THEN Cardinality(R) ELSE 0)
          /\ Times(p, b) \in Nat /\ Times(map, b) \in Nat /\ Times(p, b) <= Times(map, b)
  <2>1. R \subseteq Slots /\ IsFiniteSet(Slots)
    BY Places
  <2> TAKE b \in Buffers
  <2> QED BY <1>1, <2>1, TimesReplaced
<1>4. Cardinality(R) \in Nat
  BY Places, FS_Subset, FS_CardinalityType
<1> HIDE DEF p, n
<1>5. \A d \in Buffers : Times(p, d) \in Nat /\ Times(p, d) <= m.count[d]
  BY <1>3, ExactParts
<1>6. k \in Memories
      /\ (\A d \in Buffers : k.count[d] = m.count[d] - Times(p, d))
      /\ \A d \in k.raw : k.count[d] > 0
  BY <1>1, <1>5, DecreaseAllParts
<1> HIDE DEF k
<1>7. j \in Memories /\ j.raw = k.raw
      /\ (\A d \in Buffers : j.count[d] = k.count[d] + (IF c = d THEN Cardinality(R) ELSE 0))
      /\ \A d \in k.raw : j.count[d] > 0
  BY <1>4, <1>6, IncreaseParts
<1> HIDE DEF j
<1>8. ASSUME NEW b \in Buffers
      PROVE  j.count[b] = Times(n, b) + Times(out, b) + One(c, b)
  <2>1. /\ m.count[b] \in Nat /\ Times(out, b) \in Nat /\ One(c, b) \in {0, 1}
        /\ m.count[b] = Times(map, b) + Times(out, b) + One(c, b)
    BY ExactParts
  <2>2. j.count[b] = m.count[b] - Times(p, b) + (IF c = b THEN Cardinality(R) ELSE 0)
    BY <1>6, <1>7
  <2>3. (IF c = b THEN Cardinality(R) ELSE 0) \in Nat
    BY <1>4
  <2> QED BY <1>3, <2>1, <2>2, <2>3
<1>9. Exact(j, n, out, c)
  BY <1>2, <1>7, <1>8 DEF Exact
<1> QED BY <1>9 DEF j, k, p, n

\* The pigeonhole argument: if a slot is empty, or there is no current frame, not
\* every buffer has a holder.
LEMMA FreeIsFound ==
  ASSUME NEW m, NEW map, NEW out, NEW c, Exact(m, map, out, c), Len(out) <= MaxLayers,
         c = NULL \/ \E i \in Slots : map[i] = NULL
  PROVE  Free(m) # {}
<1> SUFFICES ASSUME Free(m) = {} PROVE FALSE
  OBVIOUS
<1> DEFINE Full == {i \in Slots : map[i] # NULL}
<1>1. out \in Seq(Buffers) /\ Len(out) \in Nat /\ DOMAIN out = 1..Len(out)
      /\ DOMAIN map = Slots /\ \A i \in Slots : map[i] \in Holders
  BY DEF Exact, Maps
<1> DEFINE InSlots == {map[i] : i \in Full}
           InOut == {out[i] : i \in 1..Len(out)}
           Current == IF c = NULL THEN {} ELSE {c}
<1>2. IsFiniteSet(Full) /\ Cardinality(Full) \in Nat /\ Cardinality(Full) <= NumSlots
      /\ (c # NULL => Cardinality(Full) < NumSlots)
  <2>1. Full \in SUBSET Slots
    OBVIOUS
  <2>2. IsFiniteSet(Full) /\ Cardinality(Full) \in Nat /\ Cardinality(Full) <= NumSlots
        /\ (Cardinality(Full) = NumSlots => Slots = Full)
    BY <2>1, Places, FS_Subset, FS_CardinalityType
  <2>3. c # NULL => Full # Slots
    OBVIOUS
  <2> QED BY <2>2, <2>3, Places
<1>3. IsFiniteSet(InSlots) /\ Cardinality(InSlots) <= Cardinality(Full)
  <2>1. [i \in Full |-> map[i]] \in Surjection(Full, InSlots)
    BY DEF Surjection
  <2> HIDE DEF Full, InSlots
  <2> QED BY <1>2, <2>1, FS_Surjection
<1>4. IsFiniteSet(InOut) /\ Cardinality(InOut) <= Len(out)
  <2> DEFINE D == 1..Len(out)
  <2>1. [i \in D |-> out[i]] \in Surjection(D, InOut)
    BY DEF Surjection
  <2>2. IsFiniteSet(D) /\ Cardinality(D) = Len(out)
    <3>1. 1 \in Int /\ Len(out) \in Int
      BY <1>1
    <3>2. IsFiniteSet(D) /\ Cardinality(D) = IF 1 > Len(out) THEN 0 ELSE Len(out) - 1 + 1
      BY <3>1, FS_Interval
    <3> HIDE DEF D
    <3> QED BY <1>1, <3>2
  <2> HIDE DEF D, InOut
  <2> QED BY <2>1, <2>2, FS_Surjection
<1>5. IsFiniteSet(Current) /\ Cardinality(Current) = IF c = NULL THEN 0 ELSE 1
  BY FS_EmptySet, FS_Singleton
<1>6. Buffers \subseteq (InSlots \cup InOut) \cup Current
  <2> SUFFICES ASSUME NEW b \in Buffers, b \notin InSlots, b \notin InOut, b \notin Current
               PROVE  FALSE
    OBVIOUS
  <2>1. Times(map, b) = 0
    <3>1. \A i \in Slots : map[i] # b
      BY Places
    <3> QED BY <3>1, ExactParts
  <2>2. Times(out, b) = 0
    <3>1. \A i \in DOMAIN out : out[i] # b
      BY <1>1
    <3>2. IsFiniteSet(DOMAIN out)
      BY <1>1, TimesOut
    <3> QED BY <3>1, <3>2, TimesType
  <2>3. One(c, b) = 0
    BY Places DEF One
  <2>4. m.count[b] = Times(map, b) + Times(out, b) + One(c, b)
    BY ExactParts
  <2>5. m.count[b] = 0
    BY <2>1, <2>2, <2>3, <2>4
  <2> QED BY <2>5 DEF Free
<1>7. Cardinality(Buffers) <= Cardinality(InSlots) + Cardinality(InOut) + Cardinality(Current)
  <2> HIDE DEF InSlots, InOut, Current
  <2> DEFINE U == InSlots \cup InOut
  <2>1. IsFiniteSet(U) /\ Cardinality(U) <= Cardinality(InSlots) + Cardinality(InOut)
    <3>1. IsFiniteSet(InSlots \cap InOut) /\ Cardinality(InSlots \cap InOut) \in Nat
      BY <1>3, FS_Intersection, FS_CardinalityType
    <3>2. IsFiniteSet(U) /\ Cardinality(U) =
            Cardinality(InSlots) + Cardinality(InOut) - Cardinality(InSlots \cap InOut)
      BY <1>3, <1>4, FS_Union
    <3>3. Cardinality(InSlots) \in Nat /\ Cardinality(InOut) \in Nat
      BY <1>3, <1>4, FS_CardinalityType
    <3> QED BY <3>1, <3>2, <3>3
  <2> HIDE DEF U
  <2>2. IsFiniteSet(U \cup Current) /\ Cardinality(U \cup Current) <= Cardinality(U) + Cardinality(Current)
    <3>1. IsFiniteSet(U \cap Current) /\ Cardinality(U \cap Current) \in Nat
      BY <2>1, FS_Intersection, FS_CardinalityType
    <3>2. IsFiniteSet(U \cup Current) /\ Cardinality(U \cup Current) =
            Cardinality(U) + Cardinality(Current) - Cardinality(U \cap Current)
      BY <1>5, <2>1, FS_Union
    <3>3. Cardinality(U) \in Nat /\ Cardinality(Current) \in Nat
      BY <1>5, <2>1, FS_CardinalityType
    <3> QED BY <3>1, <3>2, <3>3
  <2>3. Cardinality(Buffers) <= Cardinality(U \cup Current)
    <3>1. Buffers \in SUBSET (U \cup Current)
      BY <1>6 DEF U
    <3> QED BY <2>2, <3>1, FS_Subset
  <2>4. Cardinality(U) \in Nat /\ Cardinality(Current) \in Nat /\ Cardinality(U \cup Current) \in Nat
        /\ Cardinality(InSlots) \in Nat /\ Cardinality(InOut) \in Nat /\ Cardinality(Buffers) \in Nat
    BY <1>3, <1>4, <1>5, <2>1, <2>2, Places, FS_CardinalityType
  <2> QED BY <2>1, <2>2, <2>3, <2>4
<1>8. Cardinality(InSlots) \in Nat /\ Cardinality(InOut) \in Nat
  BY <1>3, <1>4, FS_CardinalityType
<1> HIDE DEF Full, InSlots, InOut, Current
<1> QED BY <1>1, <1>2, <1>3, <1>4, <1>5, <1>7, <1>8, Places

-----------------------------------------------------------------------------
\* The steps.

\* An operation on counts and memory that goes with the holders' change keeps
\* the state exact.
LEMMA BecomesExact ==
  ASSUME NEW m, NEW map, NEW out, NEW c, Exact(m, map, out, c), Becomes(m),
         ref_frame_map' = map, output_frames' = out, cur_frame' = c
  PROVE  Exact(Now, ref_frame_map, output_frames, cur_frame)'
<1>1. Exact([count |-> m.count, raw |-> m.raw], map, out, c)
  BY ExactFields
<1>2. Now' = [count |-> m.count, raw |-> m.raw]
  BY DEF Now, Becomes
<1> QED BY <1>1, <1>2 DEF Exact

\* Until it is decoded, the current frame is held once, and by no slot.
LEMMA FreshCurrent ==
  ASSUME IInv, phase \in {"header", "refs", "failed", "tiles"}
  PROVE  /\ cur_frame \in Buffers /\ Now.count[cur_frame] = 1
         /\ Times(output_frames, cur_frame) = 0
         /\ \A i \in Slots : ref_frame_map[i] # cur_frame
<1>1. cur_frame \in Buffers
  BY DEF IInv, Exact, Holders, CurrentInFrame, InFrame
<1>2. Times(ref_frame_map, cur_frame) = 0 /\ Times(output_frames, cur_frame) = 0
  BY DEF IInv, CurrentIsFresh
<1>3. One(cur_frame, cur_frame) = 1
  BY DEF One
<1>4. Exact(Now, ref_frame_map, output_frames, cur_frame)
  BY DEF IInv
<1>5. /\ Times(ref_frame_map, cur_frame) = 0 <=> \A i \in Slots : ref_frame_map[i] # cur_frame
      /\ Now.count[cur_frame] = Times(ref_frame_map, cur_frame)
             + Times(output_frames, cur_frame) + One(cur_frame, cur_frame)
  BY <1>1, <1>4, ExactParts
<1> QED BY <1>1, <1>2, <1>3, <1>5

\* Each action keeps the counts exact.
LEMMA InitIInv == Init => IInv
<1> SUFFICES ASSUME Init PROVE IInv
  OBVIOUS
<1> USE DEF Init
<1>1. Types
  BY Places, FrameBuffersAssumption DEF Types, Frames, NoHeader, InFrame
<1>2. Exact(Now, ref_frame_map, output_frames, cur_frame)
  <2>1. Now \in Memories /\ Now.raw = {} /\ \A b \in Buffers : Now.count[b] = 0
    BY DEF Now, Memories
  <2>2. ref_frame_map \in Maps /\ output_frames \in Seq(Buffers) /\ cur_frame \in Holders
    BY DEF Maps, Holders
  <2>3. ASSUME NEW b \in Buffers
        PROVE  Times(ref_frame_map, b) = 0 /\ Times(output_frames, b) = 0 /\ One(cur_frame, b) = 0
    <3>1. DOMAIN ref_frame_map = Slots /\ \A i \in Slots : ref_frame_map[i] # b
      BY Places
    <3>2. Times(ref_frame_map, b) = 0
      BY <3>1, Places, TimesType
    <3> QED BY <3>2, NoTimes, Places DEF One
  <2> QED BY <2>1, <2>2, <2>3 DEF Exact
<1> QED BY <1>1, <1>2 DEF IInv, CurrentInFrame, CurrentIsFresh, HeaderHasNoMemory,
    NeverExhausted, InFrame

\* A step that ends a frame, or changes nothing of it: the parts of the
\* invariant about the current frame are met where there is none.
LEMMA NoCurrent ==
  ASSUME Exact(Now, ref_frame_map, output_frames, cur_frame)', Types',
         cur_frame' = NULL, phase' \in {"app", "loop"}, NeverExhausted'
  PROVE  IInv'
BY DEF IInv, CurrentInFrame, CurrentIsFresh, HeaderHasNoMemory, NeverExhausted, InFrame

\* What FrameOver leaves is well typed.
LEMMA OverTypes ==
  ASSUME IInv, NEW map, FrameOver(map), phase' \in {"app", "loop"}, need_resync' \in BOOLEAN,
         UNCHANGED output_all_layers, Len(output_frames') <= MaxLayers
  PROVE  Types'
<1>1. frame' \in Frames /\ ref_idx' \in 0..NumSlots
  BY Places DEF FrameOver, NoHeader, Frames
<1>2. showable' \subseteq showable /\ key' \subseteq key
  BY DEF FrameOver
<1> QED BY <1>1, <1>2 DEF IInv, Types

\* Decode keeps the invariant.
LEMMA DecodeKept == ASSUME IInv, Decode PROVE IInv'
<1>1. cur_frame = NULL
  BY DEF IInv, Decode, CurrentInFrame, InFrame
<1>2. Exact(DecreaseAll(Now, output_frames), ref_frame_map, <<>>, cur_frame)
  BY OutputGivenUp DEF IInv
<1>3. Exact(Now, ref_frame_map, output_frames, cur_frame)'
  BY <1>2, BecomesExact DEF Decode
<1>4. Types'
  BY Places DEF IInv, Types, Decode
<1>5. NeverExhausted'
  BY DEF IInv, NeverExhausted, Decode
<1> QED BY <1>1, <1>3, <1>4, <1>5, NoCurrent DEF Decode

\* EndOfData keeps the invariant.
LEMMA EndOfDataKept == ASSUME IInv, EndOfData PROVE IInv'
<1>1. Exact(Now, ref_frame_map, output_frames, cur_frame)'
  BY DEF IInv, EndOfData, bufferVars, Exact, Now
<1> QED BY <1>1 DEF IInv, Types, EndOfData, CurrentInFrame, CurrentIsFresh, HeaderHasNoMemory,
    NeverExhausted, InFrame, bufferVars

\* StartFrame keeps the invariant.
LEMMA StartFrameKept == ASSUME IInv, StartFrame PROVE IInv'
<1> DEFINE c == FirstFree(Now)
<1>1. cur_frame = NULL /\ Exact(Now, ref_frame_map, output_frames, NULL)
      /\ Len(output_frames) <= MaxLayers
  BY DEF IInv, StartFrame, CurrentInFrame, InFrame, Types
<1>2. Free(Now) # {}
  BY <1>1, FreeIsFound
<1>3. c \in Buffers /\ Now.count[c] = 0
  BY <1>2, FirstFreeIsFree
<1> HIDE DEF c
<1>4. cur_frame' = c /\ Becomes(Increase(Now, c, 1)) /\ phase' = "header"
      /\ UNCHANGED <<need_resync, exhausted, output_all_layers, showable, key, ref_frame_map,
                     output_frames, frame, ref_idx>>
  BY <1>2 DEF StartFrame, c
<1>5. Exact(Increase(Now, c, 1), ref_frame_map, output_frames, c)
      /\ Increase(Now, c, 1).raw = Now.raw
  BY <1>1, <1>3, CurrentTaken
<1>6. Exact(Now, ref_frame_map, output_frames, cur_frame)'
  BY <1>4, <1>5, BecomesExact
<1>7. Types'
  BY <1>4 DEF IInv, Types, InFrame
<1>8. CurrentInFrame'
  BY <1>3, <1>4, Places DEF CurrentInFrame, InFrame
<1>9. Times(ref_frame_map, c) = 0 /\ Times(output_frames, c) = 0
  BY <1>1, <1>3, ExactParts
<1>10. CurrentIsFresh'
  BY <1>4, <1>9 DEF CurrentIsFresh
<1>11. HeaderHasNoMemory'
  <2>1. c \notin Now.raw
    BY <1>1, <1>3 DEF Exact
  <2> QED BY <1>4, <1>5, <2>1 DEF HeaderHasNoMemory, Becomes, Now
<1> QED BY <1>4, <1>6, <1>7, <1>8, <1>10, <1>11 DEF IInv, NeverExhausted

\* NoFrame keeps the invariant.
LEMMA NoFrameKept == ASSUME IInv, NoFrame PROVE IInv'
<1>1. cur_frame \in Buffers
  BY FreshCurrent DEF NoFrame
<1>2. Exact(Decrease(Now, cur_frame), ref_frame_map, output_frames, NULL)
  BY <1>1, CurrentGivenUp DEF IInv
<1>3. Exact(Now, ref_frame_map, output_frames, cur_frame)'
  BY <1>2, BecomesExact DEF NoFrame
<1>4. Types'
  BY OverTypes DEF NoFrame, IInv, Types
<1>5. NeverExhausted'
  BY DEF NoFrame, IInv, NeverExhausted
<1> QED BY <1>3, <1>4, <1>5, NoCurrent DEF NoFrame

\* Fail keeps the invariant.
LEMMA FailKept == ASSUME IInv, Fail PROVE IInv'
<1>1. cur_frame \in Buffers
  BY DEF IInv, Fail, CurrentInFrame, Exact, Holders
<1>2. Exact(Decrease(Now, cur_frame), ref_frame_map, output_frames, NULL)
  BY <1>1, CurrentGivenUp DEF IInv
<1>3. Exact(Now, ref_frame_map, output_frames, cur_frame)'
  BY <1>2, BecomesExact DEF Fail
<1>4. Types'
  BY OverTypes DEF Fail, IInv, Types
<1>5. NeverExhausted'
  BY DEF Fail, IInv, NeverExhausted
<1> QED BY <1>3, <1>4, <1>5, NoCurrent DEF Fail

\* The frame of a slot becomes the current one in place of the new buffer.
LEMMA SlotShown ==
  ASSUME IInv, phase = "header", NEW i \in Slots, ref_frame_map[i] # NULL
  PROVE  LET b == ref_frame_map[i]
         IN /\ b \in Buffers
            /\ Exact([Now EXCEPT !.count[cur_frame] = @ - 1, !.count[b] = @ + 1],
                     ref_frame_map, output_frames, b)
<1> DEFINE b == ref_frame_map[i]
<1>1. cur_frame \in Buffers /\ Now.count[cur_frame] = 1 /\ b # cur_frame
  BY FreshCurrent
<1>2. b \in Buffers
  BY DEF IInv, Exact, Maps, Holders
<1>3. cur_frame \notin Now.raw
  BY DEF IInv, HeaderHasNoMemory, Now
<1> HIDE DEF b
<1>4. Exact([Now EXCEPT !.count[cur_frame] = @ - 1, !.count[b] = @ + 1],
            ref_frame_map, output_frames, b)
  BY <1>1, <1>2, <1>3, CurrentExchanged DEF IInv
<1> QED BY <1>2, <1>4 DEF b

\* ShowExisting keeps the invariant.
LEMMA ShowExistingKept == ASSUME IInv, ShowExisting PROVE IInv'
<1>1. PICK i \in Slots :
        LET b == ref_frame_map[i]
            m == [Now EXCEPT !.count[cur_frame] = @ - 1, !.count[b] = @ + 1]
        IN /\ b # NULL /\ b \in showable
           /\ cur_frame' = b
           /\ IF b \in key
              THEN /\ showable' = showable \ {b}
                   /\ frame' = [kind |-> "key", show |-> TRUE, refresh |-> Slots]
                   /\ need_resync' = FALSE
                   /\ Becomes(IF need_resync THEN Emptied(m) ELSE m)
                   /\ ref_frame_map' = IF need_resync THEN NoRefs ELSE ref_frame_map
              ELSE /\ frame' = [kind |-> "existing", show |-> TRUE, refresh |-> {}]
                   /\ Becomes(m)
                   /\ UNCHANGED <<showable, need_resync, ref_frame_map>>
  BY DEF ShowExisting
<1> DEFINE b == ref_frame_map[i]
           m == [Now EXCEPT !.count[cur_frame] = @ - 1, !.count[b] = @ + 1]
<1>2. phase = "header" /\ phase' = "decoded"
      /\ UNCHANGED <<output_all_layers, key, output_frames, ref_idx, exhausted>>
  BY DEF ShowExisting
<1>3. b \in Buffers /\ Exact(m, ref_frame_map, output_frames, b)
  BY <1>1, <1>2, SlotShown
<1>4. Exact(Now, ref_frame_map, output_frames, cur_frame)'
  <2> HIDE DEF m
  <2>1. CASE b \in key /\ need_resync
    <3>1. Exact(Emptied(m), NoRefs, output_frames, b)
      BY <1>3, SlotsGivenUp DEF Emptied
    <3>2. cur_frame' = b /\ Becomes(Emptied(m)) /\ ref_frame_map' = NoRefs
      BY <1>1, <2>1 DEF m
    <3> QED BY <1>2, <3>1, <3>2, BecomesExact
  <2>2. CASE ~(b \in key /\ need_resync)
    <3>1. cur_frame' = b /\ Becomes(m) /\ ref_frame_map' = ref_frame_map
      <4>1. need_resync \in BOOLEAN
        BY DEF IInv, Types
      <4> QED BY <1>1, <2>2, <4>1 DEF m
    <3> QED BY <1>2, <1>3, <3>1, BecomesExact
  <2> QED BY <2>1, <2>2
<1>5. Types'
  <2>1. frame' \in Frames
    <3>1. \/ frame' = [kind |-> "key", show |-> TRUE, refresh |-> Slots]
          \/ frame' = [kind |-> "existing", show |-> TRUE, refresh |-> {}]
      BY <1>1
    <3>2. [kind |-> "key", show |-> TRUE, refresh |-> Slots] \in Frames
      BY DEF Frames
    <3>3. [kind |-> "existing", show |-> TRUE, refresh |-> {}] \in Frames
      BY DEF Frames
    <3> QED BY <3>1, <3>2, <3>3
  <2>2. showable' \subseteq showable /\ need_resync' \in BOOLEAN
    BY <1>1 DEF IInv, Types
  <2> QED BY <1>2, <2>1, <2>2 DEF IInv, Types, InFrame
<1>6. cur_frame' = b
  BY <1>1
<1> QED BY <1>2, <1>3, <1>4, <1>5, <1>6, Places DEF IInv, CurrentInFrame, CurrentIsFresh,
    HeaderHasNoMemory, NeverExhausted, InFrame

\* ShowUnshowable keeps the invariant.
LEMMA ShowUnshowableKept == ASSUME IInv, ShowUnshowable PROVE IInv'
<1>1. PICK i \in Slots :
        /\ ref_frame_map[i] # NULL
        /\ Becomes(Decrease([Now EXCEPT !.count[cur_frame] = @ - 1,
                                        !.count[ref_frame_map[i]] = @ + 1], ref_frame_map[i]))
  BY DEF ShowUnshowable
<1> DEFINE b == ref_frame_map[i]
           m == [Now EXCEPT !.count[cur_frame] = @ - 1, !.count[b] = @ + 1]
<1>2. b \in Buffers /\ Exact(m, ref_frame_map, output_frames, b)
  BY <1>1, SlotShown DEF ShowUnshowable
<1>3. Exact(Decrease(m, b), ref_frame_map, output_frames, NULL)
  BY <1>2, CurrentGivenUp
<1>4. Exact(Now, ref_frame_map, output_frames, cur_frame)'
  BY <1>1, <1>3, BecomesExact DEF ShowUnshowable
<1>5. Types'
  BY OverTypes DEF ShowUnshowable, IInv, Types
<1>6. NeverExhausted'
  BY DEF ShowUnshowable, IInv, NeverExhausted
<1> QED BY <1>4, <1>5, <1>6, NoCurrent DEF ShowUnshowable

\* Header keeps the invariant.
LEMMA HeaderKept == ASSUME IInv, Header PROVE IInv'
<1>1. PICK kind \in {"key", "intra", "inter"}, show \in BOOLEAN, later \in BOOLEAN,
           sequence \in BOOLEAN :
        /\ \E refresh \in Refreshes(kind, show) :
            frame' = [kind |-> kind, show |-> show, refresh |-> refresh]
        /\ showable' = IF (IF show THEN kind # "key" ELSE later) THEN showable \cup {cur_frame}
                       ELSE showable \ {cur_frame}
        /\ key' = IF kind = "key" THEN key \cup {cur_frame} ELSE key \ {cur_frame}
        /\ IF sequence \/ (need_resync /\ kind # "inter")
           THEN Becomes(Emptied(Now)) /\ ref_frame_map' = NoRefs
           ELSE UNCHANGED <<bufferVars, ref_frame_map>>
        /\ need_resync' = (need_resync /\ kind = "inter")
  BY DEF Header
<1>2. phase = "header" /\ phase' = "refs"
      /\ UNCHANGED <<output_all_layers, cur_frame, output_frames, ref_idx, exhausted>>
  BY DEF Header
<1>3. cur_frame \in Buffers /\ Times(output_frames, cur_frame) = 0
      /\ Exact(Now, ref_frame_map, output_frames, cur_frame)
      /\ Times(ref_frame_map, cur_frame) = 0
  BY <1>2, FreshCurrent DEF IInv, CurrentIsFresh
<1>4. \/ Becomes(Emptied(Now)) /\ ref_frame_map' = NoRefs
      \/ UNCHANGED <<bufferVars, ref_frame_map>>
  BY <1>1
<1>5. Exact(Now, ref_frame_map, output_frames, cur_frame)' /\ Times(ref_frame_map', cur_frame) = 0
  <2>1. CASE Becomes(Emptied(Now)) /\ ref_frame_map' = NoRefs
    <3>1. Exact(Emptied(Now), NoRefs, output_frames, cur_frame)
      BY <1>3, SlotsGivenUp DEF Emptied
    <3>2. Exact(Now, ref_frame_map, output_frames, cur_frame)'
      BY <1>2, <2>1, <3>1, BecomesExact
    <3>3. DOMAIN NoRefs = Slots /\ \A i \in Slots : NoRefs[i] # cur_frame
      BY <1>3, Places DEF NoRefs
    <3>4. Times(NoRefs, cur_frame) = 0
      BY <3>3, Places, TimesType
    <3> QED BY <2>1, <3>2, <3>4
  <2>2. CASE UNCHANGED <<bufferVars, ref_frame_map>>
    BY <1>2, <1>3, <2>2 DEF Exact, Now, bufferVars
  <2> QED BY <1>4, <2>1, <2>2
<1>6. Types'
  <2>1. \A refresh \in Refreshes(kind, show) : refresh \subseteq Slots
    <3>1. CASE kind = "key" /\ show
      BY <3>1 DEF Refreshes
    <3>2. CASE kind = "intra"
      BY <3>2 DEF Refreshes
    <3>3. CASE ~(kind = "key" /\ show) /\ kind # "intra"
      <4>1. Refreshes(kind, show) = SUBSET Slots
        BY <3>3 DEF Refreshes
      <4> QED BY <4>1
    <3> QED BY <3>1, <3>2, <3>3
  <2>2. frame' \in Frames
    BY <1>1, <2>1 DEF Frames
  <2>3. showable' \subseteq Buffers /\ key' \subseteq Buffers /\ need_resync' \in BOOLEAN
    BY <1>1, <1>3 DEF IInv, Types
  <2> QED BY <1>2, <2>2, <2>3 DEF IInv, Types, InFrame
<1> QED BY <1>2, <1>3, <1>5, <1>6, Places DEF IInv, CurrentInFrame, CurrentIsFresh,
    HeaderHasNoMemory, NeverExhausted, InFrame

\* get_free_fb finds a buffer for the slot, since the slot has just been emptied.
LEMMA MissingRefKept == ASSUME IInv, MissingRef PROVE IInv'
<1>1. PICK i \in ref_idx..(NumSlots - 1) :
        /\ FillMissing(i)
        /\ ref_idx' = i + 1
        /\ phase' = IF ref_frame_map'[i] = NULL THEN "failed" ELSE "refs"
  BY DEF MissingRef
<1>2. phase = "refs"
      /\ UNCHANGED <<output_all_layers, showable, key, cur_frame, output_frames, need_resync, frame>>
  BY DEF MissingRef
<1>3. i \in Slots /\ i + 1 \in 0..NumSlots /\ phase' \in {"failed", "refs"}
  BY <1>1, Places DEF IInv, Types, Slots
<1>4. cur_frame \in Buffers /\ Times(output_frames, cur_frame) = 0
      /\ (\A j \in Slots : ref_frame_map[j] # cur_frame)
      /\ Exact(Now, ref_frame_map, output_frames, cur_frame)
      /\ Len(output_frames) <= MaxLayers
  BY <1>2, FreshCurrent DEF IInv, Types
<1> DEFINE m == Decrease(Now, ref_frame_map[i])
           n == [ref_frame_map EXCEPT ![i] = NULL]
           b == FirstFree(m)
<1>5. Exact(m, n, output_frames, cur_frame)
  BY <1>3, <1>4, SlotGivenUp
<1>6. n \in Maps /\ DOMAIN n = Slots /\ n[i] = NULL /\ n = [n EXCEPT ![i] = NULL]
      /\ [ref_frame_map EXCEPT ![i] = b] = [n EXCEPT ![i] = b]
      /\ \A j \in Slots : n[j] # cur_frame
  <2>1. ref_frame_map \in Maps
    BY <1>4 DEF Exact
  <2> HIDE DEF b
  <2> QED BY <1>3, <1>4, <2>1, Places DEF Maps, Holders
<1> HIDE DEF m, n, b
<1>7. Free(m) # {}
  BY <1>3, <1>4, <1>5, <1>6, FreeIsFound
<1>8. b \in Buffers /\ m.count[b] = 0
  BY <1>7, FirstFreeIsFree DEF b
<1>9. b # cur_frame
  <2>1. m.count[cur_frame] = Times(n, cur_frame) + Times(output_frames, cur_frame)
                             + One(cur_frame, cur_frame)
        /\ Times(n, cur_frame) \in Nat /\ Times(output_frames, cur_frame) \in Nat
    BY <1>4, <1>5, ExactParts
  <2>2. One(cur_frame, cur_frame) = 1
    BY DEF One
  <2> QED BY <1>8, <2>1, <2>2
<1>10. /\ UNCHANGED exhausted
       /\ \/ /\ Becomes([Increase(m, b, 1) EXCEPT !.raw = @ \cup {b}])
             /\ ref_frame_map' = [n EXCEPT ![i] = b]
          \/ Becomes(m) /\ ref_frame_map' = n
  <2>1. /\ UNCHANGED exhausted
        /\ \/ /\ Becomes([Increase(m, b, 1) EXCEPT !.raw = @ \cup {b}])
              /\ ref_frame_map' = [ref_frame_map EXCEPT ![i] = b]
           \/ Becomes(m) /\ ref_frame_map' = [ref_frame_map EXCEPT ![i] = NULL]
    BY <1>1, <1>7 DEF FillMissing, m, b
  <2> QED BY <1>6, <2>1 DEF n
<1>11. /\ Exact(Now, ref_frame_map, output_frames, cur_frame)'
       /\ \A j \in Slots : ref_frame_map'[j] # cur_frame
  <2>1. CASE /\ Becomes([Increase(m, b, 1) EXCEPT !.raw = @ \cup {b}])
             /\ ref_frame_map' = [n EXCEPT ![i] = b]
    <3>1. Exact([Increase(m, b, 1) EXCEPT !.raw = @ \cup {b}], [n EXCEPT ![i] = b],
                output_frames, cur_frame)
      BY <1>3, <1>5, <1>6, <1>8, SlotFilled
    <3>2. Exact(Now, ref_frame_map, output_frames, cur_frame)'
      BY <1>2, <2>1, <3>1, BecomesExact
    <3>3. \A j \in Slots : ref_frame_map'[j] # cur_frame
      BY <1>6, <1>9, <2>1
    <3> QED BY <3>2, <3>3
  <2>2. CASE Becomes(m) /\ ref_frame_map' = n
    <3>1. Exact(Now, ref_frame_map, output_frames, cur_frame)'
      BY <1>2, <1>5, <2>2, BecomesExact
    <3> QED BY <1>6, <2>2, <3>1
  <2> QED BY <1>10, <2>1, <2>2
<1>12. CurrentIsFresh'
  <2>1. DOMAIN ref_frame_map' = Slots
    BY <1>11 DEF Exact, Maps
  <2>2. Times(ref_frame_map', cur_frame) = 0
    BY <1>11, <2>1, Places, TimesType
  <2> QED BY <1>2, <1>4, <2>2 DEF CurrentIsFresh
<1>13. Types'
  BY <1>1, <1>2, <1>3 DEF IInv, Types, InFrame
<1>14. CurrentInFrame' /\ HeaderHasNoMemory'
  BY <1>2, <1>3, <1>4, Places DEF CurrentInFrame, HeaderHasNoMemory, InFrame
<1> QED BY <1>10, <1>11, <1>12, <1>13, <1>14 DEF IInv, NeverExhausted

\* StartTiles keeps the invariant.
LEMMA StartTilesKept == ASSUME IInv, StartTiles PROVE IInv'
<1>1. phase = "refs" /\ phase' = "tiles" /\ raw' = raw \cup {cur_frame}
      /\ UNCHANGED <<output_all_layers, ref_count, showable, key, cur_frame, ref_frame_map,
                     output_frames, need_resync, frame, ref_idx, exhausted>>
  BY DEF StartTiles
<1>2. cur_frame \in Buffers /\ Now.count[cur_frame] = 1
  BY <1>1, FreshCurrent
<1>3. Exact(Now, ref_frame_map, output_frames, cur_frame)'
  <2>1. Now.count = ref_count /\ Now.raw = raw /\ Now' = [count |-> ref_count, raw |-> raw']
        /\ Now'.count = ref_count /\ Now'.raw = raw'
    BY <1>1 DEF Now
  <2>2. Exact(Now, ref_frame_map, output_frames, cur_frame)
    BY DEF IInv
  <2>3. Now' \in Memories
    BY <1>1, <1>2, <2>1, <2>2 DEF Exact, Memories
  <2>4. \A d \in Now'.raw : Now'.count[d] > 0
    BY <1>1, <1>2, <2>1, <2>2 DEF Exact
  <2> QED BY <1>1, <2>1, <2>2, <2>3, <2>4 DEF Exact
<1> QED BY <1>1, <1>2, <1>3, Places DEF IInv, Types, CurrentInFrame, CurrentIsFresh,
    HeaderHasNoMemory, NeverExhausted, InFrame

\* DecodeTiles keeps the invariant.
LEMMA DecodeTilesKept == ASSUME IInv, DecodeTiles PROVE IInv'
<1>1. Exact(Now, ref_frame_map, output_frames, cur_frame)'
  BY DEF IInv, DecodeTiles, bufferVars, Exact, Now
<1> QED BY <1>1 DEF IInv, Types, DecodeTiles, CurrentInFrame, CurrentIsFresh,
    HeaderHasNoMemory, NeverExhausted, InFrame, bufferVars

\* The slots to refresh hold the frame, which goes to the output frames or is
\* given up.
LEMMA UpdateKept == ASSUME IInv, Update PROVE IInv'
<1> DEFINE m == Refresh(Now)
           c == cur_frame
<1>1. c \in Buffers /\ frame.refresh \in SUBSET Slots
      /\ Exact(Now, ref_frame_map, output_frames, c)
  BY DEF IInv, Update, CurrentInFrame, Exact, Holders, InFrame, Types, Frames
<1>2. phase = "decoded" /\ cur_frame' = NULL /\ FrameOver(ref_frame_map')
      /\ UNCHANGED <<output_all_layers, exhausted>>
      /\ ref_frame_map' = Replaced(ref_frame_map, Slots, frame.refresh, c)
  BY DEF Update, Replaced
<1>3. Exact(m, ref_frame_map', output_frames, c)
  <2>1. m = Increase(DecreaseAll(Now, Part(ref_frame_map, frame.refresh)), c,
                     Cardinality(frame.refresh))
    BY DEF Refresh, Part
  <2> HIDE DEF m, c
  <2> QED BY <1>1, <1>2, <2>1, SlotsRefreshed
<1>4. \/ /\ Becomes(Decrease(m, c)) /\ UNCHANGED output_frames
         /\ phase' \in {"app", "loop"} /\ need_resync' \in BOOLEAN
      \/ /\ Becomes(m) /\ output_frames' = Append(output_frames, c)
         /\ Len(output_frames) < MaxLayers
         /\ phase' \in {"app", "loop"} /\ need_resync' \in BOOLEAN
      \/ /\ Becomes(DecreaseAll(m, output_frames)) /\ output_frames' = <<c>>
         /\ phase' \in {"app", "loop"} /\ need_resync' \in BOOLEAN
  BY DEF Update, IInv, Types
<1> HIDE DEF m, c
<1>5. output_frames \in Seq(Buffers) /\ Len(output_frames) <= MaxLayers
  BY DEF IInv, Types, Exact
<1>6. /\ Exact(Now, ref_frame_map, output_frames, cur_frame)'
      /\ Len(output_frames') <= MaxLayers
  <2>1. CASE Becomes(Decrease(m, c)) /\ UNCHANGED output_frames
    <3>1. Exact(Decrease(m, c), ref_frame_map', output_frames, NULL)
      BY <1>1, <1>3, CurrentGivenUp
    <3>2. Exact(Now, ref_frame_map, output_frames, cur_frame)'
      BY <1>2, <2>1, <3>1, BecomesExact
    <3> QED BY <1>5, <2>1, <3>2
  <2>2. CASE Becomes(m) /\ output_frames' = Append(output_frames, c)
             /\ Len(output_frames) < MaxLayers
    <3>1. Exact(m, ref_frame_map', Append(output_frames, c), NULL)
      BY <1>1, <1>3, CurrentToOutput
    <3>2. Exact(Now, ref_frame_map, output_frames, cur_frame)'
      BY <1>2, <2>2, <3>1, BecomesExact
    <3> QED BY <1>1, <1>5, <2>2, <3>2, Places
  <2>3. CASE Becomes(DecreaseAll(m, output_frames)) /\ output_frames' = <<c>>
    <3>1. Exact(DecreaseAll(m, output_frames), ref_frame_map', <<>>, c)
      BY <1>3, OutputGivenUp
    <3>2. Exact(DecreaseAll(m, output_frames), ref_frame_map', Append(<<>>, c), NULL)
      BY <1>1, <3>1, CurrentToOutput
    <3>3. Append(<<>>, c) = <<c>>
      OBVIOUS
    <3>4. Exact(Now, ref_frame_map, output_frames, cur_frame)'
      BY <1>2, <2>3, <3>2, <3>3, BecomesExact
    <3> QED BY <2>3, <3>4, Places
  <2> QED BY <1>4, <2>1, <2>2, <2>3
<1>7. Types'
  BY <1>2, <1>4, <1>6, OverTypes
<1>8. NeverExhausted'
  BY <1>2 DEF IInv, NeverExhausted
<1> QED BY <1>2, <1>4, <1>6, <1>7, <1>8, NoCurrent

\* The invariant is inductive.
LEMMA NextIInv == IInv /\ [Next]_vars => IInv'
<1> SUFFICES ASSUME IInv, [Next]_vars PROVE IInv'
  OBVIOUS
<1>1. CASE UNCHANGED vars
  <2>1. Exact(Now, ref_frame_map, output_frames, cur_frame)'
    BY <1>1 DEF IInv, vars, bufferVars, Exact, Now
  <2> QED BY <1>1, <2>1 DEF IInv, vars, bufferVars, Types, CurrentInFrame, CurrentIsFresh,
      HeaderHasNoMemory, NeverExhausted
<1> QED BY <1>1, DecodeKept, EndOfDataKept, StartFrameKept, NoFrameKept, FailKept,
    ShowExistingKept, ShowUnshowableKept, HeaderKept, MissingRefKept, StartTilesKept,
    DecodeTilesKept, UpdateKept DEF Next

\* The invariant of the specification.
LEMMA Invariant == Spec => []IInv
BY InitIInv, NextIInv, PTL DEF Spec

-----------------------------------------------------------------------------
\* The theorems.

\* Whatever fails and wherever, ref_count is the number of variables that refer
\* to the buffer: the slots, the output frames and cur_frame.
THEOREM CountsCorrect == Spec => []CountsAreHolders
<1>1. IInv => CountsAreHolders
  <2> SUFFICES ASSUME IInv, NEW b \in Buffers
               PROVE  ref_count[b] = Times(ref_frame_map, b) + Times(output_frames, b)
                                     + (IF cur_frame = b THEN 1 ELSE 0)
    BY DEF CountsAreHolders
  <2>1. Now.count[b] = Times(ref_frame_map, b) + Times(output_frames, b) + One(cur_frame, b)
    BY DEF IInv, Exact
  <2> QED BY <2>1 DEF Now, One
<1> QED BY <1>1, Invariant, PTL

\* get_free_fb always finds a buffer: with one for each slot, each output frame
\* and the frame being decoded, FRAME_BUFFERS is large enough.
THEOREM BuffersSuffice == Spec => []NeverExhausted
<1>1. IInv => NeverExhausted
  BY DEF IInv
<1> QED BY <1>1, Invariant, PTL

\* A buffer has memory only while somebody refers to it, and the frame being
\* decoded is in a buffer that is nobody else's.
THEOREM MemoryCorrect == Spec => []MemoryGivenBack
<1>1. IInv => MemoryGivenBack
  <2> SUFFICES ASSUME IInv PROVE MemoryGivenBack
    OBVIOUS
  <2>1. \A b \in raw : ref_count[b] > 0
    BY DEF IInv, Exact, Now
  <2>2. phase \in {"header", "refs", "failed", "tiles"} => ref_count[cur_frame] = 1
    BY FreshCurrent DEF Now
  <2>3. phase = "header" => cur_frame \notin raw
    BY DEF IInv, HeaderHasNoMemory
  <2> QED BY <2>1, <2>2, <2>3 DEF MemoryGivenBack
<1> QED BY <1>1, Invariant, PTL

=============================================================================
