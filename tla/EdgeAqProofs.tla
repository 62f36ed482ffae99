---------------------------- MODULE EdgeAqProofs ----------------------------
(***************************************************************************)
(* Proofs about EdgeAq, for every number of units, segments, slots, sizes  *)
(* and recodes: no segment beyond the last active one is written, the      *)
(* decoder has the encoder's segments, and a frame that does not refresh   *)
(* them has those of its primary reference.                                *)
(*                                                                         *)
(* The invariant IInv says what cm->seg can be after the setup of a frame  *)
(* of each kind, also when the setup runs again for a recode (SegIs,       *)
(* VaqIs), what the blocks have been given (BlocksFit), and that the       *)
(* buffers of encoder and decoder differ only in maps nobody may look at   *)
(* (SameBuffers).                                                          *)
(***************************************************************************)
EXTENDS EdgeAq, TLAPS, FiniteSetTheorems, WellFoundedInduction

FrameRecords == [kind : {"key", "refresh", "leaf"}, primary : Slots \cup {"none"},
                 size : Sizes \cup {0}, refresh : SUBSET Slots]
Segs == [enabled : BOOLEAN, update_map : BOOLEAN, update_data : BOOLEAN,
         q : BaseQ \cup {0}, last_active : Segments]
BufferRecords == [size : Sizes \cup {0}, enabled : BOOLEAN, q : BaseQ \cup {0},
                  last_active : Segments, map : Maps]
BlockRecords == [starts : SUBSET Units, id : Maps, skip : SUBSET Units]

Types ==
    /\ phase \in {"idle", "setup", "encode", "encoded", "packed"}
    /\ frame \in FrameRecords
    /\ loop_count \in Nat
    /\ seg \in Segs /\ vaq_refresh \in BOOLEAN /\ enc_map \in Maps
    /\ blocks \in BlockRecords /\ 1 \in blocks.starts
    /\ ref_frames \in [Slots -> BufferRecords] /\ dec_frames \in [Slots -> BufferRecords]

\* The setup has run for the current frame.
SetUp == phase \in {"encode", "encoded", "packed"} \/ (phase = "setup" /\ loop_count # 0)

\* The primary reference has another size.
Mismatch == HasPrev /\ PrevOf(ref_frames).size # frame.size

Refreshed(s) == s.enabled /\ s.update_map /\ s.update_data /\ s.q \in BaseQ
                /\ s.last_active = MaxSegment
Inherited(s) ==
    LET prev == PrevOf(ref_frames)
    IN s.enabled = prev.enabled /\ ~s.update_map /\ ~s.update_data /\ s.q = prev.q
       /\ s.last_active = prev.last_active
Dropped(s) == s.enabled /\ s.update_map /\ s.update_data /\ s.q = 0 /\ s.last_active = 0

\* What the setup makes of cm->seg.
SegIs ==
    SetUp =>
        /\ Mismatch => seg = Disabled
        /\ ~Mismatch /\ frame.kind # "leaf" => Refreshed(seg)
        /\ ~Mismatch /\ frame.kind = "leaf" =>
               seg = Disabled \/ (IF HasPrev THEN Inherited(seg) ELSE Dropped(seg))

VaqIs == SetUp => (vaq_refresh <=> ~Mismatch /\ frame.kind # "leaf")

\* The update flags are for one frame.
FlagsAreOneShot == ~SetUp => ~seg.update_map /\ ~seg.update_data

MapIsClamped ==
    phase = "encode" /\ seg.enabled /\ seg.update_map =>
        \A u \in Units : enc_map[u] <= seg.last_active

\* What a block's segment has to do with the maps.
BlocksFit ==
    phase \in {"encoded", "packed"} =>
        /\ ~seg.enabled => \A u \in Units : blocks.id[u] = 0
        /\ seg.enabled /\ ~seg.update_map =>
               \A u \in Units : blocks.id[u] = Least(LastMap, Block(blocks.starts, u))
        /\ seg.enabled /\ seg.update_map => \A u \in Units : blocks.id[u] <= seg.last_active

PacketIs == phase = "packed" => packet = [seg |-> seg, blocks |-> blocks]

\* The features of a buffer are those of its quantizer index, and none without
\* segments.
BuffersFit ==
    \A s \in Slots : /\ ref_frames[s].last_active = LastActive(ref_frames[s].q)
                     /\ ~ref_frames[s].enabled => ref_frames[s].q = 0

SameBuffer(a, b) ==
    /\ a.size = b.size /\ a.enabled = b.enabled /\ a.q = b.q /\ a.last_active = b.last_active
    /\ a.enabled => a.map = b.map
SameBuffers == \A s \in Slots : SameBuffer(ref_frames[s], dec_frames[s])

IInv ==
    /\ Types
    /\ SegIs /\ VaqIs /\ FlagsAreOneShot
    /\ MapIsClamped /\ BlocksFit /\ PacketIs
    /\ BuffersFit /\ SameBuffers

-----------------------------------------------------------------------------
\* Numbers, blocks and what a decoder reads.

\* Every set of naturals has a least element.
LEMMA LeastElement ==
  ASSUME NEW T, T \subseteq Nat, T # {}
  PROVE  \E n \in T : \A m \in T : n <= m
<1> DEFINE Below == {0..m : m \in T}
<1>1. Below \subseteq FiniteSubsetsOf(Nat)
  <2> SUFFICES ASSUME NEW m \in T PROVE 0..m \in FiniteSubsetsOf(Nat)
    OBVIOUS
  <2>1. 0 \in Int /\ m \in Int /\ 0..m \subseteq Nat
    OBVIOUS
  <2>2. IsFiniteSet(0..m)
    BY <2>1, FS_Interval
  <2> QED BY <2>1, <2>2 DEF FiniteSubsetsOf
<1>2. Below # {}
  OBVIOUS
<1> HIDE DEF Below
<1>3. PICK x \in Below : \A y \in Below : ~ (<<y, x>> \in StrictSubsetOrdering(Nat))
  BY <1>1, <1>2, FS_StrictSubsetOrderingWellFounded, WFMin
<1>4. PICK a \in T : x = 0..a
  BY DEF Below
<1>5. ASSUME NEW m \in T, m < a PROVE FALSE
  <2>1. 0..m \in Below
    BY DEF Below
  <2>2. a \in 0..a /\ a \notin 0..m /\ 0..m \subseteq 0..a /\ 0..a \subseteq Nat
    BY <1>5
  <2>3. 0..m # 0..a
    BY <2>2
  <2>4. <<0..m, 0..a>> \in StrictSubsetOrdering(Nat)
    BY <2>2, <2>3 DEF StrictSubsetOrdering
  <2> QED BY <1>3, <1>4, <2>1, <2>4
<1> QED BY <1>5

\* A bounded one has a greatest element.
LEMMA GreatestElement ==
  ASSUME NEW T, T \subseteq Nat, T # {}, NEW n \in Nat, \A x \in T : x <= n
  PROVE  \E g \in T : \A x \in T : x <= g
<1> DEFINE D == {n - x : x \in T}
<1>1. D \subseteq Nat /\ D # {}
  <2>1. PICK t \in T : TRUE
    OBVIOUS
  <2>2. n - t \in D
    OBVIOUS
  <2>3. \A x \in T : n - x \in Nat
    OBVIOUS
  <2> QED BY <2>2, <2>3
<1>2. PICK d \in D : \A y \in D : d <= y
  <2> HIDE DEF D
  <2> QED BY <1>1, LeastElement
<1>3. PICK g \in T : d = n - g
  OBVIOUS
<1>4. ASSUME NEW x \in T PROVE x <= g
  <2>1. n - x \in D
    OBVIOUS
  <2>2. n - g <= n - x
    BY <1>2, <1>3, <2>1
  <2> QED BY <2>2
<1> QED BY <1>4

\* get_segment_id returns the segment of a unit of the block.
LEMMA LeastIs ==
  ASSUME NEW map \in Maps, NEW us \in SUBSET Units, us # {}
  PROVE  \E u \in us : Least(map, us) = map[u]
<1> DEFINE V == {map[u] : u \in us}
<1>1. V \subseteq Nat /\ V # {}
  BY EdgeAqAssumption DEF Maps, Segments
<1>2. \E x \in V : \A y \in V : x <= y
  <2> HIDE DEF V
  <2> QED BY <1>1, LeastElement
<1>3. \E x \in V : \A u \in us : x <= map[u]
  BY <1>2
<1>4. Least(map, us) \in V
  BY <1>3 DEF Least
<1> QED BY <1>4

\* A unit is in its block.
LEMMA BlockIs ==
  ASSUME NEW starts \in SUBSET Units, 1 \in starts, NEW u \in Units
  PROVE  u \in Block(starts, u) /\ Block(starts, u) \in SUBSET Units
<1> DEFINE T == {x \in starts : x <= u}
           P(x) == x <= u /\ \A y \in starts : y <= u => y <= x
<1>1. Units \subseteq Nat /\ u \in Nat /\ 1 <= u
  BY EdgeAqAssumption DEF Units
<1>2. T \subseteq Nat /\ T # {} /\ \A x \in T : x <= u
  BY <1>1
<1>3. \E g \in T : \A x \in T : x <= g
  <2> HIDE DEF T
  <2> QED BY <1>1, <1>2, GreatestElement
<1>4. \E x \in starts : P(x)
  BY <1>3
<1> DEFINE first == CHOOSE x \in starts : P(x)
<1>5. first \in starts /\ P(first)
  BY <1>4
<1>6. Block(starts, u) = {v \in Units : v >= first /\ \A y \in starts : y > first => v < y}
  BY DEF Block
<1>7. first \in Nat /\ first <= u /\ \A y \in starts : y <= u => y <= first
  BY <1>1, <1>5
<1> HIDE DEF first
<1>8. \A y \in starts : y > first => u < y
  BY <1>1, <1>7
<1> QED BY <1>1, <1>6, <1>7, <1>8

\* The segment of a block is one of those its units have in the map.
LEMMA BlockSegment ==
  ASSUME NEW map \in Maps, NEW starts \in SUBSET Units, 1 \in starts, NEW u \in Units
  PROVE  /\ Least(map, Block(starts, u)) \in Segments
         /\ \E v \in Units : Least(map, Block(starts, u)) = map[v]
<1>1. Block(starts, u) \in SUBSET Units /\ Block(starts, u) # {}
  BY BlockIs
<1>2. \E v \in Block(starts, u) : Least(map, Block(starts, u)) = map[v]
  BY <1>1, LeastIs
<1> QED BY <1>1, <1>2 DEF Maps

\* The decoder reads the segment of a block that is not skipped as it was
\* written.  (The recursion of Coded has a solution: a skipped unit has the
\* segment of the last one before it that is not skipped.)
LEMMA CodedIs ==
  ASSUME NEW b \in BlockRecords
  PROVE  /\ Coded(b) \in Maps
         /\ \A u \in Units \ b.skip : Coded(b)[u] = b.id[u]
<1> DEFINE D == 0..NumUnits
           Step(f, u) == IF u = 0 THEN 0 ELSE IF u \in b.skip THEN f[u - 1] ELSE b.id[u]
           Written(u) == {v \in Units : v <= u /\ v \notin b.skip}
           Last(u) == CHOOSE g \in Written(u) : \A x \in Written(u) : x <= g
           sol == [u \in D |-> IF Written(u) = {} THEN 0 ELSE b.id[Last(u)]]
           id == CHOOSE f : f = [u \in D |-> Step(f, u)]
<1>1. NumUnits \in Nat /\ Units \subseteq D /\ Units \subseteq Nat /\ D \subseteq Nat
      /\ (\A u \in D : u # 0 => u \in Units /\ u - 1 \in D) /\ 0 \in D /\ 0 \in Segments
  BY EdgeAqAssumption DEF Units, Segments
<1>2. b.id \in [Units -> Segments]
  BY DEF BlockRecords, Maps
<1> HIDE DEF D
<1>3. ASSUME NEW u \in D, Written(u) # {}
      PROVE  Last(u) \in Written(u) /\ \A x \in Written(u) : x <= Last(u)
  <2> DEFINE W == Written(u)
  <2>1. W \subseteq Nat /\ W # {} /\ u \in Nat /\ \A x \in W : x <= u
    BY <1>1, <1>3
  <2>2. \E g \in W : \A x \in W : x <= g
    <3> HIDE DEF W
    <3> QED BY <2>1, GreatestElement
  <2> QED BY <2>2
<1>4. ASSUME NEW u \in D PROVE sol[u] = Step(sol, u) /\ sol[u] \in Segments
  <2>1. sol[u] = IF Written(u) = {} THEN 0 ELSE b.id[Last(u)]
    OBVIOUS
  <2>2. sol[u] \in Segments
    <3>1. CASE Written(u) = {}
      BY <1>1, <2>1, <3>1
    <3>2. CASE Written(u) # {}
      <4>1. Last(u) \in Units
        BY <1>3, <3>2
      <4> QED BY <1>2, <2>1, <3>2, <4>1
    <3> QED BY <3>1, <3>2
  <2>3. CASE u = 0
    <3>1. Written(u) = {}
      BY <2>3 DEF Units
    <3> QED BY <2>1, <2>2, <2>3, <3>1
  <2>4. CASE u # 0 /\ u \in b.skip
    <3>1. u \in Nat /\ u - 1 \in D /\ u \in Units
      BY <1>1, <2>4
    <3>2. Written(u) = Written(u - 1)
      <4>1. ASSUME NEW v \in Units, v \notin b.skip PROVE v <= u <=> v <= u - 1
        <5>1. v \in Nat /\ v # u
          BY <1>1, <2>4, <4>1
        <5> QED BY <3>1, <5>1
      <4> QED BY <4>1
    <3>3. sol[u - 1] = IF Written(u - 1) = {} THEN 0 ELSE b.id[Last(u - 1)]
      BY <3>1
    <3>4. Last(u) = Last(u - 1)
      BY <3>2
    <3>5. sol[u] = sol[u - 1]
      <4> HIDE DEF sol, Written, Last
      <4> QED BY <2>1, <3>2, <3>3, <3>4
    <3> QED BY <2>2, <2>4, <3>5
  <2>5. CASE u # 0 /\ u \notin b.skip
    <3>1. u \in Written(u)
      BY <1>1, <2>5
    <3>2. Last(u) \in Written(u) /\ u <= Last(u)
      BY <1>3, <3>1
    <3>3. Last(u) = u
      <4>1. Last(u) <= u /\ Last(u) \in Nat /\ u \in Nat
        BY <1>1, <3>2
      <4> HIDE DEF Last
      <4> QED BY <3>2, <4>1
    <3> HIDE DEF sol, Written
    <3> QED BY <2>1, <2>2, <2>5, <3>1, <3>3
  <2> QED BY <2>3, <2>4, <2>5
<1>5. sol = [u \in D |-> Step(sol, u)]
  <2>1. sol = [u \in D |-> sol[u]]
    OBVIOUS
  <2> HIDE DEF sol
  <2> QED BY <1>4, <2>1
<1>6. id = [u \in D |-> Step(id, u)]
  <2> HIDE DEF sol
  <2> QED BY <1>5
<1> HIDE DEF id
<1>7. \A n \in D : id[n] \in Segments
  <2> SUFFICES ASSUME NEW n \in D, id[n] \notin Segments PROVE FALSE
    OBVIOUS
  <2> DEFINE T == {k \in D : id[k] \notin Segments}
  <2>1. T \subseteq Nat /\ T # {}
    BY <1>1
  <2>2. PICK k \in T : \A m \in T : k <= m
    <3> HIDE DEF T
    <3> QED BY <2>1, LeastElement
  <2>3. k \in D /\ k \in Nat /\ id[k] = Step(id, k) /\ id[k] \notin Segments
    BY <1>1, <1>6
  <2>4. k # 0
    BY <1>1, <2>3
  <2>5. k - 1 \in D /\ k - 1 \notin T /\ k \in Units
    BY <1>1, <2>2, <2>3, <2>4
  <2>6. id[k - 1] \in Segments
    BY <2>5
  <2> QED BY <1>2, <2>3, <2>4, <2>5, <2>6
<1>8. Coded(b) = [u \in Units |-> id[u]]
  BY DEF Coded, id, D
<1>9. \A u \in Units \ b.skip : id[u] = b.id[u]
  <2> SUFFICES ASSUME NEW u \in Units \ b.skip PROVE id[u] = b.id[u]
    OBVIOUS
  <2>1. u \in D /\ u # 0
    BY <1>1 DEF Units
  <2> QED BY <1>6, <2>1
<1> QED BY <1>1, <1>7, <1>8, <1>9 DEF Maps

-----------------------------------------------------------------------------
\* The setup of a frame.

States == [seg : Segs, vaq : BOOLEAN, enc_map : Maps]

\* The fields of cm->seg, and its constants.
LEMMA SegFields ==
  /\ \A s \in Segs : /\ s = [enabled |-> s.enabled, update_map |-> s.update_map,
                             update_data |-> s.update_data, q |-> s.q, last_active |-> s.last_active]
                     /\ s.enabled \in BOOLEAN /\ s.update_map \in BOOLEAN /\ s.update_data \in BOOLEAN
                     /\ s.q \in BaseQ \cup {0} /\ s.last_active \in Segments
  /\ Disabled \in Segs /\ 0 \in Segments /\ MaxSegment \in Segments /\ Segments \subseteq Nat
  /\ ZeroMap \in Maps /\ 1 \in Units
  /\ \A q \in BaseQ \cup {0} : LastActive(q) \in Segments
  /\ \A q \in BaseQ : LastActive(q) = MaxSegment /\ q # 0
  /\ LastActive(0) = 0
<1>1. 0 \in Segments /\ MaxSegment \in Segments /\ Segments \subseteq Nat /\ 1 \in Units
  BY EdgeAqAssumption DEF Segments, Units
<1>2. Disabled \in Segs
  BY <1>1 DEF Disabled, Segs
<1>3. ZeroMap \in Maps
  BY <1>1 DEF ZeroMap, Maps
<1>4. \A q \in BaseQ : q # 0
  BY EdgeAqAssumption
<1> QED BY <1>1, <1>2, <1>3, <1>4 DEF Segs, LastActive

\* The buffers a frame may refer to.
LEMMA PrevIs ==
  ASSUME IInv
  PROVE  /\ PrevOf(ref_frames) \in BufferRecords /\ PrevOf(dec_frames) \in BufferRecords
         /\ SameBuffer(PrevOf(ref_frames), PrevOf(dec_frames))
         /\ PrevOf(ref_frames).last_active = LastActive(PrevOf(ref_frames).q)
         /\ ~PrevOf(ref_frames).enabled => PrevOf(ref_frames).q = 0
<1>1. CASE HasPrev
  <2>1. frame.primary \in Slots
    BY <1>1 DEF IInv, Types, FrameRecords, HasPrev
  <2>2. PrevOf(ref_frames) = ref_frames[frame.primary]
        /\ PrevOf(dec_frames) = dec_frames[frame.primary]
    BY <1>1 DEF PrevOf
  <2> QED BY <2>1, <2>2 DEF IInv, Types, BuffersFit, SameBuffers
<1>2. CASE ~HasPrev
  <2>1. PrevOf(ref_frames) = NoBuffer /\ PrevOf(dec_frames) = NoBuffer
    BY <1>2 DEF PrevOf
  <2>2. NoBuffer \in BufferRecords
    BY SegFields DEF NoBuffer, BufferRecords
  <2> QED BY <2>1, <2>2, SegFields DEF NoBuffer, SameBuffer
<1> QED BY <1>1, <1>2

\* The fields of a buffer.
LEMMA BufferFields ==
  ASSUME NEW b \in BufferRecords
  PROVE  b.size \in Sizes \cup {0} /\ b.enabled \in BOOLEAN /\ b.q \in BaseQ \cup {0}
         /\ b.last_active \in Segments /\ b.map \in Maps
BY DEF BufferRecords

\* av1_setup_frame
LEMMA SetupFrameParts ==
  ASSUME NEW s \in States
  PROVE  /\ SetupFrame(s) \in States /\ SetupFrame(s).enc_map = s.enc_map
         /\ SetupFrame(s).seg.enabled = s.seg.enabled
         /\ loop_count # 0 => SetupFrame(s) = s
         /\ loop_count = 0 => ~SetupFrame(s).vaq
         /\ loop_count = 0 /\ HasPrev => SetupFrame(s).seg = s.seg
         /\ loop_count = 0 /\ ~HasPrev =>
                SetupFrame(s).seg.q = 0
                /\ (frame.kind # "key" => SetupFrame(s).seg.update_map /\ SetupFrame(s).seg.update_data)
<1>1. s = [seg |-> s.seg, vaq |-> s.vaq, enc_map |-> s.enc_map]
      /\ s.seg \in Segs /\ s.vaq \in BOOLEAN /\ s.enc_map \in Maps
  BY DEF States
<1>2. CASE loop_count # 0
  BY <1>2 DEF SetupFrame
<1>3. CASE loop_count = 0 /\ HasPrev
  <2>1. SetupFrame(s) = [seg |-> s.seg, vaq |-> FALSE, enc_map |-> s.enc_map]
    BY <1>1, <1>3 DEF SetupFrame
  <2> QED BY <1>1, <1>3, <2>1 DEF States
<1>4. CASE loop_count = 0 /\ ~HasPrev
  <2> DEFINE m == s.seg.update_map \/ frame.kind # "key"
             d == s.seg.update_data \/ frame.kind # "key"
             g == [s.seg EXCEPT !.q = 0, !.update_map = m, !.update_data = d]
  <2>1. m \in BOOLEAN /\ d \in BOOLEAN /\ (frame.kind # "key" => m /\ d)
    BY <1>1, SegFields
  <2>2. SetupFrame(s) = [s EXCEPT !.vaq = FALSE, !.seg = g]
    BY <1>4 DEF SetupFrame
  <2> HIDE DEF m, d
  <2>3. g \in Segs /\ g.enabled = s.seg.enabled /\ g.q = 0
        /\ g.update_map = m /\ g.update_data = d
    <3> DEFINE o == s.seg
    <3>1. o \in Segs
      BY <1>1
    <3> HIDE DEF o
    <3>2. [o EXCEPT !.q = 0, !.update_map = m, !.update_data = d] \in Segs
      BY <2>1, <3>1 DEF Segs
    <3>3. ASSUME NEW x, NEW y
          PROVE  LET c == [o EXCEPT !.q = 0, !.update_map = x, !.update_data = y]
                 IN c.enabled = o.enabled /\ c.q = 0 /\ c.update_map = x /\ c.update_data = y
      BY <3>1 DEF Segs
    <3> QED BY <3>2, <3>3 DEF o
  <2> HIDE DEF g
  <2>4. SetupFrame(s) = [seg |-> g, vaq |-> FALSE, enc_map |-> s.enc_map]
    BY <1>1, <2>2
  <2> QED BY <1>1, <1>4, <2>1, <2>3, <2>4 DEF States
<1> QED BY <1>2, <1>3, <1>4

\* A state of the setup with another cm->seg.
LEMMA StateFields ==
  ASSUME NEW s \in States
  PROVE  s.seg \in Segs /\ s.vaq \in BOOLEAN /\ s.enc_map \in Maps
BY DEF States

\* A state of the setup in which only cm->seg is replaced.
LEMMA NewSeg ==
  ASSUME NEW s \in States, NEW g \in Segs
  PROVE  LET c == [s EXCEPT !.seg = g]
         IN c \in States /\ c.seg = g /\ c.vaq = s.vaq /\ c.enc_map = s.enc_map
BY DEF States

\* av1_edge_aq_frame_setup
LEMMA EdgeSetupParts ==
  ASSUME NEW s \in States, NEW base \in BaseQ
  PROVE  /\ EdgeSetup(s, base) \in States
         /\ Mismatch => ~EdgeSetup(s, base).seg.enabled /\ EdgeSetup(s, base).vaq = s.vaq
         /\ ~Mismatch /\ frame.kind = "leaf" => EdgeSetup(s, base) = s
         /\ ~Mismatch /\ frame.kind # "leaf" =>
                LET t == EdgeSetup(s, base)
                IN t.vaq /\ t.seg.enabled /\ t.seg.update_map /\ t.seg.update_data
                   /\ t.seg.q = base
<1>1. s.seg \in Segs
  BY StateFields
<1> DEFINE o == s.seg
<1> HIDE DEF o
<1>2. CASE Mismatch
  <2> DEFINE g == [o EXCEPT !.enabled = FALSE, !.update_map = FALSE, !.update_data = FALSE, !.q = 0]
  <2>1. o \in Segs
    BY <1>1 DEF o
  <2>2. g \in Segs /\ g.enabled = FALSE
    BY <2>1 DEF Segs
  <2>3. EdgeSetup(s, base) = [s EXCEPT !.enc_map = ZeroMap, !.seg = g]
    BY <1>2 DEF EdgeSetup, Mismatch, o
  <2> HIDE DEF g
  <2>4. EdgeSetup(s, base) \in States /\ EdgeSetup(s, base).seg = g
        /\ EdgeSetup(s, base).vaq = s.vaq
    BY <2>2, <2>3, SegFields DEF States
  <2> QED BY <1>2, <2>2, <2>4
<1>3. CASE ~Mismatch /\ frame.kind = "leaf"
  BY <1>3 DEF EdgeSetup, Mismatch
<1>4. CASE ~Mismatch /\ frame.kind # "leaf"
  <2> DEFINE g == [o EXCEPT !.enabled = TRUE, !.update_map = TRUE, !.update_data = TRUE, !.q = base]
  <2>1. o \in Segs
    BY <1>1 DEF o
  <2>2. g \in Segs /\ g.enabled = TRUE /\ g.update_map = TRUE /\ g.update_data = TRUE /\ g.q = base
    BY <2>1 DEF Segs
  <2>3. EdgeSetup(s, base) = [s EXCEPT !.vaq = TRUE, !.seg = g]
    BY <1>4 DEF EdgeSetup, Mismatch, o
  <2> HIDE DEF g
  <2>4. EdgeSetup(s, base) \in States /\ EdgeSetup(s, base).seg = g
        /\ EdgeSetup(s, base).vaq = TRUE
    BY <2>2, <2>3 DEF States
  <2> QED BY <1>4, <2>2, <2>4
<1> QED BY <1>2, <1>3, <1>4

\* The features are taken from the primary reference, or counted, or dropped.
LEMMA FeaturesParts ==
  ASSUME IInv, NEW s \in States
  PROVE  /\ Features(s) \in States /\ Features(s).vaq = s.vaq /\ Features(s).enc_map = s.enc_map
         /\ ~s.seg.enabled => Features(s).seg = Disabled
         /\ s.seg.enabled /\ ~s.seg.update_data /\ HasPrev =>
                LET g == Features(s).seg
                    prev == PrevOf(ref_frames)
                IN g.enabled = prev.enabled /\ g.q = prev.q /\ g.last_active = prev.last_active
                   /\ g.update_map = s.seg.update_map /\ g.update_data = s.seg.update_data
         /\ s.seg.enabled /\ (s.seg.update_data \/ ~HasPrev) =>
                LET g == Features(s).seg
                IN g.enabled /\ g.q = s.seg.q /\ g.last_active = LastActive(s.seg.q)
                   /\ g.update_map = s.seg.update_map /\ g.update_data = s.seg.update_data
<1> DEFINE prev == PrevOf(ref_frames)
<1>1. s.seg \in Segs /\ s.seg.enabled \in BOOLEAN /\ s.seg.update_data \in BOOLEAN
      /\ s.seg.q \in BaseQ \cup {0}
  BY StateFields, SegFields
<1> DEFINE o == s.seg
<1>2. prev.enabled \in BOOLEAN /\ prev.q \in BaseQ \cup {0} /\ prev.last_active \in Segments
  BY PrevIs, BufferFields
<1>3. CASE ~s.seg.enabled
  <2>1. Features(s) = [s EXCEPT !.seg = Disabled]
    BY <1>3 DEF Features
  <2>2. Features(s) \in States /\ Features(s).seg = Disabled /\ Features(s).vaq = s.vaq
        /\ Features(s).enc_map = s.enc_map
    BY <2>1, NewSeg, SegFields
  <2> QED BY <1>3, <2>2
<1>4. CASE s.seg.enabled /\ ~s.seg.update_data /\ HasPrev
  <2> DEFINE g == [o EXCEPT !.enabled = prev.enabled, !.q = prev.q, !.last_active = prev.last_active]
  <2>1. g \in Segs /\ g.enabled = prev.enabled /\ g.q = prev.q /\ g.last_active = prev.last_active
        /\ g.update_map = o.update_map /\ g.update_data = o.update_data
    <3>1. o \in Segs
      BY <1>1
    <3> HIDE DEF prev, o
    <3> QED BY <1>2, <3>1 DEF Segs
  <2>2. Features(s) = [s EXCEPT !.seg = g]
    BY <1>4 DEF Features
  <2> HIDE DEF g
  <2>3. Features(s) \in States /\ Features(s).seg = g /\ Features(s).vaq = s.vaq
        /\ Features(s).enc_map = s.enc_map
    BY <2>1, <2>2, NewSeg
  <2> HIDE DEF prev
  <2> QED BY <1>4, <2>1, <2>3 DEF prev
<1>5. CASE s.seg.enabled /\ (s.seg.update_data \/ ~HasPrev)
  <2> DEFINE n == LastActive(s.seg.q)
             g == [o EXCEPT !.last_active = n]
  <2>1. n \in Segments
    BY <1>1, SegFields
  <2>2. Features(s) = [s EXCEPT !.seg = g]
    BY <1>5 DEF Features
  <2>3. g \in Segs /\ g.enabled = o.enabled /\ g.q = o.q /\ g.last_active = n
        /\ g.update_map = o.update_map /\ g.update_data = o.update_data
    <3>1. o \in Segs
      BY <1>1
    <3> HIDE DEF n, o
    <3> QED BY <2>1, <3>1 DEF Segs
  <2> HIDE DEF g, n
  <2>4. Features(s) \in States /\ Features(s).seg = g /\ Features(s).vaq = s.vaq
        /\ Features(s).enc_map = s.enc_map
    BY <2>2, <2>3, NewSeg
  <2> QED BY <1>5, <2>3, <2>4 DEF n
<1> QED BY <1>1, <1>3, <1>4, <1>5

\* encode_frame_internal
LEMMA EncoderMapParts ==
  ASSUME NEW s \in States
  PROVE  /\ EncoderMap(s) \in States
         /\ EncoderMap(s).seg = s.seg /\ EncoderMap(s).vaq = s.vaq
         /\ s.seg.enabled /\ s.seg.update_map =>
                \A u \in Units : EncoderMap(s).enc_map[u] <= s.seg.last_active
<1>1. s.seg \in Segs /\ s.seg.last_active \in Segments /\ s.enc_map \in [Units -> Segments]
  BY StateFields, SegFields DEF Maps
<1>2. CASE s.seg.enabled /\ s.seg.update_map
  <2> DEFINE map == [u \in Units |-> Lesser(s.enc_map[u], s.seg.last_active)]
  <2>1. \A u \in Units : map[u] \in Segments /\ map[u] <= s.seg.last_active
    BY <1>1, SegFields DEF Lesser
  <2>2. map \in Maps
    BY <2>1 DEF Maps
  <2>3. EncoderMap(s) = [s EXCEPT !.enc_map = map]
    BY <1>2 DEF EncoderMap
  <2> HIDE DEF map
  <2>4. EncoderMap(s) \in States /\ EncoderMap(s).seg = s.seg /\ EncoderMap(s).vaq = s.vaq
        /\ EncoderMap(s).enc_map = map
    BY <2>2, <2>3 DEF States
  <2> QED BY <2>1, <2>4
<1>3. CASE ~(s.seg.enabled /\ s.seg.update_map)
  BY <1>3 DEF EncoderMap
<1> QED BY <1>2, <1>3

-----------------------------------------------------------------------------
\* The steps.

\* The initial states satisfy the invariant.
LEMMA InitIInv == Init => IInv
<1> SUFFICES ASSUME Init PROVE IInv
  OBVIOUS
<1> USE DEF Init
<1>1. NoFrame \in FrameRecords /\ NoBuffer \in BufferRecords /\ NoBlocks \in BlockRecords
      /\ 1 \in NoBlocks.starts
  BY SegFields DEF NoFrame, NoBuffer, NoBlocks, FrameRecords, BufferRecords, BlockRecords
<1>2. Types
  BY <1>1, SegFields DEF Types
<1>3. ~SetUp /\ phase = "idle"
  BY DEF SetUp
<1>4. BuffersFit /\ SameBuffers
  BY SegFields DEF BuffersFit, SameBuffers, SameBuffer, NoBuffer
<1>5. FlagsAreOneShot
  BY DEF FlagsAreOneShot, Disabled
<1> QED BY <1>2, <1>3, <1>4, <1>5 DEF IInv, SegIs, VaqIs, MapIsClamped, BlocksFit, PacketIs

\* StartFrame keeps the invariant.
LEMMA StartFrameKept == ASSUME IInv, StartFrame PROVE IInv'
<1>1. phase' = "setup" /\ loop_count' = 0 /\ ~SetUp /\ ~SetUp'
      /\ UNCHANGED <<seg, vaq_refresh, enc_map, blocks, packet, ref_frames, dec_frames>>
  BY DEF StartFrame, SetUp
<1>2. frame' \in FrameRecords
  BY DEF StartFrame, FrameRecords
<1>3. Types'
  BY <1>1, <1>2 DEF IInv, Types
<1> QED BY <1>1, <1>3 DEF IInv, SegIs, VaqIs, FlagsAreOneShot, MapIsClamped, BlocksFit, PacketIs,
    BuffersFit, SameBuffers

\* The setup yields the same again when it runs for a recode.
LEMMA SetupKept == ASSUME IInv, NEW base \in BaseQ, Setup(base) PROVE IInv'
<1> DEFINE s0 == [seg |-> seg, vaq |-> vaq_refresh, enc_map |-> enc_map]
           s1 == SetupFrame(s0)
           s2 == EdgeSetup(s1, base)
           s3 == Features(s2)
           s4 == EncoderMap(s3)
           prev == PrevOf(ref_frames)
<1>1. phase = "setup" /\ phase' = "encode" /\ seg' = s4.seg /\ vaq_refresh' = s4.vaq
      /\ enc_map' = s4.enc_map
      /\ UNCHANGED <<frame, loop_count, blocks, packet, ref_frames, dec_frames>>
  BY DEF Setup
<1>2. s0 \in States /\ s0.seg = seg /\ s0.vaq = vaq_refresh /\ s0.enc_map = enc_map
  BY DEF IInv, Types, States
<1> HIDE DEF s0
<1>3. s1 \in States /\ s1.seg.enabled = seg.enabled
      /\ (loop_count # 0 => s1 = s0)
      /\ (loop_count = 0 => ~s1.vaq)
      /\ (loop_count = 0 /\ HasPrev => s1.seg = seg)
      /\ (loop_count = 0 /\ ~HasPrev =>
            s1.seg.q = 0 /\ (frame.kind # "key" => s1.seg.update_map /\ s1.seg.update_data))
  BY <1>2, SetupFrameParts
<1> HIDE DEF s1
<1>4. s2 \in States
      /\ (Mismatch => ~s2.seg.enabled /\ s2.vaq = s1.vaq)
      /\ (~Mismatch /\ frame.kind = "leaf" => s2 = s1)
      /\ (~Mismatch /\ frame.kind # "leaf" =>
             s2.vaq /\ s2.seg.enabled /\ s2.seg.update_map /\ s2.seg.update_data /\ s2.seg.q = base)
  BY <1>3, EdgeSetupParts
<1> HIDE DEF s2
<1>5. s3 \in States /\ s3.vaq = s2.vaq
      /\ (~s2.seg.enabled => s3.seg = Disabled)
      /\ (s2.seg.enabled /\ ~s2.seg.update_data /\ HasPrev =>
             s3.seg.enabled = prev.enabled /\ s3.seg.q = prev.q
             /\ s3.seg.last_active = prev.last_active
             /\ s3.seg.update_map = s2.seg.update_map /\ s3.seg.update_data = s2.seg.update_data)
      /\ (s2.seg.enabled /\ (s2.seg.update_data \/ ~HasPrev) =>
             s3.seg.enabled /\ s3.seg.q = s2.seg.q /\ s3.seg.last_active = LastActive(s2.seg.q)
             /\ s3.seg.update_map = s2.seg.update_map /\ s3.seg.update_data = s2.seg.update_data)
  BY <1>4, FeaturesParts
<1> HIDE DEF s3
<1>6. s4 \in States /\ s4.seg = s3.seg /\ s4.vaq = s3.vaq
      /\ (s3.seg.enabled /\ s3.seg.update_map =>
             \A u \in Units : s4.enc_map[u] <= s3.seg.last_active)
  BY <1>5, EncoderMapParts
<1> HIDE DEF s4
<1>7. SetUp' /\ (loop_count # 0 => SetUp) /\ (loop_count = 0 => ~SetUp)
      /\ (Mismatch' <=> Mismatch) /\ (HasPrev' <=> HasPrev) /\ PrevOf(ref_frames)' = prev
  BY <1>1 DEF SetUp, Mismatch, HasPrev, PrevOf
<1> HIDE DEF prev
<1>8. Types'
  BY <1>1, <1>6, StateFields DEF IInv, Types
<1>9. VaqIs'
  <2>1. CASE ~Mismatch /\ frame.kind # "leaf"
    BY <1>1, <1>4, <1>5, <1>6, <1>7, <2>1 DEF VaqIs
  <2>2. CASE ~(~Mismatch /\ frame.kind # "leaf")
    <3>1. s2.vaq = s1.vaq
      BY <1>4, <2>2
    <3>2. ~s1.vaq
      BY <1>2, <1>3, <1>7, <2>2 DEF IInv, VaqIs
    <3> QED BY <1>1, <1>5, <1>6, <1>7, <2>2, <3>1, <3>2 DEF VaqIs
  <2> QED BY <2>1, <2>2
<1>10. SegIs'
  <2>1. CASE Mismatch
    <3>1. seg' = Disabled
      BY <1>1, <1>4, <1>5, <1>6, <2>1
    <3> QED BY <1>7, <2>1, <3>1 DEF SegIs
  <2>2. CASE ~Mismatch /\ frame.kind # "leaf"
    <3>1. Refreshed(seg')
      BY <1>1, <1>4, <1>5, <1>6, <2>2, SegFields DEF Refreshed
    <3>2. frame' = frame /\ Refreshed(seg)'
      BY <1>1, <3>1 DEF Refreshed
    <3> QED BY <1>7, <2>2, <3>2 DEF SegIs
  <2>3. CASE ~Mismatch /\ frame.kind = "leaf" /\ HasPrev
    <3>1. s2 = s1
      BY <1>4, <2>3
    <3>2. CASE ~s1.seg.enabled
      <4>1. seg' = Disabled
        BY <1>1, <1>5, <1>6, <3>1, <3>2
      <4> QED BY <1>1, <1>7, <2>3, <4>1 DEF SegIs
    <3>3. CASE s1.seg.enabled
      <4>1. ~s1.seg.update_map /\ ~s1.seg.update_data
        <5>1. CASE loop_count = 0
          BY <1>3, <1>7, <2>3, <5>1 DEF IInv, FlagsAreOneShot
        <5>2. CASE loop_count # 0
          <6>1. Inherited(seg)
            BY <1>2, <1>3, <1>7, <2>3, <3>3, <5>2 DEF IInv, SegIs, Disabled
          <6> QED BY <1>2, <1>3, <5>2, <6>1 DEF Inherited
        <5> QED BY <5>1, <5>2
      <4>2. s3.seg.enabled = prev.enabled /\ s3.seg.q = prev.q
            /\ s3.seg.last_active = prev.last_active
            /\ s3.seg.update_map = s1.seg.update_map /\ s3.seg.update_data = s1.seg.update_data
        BY <1>5, <2>3, <3>1, <3>3, <4>1
      <4>3. Inherited(seg)'
        BY <1>1, <1>6, <1>7, <4>1, <4>2 DEF Inherited
      <4> QED BY <1>1, <1>7, <2>3, <4>3 DEF SegIs
    <3> QED BY <3>2, <3>3
  <2>4. CASE ~Mismatch /\ frame.kind = "leaf" /\ ~HasPrev
    <3>1. s2 = s1
      BY <1>4, <2>4
    <3>2. CASE ~s1.seg.enabled
      <4>1. seg' = Disabled
        BY <1>1, <1>5, <1>6, <3>1, <3>2
      <4> QED BY <1>1, <1>7, <2>4, <4>1 DEF SegIs
    <3>3. CASE s1.seg.enabled
      <4>1. s1.seg.update_map /\ s1.seg.update_data /\ s1.seg.q = 0
        <5>1. CASE loop_count = 0
          BY <1>3, <2>4, <5>1
        <5>2. CASE loop_count # 0
          <6>1. Dropped(seg)
            BY <1>2, <1>3, <1>7, <2>4, <3>3, <5>2 DEF IInv, SegIs, Disabled
          <6> QED BY <1>2, <1>3, <5>2, <6>1 DEF Dropped
        <5> QED BY <5>1, <5>2
      <4>2. s3.seg.enabled /\ s3.seg.q = 0 /\ s3.seg.last_active = LastActive(0)
            /\ s3.seg.update_map = s1.seg.update_map /\ s3.seg.update_data = s1.seg.update_data
        BY <1>5, <2>4, <3>1, <3>3, <4>1
      <4>3. Dropped(seg)'
        BY <1>1, <1>6, <4>1, <4>2, SegFields DEF Dropped
      <4> QED BY <1>1, <1>7, <2>4, <4>3 DEF SegIs
    <3> QED BY <3>2, <3>3
  <2> QED BY <2>1, <2>2, <2>3, <2>4
<1>11. MapIsClamped'
  BY <1>1, <1>6 DEF MapIsClamped
<1>12. FlagsAreOneShot' /\ BlocksFit' /\ PacketIs' /\ BuffersFit' /\ SameBuffers'
  BY <1>1, <1>7 DEF IInv, FlagsAreOneShot, BlocksFit, PacketIs, BuffersFit, SameBuffers
<1> QED BY <1>8, <1>9, <1>10, <1>11, <1>12 DEF IInv

\* What cm->seg is when blocks are coded refers to the frame and the references
\* only.
LEMMA SegStays ==
  ASSUME IInv, UNCHANGED <<frame, seg, vaq_refresh, ref_frames>>, SetUp, SetUp'
  PROVE  SegIs' /\ VaqIs' /\ FlagsAreOneShot'
<1>1. (Mismatch' <=> Mismatch) /\ (HasPrev' <=> HasPrev) /\ PrevOf(ref_frames)' = PrevOf(ref_frames)
  BY DEF Mismatch, HasPrev, PrevOf
<1>2. (Refreshed(seg)' <=> Refreshed(seg)) /\ (Dropped(seg)' <=> Dropped(seg))
      /\ (Inherited(seg)' <=> Inherited(seg))
  BY <1>1 DEF Refreshed, Dropped, Inherited
<1> QED BY <1>1, <1>2 DEF IInv, SegIs, VaqIs, FlagsAreOneShot

\* The three ways the segments of a frame can be: none, its own (refreshed, or
\* without effect), and those of its primary reference.
LEMMA SegKinds ==
  ASSUME IInv, SetUp
  PROVE  /\ \/ ~seg.enabled /\ seg.q = 0 /\ seg.last_active = 0
            \/ /\ seg.enabled /\ seg.update_map /\ seg.update_data
               /\ seg.last_active = LastActive(seg.q)
            \/ /\ seg.enabled /\ ~seg.update_map /\ ~seg.update_data
               /\ HasPrev /\ ~Mismatch /\ Inherited(seg)
         /\ vaq_refresh => Refreshed(seg)
<1> DEFINE prev == PrevOf(ref_frames)
<1>1. prev.last_active = LastActive(prev.q) /\ (~prev.enabled => prev.q = 0)
      /\ prev.enabled \in BOOLEAN
  BY PrevIs, BufferFields
<1>2. vaq_refresh => ~Mismatch /\ Refreshed(seg)
  BY DEF IInv, VaqIs, SegIs
<1>3. \/ seg = Disabled \/ Refreshed(seg) \/ Dropped(seg)
      \/ HasPrev /\ ~Mismatch /\ Inherited(seg)
  BY DEF IInv, SegIs
<1>4. CASE seg = Disabled
  BY <1>2, <1>4 DEF Disabled
<1>5. CASE Refreshed(seg)
  BY <1>5, SegFields DEF Refreshed
<1>6. CASE Dropped(seg)
  BY <1>2, <1>6, SegFields DEF Dropped
<1>7. CASE HasPrev /\ ~Mismatch /\ Inherited(seg)
  <2>1. seg.enabled = prev.enabled /\ ~seg.update_map /\ ~seg.update_data /\ seg.q = prev.q
        /\ seg.last_active = prev.last_active
    BY <1>7 DEF Inherited
  <2> HIDE DEF prev
  <2> QED BY <1>1, <1>2, <1>7, <2>1, SegFields
<1> QED BY <1>3, <1>4, <1>5, <1>6, <1>7

\* The map of the primary reference frame is a map, on either side.
LEMMA LastMapType == ASSUME IInv PROVE LastMap \in Maps /\ DecLastMap \in Maps
<1>1. PrevOf(ref_frames).map \in Maps /\ PrevOf(dec_frames).map \in Maps
  BY PrevIs, BufferFields
<1> QED BY <1>1, SegFields DEF LastMap, DecLastMap

\* EncodeFrame keeps the invariant.
LEMMA EncodeFrameKept == ASSUME IInv, EncodeFrame PROVE IInv'
<1>1. PICK others \in SUBSET (Units \ {1}), skipped \in SUBSET Units, score \in Maps :
        LET starts == {1} \cup others
            map == IF seg.update_map THEN enc_map ELSE LastMap
            ids == [u \in Units |->
                       IF vaq_refresh THEN Least(score, Block(starts, u))
                       ELSE IF seg.enabled THEN Least(map, Block(starts, u)) ELSE 0]
        IN /\ skipped \subseteq starts
           /\ vaq_refresh \/ score = ZeroMap
           /\ blocks' = [starts |-> starts, id |-> ids,
                         skip |-> {u \in Units : Block(starts, u) \cap skipped # {}}]
  BY DEF EncodeFrame
<1> DEFINE starts == {1} \cup others
           map == IF seg.update_map THEN enc_map ELSE LastMap
           ids == [u \in Units |->
                      IF vaq_refresh THEN Least(score, Block(starts, u))
                      ELSE IF seg.enabled THEN Least(map, Block(starts, u)) ELSE 0]
           skips == {u \in Units : Block(starts, u) \cap skipped # {}}
<1>2. phase = "encode" /\ phase' = "encoded"
      /\ UNCHANGED <<frame, loop_count, seg, vaq_refresh, enc_map, packet, ref_frames, dec_frames>>
      /\ blocks' = [starts |-> starts, id |-> ids, skip |-> skips]
  BY <1>1 DEF EncodeFrame, encVars
<1>3. starts \in SUBSET Units /\ 1 \in starts /\ skips \in SUBSET Units
  BY SegFields
<1>4. map \in Maps
  BY LastMapType DEF IInv, Types
<1>5. SetUp /\ SetUp'
  BY <1>2 DEF SetUp
<1>6. LastMap' = LastMap
  BY <1>2 DEF LastMap, PrevOf, HasPrev
<1> HIDE DEF skips, starts
<1>7. ASSUME NEW u \in Units
      PROVE  /\ ids[u] \in Segments
             /\ ~seg.enabled => ids[u] = 0
             /\ seg.enabled /\ ~seg.update_map => ids[u] = Least(LastMap, Block(starts, u))
             /\ seg.enabled /\ seg.update_map => ids[u] <= seg.last_active
  <2>1. CASE vaq_refresh
    <3>1. ids[u] = Least(score, Block(starts, u))
      BY <2>1
    <3>2. ids[u] \in Segments
      BY <1>3, <3>1, BlockSegment
    <3>3. seg.enabled /\ seg.update_map /\ seg.last_active = MaxSegment
      BY <1>5, <2>1, SegKinds DEF Refreshed
    <3> HIDE DEF ids
    <3> QED BY <3>2, <3>3, EdgeAqAssumption DEF Segments
  <2>2. CASE ~vaq_refresh /\ seg.enabled
    <3>1. ids[u] = Least(map, Block(starts, u))
      BY <2>2
    <3>2. ids[u] \in Segments /\ \E v \in Units : ids[u] = map[v]
      <4> HIDE DEF map, ids
      <4> QED BY <1>3, <1>4, <3>1, BlockSegment
    <3>3. seg.update_map => map = enc_map /\ \A v \in Units : enc_map[v] <= seg.last_active
      BY <1>2, <2>2 DEF IInv, MapIsClamped
    <3>4. ~seg.update_map => map = LastMap
      OBVIOUS
    <3> HIDE DEF ids, map
    <3> QED BY <2>2, <3>1, <3>2, <3>3, <3>4
  <2>3. CASE ~vaq_refresh /\ ~seg.enabled
    <3>1. ids[u] = 0
      BY <2>3
    <3> HIDE DEF ids
    <3> QED BY <2>3, <3>1, SegFields
  <2>4. vaq_refresh \in BOOLEAN /\ seg.enabled \in BOOLEAN
    BY SegFields DEF IInv, Types
  <2> QED BY <2>1, <2>2, <2>3, <2>4
<1>8. ids \in Maps
  <2>1. ids = [u \in Units |-> ids[u]]
    OBVIOUS
  <2> HIDE DEF ids
  <2> QED BY <1>7, <2>1 DEF Maps
<1> HIDE DEF ids, map
<1>9. blocks' \in BlockRecords /\ 1 \in blocks'.starts /\ blocks'.id = ids /\ blocks'.starts = starts
  BY <1>2, <1>3, <1>8 DEF BlockRecords
<1>10. Types'
  BY <1>2, <1>9 DEF IInv, Types
<1>11. BlocksFit'
  BY <1>2, <1>6, <1>7, <1>9 DEF BlocksFit
<1>12. SegIs' /\ VaqIs' /\ FlagsAreOneShot'
  BY <1>2, <1>5, SegStays
<1>13. MapIsClamped' /\ PacketIs' /\ BuffersFit' /\ SameBuffers'
  BY <1>2 DEF IInv, MapIsClamped, PacketIs, BuffersFit, SameBuffers
<1> QED BY <1>10, <1>11, <1>12, <1>13 DEF IInv

\* Pack keeps the invariant.
LEMMA PackKept == ASSUME IInv, Pack PROVE IInv'
<1>1. phase = "encoded" /\ phase' = "packed" /\ packet' = [seg |-> seg, blocks |-> blocks]
      /\ enc_map' = (IF seg.enabled /\ seg.update_map
                     THEN [u \in Units |-> IF u \in blocks.skip THEN Coded(blocks)[u] ELSE enc_map[u]]
                     ELSE enc_map)
      /\ UNCHANGED <<frame, loop_count, seg, vaq_refresh, blocks, ref_frames, dec_frames>>
  BY DEF Pack
<1>2. blocks \in BlockRecords /\ enc_map \in Maps
  BY DEF IInv, Types
<1>3. Coded(blocks) \in Maps
  BY <1>2, CodedIs
<1>4. enc_map' \in Maps
  BY <1>1, <1>2, <1>3 DEF Maps
<1>5. SetUp /\ SetUp' /\ LastMap' = LastMap
  BY <1>1 DEF SetUp, LastMap, PrevOf, HasPrev
<1>6. Types'
  BY <1>1, <1>4 DEF IInv, Types
<1>7. SegIs' /\ VaqIs' /\ FlagsAreOneShot'
  BY <1>1, <1>5, SegStays
<1>8. MapIsClamped' /\ BlocksFit' /\ PacketIs' /\ BuffersFit' /\ SameBuffers'
  BY <1>1, <1>5 DEF IInv, MapIsClamped, BlocksFit, PacketIs, BuffersFit, SameBuffers
<1> QED BY <1>6, <1>7, <1>8 DEF IInv

\* Recode keeps the invariant.
LEMMA RecodeKept == ASSUME IInv, Recode PROVE IInv'
<1>1. phase = "packed" /\ phase' = "setup" /\ loop_count' = loop_count + 1 /\ blocks' = NoBlocks
      /\ UNCHANGED <<frame, seg, vaq_refresh, enc_map, ref_frames, dec_frames>>
  BY DEF Recode, encVars
<1>2. NoBlocks \in BlockRecords /\ 1 \in NoBlocks.starts
  BY SegFields DEF NoBlocks, BlockRecords
<1>3. Types'
  BY <1>1, <1>2 DEF IInv, Types
<1>4. SetUp /\ SetUp'
  BY <1>1 DEF SetUp, IInv, Types
<1>5. SegIs' /\ VaqIs' /\ FlagsAreOneShot'
  BY <1>1, <1>4, SegStays
<1>6. MapIsClamped' /\ BlocksFit' /\ PacketIs' /\ BuffersFit' /\ SameBuffers'
  BY <1>1 DEF IInv, MapIsClamped, BlocksFit, PacketIs, BuffersFit, SameBuffers
<1> QED BY <1>3, <1>5, <1>6 DEF IInv

\* A frame leaves the same buffer on both sides, as far as anybody may look, and
\* blocks with coefficients are dequantized as they were quantized.
LEMMA BuffersAgree ==
  ASSUME IInv, phase = "packed"
  PROVE  /\ EncBuffer \in BufferRecords /\ DecBuffer \in BufferRecords
         /\ SameBuffer(EncBuffer, DecBuffer)
         /\ EncBuffer.last_active = LastActive(EncBuffer.q)
         /\ ~EncBuffer.enabled => EncBuffer.q = 0
         /\ \A u \in Units \ blocks.skip : blocks.id[u] = DecSegment(u)
<1> DEFINE prev == PrevOf(ref_frames)
           dec == PrevOf(dec_frames)
           code == Coded(blocks)
<1>1. packet.seg = seg /\ packet.blocks = blocks
  BY DEF IInv, PacketIs
<1>2. SetUp
  BY DEF SetUp
<1>3. prev.last_active = LastActive(prev.q) /\ (~prev.enabled => prev.q = 0) /\ prev.map \in Maps
      /\ dec.map \in Maps /\ SameBuffer(prev, dec) /\ dec.q \in BaseQ \cup {0}
  BY PrevIs, BufferFields
<1>4. blocks \in BlockRecords /\ code \in Maps
      /\ \A u \in Units \ blocks.skip : code[u] = blocks.id[u]
  BY CodedIs DEF IInv, Types
<1>5. seg \in Segs /\ frame.size \in Sizes \cup {0}
  BY DEF IInv, Types, FrameRecords
<1>6. LastMap \in Maps /\ DecLastMap \in Maps
  BY LastMapType
<1>7. /\ EncBuffer.size = frame.size /\ DecBuffer.size = frame.size
      /\ EncBuffer.enabled = seg.enabled /\ DecBuffer.enabled = seg.enabled
      /\ EncBuffer.q = seg.q /\ EncBuffer.last_active = seg.last_active
      /\ DecBuffer.q = DecQ /\ DecBuffer.last_active = LastActive(DecQ) /\ DecBuffer.map = DecMap
      /\ EncBuffer.map = (IF seg.enabled /\ seg.update_map THEN code
                          ELSE IF seg.enabled /\ prev.enabled THEN LastMap
                          ELSE [u \in Units |-> MaxSegment])
  BY <1>1 DEF EncBuffer, DecBuffer
<1>8. EncBuffer \in BufferRecords
  <2>1. [u \in Units |-> MaxSegment] \in Maps
    BY SegFields DEF Maps
  <2>2. EncBuffer.map \in Maps
    BY <1>4, <1>6, <1>7, <2>1
  <2>3. EncBuffer = [size |-> frame.size, enabled |-> seg.enabled, q |-> seg.q,
                     last_active |-> seg.last_active, map |-> EncBuffer.map]
    BY DEF EncBuffer
  <2>4. seg.enabled \in BOOLEAN /\ seg.q \in BaseQ \cup {0} /\ seg.last_active \in Segments
    BY <1>5, SegFields
  <2> QED BY <1>5, <2>2, <2>3, <2>4 DEF BufferRecords
<1>9. DecBuffer \in BufferRecords
  <2>1. DecMap \in Maps
    BY <1>1, <1>4, <1>6, SegFields DEF DecMap
  <2>2. DecQ \in BaseQ \cup {0}
    BY <1>1, <1>3, <1>5, SegFields DEF DecQ
  <2>3. DecBuffer = [size |-> frame.size, enabled |-> seg.enabled, q |-> DecQ,
                     last_active |-> LastActive(DecQ), map |-> DecMap]
    BY <1>1 DEF DecBuffer
  <2>4. seg.enabled \in BOOLEAN /\ LastActive(DecQ) \in Segments
    BY <1>5, <2>2, SegFields
  <2> QED BY <1>5, <2>1, <2>2, <2>3, <2>4 DEF BufferRecords
<1> HIDE DEF prev, dec, code
<1>10. CASE ~seg.enabled /\ seg.q = 0 /\ seg.last_active = 0
  <2>1. DecQ = 0 /\ DecMap = ZeroMap
    BY <1>1, <1>10 DEF DecQ, DecMap
  <2>2. SameBuffer(EncBuffer, DecBuffer)
    BY <1>7, <1>10, <2>1, SegFields DEF SameBuffer
  <2>3. ASSUME NEW u \in Units PROVE blocks.id[u] = DecSegment(u)
    <3>1. DecSegment(u) = 0
      BY <1>1, <1>10, <2>1 DEF DecSegment, ZeroMap
    <3>2. blocks.id[u] = 0
      BY <1>10 DEF IInv, BlocksFit
    <3> QED BY <3>1, <3>2
  <2> QED BY <1>7, <1>8, <1>9, <1>10, <2>2, <2>3, SegFields
<1>11. CASE /\ seg.enabled /\ seg.update_map /\ seg.update_data
            /\ seg.last_active = LastActive(seg.q)
  <2>1. DecQ = seg.q /\ DecReadsMap /\ DecMap = code
    BY <1>1, <1>11 DEF DecQ, DecMap, DecReadsMap, code
  <2>2. SameBuffer(EncBuffer, DecBuffer)
    BY <1>7, <1>11, <2>1 DEF SameBuffer
  <2>3. ASSUME NEW u \in Units \ blocks.skip PROVE blocks.id[u] = DecSegment(u)
    BY <1>4, <2>1 DEF DecSegment
  <2> QED BY <1>7, <1>8, <1>9, <1>11, <2>2, <2>3
<1>12. CASE /\ seg.enabled /\ ~seg.update_map /\ ~seg.update_data
            /\ HasPrev /\ ~Mismatch /\ Inherited(seg)
  <2>1. prev.enabled /\ seg.q = prev.q /\ seg.last_active = prev.last_active
    BY <1>12 DEF Inherited, prev
  <2>2. dec.size = prev.size /\ dec.q = prev.q /\ dec.map = prev.map /\ prev.size = frame.size
    BY <1>3, <1>12, <2>1 DEF SameBuffer, Mismatch, prev
  <2>3. LastMap = prev.map /\ DecLastMap = dec.map
    BY <2>1, <2>2 DEF LastMap, DecLastMap, prev, dec
  <2>4. DecQ = dec.q /\ ~DecReadsMap /\ DecMap = DecLastMap
    BY <1>1, <1>12 DEF DecQ, DecMap, DecReadsMap, dec
  <2>5. SameBuffer(EncBuffer, DecBuffer)
    BY <1>3, <1>7, <1>12, <2>1, <2>2, <2>3, <2>4 DEF SameBuffer
  <2>6. ASSUME NEW u \in Units PROVE blocks.id[u] = DecSegment(u)
    <3>1. DecSegment(u) = Least(DecLastMap, Block(blocks.starts, u))
      BY <1>1, <1>12, <2>4 DEF DecSegment
    <3>2. blocks.id[u] = Least(LastMap, Block(blocks.starts, u))
      BY <1>12 DEF IInv, BlocksFit
    <3> QED BY <2>2, <2>3, <3>1, <3>2
  <2> QED BY <1>3, <1>7, <1>8, <1>9, <1>12, <2>1, <2>5, <2>6
<1> QED BY <1>2, <1>10, <1>11, <1>12, SegKinds

\* Finish keeps the invariant.
LEMMA FinishKept == ASSUME IInv, Finish PROVE IInv'
<1>1. phase = "packed" /\ phase' = "idle" /\ frame' = NoFrame /\ loop_count' = 0
      /\ blocks' = NoBlocks /\ seg' = [seg EXCEPT !.update_map = FALSE, !.update_data = FALSE]
      /\ ref_frames' = Keep(ref_frames, EncBuffer) /\ dec_frames' = Keep(dec_frames, DecBuffer)
      /\ UNCHANGED <<vaq_refresh, enc_map>>
  BY DEF Finish
<1>2. ~SetUp'
  BY <1>1 DEF SetUp
<1>3. seg' \in Segs /\ ~seg'.update_map /\ ~seg'.update_data
  BY <1>1 DEF IInv, Types, Segs
<1>4. \A s \in Slots : /\ ref_frames'[s] = IF s \in frame.refresh THEN EncBuffer ELSE ref_frames[s]
                       /\ dec_frames'[s] = IF s \in frame.refresh THEN DecBuffer ELSE dec_frames[s]
  BY <1>1 DEF Keep
<1>5. ref_frames' \in [Slots -> BufferRecords] /\ dec_frames' \in [Slots -> BufferRecords]
  <2>1. EncBuffer \in BufferRecords /\ DecBuffer \in BufferRecords
    BY <1>1, BuffersAgree
  <2>2. ref_frames \in [Slots -> BufferRecords] /\ dec_frames \in [Slots -> BufferRecords]
    BY DEF IInv, Types
  <2> HIDE DEF EncBuffer, DecBuffer
  <2> QED BY <1>1, <2>1, <2>2 DEF Keep
<1>6. Types'
  <2>1. NoFrame \in FrameRecords /\ NoBlocks \in BlockRecords /\ 1 \in NoBlocks.starts
    BY SegFields DEF NoFrame, NoBlocks, FrameRecords, BlockRecords
  <2> QED BY <1>1, <1>3, <1>5, <2>1 DEF IInv, Types
<1>7. BuffersFit' /\ SameBuffers'
  <2>1. SameBuffer(EncBuffer, DecBuffer) /\ EncBuffer.last_active = LastActive(EncBuffer.q)
        /\ (~EncBuffer.enabled => EncBuffer.q = 0)
    BY <1>1, BuffersAgree
  <2> QED BY <1>4, <2>1 DEF IInv, BuffersFit, SameBuffers
<1>8. FlagsAreOneShot'
  BY <1>3 DEF FlagsAreOneShot
<1> QED BY <1>1, <1>2, <1>6, <1>7, <1>8 DEF IInv, SegIs, VaqIs, MapIsClamped, BlocksFit, PacketIs

\* Every step keeps the invariant.
LEMMA NextIInv == IInv /\ [Next]_vars => IInv'
<1> SUFFICES ASSUME IInv, [Next]_vars PROVE IInv'
  OBVIOUS
<1>1. CASE UNCHANGED vars
  <2>1. UNCHANGED <<phase, frame, loop_count, seg, vaq_refresh, enc_map, blocks, packet,
                    ref_frames, dec_frames>>
    BY <1>1 DEF vars, encVars
  <2>2. (SetUp' <=> SetUp) /\ LastMap' = LastMap
    BY <2>1 DEF SetUp, LastMap, PrevOf, HasPrev
  <2>3. SegIs' /\ VaqIs' /\ FlagsAreOneShot'
    <3>1. CASE SetUp
      BY <2>1, <2>2, <3>1, SegStays
    <3>2. CASE ~SetUp
      BY <2>1, <2>2, <3>2 DEF IInv, SegIs, VaqIs, FlagsAreOneShot
    <3> QED BY <3>1, <3>2
  <2> QED BY <2>1, <2>2, <2>3 DEF IInv, Types, MapIsClamped, BlocksFit, PacketIs, BuffersFit,
      SameBuffers
<1> QED BY <1>1, StartFrameKept, SetupKept, EncodeFrameKept, PackKept, RecodeKept, FinishKept
    DEF Next

\* The invariant of the specification.
LEMMA Invariant == Spec => []IInv
BY InitIInv, NextIInv, PTL DEF Spec

-----------------------------------------------------------------------------
\* The theorems.

\* Every variable has its type: maps hold segments only, buffers of both sides
\* have the fields a frame may inherit.
THEOREM TypeCorrect == Spec => []Types
<1>1. IInv => Types
  BY DEF IInv
<1> QED BY <1>1, Invariant, PTL

\* No block is written with a segment beyond the last active one, also when its
\* segment comes from a map of frames with other segments and when the frame is
\* coded again for its rate.
THEOREM SegmentsInRange == Spec => []SegmentsFit
<1>1. IInv => SegmentsFit
  BY DEF IInv, BlocksFit, SegmentsFit
<1> QED BY <1>1, Invariant, PTL

\* The decoder dequantizes every block that has coefficients with the segment it
\* was quantized with, and keeps the segments the encoder keeps.
THEOREM DecoderFollows == Spec => []DecoderAgrees
<1>1. IInv => DecoderAgrees
  <2> SUFFICES ASSUME IInv, phase = "packed"
               PROVE  /\ Visible(DecBuffer) = Visible(EncBuffer)
                      /\ \A u \in Units \ blocks.skip : blocks.id[u] = DecSegment(u)
    BY DEF DecoderAgrees
  <2>1. EncBuffer \in BufferRecords /\ DecBuffer \in BufferRecords
        /\ SameBuffer(EncBuffer, DecBuffer)
        /\ \A u \in Units \ blocks.skip : blocks.id[u] = DecSegment(u)
    BY BuffersAgree
  <2>2. ASSUME NEW a \in BufferRecords, NEW b \in BufferRecords, SameBuffer(a, b)
        PROVE  Visible(b) = Visible(a)
    BY <2>2 DEF Visible, BufferRecords, SameBuffer
  <2> QED BY <2>1, <2>2
<1> QED BY <1>1, Invariant, PTL

\* A frame that does not refresh the segments has those of its primary
\* reference, unit by unit, with the quantizers they had there.
THEOREM SegmentsKept == Spec => []SegmentsPersist
<1>1. IInv => SegmentsPersist
  <2> SUFFICES ASSUME IInv, phase = "encoded", frame.kind = "leaf", HasPrev, seg.enabled
               PROVE  LET prev == ref_frames[frame.primary]
                      IN /\ seg.q = prev.q
                         /\ \A u \in Units : blocks.id[u] = Least(prev.map, Block(blocks.starts, u))
    BY DEF SegmentsPersist
  <2>1. SetUp /\ PrevOf(ref_frames) = ref_frames[frame.primary]
    BY DEF SetUp, PrevOf
  <2>2. Inherited(seg)
    BY <2>1 DEF IInv, SegIs, Disabled
  <2>3. ref_frames[frame.primary].enabled /\ ~seg.update_map /\ seg.q = ref_frames[frame.primary].q
    BY <2>1, <2>2 DEF Inherited
  <2>4. LastMap = ref_frames[frame.primary].map
    BY <2>1, <2>3 DEF LastMap
  <2>5. \A u \in Units : blocks.id[u] = Least(LastMap, Block(blocks.starts, u))
    BY <2>3 DEF IInv, BlocksFit
  <2> QED BY <2>3, <2>4, <2>5
<1> QED BY <1>1, Invariant, PTL

=============================================================================
