---------------------------- MODULE CodecProofs ----------------------------
(***************************************************************************)
(* Proofs about Codec, for every size of picture, quantizer, option and    *)
(* input: the decoder reads a packet to its last element and no further,   *)
(* both sides keep the same reference, and the pair implements the channel *)
(* of pictures.                                                            *)
(*                                                                         *)
(* The invariant IInv says what a packet is: elements that start one       *)
(* macroblock after the other (the function cut of Codes), each of which a *)
(* decoder that holds the reference turns into a sample of the picture.    *)
(* The packet the encoder is writing, every whole packet of the pipe and   *)
(* what the decoder has left to read are such elements, of the picture     *)
(* that recs remembers.                                                    *)
(***************************************************************************)
EXTENDS Codec, TLAPS, SequenceTheorems

\* IntraPred, of a given run's options.
Predicted(s, rec, p, mode) ==
    LET top  == IF p \div s.w > 0 THEN rec[p - s.w] ELSE Mid
        left == IF p % s.w > 0 THEN rec[p - 1] ELSE Mid
    IN CASE mode = INTRA_DC ->
                 IF p \div s.w > 0 /\ p % s.w > 0 THEN (top + left + 1) \div 2
                 ELSE IF p \div s.w > 0 THEN top ELSE left
         [] mode = INTRA_H -> left
         [] mode = INTRA_V -> top
         [] OTHER -> (top + left + 1) \div 2

LevelAt(pkt, i) == IF Element(pkt, i) = 0 THEN 0 ELSE Element(pkt, i + 1)
LengthAt(pkt, i) == IF Element(pkt, i) = 0 THEN 1 ELSE 2
QpOf(s, region) == Clip(s.qp + DecQpOffset(region), 0, MaxQp)

\* The position the vector of the macroblock at p points at.
Target(s, p, x, y) ==
    Clip(p \div s.w + y, 0, s.h - 1) * s.w + Clip((p % s.w) + x, 0, s.w - 1)

\* Elements of the macroblock that begins after element c of a frame of type t.
Size(t, pkt, c) ==
    IF t = FRAME_I THEN 2 + LengthAt(pkt, c + 3)
    ELSE IF Element(pkt, c + 2) # 0 THEN 2
    ELSE 4 + LengthAt(pkt, c + 5)

\* The sample they stand for, at position p of a picture rec predicted from ref.
Sample(s, t, pkt, c, ref, rec, p) ==
    IF t = FRAME_I
    THEN Reconstruct(Predicted(s, rec, p, Element(pkt, c + 2)), LevelAt(pkt, c + 3),
                     QpOf(s, Element(pkt, c + 1)))
    ELSE IF Element(pkt, c + 2) # 0 THEN ref[p]
    ELSE Reconstruct(ref[Target(s, p, Element(pkt, c + 3), Element(pkt, c + 4))],
                     LevelAt(pkt, c + 5), QpOf(s, Element(pkt, c + 1)))

\* The elements after c, up to the one after next, are the macroblock at p.
Macroblock(s, t, pkt, c, next, ref, rec, p) ==
    /\ next = c + Size(t, pkt, c)
    /\ rec[p] = Sample(s, t, pkt, c, ref, rec, p)

\* The elements of pkt after element c are the macroblocks from a up to b.
Codes(s, t, pkt, c, a, b, ref, rec) ==
    \E cut \in [a..b -> Nat] :
        /\ cut[a] = c /\ cut[b] = Len(pkt)
        /\ \A p, q \in a..b : p <= q => cut[p] <= cut[q]
        /\ \A p \in a..(b - 1) : Macroblock(s, t, pkt, cut[p], cut[p + 1], ref, rec, p)

-----------------------------------------------------------------------------
\* Syntax elements.

\* The elements of the rest of a packet are those of the packet.
LEMMA RestElements ==
    ASSUME NEW pkt \in Seq(Int), NEW n \in Nat, n <= Len(pkt)
    PROVE  /\ Rest(pkt, n) \in Seq(Int)
           /\ Len(Rest(pkt, n)) = Len(pkt) - n
           /\ \A i \in Nat \ {0} : Element(Rest(pkt, n), i) = Element(pkt, n + i)
<1>1. Len(pkt) \in Nat
  BY LenProperties
<1>2. \A i \in (n + 1)..Len(pkt) : pkt[i] \in Int
  BY <1>1, ElementOfSeq
<1>3. /\ Rest(pkt, n) \in Seq(Int)
      /\ Len(Rest(pkt, n)) = IF n + 1 <= Len(pkt) THEN Len(pkt) - (n + 1) + 1 ELSE 0
      /\ \A i \in 1..(Len(pkt) - (n + 1) + 1) : Rest(pkt, n)[i] = pkt[n + 1 + i - 1]
  BY <1>1, <1>2, SubSeqProperties, n + 1 \in Int, Len(pkt) \in Int DEF Rest
<1>4. Len(Rest(pkt, n)) = Len(pkt) - n
  BY <1>1, <1>3
<1>5. ASSUME NEW i \in Nat \ {0}
      PROVE  Element(Rest(pkt, n), i) = Element(pkt, n + i)
  <2>1. CASE i <= Len(pkt) - n
    <3>1. i \in 1..Len(Rest(pkt, n)) /\ n + i \in 1..Len(pkt) /\ n + 1 + i - 1 = n + i
      BY <2>1, <1>1, <1>4
    <3> QED BY <3>1, <1>3, <1>4, <1>1 DEF Element
  <2>2. CASE ~(i <= Len(pkt) - n)
    <3>1. i \notin 1..Len(Rest(pkt, n)) /\ n + i \notin 1..Len(pkt)
      BY <2>2, <1>1, <1>4
    <3> QED BY <3>1 DEF Element
  <2> QED BY <2>1, <2>2
<1> QED BY <1>3, <1>4, <1>5

\* What is written later does not change the elements before it.
LEMMA PrefixElements ==
    ASSUME NEW pkt \in Seq(Int), NEW suffix \in Seq(Int)
    PROVE  /\ pkt \o suffix \in Seq(Int)
           /\ Len(pkt \o suffix) = Len(pkt) + Len(suffix)
           /\ \A i \in 1..Len(pkt) : Element(pkt \o suffix, i) = Element(pkt, i)
           /\ \A i \in 1..Len(suffix) : Element(pkt \o suffix, Len(pkt) + i) = suffix[i]
<1>1. Len(pkt) \in Nat /\ Len(suffix) \in Nat
  BY LenProperties
<1>2. /\ pkt \o suffix \in Seq(Int)
      /\ Len(pkt \o suffix) = Len(pkt) + Len(suffix)
      /\ \A i \in 1..(Len(pkt) + Len(suffix)) :
            (pkt \o suffix)[i] = IF i <= Len(pkt) THEN pkt[i] ELSE suffix[i - Len(pkt)]
  BY ConcatProperties
<1>3. ASSUME NEW i \in 1..Len(pkt)
      PROVE  Element(pkt \o suffix, i) = Element(pkt, i)
  BY <1>1, <1>2 DEF Element
<1>4. ASSUME NEW i \in 1..Len(suffix)
      PROVE  Element(pkt \o suffix, Len(pkt) + i) = suffix[i]
  <2>1. Len(pkt) + i \in 1..(Len(pkt) + Len(suffix)) /\ ~(Len(pkt) + i <= Len(pkt))
        /\ (Len(pkt) + i) - Len(pkt) = i
    BY <1>1
  <2> QED BY <2>1, <1>2 DEF Element
<1> QED BY <1>2, <1>3, <1>4

\* A macroblock takes two to six elements.
LEMMA SizeBounds ==
    ASSUME NEW t, NEW pkt, NEW c
    PROVE  Size(t, pkt, c) \in 2..6
BY DEF Size, LengthAt

\* A macroblock is decoded the same way from the rest of the packet.
LEMMA ShiftedMacroblock ==
    ASSUME NEW pkt \in Seq(Int), NEW k \in Nat, k <= Len(pkt), NEW c \in Nat, k <= c,
           NEW s, NEW t, NEW ref, NEW rec, NEW p
    PROVE  /\ Size(t, Rest(pkt, k), c - k) = Size(t, pkt, c)
           /\ Sample(s, t, Rest(pkt, k), c - k, ref, rec, p) = Sample(s, t, pkt, c, ref, rec, p)
<1>1. \A i \in Nat \ {0} : Element(Rest(pkt, k), i) = Element(pkt, k + i)
  BY RestElements
<1>2. \A i \in 1..6 : Element(Rest(pkt, k), c - k + i) = Element(pkt, c + i)
  <2> SUFFICES ASSUME NEW i \in 1..6
               PROVE  Element(Rest(pkt, k), c - k + i) = Element(pkt, c + i)
    OBVIOUS
  <2>1. c - k + i \in Nat \ {0} /\ k + (c - k + i) = c + i
    OBVIOUS
  <2> QED BY <1>1, <2>1
<1>3. /\ Element(Rest(pkt, k), c - k + 1) = Element(pkt, c + 1)
      /\ Element(Rest(pkt, k), c - k + 2) = Element(pkt, c + 2)
      /\ Element(Rest(pkt, k), c - k + 3) = Element(pkt, c + 3)
      /\ Element(Rest(pkt, k), c - k + 4) = Element(pkt, c + 4)
      /\ Element(Rest(pkt, k), c - k + 5) = Element(pkt, c + 5)
      /\ Element(Rest(pkt, k), c - k + 6) = Element(pkt, c + 6)
  BY <1>2
<1>4. /\ LevelAt(Rest(pkt, k), c - k + 3) = LevelAt(pkt, c + 3)
      /\ LengthAt(Rest(pkt, k), c - k + 3) = LengthAt(pkt, c + 3)
      /\ LevelAt(Rest(pkt, k), c - k + 5) = LevelAt(pkt, c + 5)
      /\ LengthAt(Rest(pkt, k), c - k + 5) = LengthAt(pkt, c + 5)
  <2>1. /\ (c - k + 3) + 1 = c - k + 4 /\ (c + 3) + 1 = c + 4
        /\ (c - k + 5) + 1 = c - k + 6 /\ (c + 5) + 1 = c + 6
    OBVIOUS
  <2> QED BY <1>3, <2>1 DEF LevelAt, LengthAt
<1> QED BY <1>3, <1>4 DEF Size, Sample

\* A macroblock is decoded the same way when more is written after it.
LEMMA ExtendedMacroblock ==
    ASSUME NEW pkt \in Seq(Int), NEW suffix \in Seq(Int), NEW c \in Nat,
           NEW s, NEW t, NEW ref, NEW rec, NEW p,
           c + Size(t, pkt, c) <= Len(pkt)
    PROVE  /\ Size(t, pkt \o suffix, c) = Size(t, pkt, c)
           /\ Sample(s, t, pkt \o suffix, c, ref, rec, p) = Sample(s, t, pkt, c, ref, rec, p)
<1> DEFINE new == pkt \o suffix
<1>1. Len(pkt) \in Nat /\ \A i \in 1..Len(pkt) : Element(new, i) = Element(pkt, i)
  BY PrefixElements, LenProperties
<1>2. Size(t, pkt, c) \in 2..6
  BY SizeBounds
<1>3. Element(new, c + 1) = Element(pkt, c + 1) /\ Element(new, c + 2) = Element(pkt, c + 2)
  <2>1. c + 1 \in 1..Len(pkt) /\ c + 2 \in 1..Len(pkt)
    BY <1>1, <1>2
  <2> QED BY <2>1, <1>1
<1> HIDE DEF new
<1>4. CASE t = FRAME_I
  <2>1. c + 3 \in 1..Len(pkt)
    BY <1>4, <1>1 DEF Size, LengthAt
  <2>2. Element(new, c + 3) = Element(pkt, c + 3)
    BY <2>1, <1>1
  <2>3. LengthAt(new, c + 3) = LengthAt(pkt, c + 3)
    BY <2>2 DEF LengthAt
  <2>4. LevelAt(new, c + 3) = LevelAt(pkt, c + 3)
    <3>1. CASE Element(pkt, c + 3) = 0
      BY <3>1, <2>2 DEF LevelAt
    <3>2. CASE Element(pkt, c + 3) # 0
      <4>1. (c + 3) + 1 \in 1..Len(pkt)
        BY <3>2, <1>4, <1>1 DEF Size, LengthAt
      <4> QED BY <4>1, <3>2, <2>2, <1>1 DEF LevelAt
    <3> QED BY <3>1, <3>2
  <2> QED BY <1>3, <1>4, <2>3, <2>4 DEF Size, Sample, new
<1>5. CASE t # FRAME_I /\ Element(pkt, c + 2) # 0
  BY <1>5, <1>3 DEF Size, Sample, new
<1>6. CASE t # FRAME_I /\ Element(pkt, c + 2) = 0
  <2>1. c + 3 \in 1..Len(pkt) /\ c + 4 \in 1..Len(pkt) /\ c + 5 \in 1..Len(pkt)
    BY <1>6, <1>1 DEF Size, LengthAt
  <2>2. /\ Element(new, c + 3) = Element(pkt, c + 3)
        /\ Element(new, c + 4) = Element(pkt, c + 4)
        /\ Element(new, c + 5) = Element(pkt, c + 5)
    BY <2>1, <1>1
  <2>3. LengthAt(new, c + 5) = LengthAt(pkt, c + 5)
    BY <2>2 DEF LengthAt
  <2>4. LevelAt(new, c + 5) = LevelAt(pkt, c + 5)
    <3>1. CASE Element(pkt, c + 5) = 0
      BY <3>1, <2>2 DEF LevelAt
    <3>2. CASE Element(pkt, c + 5) # 0
      <4>1. (c + 5) + 1 \in 1..Len(pkt)
        BY <3>2, <1>6, <1>1 DEF Size, LengthAt
      <4> QED BY <4>1, <3>2, <2>2, <1>1 DEF LevelAt
    <3> QED BY <3>1, <3>2
  <2> QED BY <1>3, <1>6, <2>2, <2>3, <2>4 DEF Size, Sample, new
<1> QED BY <1>4, <1>5, <1>6

-----------------------------------------------------------------------------
\* Packets.

\* Two pictures have the same samples before position p.
AgreeBefore(rec, other, p) == \A q \in 0..(p - 1) : rec[q] = other[q]

\* Nothing of a packet is coded yet when its header is written.
LEMMA CodesNothing ==
    ASSUME NEW s, NEW t, NEW pkt, Len(pkt) \in Nat, NEW a \in Nat, NEW ref, NEW rec
    PROVE  Codes(s, t, pkt, Len(pkt), a, a, ref, rec)
<1> DEFINE cut == [p \in a..a |-> Len(pkt)]
<1>1. cut \in [a..a -> Nat] /\ cut[a] = Len(pkt) /\ a..(a - 1) = {}
  OBVIOUS
<1>2. \A p, q \in a..a : p <= q => cut[p] <= cut[q]
  OBVIOUS
<1> HIDE DEF cut
<1> QED BY <1>1, <1>2 DEF Codes

\* The rest of a packet codes the same macroblocks.
LEMMA CodesShifted ==
    ASSUME NEW pkt \in Seq(Int), NEW c \in Nat, NEW a \in Nat, NEW b \in Nat, a <= b,
           NEW s, NEW t, NEW ref, NEW rec,
           Codes(s, t, pkt, c, a, b, ref, rec)
    PROVE  Codes(s, t, Rest(pkt, c), 0, a, b, ref, rec)
<1>1. PICK cut \in [a..b -> Nat] :
        /\ cut[a] = c /\ cut[b] = Len(pkt)
        /\ \A p, q \in a..b : p <= q => cut[p] <= cut[q]
        /\ \A p \in a..(b - 1) : Macroblock(s, t, pkt, cut[p], cut[p + 1], ref, rec, p)
  BY DEF Codes
<1> DEFINE new == [p \in a..b |-> cut[p] - c]
<1>2. Len(pkt) \in Nat /\ c <= Len(pkt) /\ \A p \in a..b : cut[p] \in Nat /\ c <= cut[p]
  BY <1>1, LenProperties
<1>3. new \in [a..b -> Nat]
  BY <1>2
<1>4. new[a] = 0 /\ new[b] = Len(Rest(pkt, c))
  <2>1. Len(Rest(pkt, c)) = Len(pkt) - c
    BY <1>2, RestElements
  <2>2. a \in a..b /\ b \in a..b
    OBVIOUS
  <2>3. new[a] = cut[a] - c /\ new[b] = cut[b] - c
    BY <2>2
  <2> HIDE DEF new
  <2> QED BY <2>1, <2>3, <1>1
<1>5. \A p, q \in a..b : p <= q => new[p] <= new[q]
  BY <1>1, <1>2
<1>6. ASSUME NEW p \in a..(b - 1)
      PROVE  Macroblock(s, t, Rest(pkt, c), new[p], new[p + 1], ref, rec, p)
  <2>1. p \in a..b /\ p + 1 \in a..b
    OBVIOUS
  <2>2. cut[p] \in Nat /\ c <= cut[p] /\ new[p] = cut[p] - c /\ new[p + 1] = cut[p + 1] - c
    BY <2>1, <1>2
  <2>3. cut[p + 1] = cut[p] + Size(t, pkt, cut[p])
        /\ rec[p] = Sample(s, t, pkt, cut[p], ref, rec, p)
    BY <1>1 DEF Macroblock
  <2>4. /\ Size(t, Rest(pkt, c), cut[p] - c) = Size(t, pkt, cut[p])
        /\ Sample(s, t, Rest(pkt, c), cut[p] - c, ref, rec, p) = Sample(s, t, pkt, cut[p], ref, rec, p)
    BY <1>2, <2>2, ShiftedMacroblock
  <2>5. Size(t, pkt, cut[p]) \in 2..6
    BY SizeBounds
  <2> HIDE DEF new
  <2>6. Size(t, Rest(pkt, c), new[p]) = Size(t, pkt, cut[p])
    BY <2>2, <2>4
  <2>7. new[p + 1] = new[p] + Size(t, pkt, cut[p])
    <3> DEFINE n == Size(t, pkt, cut[p])
    <3>1. n \in Int /\ cut[p] \in Int /\ cut[p + 1] = cut[p] + n
      BY <2>2, <2>3, <2>5
    <3> HIDE DEF n
    <3>2. cut[p + 1] - c = (cut[p] - c) + n
      BY <3>1
    <3> QED BY <2>2, <3>2 DEF n
  <2> QED BY <2>2, <2>3, <2>4, <2>6, <2>7 DEF Macroblock
<1> HIDE DEF new
<1> QED BY <1>3, <1>4, <1>5, <1>6 DEF Codes

\* The first macroblock of a packet, and those after it.
LEMMA CodesFirst ==
    ASSUME NEW pkt \in Seq(Int), NEW c \in Nat, NEW a \in Nat, NEW b \in Nat, a < b,
           NEW s, NEW t, NEW ref, NEW rec,
           Codes(s, t, pkt, c, a, b, ref, rec)
    PROVE  /\ c + Size(t, pkt, c) <= Len(pkt)
           /\ rec[a] = Sample(s, t, pkt, c, ref, rec, a)
           /\ Codes(s, t, pkt, c + Size(t, pkt, c), a + 1, b, ref, rec)
<1>1. PICK cut \in [a..b -> Nat] :
        /\ cut[a] = c /\ cut[b] = Len(pkt)
        /\ \A p, q \in a..b : p <= q => cut[p] <= cut[q]
        /\ \A p \in a..(b - 1) : Macroblock(s, t, pkt, cut[p], cut[p + 1], ref, rec, p)
  BY DEF Codes
<1> DEFINE new == [p \in (a + 1)..b |-> cut[p]]
<1>2. a \in a..(b - 1) /\ a + 1 \in a..b /\ b \in a..b /\ a + 1 <= b
  OBVIOUS
<1>3. cut[a + 1] = c + Size(t, pkt, c) /\ rec[a] = Sample(s, t, pkt, c, ref, rec, a)
  BY <1>1, <1>2 DEF Macroblock
<1>4. cut[a + 1] <= Len(pkt)
  BY <1>1, <1>2
<1>5. new \in [(a + 1)..b -> Nat] /\ new[a + 1] = cut[a + 1] /\ new[b] = Len(pkt)
  BY <1>1, <1>2
<1>6. \A p, q \in (a + 1)..b : p <= q => new[p] <= new[q]
  BY <1>1
<1>7. ASSUME NEW p \in (a + 1)..(b - 1)
      PROVE  Macroblock(s, t, pkt, new[p], new[p + 1], ref, rec, p)
  <2>1. p \in a..(b - 1) /\ p \in (a + 1)..b /\ p + 1 \in (a + 1)..b
    OBVIOUS
  <2>2. new[p] = cut[p] /\ new[p + 1] = cut[p + 1]
    BY <2>1
  <2> QED BY <2>1, <2>2, <1>1
<1> HIDE DEF new
<1>8. Codes(s, t, pkt, cut[a + 1], a + 1, b, ref, rec)
  BY <1>5, <1>6, <1>7 DEF Codes
<1> QED BY <1>3, <1>4, <1>8

\* A packet whose macroblocks are all read is at its end.
LEMMA CodesNoMore ==
    ASSUME NEW s, NEW t, NEW pkt, NEW c, NEW a \in Nat, NEW ref, NEW rec,
           Codes(s, t, pkt, c, a, a, ref, rec)
    PROVE  c = Len(pkt)
BY DEF Codes

\* Predictions look back only.
LEMMA PredictionLooksBack ==
    ASSUME NEW s, s.w \in Nat \ {0}, NEW p \in Nat, NEW mode, NEW rec, NEW other,
           AgreeBefore(rec, other, p)
    PROVE  Predicted(s, rec, p, mode) = Predicted(s, other, p, mode)
<1>1. p \div s.w > 0 => p - s.w \in 0..(p - 1)
  OBVIOUS
<1>2. p % s.w > 0 => p - 1 \in 0..(p - 1)
  OBVIOUS
<1>3. p \div s.w > 0 => rec[p - s.w] = other[p - s.w]
  BY <1>1 DEF AgreeBefore
<1>4. p % s.w > 0 => rec[p - 1] = other[p - 1]
  BY <1>2 DEF AgreeBefore
<1> QED BY <1>3, <1>4 DEF Predicted

\* The sample of a macroblock depends on the picture only before its position.
LEMMA SampleLooksBack ==
    ASSUME NEW s, s.w \in Nat \ {0}, NEW p \in Nat, NEW rec, NEW other,
           AgreeBefore(rec, other, p), NEW t, NEW pkt, NEW c, NEW ref
    PROVE  Sample(s, t, pkt, c, ref, rec, p) = Sample(s, t, pkt, c, ref, other, p)
<1>1. Predicted(s, rec, p, Element(pkt, c + 2)) = Predicted(s, other, p, Element(pkt, c + 2))
  BY PredictionLooksBack
<1> QED BY <1>1 DEF Sample

\* One more macroblock is written: its elements after the others, its sample
\* into the picture.
LEMMA CodesOneMore ==
    ASSUME NEW pkt \in Seq(Int), NEW suffix \in Seq(Int), NEW c \in Nat,
           NEW a \in Nat, NEW b \in Nat, a <= b,
           NEW s, s.w \in Nat \ {0}, NEW t, NEW ref, NEW rec, NEW other,
           Codes(s, t, pkt, c, a, b, ref, rec),
           AgreeBefore(rec, other, b),
           Len(suffix) = Size(t, pkt \o suffix, Len(pkt)),
           other[b] = Sample(s, t, pkt \o suffix, Len(pkt), ref, other, b)
    PROVE  Codes(s, t, pkt \o suffix, c, a, b + 1, ref, other)
<1>1. PICK cut \in [a..b -> Nat] :
        /\ cut[a] = c /\ cut[b] = Len(pkt)
        /\ \A p, q \in a..b : p <= q => cut[p] <= cut[q]
        /\ \A p \in a..(b - 1) : Macroblock(s, t, pkt, cut[p], cut[p + 1], ref, rec, p)
  BY DEF Codes
<1>2. Len(pkt) \in Nat /\ Len(suffix) \in Nat /\ Len(pkt \o suffix) = Len(pkt) + Len(suffix)
  BY LenProperties, ConcatProperties
<1> DEFINE new == [p \in a..(b + 1) |-> IF p = b + 1 THEN Len(pkt \o suffix) ELSE cut[p]]
<1>3. \A p \in a..b : new[p] = cut[p] /\ cut[p] \in Nat /\ cut[p] <= Len(pkt)
  <2> SUFFICES ASSUME NEW p \in a..b
               PROVE  new[p] = cut[p] /\ cut[p] \in Nat /\ cut[p] <= Len(pkt)
    OBVIOUS
  <2>1. p \in a..(b + 1) /\ p # b + 1 /\ p <= b /\ b \in a..b
    OBVIOUS
  <2> QED BY <2>1, <1>1
<1>4. new[b + 1] = Len(pkt) + Len(suffix)
  BY <1>2
<1>5. new \in [a..(b + 1) -> Nat]
  <2>1. \A p \in a..(b + 1) : (IF p = b + 1 THEN Len(pkt \o suffix) ELSE cut[p]) \in Nat
    BY <1>2
  <2> QED BY <2>1
<1> HIDE DEF new
<1>6. new[a] = c /\ new[b + 1] = Len(pkt \o suffix)
  <2>1. a \in a..b
    OBVIOUS
  <2> QED BY <2>1, <1>1, <1>2, <1>3, <1>4
<1>7. ASSUME NEW p \in a..(b + 1), NEW q \in a..(b + 1), p <= q
      PROVE  new[p] <= new[q]
  <2>1. CASE q \in a..b
    <3>1. p \in a..b
      BY <2>1, <1>7
    <3> QED BY <2>1, <3>1, <1>1, <1>3, <1>7
  <2>2. CASE q = b + 1 /\ p \in a..b
    BY <2>2, <1>2, <1>3, <1>4
  <2>3. CASE q = b + 1 /\ p = b + 1
    BY <2>3, <1>2, <1>4
  <2> QED BY <2>1, <2>2, <2>3
<1>8. ASSUME NEW p \in a..b
      PROVE  Macroblock(s, t, pkt \o suffix, new[p], new[p + 1], ref, other, p)
  <2>1. CASE p = b
    <3>1. new[p] = Len(pkt) /\ new[p + 1] = Len(pkt) + Len(suffix)
      BY <2>1, <1>1, <1>3, <1>4
    <3> QED BY <3>1, <2>1 DEF Macroblock
  <2>2. CASE p # b
    <3>1. p \in a..(b - 1) /\ p + 1 \in a..b
      BY <2>2
    <3>2. cut[p + 1] = cut[p] + Size(t, pkt, cut[p])
          /\ rec[p] = Sample(s, t, pkt, cut[p], ref, rec, p)
      BY <3>1, <1>1 DEF Macroblock
    <3>3. new[p] = cut[p] /\ new[p + 1] = cut[p + 1] /\ cut[p] \in Nat /\ cut[p + 1] <= Len(pkt)
      BY <3>1, <1>3
    <3>4. /\ Size(t, pkt \o suffix, cut[p]) = Size(t, pkt, cut[p])
          /\ Sample(s, t, pkt \o suffix, cut[p], ref, rec, p) = Sample(s, t, pkt, cut[p], ref, rec, p)
      BY <3>2, <3>3, ExtendedMacroblock
    <3>5. other[p] = rec[p]
      BY <3>1 DEF AgreeBefore
    <3>6. p \in Nat /\ AgreeBefore(rec, other, p)
      BY <3>1 DEF AgreeBefore
    <3>7. Sample(s, t, pkt \o suffix, cut[p], ref, rec, p)
          = Sample(s, t, pkt \o suffix, cut[p], ref, other, p)
      BY <3>6, SampleLooksBack
    <3> QED BY <3>2, <3>3, <3>4, <3>5, <3>7 DEF Macroblock
  <2> QED BY <2>1, <2>2
<1>9. a..((b + 1) - 1) = a..b
  OBVIOUS
<1> QED BY <1>5, <1>6, <1>7, <1>8, <1>9 DEF Codes

-----------------------------------------------------------------------------
\* The arithmetic of positions, samples and quantizers.

\* What CodecAssumption says of one setup.
LEMMA SetupFields ==
    ASSUME NEW s \in Setups
    PROVE  /\ s.w \in Nat \ {0} /\ s.h \in Nat \ {0}
           /\ s.qp \in 0..(QpCodes - 1) /\ s.gop \in Nat \ {0}
           /\ s.regions \subseteq 0..2 /\ s.modes \subseteq 0..3 /\ s.vectors \subseteq Int \X Int
BY CodecAssumption DEF Setup

\* A product with a natural number keeps the order.
LEMMA TimesMonotonic ==
    ASSUME NEW a \in Int, NEW b \in Int, NEW w \in Nat, a <= b
    PROVE  a * w \in Int /\ b * w \in Int /\ a * w <= b * w
<1>1. (b - a) * w >= 0
  OBVIOUS
<1>2. (b - a) * w = b * w - a * w
  OBVIOUS
<1> QED BY <1>1, <1>2

\* A position is a row and a column of the picture.
LEMMA PositionParts ==
    ASSUME NEW w \in Nat \ {0}, NEW h \in Nat \ {0}, NEW p \in 0..(w * h - 1)
    PROVE  /\ p % w \in 0..(w - 1) /\ p \div w \in 0..(h - 1)
           /\ p = (p \div w) * w + (p % w)
<1>1. p % w \in 0..(w - 1) /\ p \div w \in Nat /\ p = w * (p \div w) + (p % w)
  OBVIOUS
<1>2. w * (p \div w) = (p \div w) * w /\ w * h = h * w
  OBVIOUS
<1>3. ~(p \div w >= h)
  <2> SUFFICES ASSUME p \div w >= h
               PROVE  FALSE
    OBVIOUS
  <2>1. h * w <= (p \div w) * w
    BY <1>1, TimesMonotonic
  <2> QED BY <2>1, <1>1, <1>2
<1> QED BY <1>1, <1>2, <1>3

\* A row and a column of the picture are a position.
LEMMA PartsPosition ==
    ASSUME NEW w \in Nat \ {0}, NEW h \in Nat \ {0}, NEW row \in 0..(h - 1), NEW col \in 0..(w - 1)
    PROVE  row * w + col \in 0..(w * h - 1)
<1>1. row * w <= (h - 1) * w /\ row * w \in Int /\ (h - 1) * w \in Int
  BY TimesMonotonic
<1>2. (h - 1) * w = w * h - w /\ row * w >= 0
  OBVIOUS
<1> QED BY <1>1, <1>2

\* A vector that stays inside the picture points where the decoder looks.
LEMMA TargetOfLegal ==
    ASSUME NEW s \in Setups, NEW p \in 0..(s.w * s.h - 1), NEW x \in Int, NEW y \in Int,
           (p % s.w) + x \in 0..(s.w - 1), p \div s.w + y \in 0..(s.h - 1)
    PROVE  Target(s, p, x, y) = p + x + y * s.w /\ Target(s, p, x, y) \in 0..(s.w * s.h - 1)
<1>1. s.w \in Nat \ {0} /\ s.h \in Nat \ {0}
  BY SetupFields
<1>2. p % s.w \in 0..(s.w - 1) /\ p \div s.w \in 0..(s.h - 1) /\ p = (p \div s.w) * s.w + (p % s.w)
  BY <1>1, PositionParts
<1>3. Clip(p \div s.w + y, 0, s.h - 1) = p \div s.w + y /\ Clip((p % s.w) + x, 0, s.w - 1) = (p % s.w) + x
  BY <1>1 DEF Clip
<1>4. (p \div s.w + y) * s.w = (p \div s.w) * s.w + y * s.w
  BY <1>1, <1>2
<1>5. (p \div s.w + y) * s.w + ((p % s.w) + x) = p + x + y * s.w
  <2> DEFINE start == (p \div s.w) * s.w
             down == y * s.w
             col == p % s.w
  <2>1. start \in Int /\ down \in Int /\ col \in Int
    <3> DEFINE row == p \div s.w
               width == s.w
    <3>1. row \in Int /\ width \in Int /\ col \in Int
      BY <1>1, <1>2
    <3> HIDE DEF row, width, col
    <3>2. row * width \in Int /\ y * width \in Int
      BY <3>1
    <3> QED BY <3>1, <3>2 DEF row, width
  <2>2. (p \div s.w + y) * s.w = start + down /\ p = start + col
    BY <1>2, <1>4
  <2> HIDE DEF start, down, col
  <2>3. (start + down) + (col + x) = (start + col) + x + down
    BY <2>1
  <2> QED BY <2>2, <2>3 DEF down, col
<1>6. (p \div s.w + y) * s.w + ((p % s.w) + x) \in 0..(s.w * s.h - 1)
  BY <1>1, <1>2, PartsPosition
<1>7. Target(s, p, x, y) = (p \div s.w + y) * s.w + ((p % s.w) + x)
  BY <1>3 DEF Target
<1> QED BY <1>5, <1>6, <1>7

\* A reconstruction is clipped to a sample.
LEMMA ReconstructIsSample ==
    ASSUME NEW pred \in Int, NEW level \in Int, NEW qp \in 0..MaxQp
    PROVE  Reconstruct(pred, level, qp) \in 0..MaxSample
<1>1. QStep[qp] \in Nat /\ MaxSample \in Nat
  BY CodecAssumption
<1>2. pred + level * QStep[qp] \in Int
  BY <1>1
<1> QED BY <1>1, <1>2 DEF Reconstruct, Clip

\* Both sides derive the same quantizer from the region type.
LEMMA SameQuantizer ==
    ASSUME NEW region \in 0..2, setup \in Setups
    PROVE  EncQp(region) = QpOf(setup, region) /\ EncQp(region) \in 0..MaxQp
<1>1. setup.qp \in Int /\ MaxQp \in Nat /\ QpShift \in Nat
  BY SetupFields, CodecAssumption
<1>2. QpOffset[region] = DecQpOffset(region) /\ DecQpOffset(region) \in Int
  BY <1>1 DEF QpOffset, DecQpOffset, FLAT, EDGE
<1> QED BY <1>1, <1>2 DEF EncQp, QpOf, Clip, BaseQp

\* The prediction of Codec is the function of the picture used here.
LEMMA SamePrediction ==
    ASSUME NEW rec, NEW p, NEW mode
    PROVE  IntraPred(rec, p, mode) = Predicted(setup, rec, p, mode)
BY DEF IntraPred, Predicted, Row, Col, MbW

\* A prediction is a sample (intra_dc, intra_planar and the borders).
LEMMA PredictionIsSample ==
    ASSUME NEW s \in Setups, NEW rec \in PictureOf(s), NEW p \in 0..(s.w * s.h - 1), NEW mode
    PROVE  Predicted(s, rec, p, mode) \in 0..MaxSample
<1>1. s.w \in Nat \ {0} /\ s.h \in Nat \ {0} /\ MaxSample \in Nat /\ Mid \in 0..MaxSample
  BY SetupFields, CodecAssumption
<1>2. p % s.w \in 0..(s.w - 1) /\ p \div s.w \in 0..(s.h - 1) /\ p = (p \div s.w) * s.w + (p % s.w)
  BY <1>1, PositionParts
<1>a. s.w * s.h \in Int /\ p \in Nat
  BY <1>1
<1> DEFINE top  == IF p \div s.w > 0 THEN rec[p - s.w] ELSE Mid
           left == IF p % s.w > 0 THEN rec[p - 1] ELSE Mid
<1>3. top \in 0..MaxSample
  <2>1. CASE p \div s.w > 0
    <3> DEFINE row == p \div s.w
               start == row * s.w
               col == p % s.w
               end == s.w * s.h - 1
    <3>a. row \in Int /\ 1 <= row
      BY <2>1, <1>1, <1>2
    <3>b. col \in Nat
      BY <1>1, <1>2
    <3>c. end \in Int /\ p <= end
      BY <1>a
    <3>1. row \in Int /\ 1 <= row /\ p = start + col /\ col \in Nat /\ end \in Int /\ p <= end
      BY <3>a, <3>b, <3>c, <1>2
    <3> HIDE DEF row
    <3>2. 1 * s.w <= start /\ start \in Int /\ 1 * s.w = s.w
      BY <3>1, <1>1, TimesMonotonic
    <3> HIDE DEF start, col, end
    <3>3. p - s.w \in 0..end
      BY <3>1, <3>2, <1>1
    <3> QED BY <3>3, <2>1 DEF PictureOf, end
  <2> QED BY <2>1, <1>1
<1>4. left \in 0..MaxSample
  <2>1. CASE p % s.w > 0
    <3>1. s.w * s.h \in Int /\ p - 1 \in 0..(s.w * s.h - 1)
      <4>1. p # 0
        BY <2>1, <1>1
      <4> QED BY <4>1, <1>1, <1>a
    <3> QED BY <3>1, <2>1 DEF PictureOf
  <2> QED BY <2>1, <1>1
<1>5. Predicted(s, rec, p, mode)
      = (CASE mode = INTRA_DC ->
                 IF p \div s.w > 0 /\ p % s.w > 0 THEN (top + left + 1) \div 2
                 ELSE IF p \div s.w > 0 THEN top ELSE left
         [] mode = INTRA_H -> left
         [] mode = INTRA_V -> top
         [] OTHER -> (top + left + 1) \div 2)
  BY DEF Predicted
<1> HIDE DEF top, left
<1>6. (top + left + 1) \div 2 \in 0..MaxSample
  BY <1>1, <1>3, <1>4
<1>7. CASE mode = INTRA_DC
  BY <1>7, <1>3, <1>4, <1>5, <1>6 DEF INTRA_DC, INTRA_H, INTRA_V
<1>8. CASE mode = INTRA_H
  BY <1>8, <1>3, <1>4, <1>5, <1>6 DEF INTRA_DC, INTRA_H, INTRA_V
<1>9. CASE mode = INTRA_V
  BY <1>9, <1>3, <1>4, <1>5, <1>6 DEF INTRA_DC, INTRA_H, INTRA_V
<1>10. CASE mode # INTRA_DC /\ mode # INTRA_H /\ mode # INTRA_V
  BY <1>10, <1>5, <1>6
<1> QED BY <1>7, <1>8, <1>9, <1>10

-----------------------------------------------------------------------------
\* What the encoder writes is what the decoder reads.

\* encode_blk: behind any elements, the block has its length and gives back its level.
LEMMA BlockWritten ==
    ASSUME NEW pkt \in Seq(Int), NEW head \in Seq(Int), NEW level \in Int
    PROVE  /\ head \o BlockSyntax(level) \in Seq(Int)
           /\ Len(head \o BlockSyntax(level))
              = Len(head) + LengthAt(pkt \o (head \o BlockSyntax(level)), Len(pkt) + Len(head) + 1)
           /\ LevelAt(pkt \o (head \o BlockSyntax(level)), Len(pkt) + Len(head) + 1) = level
           /\ \A i \in 1..Len(head) :
                 Element(pkt \o (head \o BlockSyntax(level)), Len(pkt) + i) = head[i]
<1> DEFINE block == BlockSyntax(level)
           suffix == head \o block
           new == pkt \o suffix
           at == Len(pkt) + Len(head) + 1
<1>1. /\ block \in Seq(Int) /\ Len(block) = (IF level = 0 THEN 1 ELSE 2)
      /\ block[1] = (IF level = 0 THEN 0 ELSE 1)
      /\ level # 0 => block[2] = level
  BY DEF BlockSyntax
<1> HIDE DEF block
<1>2. /\ Len(pkt) \in Nat /\ Len(head) \in Nat /\ Len(block) \in Nat
  BY <1>1, LenProperties
<1>3. /\ suffix \in Seq(Int) /\ Len(suffix) = Len(head) + Len(block)
      /\ \A i \in 1..(Len(head) + Len(block)) :
            suffix[i] = IF i <= Len(head) THEN head[i] ELSE block[i - Len(head)]
  BY <1>1, ConcatProperties
<1> HIDE DEF suffix
<1>4. \A i \in 1..Len(suffix) : Element(new, Len(pkt) + i) = suffix[i]
  BY <1>3, PrefixElements
<1> HIDE DEF new
<1>5. Element(new, at) = block[1]
  <2>1. Len(head) + 1 \in 1..Len(suffix) /\ ~(Len(head) + 1 <= Len(head))
        /\ (Len(head) + 1) - Len(head) = 1 /\ Len(pkt) + (Len(head) + 1) = at
    BY <1>1, <1>2, <1>3
  <2> QED BY <2>1, <1>3, <1>4
<1>6. level # 0 => Element(new, at + 1) = block[2]
  <2> SUFFICES ASSUME level # 0
               PROVE  Element(new, at + 1) = block[2]
    OBVIOUS
  <2>1. Len(head) + 2 \in 1..Len(suffix) /\ ~(Len(head) + 2 <= Len(head))
        /\ (Len(head) + 2) - Len(head) = 2 /\ Len(pkt) + (Len(head) + 2) = at + 1
    BY <1>1, <1>2, <1>3
  <2> QED BY <2>1, <1>3, <1>4
<1>7. \A i \in 1..Len(head) : Element(new, Len(pkt) + i) = head[i]
  <2> SUFFICES ASSUME NEW i \in 1..Len(head)
               PROVE  Element(new, Len(pkt) + i) = head[i]
    OBVIOUS
  <2>1. i \in 1..Len(suffix) /\ i <= Len(head)
    BY <1>2, <1>3
  <2> QED BY <2>1, <1>3, <1>4
<1> HIDE DEF at
<1>8. LevelAt(new, at) = level /\ LengthAt(new, at) = Len(block)
  BY <1>1, <1>5, <1>6 DEF LevelAt, LengthAt
<1> QED BY <1>3, <1>7, <1>8 DEF suffix, new, at, block

\* A suffix of the packet is the syntax of a macroblock of the picture.
Writes(s, t, pkt, suffix, ref, rec, p, sample) ==
    /\ suffix \in Seq(Int)
    /\ Len(suffix) = Size(t, pkt \o suffix, Len(pkt))
    /\ sample \in 0..MaxSample
    /\ sample = Sample(s, t, pkt \o suffix, Len(pkt), ref, rec, p)

\* encode_mb_intra
LEMMA IntraWritten ==
    ASSUME setup \in Setups, NEW region \in setup.regions, NEW mode \in setup.modes,
           NEW level \in Levels, NEW pkt \in Seq(Int), NEW ref, NEW rec \in PictureOf(setup),
           NEW p \in Positions
    PROVE  Writes(setup, FRAME_I, pkt, <<region, mode>> \o BlockSyntax(level), ref, rec, p,
                  Reconstruct(IntraPred(rec, p, mode), level, EncQp(region)))
<1> DEFINE suffix == <<region, mode>> \o BlockSyntax(level)
           new == pkt \o suffix
<1>1. region \in 0..2 /\ mode \in 0..3 /\ level \in Int
  BY SetupFields, CodecAssumption
<1>2. <<region, mode>> \in Seq(Int) /\ Len(<<region, mode>>) = 2
      /\ <<region, mode>>[1] = region /\ <<region, mode>>[2] = mode
  BY <1>1
<1>3. Len(pkt) \in Nat
  BY LenProperties
<1> DEFINE head == <<region, mode>>
<1> HIDE DEF head
<1>a. /\ head \o BlockSyntax(level) \in Seq(Int)
      /\ Len(head \o BlockSyntax(level))
         = Len(head) + LengthAt(pkt \o (head \o BlockSyntax(level)), Len(pkt) + Len(head) + 1)
      /\ LevelAt(pkt \o (head \o BlockSyntax(level)), Len(pkt) + Len(head) + 1) = level
      /\ \A i \in 1..Len(head) :
            Element(pkt \o (head \o BlockSyntax(level)), Len(pkt) + i) = head[i]
  BY <1>1, <1>2, BlockWritten DEF head
<1>4. /\ suffix \in Seq(Int)
      /\ Len(suffix) = 2 + LengthAt(new, Len(pkt) + 2 + 1)
      /\ LevelAt(new, Len(pkt) + 2 + 1) = level
      /\ \A i \in 1..2 : Element(new, Len(pkt) + i) = <<region, mode>>[i]
  BY <1>a, <1>2 DEF head
<1>5. Element(new, Len(pkt) + 1) = region /\ Element(new, Len(pkt) + 2) = mode
      /\ Len(pkt) + 2 + 1 = Len(pkt) + 3
  BY <1>2, <1>3, <1>4
<1> HIDE DEF suffix, new
<1>6. Len(suffix) = Size(FRAME_I, new, Len(pkt))
  BY <1>4, <1>5 DEF Size
<1>7. EncQp(region) = QpOf(setup, region) /\ EncQp(region) \in 0..MaxQp
  BY <1>1, SameQuantizer
<1>8. Predicted(setup, rec, p, mode) \in Int
  <2>1. p \in 0..(setup.w * setup.h - 1) /\ MaxSample \in Nat
    BY CodecAssumption DEF Positions, NMb
  <2> QED BY <2>1, PredictionIsSample
<1>9. Reconstruct(IntraPred(rec, p, mode), level, EncQp(region))
      = Reconstruct(Predicted(setup, rec, p, mode), level, QpOf(setup, region))
  BY <1>7, SamePrediction
<1>10. Sample(setup, FRAME_I, new, Len(pkt), ref, rec, p)
       = Reconstruct(Predicted(setup, rec, p, mode), level, QpOf(setup, region))
  BY <1>4, <1>5 DEF Sample
<1>11. Reconstruct(Predicted(setup, rec, p, mode), level, QpOf(setup, region)) \in 0..MaxSample
  BY <1>1, <1>7, <1>8, ReconstructIsSample
<1> QED BY <1>4, <1>6, <1>9, <1>10, <1>11 DEF Writes, suffix, new

\* encode_mb_inter, skip
LEMMA SkipWritten ==
    ASSUME setup \in Setups, NEW pkt \in Seq(Int), NEW ref \in PictureOf(setup), NEW rec,
           NEW p \in Positions
    PROVE  Writes(setup, FRAME_P, pkt, <<FLAT, 1>>, ref, rec, p, ref[p])
<1> DEFINE suffix == <<FLAT, 1>>
           new == pkt \o suffix
<1>1. suffix \in Seq(Int) /\ Len(suffix) = 2 /\ suffix[2] = 1
  BY DEF FLAT
<1> HIDE DEF suffix
<1>2. Element(new, Len(pkt) + 2) = 1
  <2>1. pkt \in Seq(Int) /\ suffix \in Seq(Int) /\ 2 \in 1..Len(suffix)
    BY <1>1
  <2>2. \A i \in 1..Len(suffix) : Element(pkt \o suffix, Len(pkt) + i) = suffix[i]
    BY <2>1, PrefixElements
  <2> QED BY <2>1, <2>2, <1>1
<1>3. ref[p] \in 0..MaxSample
  BY DEF PictureOf, Positions, NMb
<1> QED BY <1>1, <1>2, <1>3 DEF Writes, Size, Sample, FRAME_P, FRAME_I, suffix, new

\* encode_mb_inter, coded
LEMMA InterWritten ==
    ASSUME setup \in Setups, NEW region \in setup.regions, NEW level \in Levels,
           NEW p \in Positions, NEW v \in LegalVectors(p, region),
           NEW pkt \in Seq(Int), NEW ref \in PictureOf(setup), NEW rec
    PROVE  Writes(setup, FRAME_P, pkt, <<region, 0, v[1], v[2]>> \o BlockSyntax(level), ref, rec, p,
                  Reconstruct(ref[p + v[1] + v[2] * MbW], level, EncQp(region)))
<1> DEFINE head == <<region, 0, v[1], v[2]>>
           suffix == head \o BlockSyntax(level)
           new == pkt \o suffix
<1>1. region \in 0..2 /\ level \in Int /\ setup.w \in Nat \ {0} /\ setup.h \in Nat \ {0}
      /\ setup.vectors \subseteq Int \X Int
  BY SetupFields, CodecAssumption
<1>2. p \in 0..(setup.w * setup.h - 1)
  BY DEF Positions, NMb
<1>3. p % setup.w \in 0..(setup.w - 1) /\ p \div setup.w \in 0..(setup.h - 1)
  BY <1>1, <1>2, PositionParts
<1>4. /\ v[1] \in Int /\ v[2] \in Int
      /\ (p % setup.w) + v[1] \in 0..(setup.w - 1) /\ p \div setup.w + v[2] \in 0..(setup.h - 1)
  <2>1. CASE region = FLAT
    BY <2>1, <1>1, <1>3 DEF LegalVectors
  <2>2. CASE region # FLAT
    BY <2>2, <1>1 DEF LegalVectors, Col, Row, MbW
  <2> QED BY <2>1, <2>2
<1>5. /\ Target(setup, p, v[1], v[2]) = p + v[1] + v[2] * MbW
      /\ Target(setup, p, v[1], v[2]) \in 0..(setup.w * setup.h - 1)
  BY <1>2, <1>4, TargetOfLegal DEF MbW
<1>6. /\ head \in Seq(Int) /\ Len(head) = 4
      /\ head[1] = region /\ head[2] = 0 /\ head[3] = v[1] /\ head[4] = v[2]
  BY <1>1, <1>4
<1> HIDE DEF head
<1>7. Len(pkt) \in Nat
  BY LenProperties
<1>a. /\ head \o BlockSyntax(level) \in Seq(Int)
      /\ Len(head \o BlockSyntax(level))
         = Len(head) + LengthAt(pkt \o (head \o BlockSyntax(level)), Len(pkt) + Len(head) + 1)
      /\ LevelAt(pkt \o (head \o BlockSyntax(level)), Len(pkt) + Len(head) + 1) = level
      /\ \A i \in 1..Len(head) :
            Element(pkt \o (head \o BlockSyntax(level)), Len(pkt) + i) = head[i]
  BY <1>1, <1>6, BlockWritten
<1>8. /\ suffix \in Seq(Int)
      /\ Len(suffix) = 4 + LengthAt(new, Len(pkt) + 4 + 1)
      /\ LevelAt(new, Len(pkt) + 4 + 1) = level
      /\ \A i \in 1..4 : Element(new, Len(pkt) + i) = head[i]
  BY <1>a, <1>6
<1> HIDE DEF suffix, new
<1>9. /\ Element(new, Len(pkt) + 1) = region /\ Element(new, Len(pkt) + 2) = 0
      /\ Element(new, Len(pkt) + 3) = v[1] /\ Element(new, Len(pkt) + 4) = v[2]
      /\ Len(pkt) + 4 + 1 = Len(pkt) + 5
  BY <1>6, <1>7, <1>8
<1>10. Len(suffix) = Size(FRAME_P, new, Len(pkt))
  BY <1>8, <1>9 DEF Size, FRAME_P, FRAME_I
<1>11. EncQp(region) = QpOf(setup, region) /\ EncQp(region) \in 0..MaxQp
  BY <1>1, SameQuantizer
<1>12. ref[Target(setup, p, v[1], v[2])] \in Int
  BY <1>5, CodecAssumption DEF PictureOf
<1>13. Sample(setup, FRAME_P, new, Len(pkt), ref, rec, p)
       = Reconstruct(ref[p + v[1] + v[2] * MbW], level, EncQp(region))
  BY <1>5, <1>8, <1>9, <1>11 DEF Sample, FRAME_P, FRAME_I
<1>14. Reconstruct(ref[p + v[1] + v[2] * MbW], level, EncQp(region)) \in 0..MaxSample
  BY <1>1, <1>5, <1>11, <1>12, ReconstructIsSample
<1> QED BY <1>8, <1>10, <1>13, <1>14 DEF Writes, suffix, new, head

-----------------------------------------------------------------------------
\* The invariant.

TypeOfFrame(s, n) == IF n % s.gop = 0 THEN FRAME_I ELSE FRAME_P

\* A packet of frame n, written up to macroblock b of the picture rec.
Packet(s, n, pkt, b, ref, rec) ==
    /\ pkt \in Seq(Int) /\ Len(pkt) >= 2
    /\ Element(pkt, 1) = TypeOfFrame(s, n) /\ Element(pkt, 2) = s.qp
    /\ Codes(s, TypeOfFrame(s, n), pkt, 2, 0, b, ref, rec)

\* What the k-th of the pictures rs is predicted from, and what a picture after
\* all of them will be.
RefOf(first, rs, k) == IF k = 1 THEN first ELSE rs[k - 1]

\* The packets pp are those of the pictures rs, from the one after the h-th on;
\* the first picture is that of frame n.
AllWhole(s, pp, rs, h, first, n) ==
    \A i \in 1..(Len(rs) - h) :
        Packet(s, n + h + i - 1, pp[i], s.w * s.h, RefOf(first, rs, h + i), rs[h + i])

\* The decoder has read the packet of the first picture it has not shown.
InHand == IF dPos = NoFrame THEN 0 ELSE 1

Types ==
    /\ setup \in Setups
    /\ eState \in {"open", "closed", "killed"} /\ dState \in {"run", "stopped"}
    /\ eRef \in PictureOf(setup) /\ eRec \in PictureOf(setup)
    /\ dRef \in PictureOf(setup) /\ dRec \in PictureOf(setup) /\ shown \in PictureOf(setup)
    /\ eNum \in Nat /\ dCount \in Nat
    /\ ePos \in -1..NMb /\ dPos \in -1..NMb
    /\ pipe \in Seq(Seq(Int) \cup {Torn})
    /\ recs \in Seq(PictureOf(setup))

\* The packets waiting are whole, but for a torn last one of an encoder that died.
Counts ==
    /\ InHand <= Len(recs)
    /\ \/ Len(pipe) = Len(recs) - InHand
       \/ /\ Len(pipe) = Len(recs) - InHand + 1
          /\ pipe[Len(pipe)] = Torn
          /\ eState = "killed"
    /\ eState # "killed" => eNum = dCount + Len(recs)
    /\ eState # "killed" => eRef = RefOf(dRef, recs, Len(recs) + 1)

Writing == ePos # NoFrame => Packet(setup, eNum, ePkt, ePos, eRef, eRec)
Waiting == AllWhole(setup, pipe, recs, InHand, dRef, dCount)
Reading ==
    dPos # NoFrame =>
        /\ dType = TypeOfFrame(setup, dCount) /\ dQp = setup.qp
        /\ dPkt \in Seq(Int)
        /\ AgreeBefore(dRec, recs[1], dPos)
        /\ Codes(setup, dType, dPkt, 0, dPos, NMb, dRef, recs[1])

IInv == Types /\ Counts /\ Writing /\ Waiting /\ Reading

-----------------------------------------------------------------------------
\* The packets of a pipe.

\* A finished packet is written.
LEMMA WholeExtended ==
    ASSUME NEW s, NEW pp \in Seq(Seq(Int) \cup {Torn}), NEW rs \in Seq(PictureOf(s)),
           NEW h \in 0..1, h <= Len(rs), Len(pp) = Len(rs) - h, NEW first, NEW n \in Nat,
           AllWhole(s, pp, rs, h, first, n), NEW pkt \in Seq(Int), NEW rec \in PictureOf(s),
           Packet(s, n + Len(rs), pkt, s.w * s.h, RefOf(first, rs, Len(rs) + 1), rec)
    PROVE  AllWhole(s, Append(pp, pkt), Append(rs, rec), h, first, n)
<1> DEFINE all == Append(rs, rec)
           sent == Append(pp, pkt)
<1>1. /\ Len(rs) \in Nat /\ Len(all) = Len(rs) + 1
      /\ \A k \in 1..Len(rs) : all[k] = rs[k]
      /\ all[Len(rs) + 1] = rec
  BY AppendProperties, LenProperties
<1>2. pkt \in Seq(Int) \cup {Torn}
  OBVIOUS
<1>3. /\ Len(pp) \in Nat
      /\ \A k \in 1..Len(pp) : sent[k] = pp[k]
      /\ sent[Len(pp) + 1] = pkt
  BY <1>2, AppendProperties, LenProperties
<1> HIDE DEF all, sent
<1>4. \A k \in 1..(Len(rs) + 1) : RefOf(first, all, k) = RefOf(first, rs, k)
  <2> SUFFICES ASSUME NEW k \in 1..(Len(rs) + 1), k # 1
               PROVE  all[k - 1] = rs[k - 1]
    BY DEF RefOf
  <2>1. k - 1 \in 1..Len(rs)
    BY <1>1
  <2> QED BY <2>1, <1>1
<1>5. ASSUME NEW i \in 1..(Len(all) - h)
      PROVE  Packet(s, n + h + i - 1, sent[i], s.w * s.h, RefOf(first, all, h + i), all[h + i])
  <2>1. CASE i \in 1..(Len(rs) - h)
    <3>1. i \in 1..Len(pp) /\ h + i \in 1..Len(rs) /\ h + i \in 1..(Len(rs) + 1)
      BY <2>1, <1>1
    <3>2. sent[i] = pp[i] /\ all[h + i] = rs[h + i] /\ RefOf(first, all, h + i) = RefOf(first, rs, h + i)
      BY <3>1, <1>1, <1>3, <1>4
    <3> QED BY <2>1, <3>2 DEF AllWhole
  <2>2. CASE i = Len(rs) + 1 - h
    <3>1. i = Len(pp) + 1 /\ h + i = Len(rs) + 1 /\ n + h + i - 1 = n + Len(rs)
      BY <2>2, <1>1, <1>3
    <3>2. h + i \in 1..(Len(rs) + 1)
      BY <3>1, <1>1
    <3> QED BY <3>1, <3>2, <1>1, <1>3, <1>4
  <2> QED BY <2>1, <2>2, <1>1
<1> QED BY <1>5 DEF AllWhole, all, sent

\* The last packets and pictures are lost.
LEMMA WholeCut ==
    ASSUME NEW s, NEW pp, NEW rs, NEW qq, NEW ss, NEW h \in 0..1, NEW k \in Nat,
           NEW first, NEW n \in Nat, AllWhole(s, pp, rs, h, first, n),
           Len(rs) \in Nat, h + k <= Len(rs), Len(ss) = h + k,
           \A i \in 1..k : qq[i] = pp[i],
           \A i \in 1..(h + k) : ss[i] = rs[i]
    PROVE  AllWhole(s, qq, ss, h, first, n)
<1>1. ASSUME NEW i \in 1..(Len(ss) - h)
      PROVE  Packet(s, n + h + i - 1, qq[i], s.w * s.h, RefOf(first, ss, h + i), ss[h + i])
  <2>1. i \in 1..k /\ h + i \in 1..(h + k) /\ i \in 1..(Len(rs) - h)
    OBVIOUS
  <2>2. RefOf(first, ss, h + i) = RefOf(first, rs, h + i)
    <3>1. CASE h + i = 1
      BY <3>1 DEF RefOf
    <3>2. CASE h + i # 1
      <4>1. h + i - 1 \in 1..(h + k)
        BY <3>2, <2>1
      <4> QED BY <4>1, <3>2 DEF RefOf
    <3> QED BY <3>1, <3>2
  <2>3. Packet(s, n + h + i - 1, pp[i], s.w * s.h, RefOf(first, rs, h + i), rs[h + i])
    BY <2>1 DEF AllWhole
  <2>4. qq[i] = pp[i] /\ ss[h + i] = rs[h + i]
    BY <2>1
  <2> QED BY <2>2, <2>3, <2>4
<1> QED BY <1>1 DEF AllWhole

\* The first packet is read.
LEMMA WholeTaken ==
    ASSUME NEW s, NEW pp \in Seq(Seq(Int) \cup {Torn}), pp # <<>>, NEW rs, Len(rs) \in Nat,
           NEW first, NEW n \in Nat, Len(rs) <= Len(pp), AllWhole(s, pp, rs, 0, first, n)
    PROVE  AllWhole(s, Tail(pp), rs, 1, first, n)
<1>1. Len(Tail(pp)) = Len(pp) - 1 /\ \A i \in 1..Len(Tail(pp)) : Tail(pp)[i] = pp[i + 1]
  BY HeadTailProperties
<1>2. Len(pp) \in Nat
  BY LenProperties
<1>3. ASSUME NEW i \in 1..(Len(rs) - 1)
      PROVE  Packet(s, n + 1 + i - 1, Tail(pp)[i], s.w * s.h, RefOf(first, rs, 1 + i), rs[1 + i])
  <2>1. 1 + i \in 1..(Len(rs) - 0) /\ i \in 1..Len(Tail(pp))
    BY <1>1, <1>2
  <2>2. Packet(s, n + 0 + (1 + i) - 1, pp[1 + i], s.w * s.h, RefOf(first, rs, 0 + (1 + i)), rs[0 + (1 + i)])
    BY <2>1 DEF AllWhole
  <2>3. n + 0 + (1 + i) - 1 = n + 1 + i - 1 /\ 0 + (1 + i) = 1 + i /\ i + 1 = 1 + i
    OBVIOUS
  <2>4. Tail(pp)[i] = pp[1 + i]
    BY <2>1, <2>3, <1>1
  <2> QED BY <2>2, <2>3, <2>4
<1> QED BY <1>3 DEF AllWhole

\* The first picture is shown, and is the reference of the next one.
LEMMA WholeShown ==
    ASSUME NEW s, NEW pp, NEW rs \in Seq(PictureOf(s)), rs # <<>>, NEW first, NEW n \in Nat,
           AllWhole(s, pp, rs, 1, first, n)
    PROVE  AllWhole(s, pp, Tail(rs), 0, rs[1], n + 1)
<1>1. Len(Tail(rs)) = Len(rs) - 1 /\ \A i \in 1..Len(Tail(rs)) : Tail(rs)[i] = rs[i + 1]
  BY HeadTailProperties
<1>2. Len(rs) \in Nat
  BY LenProperties
<1>3. ASSUME NEW i \in 1..(Len(Tail(rs)) - 0)
      PROVE  Packet(s, (n + 1) + 0 + i - 1, pp[i], s.w * s.h, RefOf(rs[1], Tail(rs), 0 + i),
                    Tail(rs)[0 + i])
  <2>1. i \in 1..(Len(rs) - 1) /\ i \in 1..Len(Tail(rs))
    BY <1>1, <1>2
  <2>2. Packet(s, n + 1 + i - 1, pp[i], s.w * s.h, RefOf(first, rs, 1 + i), rs[1 + i])
    BY <2>1 DEF AllWhole
  <2>3. RefOf(first, rs, 1 + i) = rs[i]
    BY <2>1 DEF RefOf
  <2>4. RefOf(rs[1], Tail(rs), i) = rs[i]
    <3>1. CASE i = 1
      BY <3>1 DEF RefOf
    <3>2. CASE i # 1
      <4>1. i - 1 \in 1..Len(Tail(rs)) /\ (i - 1) + 1 = i
        BY <3>2, <2>1, <1>1, <1>2
      <4> QED BY <4>1, <3>2, <1>1 DEF RefOf
    <3> QED BY <3>1, <3>2
  <2>5. Tail(rs)[i] = rs[1 + i]
    <3>1. i + 1 = 1 + i
      OBVIOUS
    <3> QED BY <3>1, <2>1, <1>1
  <2>6. (n + 1) + 0 + i - 1 = n + 1 + i - 1 /\ 0 + i = i
    OBVIOUS
  <2> QED BY <2>2, <2>3, <2>4, <2>5, <2>6
<1> QED BY <1>3 DEF AllWhole

-----------------------------------------------------------------------------
\* What the steps leave alone.

\* Steps that leave the frame being written alone.
LEMMA WritingKept ==
    ASSUME Writing, UNCHANGED <<setup, eNum, ePkt, ePos, eRef, eRec>>
    PROVE  Writing'
BY DEF Writing

\* Steps that leave the frame being read alone.
LEMMA ReadingKept ==
    ASSUME Reading, UNCHANGED <<setup, dType, dQp, dPkt, dRec, dPos, dRef, dCount>>,
           dPos # NoFrame => recs'[1] = recs[1]
    PROVE  Reading'
BY DEF Reading, NMb

\* Steps that leave the pipe alone.
LEMMA WaitingKept ==
    ASSUME Waiting, UNCHANGED <<setup, pipe, recs, dRef, dCount>>, InHand' = InHand
    PROVE  Waiting'
BY DEF Waiting

\* Steps that leave the counters alone.
LEMMA CountsKept ==
    ASSUME Counts, UNCHANGED <<eRef, eNum, eState, pipe, recs, dRef, dCount>>, InHand' = InHand
    PROVE  Counts'
BY DEF Counts

-----------------------------------------------------------------------------
\* One macroblock, on either side.

\* A picture has macroblocks.
LEMMA NumberOfMacroblocks ==
    ASSUME setup \in Setups
    PROVE  NMb \in Nat \ {0} /\ NMb = setup.w * setup.h /\ Positions = 0..(NMb - 1)
<1>1. setup.w \in Nat \ {0} /\ setup.h \in Nat \ {0}
  BY SetupFields
<1>2. \A w, h \in Nat \ {0} : w * h \in Nat \ {0}
  OBVIOUS
<1> QED BY <1>1, <1>2 DEF NMb, Positions

\* The type of a frame follows from its number and the GOP.
LEMMA FrameTypes ==
    ASSUME NEW n
    PROVE  FrameTypeOf(n) = TypeOfFrame(setup, n) /\ FrameTypeOf(n) \in {FRAME_I, FRAME_P}
           /\ FRAME_I # FRAME_P
BY DEF FrameTypeOf, TypeOfFrame, FRAME_I, FRAME_P

\* encode_mb_*: what has been written decodes to what has been reconstructed.
LEMMA EncodeKept ==
    ASSUME Types, Writing, EncodingMb, NEW suffix, NEW sample,
           Writes(setup, EncType, ePkt, suffix, eRef, eRec, ePos, sample),
           ePkt' = ePkt \o suffix, eRec' = [eRec EXCEPT ![ePos] = sample],
           ePos' = ePos + 1, UNCHANGED <<setup, eRef, eNum>>
    PROVE  Writing' /\ eRec' \in PictureOf(setup) /\ ePos' \in -1..NMb
<1> DEFINE type == TypeOfFrame(setup, eNum)
<1>1. /\ setup.w \in Nat \ {0} /\ NMb \in Nat \ {0} /\ ePos \in 0..(NMb - 1) /\ ePos # NoFrame
      /\ eRec \in PictureOf(setup) /\ PictureOf(setup) = [0..(NMb - 1) -> 0..MaxSample]
  BY SetupFields, NumberOfMacroblocks DEF Types, EncodingMb, PictureOf, NoFrame
<1>2. Packet(setup, eNum, ePkt, ePos, eRef, eRec)
  BY <1>1 DEF Writing
<1>3. /\ ePkt \in Seq(Int) /\ Len(ePkt) >= 2 /\ Len(ePkt) \in Nat
      /\ Element(ePkt, 1) = type /\ Element(ePkt, 2) = setup.qp
      /\ Codes(setup, type, ePkt, 2, 0, ePos, eRef, eRec)
  BY <1>2, LenProperties DEF Packet
<1>4. /\ suffix \in Seq(Int) /\ Len(suffix) = Size(type, ePkt \o suffix, Len(ePkt))
      /\ sample \in 0..MaxSample
      /\ sample = Sample(setup, type, ePkt \o suffix, Len(ePkt), eRef, eRec, ePos)
  BY FrameTypes DEF Writes, EncType
<1> HIDE DEF type
<1>5. eRec' \in PictureOf(setup) /\ eRec'[ePos] = sample
  BY <1>1, <1>4
<1>6. AgreeBefore(eRec, eRec', ePos)
  BY <1>1 DEF AgreeBefore
<1>7. sample = Sample(setup, type, ePkt \o suffix, Len(ePkt), eRef, eRec', ePos)
  BY <1>1, <1>4, <1>6, SampleLooksBack
<1>8. Codes(setup, type, ePkt \o suffix, 2, 0, ePos + 1, eRef, eRec')
  <2>1. 2 \in Nat /\ 0 \in Nat /\ ePos \in Nat /\ 0 <= ePos
    BY <1>1
  <2>2. eRec'[ePos] = Sample(setup, type, ePkt \o suffix, Len(ePkt), eRef, eRec', ePos)
    BY <1>5, <1>7
  <2>3. setup.w \in Nat \ {0} /\ ePkt \in Seq(Int) /\ suffix \in Seq(Int)
    BY <1>1, <1>3, <1>4
  <2>4. Codes(setup, type, ePkt, 2, 0, ePos, eRef, eRec)
        /\ Len(suffix) = Size(type, ePkt \o suffix, Len(ePkt))
    BY <1>3, <1>4
  <2> DEFINE pic == eRec'
  <2> HIDE DEF pic
  <2>5. AgreeBefore(eRec, pic, ePos)
        /\ pic[ePos] = Sample(setup, type, ePkt \o suffix, Len(ePkt), eRef, pic, ePos)
    BY <1>6, <2>2 DEF pic
  <2>6. Codes(setup, type, ePkt \o suffix, 2, 0, ePos + 1, eRef, pic)
    BY <2>1, <2>3, <2>4, <2>5, CodesOneMore
  <2> QED BY <2>6 DEF pic
<1>9. /\ ePkt \o suffix \in Seq(Int) /\ Len(ePkt \o suffix) >= 2
      /\ Element(ePkt \o suffix, 1) = type /\ Element(ePkt \o suffix, 2) = setup.qp
  <2>1. /\ ePkt \o suffix \in Seq(Int) /\ Len(ePkt \o suffix) = Len(ePkt) + Len(suffix)
        /\ \A i \in 1..Len(ePkt) : Element(ePkt \o suffix, i) = Element(ePkt, i)
    BY <1>3, <1>4, PrefixElements
  <2>2. Len(suffix) \in Nat /\ 1 \in 1..Len(ePkt) /\ 2 \in 1..Len(ePkt)
    BY <1>3, <1>4, LenProperties
  <2> QED BY <2>1, <2>2, <1>3
<1>10. Packet(setup, eNum, ePkt \o suffix, ePos + 1, eRef, eRec')
  BY <1>8, <1>9 DEF Packet, type
<1>11. Writing'
  BY <1>10 DEF Writing
<1> QED BY <1>1, <1>5, <1>11

\* The three ways to decode a macroblock are one: the sample its elements stand
\* for is stored, and the elements are consumed.
LEMMA DecodeForm ==
    ASSUME Types, Reading, DecodingMb, DecodeIntra \/ DecodeSkip \/ DecodeInter
    PROVE  /\ dPkt' = Rest(dPkt, Size(dType, dPkt, 0))
           /\ dRec' = [dRec EXCEPT ![dPos] = Sample(setup, dType, dPkt, 0, dRef, dRec, dPos)]
           /\ dPos' = dPos + 1
           /\ UNCHANGED <<encVars, pipe, dState, dRef, dQp, dType, dCount, shown, recs>>
<1>1. dQp = setup.qp
  <2>1. dPos # NoFrame
    BY NumberOfMacroblocks DEF DecodingMb, Types, NoFrame
  <2> QED BY <2>1 DEF Reading
<1>2. 0 + 1 = 1 /\ 0 + 2 = 2 /\ 0 + 3 = 3 /\ 0 + 4 = 4 /\ 0 + 5 = 5
  OBVIOUS
<1>3. \A i : BlockLevel(i) = LevelAt(dPkt, i) /\ BlockLength(i) = LengthAt(dPkt, i)
  BY DEF BlockLevel, LevelAt, BlockLength, LengthAt
<1>4. DecQp(Region) = QpOf(setup, Element(dPkt, 1))
  BY <1>1 DEF DecQp, QpOf, Region
<1>5. CASE DecodeIntra
  <2>1. dType = FRAME_I
    BY <1>5 DEF DecodeIntra
  <2>2. Size(dType, dPkt, 0) = 2 + BlockLength(3)
    BY <2>1, <1>2, <1>3 DEF Size
  <2>3. Sample(setup, dType, dPkt, 0, dRef, dRec, dPos)
        = Reconstruct(IntraPred(dRec, dPos, Element(dPkt, 2)), BlockLevel(3), DecQp(Region))
    BY <2>1, <1>2, <1>3, <1>4, SamePrediction DEF Sample
  <2> QED BY <1>5, <2>2, <2>3 DEF DecodeIntra
<1>6. CASE DecodeSkip
  <2>1. dType # FRAME_I /\ Element(dPkt, 2) # 0
    BY <1>6 DEF DecodeSkip
  <2>2. Size(dType, dPkt, 0) = 2 /\ Sample(setup, dType, dPkt, 0, dRef, dRec, dPos) = dRef[dPos]
    BY <2>1, <1>2 DEF Size, Sample
  <2> QED BY <1>6, <2>2 DEF DecodeSkip
<1>7. CASE DecodeInter
  <2>1. dType # FRAME_I /\ Element(dPkt, 2) = 0
    BY <1>7 DEF DecodeInter
  <2>2. Size(dType, dPkt, 0) = 4 + BlockLength(5)
    BY <2>1, <1>2, <1>3 DEF Size
  <2>3. Target(setup, dPos, Element(dPkt, 3), Element(dPkt, 4))
        = Clip(Row(dPos) + Element(dPkt, 4), 0, setup.h - 1) * MbW
          + Clip(Col(dPos) + Element(dPkt, 3), 0, MbW - 1)
    BY DEF Target, Row, Col, MbW
  <2>4. Sample(setup, dType, dPkt, 0, dRef, dRec, dPos)
        = Reconstruct(dRef[Target(setup, dPos, Element(dPkt, 3), Element(dPkt, 4))],
                      BlockLevel(5), DecQp(Region))
    BY <2>1, <1>2, <1>3, <1>4 DEF Sample
  <2> QED BY <1>7, <2>2, <2>3, <2>4 DEF DecodeInter
<1> QED BY <1>5, <1>6, <1>7

\* decode_mb_*: what is left of the packet decodes to what is left of the picture.
LEMMA DecodeKept ==
    ASSUME Types, Counts, Reading, DecodingMb,
           dPkt' = Rest(dPkt, Size(dType, dPkt, 0)),
           dRec' = [dRec EXCEPT ![dPos] = Sample(setup, dType, dPkt, 0, dRef, dRec, dPos)],
           dPos' = dPos + 1,
           UNCHANGED <<setup, dRef, dQp, dType, dCount, recs>>
    PROVE  Reading' /\ dRec' \in PictureOf(setup) /\ dPos' \in -1..NMb /\ InHand' = InHand
<1> DEFINE rec == recs[1]
<1>1. /\ setup.w \in Nat \ {0} /\ NMb \in Nat \ {0} /\ dPos \in 0..(NMb - 1) /\ dPos # NoFrame
      /\ dRec \in PictureOf(setup) /\ PictureOf(setup) = [0..(NMb - 1) -> 0..MaxSample]
  BY SetupFields, NumberOfMacroblocks DEF Types, DecodingMb, PictureOf, NoFrame
<1>2. /\ dType = TypeOfFrame(setup, dCount) /\ dQp = setup.qp /\ dPkt \in Seq(Int)
      /\ AgreeBefore(dRec, rec, dPos)
      /\ Codes(setup, dType, dPkt, 0, dPos, NMb, dRef, rec)
  BY <1>1 DEF Reading
<1>3. rec \in PictureOf(setup)
  <2>1. Len(recs) \in Nat /\ 1 <= Len(recs)
    BY <1>1, LenProperties DEF Types, Counts, InHand
  <2> QED BY <2>1, ElementOfSeq DEF Types
<1> HIDE DEF rec
<1>4. /\ 0 + Size(dType, dPkt, 0) <= Len(dPkt)
      /\ rec[dPos] = Sample(setup, dType, dPkt, 0, dRef, rec, dPos)
      /\ Codes(setup, dType, dPkt, 0 + Size(dType, dPkt, 0), dPos + 1, NMb, dRef, rec)
  BY <1>1, <1>2, CodesFirst
<1>5. Size(dType, dPkt, 0) \in Nat /\ 0 + Size(dType, dPkt, 0) = Size(dType, dPkt, 0)
  BY SizeBounds
<1>6. Codes(setup, dType, dPkt', 0, dPos + 1, NMb, dRef, rec)
  <2> DEFINE n == Size(dType, dPkt, 0)
  <2>1. Codes(setup, dType, dPkt, n, dPos + 1, NMb, dRef, rec)
    BY <1>4, <1>5
  <2>2. n \in Nat /\ dPos + 1 \in Nat /\ NMb \in Nat /\ dPos + 1 <= NMb /\ dPkt \in Seq(Int)
    BY <1>1, <1>2, <1>5
  <2> HIDE DEF n
  <2>3. Codes(setup, dType, Rest(dPkt, n), 0, dPos + 1, NMb, dRef, rec)
    BY <2>1, <2>2, CodesShifted
  <2> QED BY <2>3 DEF n
<1>7. dPkt' \in Seq(Int)
  BY <1>2, <1>4, <1>5, RestElements
<1>8. Sample(setup, dType, dPkt, 0, dRef, dRec, dPos) = rec[dPos]
  BY <1>1, <1>2, <1>4, SampleLooksBack
<1>9. dRec' \in PictureOf(setup)
  BY <1>1, <1>3, <1>8
<1>10. AgreeBefore(dRec', rec, dPos + 1)
  BY <1>1, <1>2, <1>8 DEF AgreeBefore
<1>11. NMb' = NMb /\ recs'[1] = rec
  BY DEF NMb, rec
<1>12. Reading'
  BY <1>2, <1>6, <1>7, <1>10, <1>11 DEF Reading
<1>13. dPos + 1 # NoFrame
  BY <1>1 DEF NoFrame
<1> QED BY <1>1, <1>9, <1>12, <1>13 DEF InHand

-----------------------------------------------------------------------------
\* Each action keeps the invariant.

\* The decoder has at most one frame in hand.
LEMMA InHandIs ==
    InHand \in 0..1 /\ (dPos = NoFrame => InHand = 0) /\ (dPos # NoFrame => InHand = 1)
BY DEF InHand

\* The initial states satisfy the invariant.
LEMMA InitIInv ==
    ASSUME Init
    PROVE  IInv
<1>1. setup \in Setups /\ NMb \in Nat \ {0} /\ Positions = 0..(NMb - 1)
      /\ PictureOf(setup) = [0..(NMb - 1) -> 0..MaxSample]
  BY NumberOfMacroblocks DEF Init, PictureOf
<1>2. [p \in Positions |-> 0] \in PictureOf(setup)
  BY <1>1, CodecAssumption
<1>3. Types
  <2>1. pipe \in Seq(Seq(Int) \cup {Torn}) /\ recs \in Seq(PictureOf(setup))
    BY DEF Init
  <2>2. ePos \in -1..NMb /\ dPos \in -1..NMb
    BY <1>1 DEF Init, NoFrame
  <2> QED BY <1>1, <1>2, <2>1, <2>2 DEF Init, Types
<1>4. Counts
  BY DEF Init, Counts, InHand, RefOf
<1>5. Writing
  BY DEF Init, Writing
<1>6. Waiting
  BY DEF Init, Waiting, AllWhole, InHand
<1>7. Reading
  BY DEF Init, Reading
<1> QED BY <1>3, <1>4, <1>5, <1>6, <1>7 DEF IInv

\* EncBegin keeps the invariant.
LEMMA EncBeginKept ==
    ASSUME IInv, EncBegin
    PROVE  IInv'
<1>1. Types /\ Counts /\ Writing /\ Waiting /\ Reading
  BY DEF IInv
<1>2. UNCHANGED <<setup, eState, eRef, eRec, eNum, pipe, dState, dRef, dRec, dQp, dType, dPos, dPkt,
                  dCount, shown, recs>>
  BY DEF EncBegin, decVars
<1>3. setup \in Setups /\ setup.w \in Nat \ {0} /\ setup.qp \in 0..(QpCodes - 1)
      /\ QpCodes \in Nat \ {0} /\ MaxQp \in Nat
  BY <1>1, SetupFields, CodecAssumption DEF Types
<1>4. NMb \in Nat \ {0} /\ NMb' = NMb
  BY <1>1, <1>2, NumberOfMacroblocks DEF Types, NMb
<1>5. Types'
  <2>1. ePos' = 0
    BY DEF EncBegin
  <2>2. ePos' \in -1..NMb'
    BY <2>1, <1>4
  <2> QED BY <1>1, <1>2, <1>4, <2>2 DEF Types
<1>6. Writing'
  <2> DEFINE type == TypeOfFrame(setup, eNum)
             pkt == <<type, setup.qp>>
  <2>1. ePos' = 0 /\ ePkt' = <<FrameTypeOf(eNum), BaseQp % QpCodes>>
    BY DEF EncBegin
  <2>2. BaseQp % QpCodes = setup.qp
    BY <1>3 DEF BaseQp
  <2>3. ePkt' = pkt
    BY <2>1, <2>2, FrameTypes
  <2>4. type \in Int /\ setup.qp \in Int
    BY <1>3 DEF TypeOfFrame, FRAME_I, FRAME_P
  <2> HIDE DEF type
  <2>5. pkt \in Seq(Int) /\ Len(pkt) = 2 /\ pkt[1] = type /\ pkt[2] = setup.qp
    BY <2>4
  <2> HIDE DEF pkt
  <2>6. Element(pkt, 1) = type /\ Element(pkt, 2) = setup.qp
    BY <2>5 DEF Element
  <2>7. Codes(setup, type, pkt, 2, 0, 0, eRef, eRec)
    <3>1. Len(pkt) \in Nat /\ 0 \in Nat
      BY <2>5
    <3>2. Codes(setup, type, pkt, Len(pkt), 0, 0, eRef, eRec)
      BY <3>1, CodesNothing
    <3> QED BY <3>2, <2>5
  <2>8. Packet(setup, eNum, pkt, 0, eRef, eRec)
    BY <2>5, <2>6, <2>7 DEF Packet, type
  <2> QED BY <2>1, <2>3, <2>8, <1>2 DEF Writing
<1>7. InHand' = InHand
  BY <1>2 DEF InHand
<1> QED BY <1>1, <1>2, <1>5, <1>6, <1>7, CountsKept, WaitingKept, ReadingKept DEF IInv

\* EncodeMb keeps the invariant.
LEMMA EncodeMbKept ==
    ASSUME IInv, EncodeIntra \/ EncodeSkip \/ EncodeInter
    PROVE  IInv'
<1>1. Types /\ Counts /\ Writing /\ Waiting /\ Reading
  BY DEF IInv
<1>2. /\ UNCHANGED <<setup, eState, eRef, eNum, pipe, dState, dRef, dRec, dQp, dType, dPos, dPkt,
                     dCount, shown, recs>>
      /\ EncodingMb /\ ePos' = ePos + 1
  BY DEF EncodeIntra, EncodeSkip, EncodeInter, decVars
<1>3. /\ setup \in Setups /\ ePos \in Positions /\ eRef \in PictureOf(setup)
      /\ eRec \in PictureOf(setup) /\ FLAT \in Int
  BY <1>1, <1>2 DEF Types, EncodingMb, FLAT
<1>4. ePkt \in Seq(Int)
  <2>1. ePos # NoFrame
    BY <1>3, NumberOfMacroblocks DEF NoFrame
  <2> QED BY <2>1, <1>1 DEF Writing, Packet
<1>5. \E suffix, sample :
         /\ Writes(setup, EncType, ePkt, suffix, eRef, eRec, ePos, sample)
         /\ ePkt' = ePkt \o suffix /\ eRec' = [eRec EXCEPT ![ePos] = sample]
  <2>1. CASE EncodeIntra
    <3>1. EncType = FRAME_I
      BY <2>1 DEF EncodeIntra
    <3>2. PICK region \in setup.regions, mode \in setup.modes, level \in Levels :
            /\ ePkt' = ePkt \o <<region, mode>> \o BlockSyntax(level)
            /\ eRec' = [eRec EXCEPT ![ePos] =
                            Reconstruct(IntraPred(eRec, ePos, mode), level, EncQp(region))]
      BY <2>1 DEF EncodeIntra
    <3>3. Writes(setup, FRAME_I, ePkt, <<region, mode>> \o BlockSyntax(level), eRef, eRec, ePos,
                 Reconstruct(IntraPred(eRec, ePos, mode), level, EncQp(region)))
      BY <1>3, <1>4, IntraWritten
    <3>4. /\ <<region, mode>> \in Seq(Int) /\ BlockSyntax(level) \in Seq(Int)
      <4>1. region \in Int /\ mode \in Int /\ level \in Int
        BY <1>3, SetupFields, CodecAssumption
      <4> QED BY <4>1 DEF BlockSyntax
    <3>5. ePkt \o <<region, mode>> \o BlockSyntax(level)
          = ePkt \o (<<region, mode>> \o BlockSyntax(level))
      BY <3>4, <1>4, ConcatAssociative
    <3> QED BY <3>1, <3>2, <3>3, <3>5
  <2>2. CASE EncodeSkip
    <3>1. EncType = FRAME_P
      BY <2>2, FrameTypes DEF EncodeSkip, EncType
    <3>2. Writes(setup, FRAME_P, ePkt, <<FLAT, 1>>, eRef, eRec, ePos, eRef[ePos])
      BY <1>3, <1>4, SkipWritten
    <3> QED BY <2>2, <3>1, <3>2 DEF EncodeSkip
  <2>3. CASE EncodeInter
    <3>1. EncType = FRAME_P
      BY <2>3, FrameTypes DEF EncodeInter, EncType
    <3>2. PICK region \in setup.regions, level \in Levels : \E v \in LegalVectors(ePos, region) :
            /\ ePkt' = ePkt \o <<region, 0, v[1], v[2]>> \o BlockSyntax(level)
            /\ eRec' = [eRec EXCEPT ![ePos] =
                            Reconstruct(eRef[ePos + v[1] + v[2] * MbW], level, EncQp(region))]
      BY <2>3 DEF EncodeInter
    <3>3. PICK v \in LegalVectors(ePos, region) :
            /\ ePkt' = ePkt \o <<region, 0, v[1], v[2]>> \o BlockSyntax(level)
            /\ eRec' = [eRec EXCEPT ![ePos] =
                            Reconstruct(eRef[ePos + v[1] + v[2] * MbW], level, EncQp(region))]
      BY <3>2
    <3>4. Writes(setup, FRAME_P, ePkt, <<region, 0, v[1], v[2]>> \o BlockSyntax(level), eRef, eRec,
                 ePos, Reconstruct(eRef[ePos + v[1] + v[2] * MbW], level, EncQp(region)))
      BY <1>3, <1>4, InterWritten
    <3>5. /\ <<region, 0, v[1], v[2]>> \in Seq(Int) /\ BlockSyntax(level) \in Seq(Int)
      <4>1. region \in Int /\ level \in Int /\ setup.vectors \subseteq Int \X Int
        BY <1>3, SetupFields, CodecAssumption
      <4>2. v[1] \in Int /\ v[2] \in Int
        BY <4>1 DEF LegalVectors
      <4> QED BY <4>1, <4>2 DEF BlockSyntax
    <3>6. ePkt \o <<region, 0, v[1], v[2]>> \o BlockSyntax(level)
          = ePkt \o (<<region, 0, v[1], v[2]>> \o BlockSyntax(level))
      BY <3>5, <1>4, ConcatAssociative
    <3> QED BY <3>1, <3>3, <3>4, <3>6
  <2> QED BY <2>1, <2>2, <2>3
<1>6. Writing' /\ eRec' \in PictureOf(setup) /\ ePos' \in -1..NMb
  BY <1>1, <1>2, <1>5, EncodeKept
<1>7. Types'
  <2>1. NMb' = NMb
    BY <1>2 DEF NMb
  <2> QED BY <2>1, <1>1, <1>2, <1>6 DEF Types
<1>8. InHand' = InHand
  BY <1>2 DEF InHand
<1> QED BY <1>1, <1>2, <1>6, <1>7, <1>8, CountsKept, WaitingKept, ReadingKept DEF IInv

\* EncEnd keeps the invariant.
LEMMA EncEndKept ==
    ASSUME IInv, EncEnd
    PROVE  IInv'
<1>1. Types /\ Counts /\ Writing /\ Waiting /\ Reading
  BY DEF IInv
<1>2. /\ UNCHANGED <<setup, eState, eRec, dState, dRef, dRec, dQp, dType, dPos, dPkt, dCount, shown>>
      /\ eState = "open" /\ ePos = NMb /\ pipe' = Append(pipe, ePkt) /\ eRef' = eRec
      /\ eNum' = eNum + 1 /\ ePos' = NoFrame /\ ePkt' = <<>> /\ recs' = Append(recs, eRec)
  BY DEF EncEnd, decVars
<1>3. /\ setup \in Setups /\ NMb \in Nat \ {0} /\ NMb = setup.w * setup.h /\ NMb' = NMb
      /\ pipe \in Seq(Seq(Int) \cup {Torn}) /\ recs \in Seq(PictureOf(setup))
      /\ eRec \in PictureOf(setup) /\ eNum \in Nat /\ dCount \in Nat
  BY <1>1, <1>2, NumberOfMacroblocks DEF Types, NMb
<1>4. /\ Len(pipe) = Len(recs) - InHand /\ InHand <= Len(recs) /\ InHand \in 0..1
      /\ eNum = dCount + Len(recs) /\ eRef = RefOf(dRef, recs, Len(recs) + 1)
  BY <1>1, <1>2, InHandIs DEF Counts
<1>5. Packet(setup, eNum, ePkt, NMb, eRef, eRec)
  BY <1>1, <1>2, <1>3 DEF Writing, NoFrame
<1>6. ePkt \in Seq(Int)
  BY <1>5 DEF Packet
<1>7. /\ pipe' \in Seq(Seq(Int) \cup {Torn}) /\ Len(pipe') = Len(pipe) + 1
      /\ recs' \in Seq(PictureOf(setup)) /\ Len(recs') = Len(recs) + 1
      /\ \A i \in 1..Len(recs) : recs'[i] = recs[i]
      /\ recs'[Len(recs) + 1] = eRec
      /\ Len(recs) \in Nat
  <2>1. ePkt \in Seq(Int) \cup {Torn}
    BY <1>6
  <2> QED BY <2>1, <1>2, <1>3, AppendProperties, LenProperties
<1>8. InHand' = InHand
  BY <1>2 DEF InHand
<1>9. Types'
  <2>1. ePos' \in -1..NMb' /\ eNum' \in Nat
    BY <1>2, <1>3 DEF NoFrame
  <2> QED BY <2>1, <1>1, <1>2, <1>3, <1>7 DEF Types
<1>10. Counts'
  <2>1. RefOf(dRef', recs', Len(recs') + 1) = eRec
    BY <1>7 DEF RefOf
  <2>2. Len(pipe') = Len(recs') - InHand' /\ InHand' <= Len(recs')
    BY <1>4, <1>7, <1>8
  <2>3. eNum' = dCount' + Len(recs')
    BY <1>2, <1>3, <1>4, <1>7
  <2> QED BY <2>1, <2>2, <2>3, <1>2 DEF Counts
<1>11. Writing'
  BY <1>2 DEF Writing
<1>12. Waiting'
  <2>1. AllWhole(setup, Append(pipe, ePkt), Append(recs, eRec), InHand, dRef, dCount)
    BY <1>1, <1>3, <1>4, <1>5, <1>6, WholeExtended DEF Waiting
  <2> QED BY <2>1, <1>2, <1>8 DEF Waiting
<1>13. Reading'
  <2>1. dPos # NoFrame => 1 \in 1..Len(recs)
    BY <1>4, <1>7, InHandIs
  <2> QED BY <2>1, <1>1, <1>2, <1>7, ReadingKept
<1> QED BY <1>9, <1>10, <1>11, <1>12, <1>13 DEF IInv

\* EncClose keeps the invariant.
LEMMA EncCloseKept ==
    ASSUME IInv, EncClose
    PROVE  IInv'
<1>1. Types /\ Counts /\ Writing /\ Waiting /\ Reading
  BY DEF IInv
<1>2. /\ UNCHANGED <<setup, eRef, eRec, eNum, ePos, ePkt, pipe, dState, dRef, dRec, dQp, dType, dPos,
                     dPkt, dCount, shown, recs>>
      /\ eState = "open" /\ eState' = "closed"
  BY DEF EncClose, decVars
<1>3. InHand' = InHand /\ NMb' = NMb
  BY <1>2 DEF InHand, NMb
<1>4. Types'
  BY <1>1, <1>2, <1>3 DEF Types
<1>5. Counts'
  BY <1>1, <1>2, <1>3 DEF Counts
<1> QED BY <1>1, <1>2, <1>3, <1>4, <1>5, WritingKept, WaitingKept, ReadingKept DEF IInv


\* EncKill keeps the invariant.
LEMMA EncKillKept ==
    ASSUME IInv, EncKill
    PROVE  IInv'
<1>1. Types /\ Counts /\ Writing /\ Waiting /\ Reading
  BY DEF IInv
<1>2. PICK k \in 0..Len(pipe), torn \in BOOLEAN :
        /\ pipe' = SubSeq(pipe, 1, k) \o (IF torn THEN <<Torn>> ELSE <<>>)
        /\ recs' = SubSeq(recs, 1, Len(recs) - (Len(pipe) - k))
  BY DEF EncKill
<1>3. /\ UNCHANGED <<setup, eRef, eRec, eNum, ePos, ePkt, dState, dRef, dRec, dQp, dType, dPos, dPkt,
                     dCount, shown>>
      /\ eState = "open" /\ eState' = "killed"
  BY DEF EncKill, decVars
<1>4. /\ setup \in Setups /\ NMb' = NMb /\ InHand' = InHand /\ InHand \in 0..1
      /\ pipe \in Seq(Seq(Int) \cup {Torn}) /\ recs \in Seq(PictureOf(setup)) /\ dCount \in Nat
  BY <1>1, <1>3, InHandIs DEF Types, NMb, InHand
<1>5. /\ Len(pipe) = Len(recs) - InHand /\ InHand <= Len(recs)
      /\ Len(recs) \in Nat /\ Len(pipe) \in Nat /\ k \in Nat /\ k <= Len(pipe)
  BY <1>1, <1>3, <1>4, LenProperties DEF Counts
<1> DEFINE kept == InHand + k
<1>6. kept \in Nat /\ kept <= Len(recs) /\ Len(recs) - (Len(pipe) - k) = kept
  BY <1>4, <1>5
<1> HIDE DEF kept
<1>7. /\ recs' \in Seq(PictureOf(setup)) /\ Len(recs') = kept
      /\ \A i \in 1..kept : recs'[i] = recs[i]
  <2>1. recs' = SubSeq(recs, 1, kept)
    BY <1>2, <1>6
  <2>2. \A i \in 1..kept : recs[i] \in PictureOf(setup)
    BY <1>4, <1>5, <1>6, ElementOfSeq
  <2>3. 1 \in Int /\ kept \in Int
    BY <1>6
  <2>4. /\ SubSeq(recs, 1, kept) \in Seq(PictureOf(setup))
        /\ Len(SubSeq(recs, 1, kept)) = IF 1 <= kept THEN kept - 1 + 1 ELSE 0
        /\ \A i \in 1..(kept - 1 + 1) : SubSeq(recs, 1, kept)[i] = recs[1 + i - 1]
    BY <2>2, <2>3, SubSeqProperties
  <2>5. kept - 1 + 1 = kept /\ \A i \in 1..kept : 1 + i - 1 = i
    BY <1>6
  <2> QED BY <1>6, <2>1, <2>4, <2>5
<1> DEFINE written == SubSeq(pipe, 1, k)
           last == IF torn THEN <<Torn>> ELSE <<>>
<1>8. /\ written \in Seq(Seq(Int) \cup {Torn}) /\ Len(written) = k
      /\ \A i \in 1..k : written[i] = pipe[i]
  <2>1. \A i \in 1..k : pipe[i] \in Seq(Int) \cup {Torn}
    BY <1>4, <1>5, ElementOfSeq
  <2>2. 1 \in Int /\ k \in Int
    BY <1>5
  <2>3. /\ written \in Seq(Seq(Int) \cup {Torn})
        /\ Len(written) = IF 1 <= k THEN k - 1 + 1 ELSE 0
        /\ \A i \in 1..(k - 1 + 1) : written[i] = pipe[1 + i - 1]
    BY <2>1, <2>2, SubSeqProperties
  <2>4. k - 1 + 1 = k /\ \A i \in 1..k : 1 + i - 1 = i
    BY <1>5
  <2> QED BY <1>5, <2>3, <2>4
<1>9. /\ last \in Seq(Seq(Int) \cup {Torn})
      /\ Len(last) = 0 \/ (Len(last) = 1 /\ last[1] = Torn)
  <2>1. CASE torn
    <3>1. <<Torn>> \in Seq(Seq(Int) \cup {Torn}) /\ Len(<<Torn>>) = 1 /\ <<Torn>>[1] = Torn
      OBVIOUS
    <3> QED BY <2>1, <3>1
  <2>2. CASE ~torn
    <3>1. <<>> \in Seq(Seq(Int) \cup {Torn}) /\ Len(<<>>) = 0
      OBVIOUS
    <3> QED BY <2>2, <3>1
  <2> QED BY <2>1, <2>2
<1>10. pipe' = written \o last
  BY <1>2
<1> HIDE DEF written, last
<1>11. /\ pipe' \in Seq(Seq(Int) \cup {Torn}) /\ Len(pipe') = k + Len(last)
       /\ \A i \in 1..(k + Len(last)) :
             pipe'[i] = IF i <= k THEN written[i] ELSE last[i - k]
  BY <1>8, <1>9, <1>10, ConcatProperties
<1>12. Types'
  BY <1>1, <1>3, <1>4, <1>7, <1>11 DEF Types
<1>13. Counts'
  <2>1. InHand' <= Len(recs')
    BY <1>4, <1>5, <1>7 DEF kept
  <2>2. CASE Len(last) = 0
    <3>1. Len(pipe') = Len(recs') - InHand'
      BY <2>2, <1>4, <1>5, <1>7, <1>11 DEF kept
    <3> QED BY <2>1, <3>1, <1>3 DEF Counts
  <2>3. CASE Len(last) = 1 /\ last[1] = Torn
    <3>1. Len(pipe') = Len(recs') - InHand' + 1 /\ Len(pipe') = k + 1
      BY <2>3, <1>4, <1>5, <1>7, <1>11 DEF kept
    <3>2. k + 1 \in 1..(k + Len(last)) /\ ~(k + 1 <= k) /\ (k + 1) - k = 1
      BY <2>3, <1>5
    <3>3. pipe'[k + 1] = Torn
      BY <2>3, <3>2, <1>11
    <3> QED BY <2>1, <3>1, <3>3, <1>3 DEF Counts
  <2> QED BY <2>2, <2>3, <1>9
<1>14. Waiting'
  <2>1. \A i \in 1..k : pipe'[i] = pipe[i]
    <3> SUFFICES ASSUME NEW i \in 1..k
                 PROVE  pipe'[i] = pipe[i]
      OBVIOUS
    <3>1. i \in 1..(k + Len(last)) /\ i <= k
      BY <1>5, <1>9
    <3> QED BY <3>1, <1>8, <1>11
  <2> DEFINE qq == pipe'
             ss == recs'
  <2>2. /\ \A i \in 1..k : qq[i] = pipe[i]
        /\ \A i \in 1..(InHand + k) : ss[i] = recs[i]
        /\ Len(ss) = InHand + k /\ InHand + k <= Len(recs)
    BY <2>1, <1>6, <1>7 DEF kept
  <2> HIDE DEF qq, ss
  <2>3. AllWhole(setup, qq, ss, InHand, dRef, dCount)
    BY <2>2, <1>1, <1>4, <1>5, WholeCut DEF Waiting
  <2> QED BY <2>3, <1>3, <1>4 DEF Waiting, qq, ss
<1>15. Reading'
  <2>1. dPos # NoFrame => 1 \in 1..kept
    BY <1>5, InHandIs DEF kept
  <2> QED BY <2>1, <1>1, <1>3, <1>7, ReadingKept
<1> QED BY <1>1, <1>3, <1>12, <1>13, <1>14, <1>15, WritingKept DEF IInv

\* DecBegin keeps the invariant.
LEMMA DecBeginKept ==
    ASSUME IInv, DecBegin
    PROVE  IInv'
<1>1. Types /\ Counts /\ Writing /\ Waiting /\ Reading
  BY DEF IInv
<1>2. /\ UNCHANGED <<setup, eState, eRef, eRec, eNum, ePos, ePkt, dState, dRef, dRec, dCount, shown,
                     recs>>
      /\ dPos = NoFrame /\ pipe # <<>> /\ Head(pipe) # Torn
      /\ pipe' = Tail(pipe) /\ dPos' = 0
      /\ dType' = Element(Head(pipe), 1) /\ dQp' = Element(Head(pipe), 2)
      /\ dPkt' = Rest(Head(pipe), 2)
  BY DEF DecBegin, AnotherFrame, encVars
<1>3. /\ setup \in Setups /\ NMb \in Nat \ {0} /\ NMb = setup.w * setup.h /\ NMb' = NMb
      /\ pipe \in Seq(Seq(Int) \cup {Torn}) /\ recs \in Seq(PictureOf(setup)) /\ dCount \in Nat
  BY <1>1, <1>2, NumberOfMacroblocks DEF Types, NMb
<1>4. InHand = 0 /\ InHand' = 1
  <2>1. 0 # NoFrame
    BY DEF NoFrame
  <2> QED BY <2>1, <1>2 DEF InHand
<1>5. /\ Len(pipe) \in Nat \ {0} /\ Len(recs) \in Nat
      /\ Head(pipe) = pipe[1]
      /\ pipe' \in Seq(Seq(Int) \cup {Torn}) /\ Len(pipe') = Len(pipe) - 1
      /\ \A i \in 1..Len(pipe') : pipe'[i] = pipe[i + 1]
  <2>1. Len(pipe) \in Nat /\ Len(recs) \in Nat
    BY <1>3, LenProperties
  <2>2. Len(pipe) # 0
    BY <1>2, <1>3, EmptySeq
  <2> QED BY <2>1, <2>2, <1>2, <1>3, HeadTailProperties
<1>6. /\ Len(recs) >= 1 /\ Len(recs) <= Len(pipe)
      /\ \/ Len(pipe) = Len(recs)
         \/ Len(pipe) = Len(recs) + 1 /\ pipe[Len(pipe)] = Torn /\ eState = "killed"
  <2>1. \/ Len(pipe) = Len(recs) - 0
        \/ Len(pipe) = Len(recs) - 0 + 1 /\ pipe[Len(pipe)] = Torn /\ eState = "killed"
    BY <1>1, <1>4 DEF Counts
  <2>2. ~(Len(pipe) = 1 /\ pipe[Len(pipe)] = Torn)
    BY <1>2, <1>5
  <2> QED BY <2>1, <2>2, <1>5
<1>7. Packet(setup, dCount, pipe[1], NMb, dRef, recs[1])
  <2>1. 1 \in 1..(Len(recs) - 0) /\ dCount + 0 + 1 - 1 = dCount /\ 0 + 1 = 1
    BY <1>3, <1>5, <1>6
  <2>2. Packet(setup, dCount + 0 + 1 - 1, pipe[1], setup.w * setup.h, RefOf(dRef, recs, 0 + 1),
               recs[0 + 1])
    BY <2>1, <1>1, <1>4 DEF Waiting, AllWhole
  <2>3. RefOf(dRef, recs, 0 + 1) = dRef
    BY <2>1 DEF RefOf
  <2> QED BY <2>1, <2>2, <2>3, <1>3
<1>8. Types'
  <2>1. dPos' \in -1..NMb'
    BY <1>2, <1>3
  <2> QED BY <2>1, <1>1, <1>2, <1>3, <1>5 DEF Types
<1>9. Counts'
  <2>1. CASE Len(pipe) = Len(recs)
    <3>1. Len(pipe') = Len(recs') - InHand' /\ InHand' <= Len(recs')
      BY <2>1, <1>2, <1>4, <1>5, <1>6
    <3> QED BY <3>1, <1>1, <1>2 DEF Counts
  <2>2. CASE Len(pipe) = Len(recs) + 1 /\ pipe[Len(pipe)] = Torn /\ eState = "killed"
    <3>1. Len(pipe') = Len(recs') - InHand' + 1 /\ InHand' <= Len(recs')
      BY <2>2, <1>2, <1>4, <1>5, <1>6
    <3>2. Len(pipe') \in 1..Len(pipe') /\ Len(pipe') + 1 = Len(pipe)
      BY <2>2, <1>5, <1>6
    <3>3. pipe'[Len(pipe')] = pipe[Len(pipe') + 1]
      BY <3>2, <1>5
    <3>4. pipe'[Len(pipe')] = Torn
      BY <3>2, <3>3, <2>2
    <3> QED BY <3>1, <3>4, <2>2, <1>1, <1>2 DEF Counts
  <2> QED BY <2>1, <2>2, <1>6
<1>10. Waiting'
  <2>1. AllWhole(setup, pipe, recs, 0, dRef, dCount)
    BY <1>1, <1>4 DEF Waiting
  <2>2. pipe \in Seq(Seq(Int) \cup {Torn}) /\ pipe # <<>> /\ Len(recs) \in Nat /\ dCount \in Nat
        /\ Len(recs) <= Len(pipe)
    BY <1>2, <1>3, <1>5, <1>6, Zenon
  <2>3. AllWhole(setup, Tail(pipe), recs, 1, dRef, dCount)
    BY <2>1, <2>2, WholeTaken, Zenon
  <2> QED BY <2>3, <1>2, <1>4 DEF Waiting
<1>11. Reading'
  <2> DEFINE type == TypeOfFrame(setup, dCount)
             pkt == pipe[1]
  <2>1. /\ pkt \in Seq(Int) /\ Len(pkt) >= 2
        /\ Element(pkt, 1) = type /\ Element(pkt, 2) = setup.qp
        /\ Codes(setup, type, pkt, 2, 0, NMb, dRef, recs[1])
    BY <1>7 DEF Packet
  <2> HIDE DEF type, pkt
  <2>2. Len(pkt) \in Nat /\ 2 <= Len(pkt) /\ 2 \in Nat /\ 0 \in Nat /\ NMb \in Nat /\ 0 <= NMb
    BY <2>1, <1>3, LenProperties
  <2>3. Codes(setup, type, Rest(pkt, 2), 0, 0, NMb, dRef, recs[1]) /\ Rest(pkt, 2) \in Seq(Int)
    BY <2>1, <2>2, CodesShifted, RestElements
  <2>4. dType' = type /\ dQp' = setup.qp /\ dPkt' = Rest(pkt, 2)
    BY <2>1, <1>2, <1>5 DEF pkt
  <2>5. AgreeBefore(dRec, recs[1], 0)
    BY DEF AgreeBefore
  <2> QED BY <2>3, <2>4, <2>5, <1>2, <1>3 DEF Reading, type
<1> QED BY <1>1, <1>2, <1>8, <1>9, <1>10, <1>11, WritingKept DEF IInv

\* DecodeMb keeps the invariant.
LEMMA DecodeMbKept ==
    ASSUME IInv, DecodeIntra \/ DecodeSkip \/ DecodeInter
    PROVE  IInv'
<1>1. Types /\ Counts /\ Writing /\ Waiting /\ Reading
  BY DEF IInv
<1>2. DecodingMb
  BY DEF DecodeIntra, DecodeSkip, DecodeInter
<1>3. /\ dPkt' = Rest(dPkt, Size(dType, dPkt, 0))
      /\ dRec' = [dRec EXCEPT ![dPos] = Sample(setup, dType, dPkt, 0, dRef, dRec, dPos)]
      /\ dPos' = dPos + 1
      /\ UNCHANGED <<encVars, pipe, dState, dRef, dQp, dType, dCount, shown, recs>>
  BY <1>1, <1>2, DecodeForm
<1>4. UNCHANGED <<setup, eState, eRef, eRec, eNum, ePos, ePkt>>
  BY <1>3 DEF encVars
<1>5. Reading' /\ dRec' \in PictureOf(setup) /\ dPos' \in -1..NMb /\ InHand' = InHand
  BY <1>1, <1>2, <1>3, <1>4, DecodeKept
<1>6. Types'
  <2>1. NMb' = NMb
    BY <1>4 DEF NMb
  <2> QED BY <2>1, <1>1, <1>3, <1>4, <1>5 DEF Types
<1> QED BY <1>1, <1>3, <1>4, <1>5, <1>6, WritingKept, WaitingKept, CountsKept DEF IInv

\* The decoder shows what the encoder reconstructed.
LEMMA ShownIsReconstructed ==
    ASSUME IInv, dPos = NMb
    PROVE  recs # <<>> /\ Len(recs) \in Nat \ {0} /\ dRec = recs[1]
<1>1. /\ setup \in Setups /\ recs \in Seq(PictureOf(setup)) /\ dRec \in PictureOf(setup)
      /\ InHand <= Len(recs) /\ Reading
  BY DEF IInv, Types, Counts
<1>2. NMb \in Nat \ {0} /\ PictureOf(setup) = [0..(NMb - 1) -> 0..MaxSample] /\ dPos # NoFrame
  BY <1>1, NumberOfMacroblocks DEF PictureOf, NoFrame
<1>3. Len(recs) \in Nat \ {0}
  BY <1>1, <1>2, InHandIs, LenProperties
<1>4. recs # <<>> /\ recs[1] \in PictureOf(setup)
  BY <1>1, <1>3, ElementOfSeq
<1>5. \A p \in 0..(NMb - 1) : dRec[p] = recs[1][p]
  BY <1>1, <1>2 DEF Reading, AgreeBefore
<1>6. dRec = recs[1]
  BY <1>1, <1>2, <1>4, <1>5
<1> QED BY <1>3, <1>4, <1>6

\* DecEnd keeps the invariant.
LEMMA DecEndKept ==
    ASSUME IInv, DecEnd
    PROVE  IInv'
<1>1. Types /\ Counts /\ Writing /\ Waiting /\ Reading
  BY DEF IInv
<1>2. /\ UNCHANGED <<setup, eState, eRef, eRec, eNum, ePos, ePkt, pipe, dState, dRec, dQp, dType>>
      /\ dPos = NMb /\ shown' = dRec /\ dRef' = dRec /\ dCount' = dCount + 1
      /\ dPos' = NoFrame /\ recs' = Tail(recs)
  BY DEF DecEnd, encVars
<1>3. /\ setup \in Setups /\ NMb \in Nat \ {0} /\ NMb' = NMb
      /\ recs \in Seq(PictureOf(setup)) /\ dCount \in Nat
  BY <1>1, <1>2, NumberOfMacroblocks DEF Types, NMb
<1>4. recs # <<>> /\ Len(recs) \in Nat \ {0} /\ dRec = recs[1]
  BY <1>2, ShownIsReconstructed
<1>5. /\ recs' \in Seq(PictureOf(setup)) /\ Len(recs') = Len(recs) - 1
      /\ \A i \in 1..Len(recs') : recs'[i] = recs[i + 1]
  BY <1>2, <1>3, <1>4, HeadTailProperties
<1>6. InHand = 1 /\ InHand' = 0
  BY <1>2, <1>3 DEF InHand, NoFrame
<1>7. Types'
  <2>1. dPos' \in -1..NMb' /\ dCount' \in Nat
    BY <1>2, <1>3 DEF NoFrame
  <2> QED BY <2>1, <1>1, <1>2, <1>3, <1>5 DEF Types
<1>8. Counts'
  <2>1. RefOf(dRef', recs', Len(recs') + 1) = RefOf(dRef, recs, Len(recs) + 1)
    <3>1. CASE Len(recs) = 1
      BY <3>1, <1>2, <1>4, <1>5 DEF RefOf
    <3>2. CASE Len(recs) # 1
      <4>1. Len(recs') \in 1..Len(recs') /\ Len(recs') + 1 = Len(recs)
        BY <3>2, <1>4, <1>5
      <4>2. recs'[Len(recs')] = recs[Len(recs)]
        BY <4>1, <1>5
      <4>3. Len(recs) + 1 # 1 /\ (Len(recs) + 1) - 1 = Len(recs)
            /\ Len(recs') + 1 # 1 /\ (Len(recs') + 1) - 1 = Len(recs')
        BY <4>1, <1>4
      <4> QED BY <4>2, <4>3 DEF RefOf
    <3> QED BY <3>1, <3>2
  <2>2. InHand' <= Len(recs') /\ Len(recs') - InHand' = Len(recs) - InHand
        /\ dCount' + Len(recs') = dCount + Len(recs)
    BY <1>2, <1>3, <1>4, <1>5, <1>6
  <2> QED BY <2>1, <2>2, <1>1, <1>2 DEF Counts
<1>9. Waiting'
  <2>1. AllWhole(setup, pipe, recs, 1, dRef, dCount)
    BY <1>1, <1>6 DEF Waiting
  <2>2. AllWhole(setup, pipe, Tail(recs), 0, recs[1], dCount + 1)
    BY <2>1, <1>3, <1>4, WholeShown
  <2> QED BY <2>2, <1>2, <1>4, <1>6 DEF Waiting
<1>10. Reading'
  BY <1>2 DEF Reading
<1> QED BY <1>1, <1>2, <1>7, <1>8, <1>9, <1>10, WritingKept DEF IInv

\* DecStop keeps the invariant.
LEMMA DecStopKept ==
    ASSUME IInv, DecStop
    PROVE  IInv'
<1>1. Types /\ Counts /\ Writing /\ Waiting /\ Reading
  BY DEF IInv
<1>2. /\ UNCHANGED <<setup, eState, eRef, eRec, eNum, ePos, ePkt, pipe, dRef, dRec, dQp, dType, dPos,
                     dPkt, dCount, shown, recs>>
      /\ dState' = "stopped"
  BY DEF DecStop, encVars
<1>3. InHand' = InHand /\ NMb' = NMb
  BY <1>2 DEF InHand, NMb
<1>4. Types'
  BY <1>1, <1>2, <1>3 DEF Types
<1> QED BY <1>1, <1>2, <1>3, <1>4, WritingKept, WaitingKept, CountsKept, ReadingKept DEF IInv

\* Steps in which nothing changes.
LEMMA StutterKept ==
    ASSUME IInv, UNCHANGED vars
    PROVE  IInv'
<1>1. Types /\ Counts /\ Writing /\ Waiting /\ Reading
  BY DEF IInv
<1>2. UNCHANGED <<setup, eState, eRef, eRec, eNum, ePos, ePkt, pipe, dState, dRef, dRec, dQp, dType,
                  dPos, dPkt, dCount, shown, recs>>
  BY DEF vars, encVars, decVars
<1>3. InHand' = InHand /\ NMb' = NMb
  BY <1>2 DEF InHand, NMb
<1>4. Types'
  BY <1>1, <1>2, <1>3 DEF Types
<1> QED BY <1>1, <1>2, <1>3, <1>4, WritingKept, WaitingKept, CountsKept, ReadingKept DEF IInv

\* The invariant is inductive.
LEMMA NextIInv ==
    ASSUME IInv, [Next]_vars
    PROVE  IInv'
BY EncBeginKept, EncodeMbKept, EncEndKept, EncCloseKept, EncKillKept, DecBeginKept, DecodeMbKept,
   DecEndKept, DecStopKept, StutterKept DEF Next, EncNext, DecNext

\* The invariant of the specification.
LEMMA Invariant == Spec => []IInv
<1>1. Init => IInv
  BY InitIInv
<1>2. IInv /\ [Next]_vars => IInv'
  BY NextIInv
<1> QED BY <1>1, <1>2, PTL DEF Spec

-----------------------------------------------------------------------------

\* The decoder reads exactly the elements the encoder wrote (decode_frame and
\* encode_frame agree on where every element ends).
THEOREM PacketsAreConsumed == Spec => []PacketConsumed
<1>1. IInv => PacketConsumed
  <2> SUFFICES ASSUME IInv
               PROVE  PacketConsumed
    OBVIOUS
  <2>1. Types /\ Reading /\ setup \in Setups
    BY DEF IInv, Types
  <2>2. NMb \in Nat \ {0} /\ Positions = 0..(NMb - 1)
    BY <2>1, NumberOfMacroblocks
  <2>3. ASSUME dPos = NMb
        PROVE  dPkt = <<>>
    <3>1. dPkt \in Seq(Int) /\ Codes(setup, dType, dPkt, 0, NMb, NMb, dRef, recs[1])
      BY <2>1, <2>2, <2>3 DEF Reading, NoFrame
    <3>2. 0 = Len(dPkt)
      BY <3>1, <2>2, CodesNoMore
    <3> QED BY <3>1, <3>2, EmptySeq
  <2>4. ASSUME dPos \in Positions
        PROVE  dPkt # <<>>
    <3>1. dPkt \in Seq(Int) /\ Codes(setup, dType, dPkt, 0, dPos, NMb, dRef, recs[1])
          /\ dPos \in Nat /\ dPos < NMb /\ NMb \in Nat /\ 0 \in Nat
      BY <2>1, <2>2, <2>4 DEF Reading, NoFrame
    <3>2. 0 + Size(dType, dPkt, 0) <= Len(dPkt)
      BY <3>1, CodesFirst
    <3>3. Size(dType, dPkt, 0) \in 2..6 /\ Len(<<>>) = 0
      BY SizeBounds
    <3> QED BY <3>2, <3>3
  <2> QED BY <2>3, <2>4 DEF PacketConsumed
<1> QED BY <1>1, Invariant, PTL

\* No drift: with nothing in flight encoder and decoder hold the same reference
\* (e->ref after encode_frame, d->ref after decode_frame).
THEOREM ReferencesAreTheSame == Spec => []SameReference
<1>1. IInv => SameReference
  <2> SUFFICES ASSUME IInv, recs = <<>>, eState # "killed"
               PROVE  dRef = eRef
    BY DEF SameReference
  <2>1. eRef = RefOf(dRef, recs, Len(recs) + 1)
    BY DEF IInv, Counts
  <2>2. Len(recs) + 1 = 1
    OBVIOUS
  <2> QED BY <2>1, <2>2 DEF RefOf
<1> QED BY <1>1, Invariant, PTL

\* The decoder predicts a P frame from a picture it has decoded, never from the
\* memory calloc gave it.
THEOREM ReferencesAreDecoded == Spec => []ReferenceDecodedFirst
<1>1. IInv => ReferenceDecodedFirst
  <2> SUFFICES ASSUME IInv, dPos # NoFrame, dType = FRAME_P
               PROVE  dCount > 0
    BY DEF ReferenceDecodedFirst
  <2>1. /\ dType = TypeOfFrame(setup, dCount) /\ dCount \in Nat /\ setup \in Setups
    BY DEF IInv, Types, Reading
  <2>2. setup.gop \in Nat \ {0}
    BY <2>1, SetupFields
  <2>3. dCount = 0 => dCount % setup.gop = 0
    BY <2>2
  <2> QED BY <2>1, <2>3 DEF TypeOfFrame, FRAME_I, FRAME_P
<1> QED BY <1>1, Invariant, PTL

-----------------------------------------------------------------------------
\* The channel of pictures.

AllPictures == UNION {PictureOf(s) : s \in Setups}

\* The initial states of the codec are those of an empty channel.
LEMMA InitMaps ==
    ASSUME Init
    PROVE  Channel!Init
<1>1. IInv
  BY InitIInv
<1>2. shown \in AllPictures
  BY <1>1 DEF IInv, Types, AllPictures
<1>3. recs = <<>> /\ (eState = "open") = TRUE
  BY DEF Init
<1> QED BY <1>2, <1>3 DEF Channel!Init, AllPictures

\* A step of the codec is a step of the channel or a stutter.
LEMMA NextMaps ==
    ASSUME IInv, [Next]_vars
    PROVE  [Channel!Next]_(Channel!vars)
<1>1. ASSUME UNCHANGED <<recs, shown, eState>>
      PROVE  UNCHANGED Channel!vars
  BY <1>1 DEF Channel!vars
<1>2. ASSUME EncBegin \/ EncodeIntra \/ EncodeSkip \/ EncodeInter \/ DecBegin \/ DecodeIntra
             \/ DecodeSkip \/ DecodeInter \/ DecStop \/ UNCHANGED vars
      PROVE  UNCHANGED <<recs, shown, eState>>
  BY <1>2 DEF EncBegin, EncodeIntra, EncodeSkip, EncodeInter, DecBegin, DecodeIntra, DecodeSkip,
             DecodeInter, DecStop, vars, encVars, decVars
<1>3. ASSUME EncEnd
      PROVE  Channel!Send
  <2>1. eState = "open" /\ eState' = "open" /\ recs' = Append(recs, eRec) /\ shown' = shown
    BY <1>3 DEF EncEnd, decVars
  <2>2. eRec \in AllPictures
    BY DEF IInv, Types, AllPictures
  <2> DEFINE alive == (eState = "open")
  <2>3. alive /\ alive' = alive /\ shown' = shown
    BY <2>1
  <2>4. \E p \in AllPictures : recs' = Append(recs, p)
    <3> WITNESS eRec \in AllPictures
    <3> QED BY <2>1, Zenon
  <2> HIDE DEF alive
  <2>5. alive /\ (\E p \in AllPictures : recs' = Append(recs, p)) /\ UNCHANGED <<shown, alive>>
    BY <2>3, <2>4, Zenon
  <2> QED BY <2>5, Zenon DEF Channel!Send, AllPictures, alive
<1>4. ASSUME EncClose
      PROVE  Channel!Close
  <2>1. eState = "open" /\ eState' = "closed" /\ recs' = recs /\ shown' = shown
    BY <1>4 DEF EncClose, decVars
  <2>2. recs = SubSeq(recs, 1, Len(recs)) /\ Len(recs) \in 0..Len(recs)
    <3>1. recs \in Seq(PictureOf(setup))
      BY DEF IInv, Types
    <3> QED BY <3>1, SubSeqFull, LenProperties
  <2> QED BY <2>1, <2>2 DEF Channel!Close
<1>5. ASSUME EncKill
      PROVE  Channel!Close
  <2>1. eState = "open" /\ eState' = "killed" /\ shown' = shown
    BY <1>5 DEF EncKill, decVars
  <2>2. PICK k \in 0..Len(pipe) : recs' = SubSeq(recs, 1, Len(recs) - (Len(pipe) - k))
    BY <1>5 DEF EncKill
  <2>3. /\ Len(pipe) = Len(recs) - InHand /\ InHand <= Len(recs) /\ InHand \in 0..1
        /\ recs \in Seq(PictureOf(setup))
    BY <2>1, InHandIs DEF IInv, Types, Counts
  <2>4. Len(recs) - (Len(pipe) - k) \in 0..Len(recs)
    BY <2>2, <2>3, LenProperties
  <2> QED BY <2>1, <2>2, <2>4 DEF Channel!Close
<1>6. ASSUME DecEnd
      PROVE  Channel!Show
  <2>1. dPos = NMb /\ shown' = dRec /\ recs' = Tail(recs) /\ eState' = eState
    BY <1>6 DEF DecEnd, encVars
  <2>2. recs # <<>> /\ dRec = recs[1] /\ Len(recs) \in Nat \ {0} /\ recs \in Seq(PictureOf(setup))
    BY <2>1, ShownIsReconstructed DEF IInv, Types
  <2>3. Head(recs) = recs[1]
    BY <2>2, HeadTailProperties
  <2> QED BY <2>1, <2>2, <2>3 DEF Channel!Show
<1> QED BY <1>1, <1>2, <1>3, <1>4, <1>5, <1>6 DEF Next, EncNext, DecNext, Channel!Next

\* Encoder, pipe and decoder implement the channel of pictures: what cmd_decode
\* writes is what encode_frame reconstructed, every picture once and in order,
\* also when the encoder dies and the last packet is torn.
THEOREM ImplementsChannel == Spec => ChannelSpec
<1>1. Spec => Channel!Init /\ [][Channel!Next]_(Channel!vars)
  BY InitMaps, NextMaps, Invariant, PTL DEF Spec
<1> QED BY <1>1 DEF ChannelSpec, Channel!Spec

=============================================================================
