------------------------------- MODULE Codec -------------------------------
(***************************************************************************)
(* The standalone codec as a pair of programs: bhevc encode (src/encoder.c *)
(* and cmd_encode) writes a file or pipe of frame packets, bhevc decode    *)
(* (src/decoder.c and cmd_decode) reads it.  A step is one macroblock on   *)
(* either side.  A packet is the flat sequence of syntax elements of a     *)
(* frame; the decoder has nothing else to tell where an element ends.      *)
(*                                                                         *)
(* Data: a picture has one sample per macroblock and one residual          *)
(* coefficient per macroblock; its bits and its other planes are left to   *)
(* BitIO and BlockBudget.                                                  *)
(***************************************************************************)
EXTENDS Integers, Sequences

CONSTANTS
    Setups,         \* the command lines and inputs considered; each is a record of
                    \*   w, h           size of the picture in macroblocks
                    \*   qp, gop        the -q and -g options of the encoder
                    \*   frames         of the input
                    \*   limit          the decoder's -n option, 0 for all frames
                    \*   regions, modes, vectors
                    \*                  region types, intra modes and motion vectors (in
                    \*                  macroblocks) that the analysis of the input yields
    MaxSample,      \* 255
    Mid,            \* 128, the prediction where there is no neighbour
    MaxQp,          \* BHEVC_MAX_QP
    QpShift,        \* 6: the QP distance between the region types
    QpCodes,        \* 2^6: values of the QP field of the frame header
    QStep,          \* get_qstep: the quantizer step of each QP
    Levels,         \* values of a quantized coefficient
    MaxLag          \* bound on the packets waiting in the pipe

Setup == [w : Nat \ {0}, h : Nat \ {0}, qp : 0..(QpCodes - 1), gop : Nat \ {0}, frames : Nat,
          limit : Nat, regions : SUBSET (0..2), modes : SUBSET (0..3),
          vectors : SUBSET (Int \X Int)]

ASSUME CodecAssumption ==
    /\ MaxSample \in Nat /\ Mid \in 0..MaxSample
    /\ MaxQp \in Nat /\ QpShift \in Nat
    /\ QpCodes \in Nat /\ QpCodes > MaxQp
    /\ QStep \in [0..MaxQp -> Nat]
    /\ Levels \subseteq Int
    /\ MaxLag \in Nat
    /\ \A s \in Setups : s \in Setup

FLAT == 0
EDGE == 1
TEXTURE == 2

INTRA_DC == 0
INTRA_H == 1
INTRA_V == 2
INTRA_DIAG == 3

FRAME_I == 0
FRAME_P == 1

PictureOf(s) == [0..(s.w * s.h - 1) -> 0..MaxSample]

VARIABLES
    setup,      \* the run's options and input
    eState,     \* "open", or "closed" by a normal end, or "killed"
    eRef, eRec, \* e->ref, e->rec
    eNum,       \* e->frame_num
    ePos,       \* macroblock loop of encode_frame; NoFrame between frames
    ePkt,       \* syntax elements written to e->bs
    pipe,       \* packets written and not yet read, and a torn last one
    dState,     \* "run" or "stopped"
    dRef, dRec, \* d->ref, d->rec
    dQp, dType, \* of the frame being decoded
    dPos,
    dPkt,       \* what is left to read of the packet
    dCount,     \* frames decoded (frame_count of cmd_decode)
    shown,      \* the last picture written to the output
    recs        \* history: what the encoder reconstructed and the decoder has not shown

\* the options are of both sides
encVars == <<setup, eState, eRef, eRec, eNum, ePos, ePkt>>
decVars == <<setup, dState, dRef, dRec, dQp, dType, dPos, dPkt, dCount, shown>>
vars == <<encVars, pipe, decVars, recs>>

MbW == setup.w
NMb == setup.w * setup.h
Positions == 0..(NMb - 1)
BaseQp == setup.qp

NoFrame == -1
Torn == <<"torn">>

-----------------------------------------------------------------------------
\* Arithmetic both sides share.

Clip(v, lo, hi) == IF v < lo THEN lo ELSE IF v > hi THEN hi ELSE v

\* dequantize, inverse transform, add to the prediction, clip to a sample
Reconstruct(pred, level, qp) == Clip(pred + level * QStep[qp], 0, MaxSample)

Col(p) == p % MbW
Row(p) == p \div MbW

\* predict_intra_blk
IntraPred(rec, p, mode) ==
    LET hasTop == Row(p) > 0
        hasLeft == Col(p) > 0
        top  == IF hasTop  THEN rec[p - MbW] ELSE Mid
        left == IF hasLeft THEN rec[p - 1] ELSE Mid
    IN CASE mode = INTRA_DC ->
                 IF hasTop /\ hasLeft THEN (top + left + 1) \div 2
                 ELSE IF hasTop THEN top ELSE left
         [] mode = INTRA_H -> left
         [] mode = INTRA_V -> top
         [] OTHER -> (top + left + 1) \div 2

-----------------------------------------------------------------------------
\* The encoder.

\* mba->qp_offset, set by edge_classify_mbs with the region type
QpOffset == [r \in 0..2 |-> IF r = FLAT THEN QpShift ELSE IF r = EDGE THEN -QpShift ELSE 0]
EncQp(region) == Clip(BaseQp + QpOffset[region], 0, MaxQp)

\* nonzero flag, then the coefficient
BlockSyntax(level) == IF level = 0 THEN <<0>> ELSE <<1, level>>

\* What predict_inter_mb can return for the macroblock at p: zero for FLAT,
\* otherwise a vector that stays inside the frame.
LegalVectors(p, region) ==
    IF region = FLAT THEN {<<0, 0>>}
    ELSE {v \in setup.vectors : Col(p) + v[1] \in 0..(MbW - 1) /\ Row(p) + v[2] \in 0..(setup.h - 1)}

\* A faulty variant: the frame is counted before its type is chosen.
FrameTypeOfNext(n) == IF (n + 1) % setup.gop = 0 THEN FRAME_I ELSE FRAME_P

FrameTypeOf(n) == IF n % setup.gop = 0 THEN FRAME_I ELSE FRAME_P

Init ==
    /\ setup \in Setups
    /\ eState = "open"
    /\ eRef = [p \in Positions |-> 0] /\ eRec = eRef    \* calloc
    /\ eNum = 0 /\ ePos = NoFrame /\ ePkt = <<>>
    /\ pipe = <<>>
    /\ dState = "run"
    /\ dRef = [p \in Positions |-> 0] /\ dRec = dRef
    /\ dQp = BaseQp /\ dType = FRAME_I                   \* from the file header
    /\ dPos = NoFrame /\ dPkt = <<>> /\ dCount = 0
    /\ shown = dRef
    /\ recs = <<>>

\* A frame was read from the input: encode_frame writes the frame header.
EncBegin ==
    /\ eState = "open" /\ ePos = NoFrame
    /\ eNum < setup.frames /\ Len(pipe) < MaxLag
    /\ ePos' = 0
    /\ ePkt' = <<FrameTypeOf(eNum), BaseQp % QpCodes>>
    /\ UNCHANGED <<eState, eRef, eRec, eNum, pipe, decVars, recs>>

EncType == FrameTypeOf(eNum)

EncodingMb == eState = "open" /\ ePos \in Positions

\* encode_frame's region type, then encode_mb_intra
EncodeIntra ==
    /\ EncodingMb /\ EncType = FRAME_I
    /\ \E region \in setup.regions, mode \in setup.modes, level \in Levels :
        /\ ePkt' = ePkt \o <<region, mode>> \o BlockSyntax(level)
        /\ eRec' = [eRec EXCEPT ![ePos] =
                        Reconstruct(IntraPred(eRec, ePos, mode), level, EncQp(region))]
    /\ ePos' = ePos + 1
    /\ UNCHANGED <<eState, eRef, eNum, pipe, decVars, recs>>

\* encode_mb_inter, skip: zero vector, FLAT, little residual (the picture decides)
EncodeSkip ==
    /\ EncodingMb /\ EncType = FRAME_P
    /\ FLAT \in setup.regions
    /\ ePkt' = ePkt \o <<FLAT, 1>>
    /\ eRec' = [eRec EXCEPT ![ePos] = eRef[ePos]]
    /\ ePos' = ePos + 1
    /\ UNCHANGED <<eState, eRef, eNum, pipe, decVars, recs>>

\* encode_mb_inter, coded: the reference is read at the vector, unclipped
EncodeInter ==
    /\ EncodingMb /\ EncType = FRAME_P
    /\ \E region \in setup.regions, level \in Levels :
         \E v \in LegalVectors(ePos, region) :
            /\ ePkt' = ePkt \o <<region, 0, v[1], v[2]>> \o BlockSyntax(level)
            /\ eRec' = [eRec EXCEPT ![ePos] =
                            Reconstruct(eRef[ePos + v[1] + v[2] * MbW], level, EncQp(region))]
    /\ ePos' = ePos + 1
    /\ UNCHANGED <<eState, eRef, eNum, pipe, decVars, recs>>

\* end of encode_frame (the reference is the reconstruction), and the size and
\* the payload written by cmd_encode
EncEnd ==
    /\ eState = "open" /\ ePos = NMb
    /\ pipe' = Append(pipe, ePkt)
    /\ eRef' = eRec
    /\ eNum' = eNum + 1
    /\ ePos' = NoFrame /\ ePkt' = <<>>
    /\ recs' = Append(recs, eRec)
    /\ UNCHANGED <<eState, eRec, decVars>>

\* the input ends, or -n frames were encoded
EncClose ==
    /\ eState = "open" /\ ePos = NoFrame
    /\ eState' = "closed"
    /\ UNCHANGED <<eRef, eRec, eNum, ePos, ePkt, pipe, decVars, recs>>

\* The encoder dies at any point: what stdio had not flushed is lost, from any
\* byte on, and the last packet may be torn in its size field or its payload.
EncKill ==
    /\ eState = "open"
    /\ eState' = "killed"
    /\ \E k \in 0..Len(pipe), torn \in BOOLEAN :
        /\ pipe' = SubSeq(pipe, 1, k) \o (IF torn THEN <<Torn>> ELSE <<>>)
        /\ recs' = SubSeq(recs, 1, Len(recs) - (Len(pipe) - k))
    /\ UNCHANGED <<eRef, eRec, eNum, ePos, ePkt, decVars>>

-----------------------------------------------------------------------------
\* The decoder.

\* A reader past the end of its buffer reads zeros.
Element(s, i) == IF i \in 1..Len(s) THEN s[i] ELSE 0
Rest(s, n) == SubSeq(s, n + 1, Len(s))

\* A faulty variant: the decoder knows of the coarser FLAT blocks only.
DecQpOffsetFlatOnly(region) == IF region = FLAT THEN QpShift ELSE 0

DecQpOffset(region) == IF region = FLAT THEN QpShift ELSE IF region = EDGE THEN -QpShift ELSE 0
DecQp(region) == Clip(dQp + DecQpOffset(region), 0, MaxQp)

\* decode_blk4x4: the coefficient at element i of the packet and its length
BlockLevel(i) == IF Element(dPkt, i) = 0 THEN 0 ELSE Element(dPkt, i + 1)
\* A faulty variant: the coefficient is read although the flag is zero.
BlockLengthFixed(i) == 2

BlockLength(i) == IF Element(dPkt, i) = 0 THEN 1 ELSE 2

AnotherFrame == dState = "run" /\ dPos = NoFrame /\ (setup.limit = 0 \/ dCount < setup.limit)

\* size and payload read in full; decode_frame reads the frame header
DecBegin ==
    /\ AnotherFrame
    /\ pipe # <<>> /\ Head(pipe) # Torn
    /\ pipe' = Tail(pipe)
    /\ dType' = Element(Head(pipe), 1)
    /\ dQp' = Element(Head(pipe), 2)
    /\ dPkt' = Rest(Head(pipe), 2)
    /\ dPos' = 0
    /\ UNCHANGED <<encVars, dState, dRef, dRec, dCount, shown, recs>>

DecodingMb == dState = "run" /\ dPos \in Positions
Region == Element(dPkt, 1)

DecodeIntra ==
    /\ DecodingMb /\ dType = FRAME_I
    /\ dRec' = [dRec EXCEPT ![dPos] =
                    Reconstruct(IntraPred(dRec, dPos, Element(dPkt, 2)),
                                BlockLevel(3), DecQp(Region))]
    /\ dPkt' = Rest(dPkt, 2 + BlockLength(3))
    /\ dPos' = dPos + 1
    /\ UNCHANGED <<encVars, pipe, dState, dRef, dQp, dType, dCount, shown, recs>>

DecodeSkip ==
    /\ DecodingMb /\ dType # FRAME_I
    /\ Element(dPkt, 2) # 0
    /\ dRec' = [dRec EXCEPT ![dPos] = dRef[dPos]]
    /\ dPkt' = Rest(dPkt, 2)
    /\ dPos' = dPos + 1
    /\ UNCHANGED <<encVars, pipe, dState, dRef, dQp, dType, dCount, shown, recs>>

\* the position the vector points at is clipped into the frame
DecodeInter ==
    /\ DecodingMb /\ dType # FRAME_I
    /\ Element(dPkt, 2) = 0
    /\ LET col == Clip(Col(dPos) + Element(dPkt, 3), 0, MbW - 1)
           row == Clip(Row(dPos) + Element(dPkt, 4), 0, setup.h - 1)
       IN dRec' = [dRec EXCEPT ![dPos] =
                       Reconstruct(dRef[row * MbW + col], BlockLevel(5), DecQp(Region))]
    /\ dPkt' = Rest(dPkt, 4 + BlockLength(5))
    /\ dPos' = dPos + 1
    /\ UNCHANGED <<encVars, pipe, dState, dRef, dQp, dType, dCount, shown, recs>>

\* A faulty variant: the reference stays what it was.
DecEndKeepsReference ==
    /\ dState = "run" /\ dPos = NMb
    /\ shown' = dRec
    /\ dCount' = dCount + 1
    /\ dPos' = NoFrame /\ dPkt' = <<>>
    /\ recs' = Tail(recs)
    /\ UNCHANGED <<encVars, pipe, dState, dRef, dRec, dQp, dType>>

\* end of decode_frame, and the picture written by cmd_decode
DecEnd ==
    /\ dState = "run" /\ dPos = NMb
    /\ shown' = dRec
    /\ dRef' = dRec
    /\ dCount' = dCount + 1
    /\ dPos' = NoFrame /\ dPkt' = <<>>
    /\ recs' = Tail(recs)
    /\ UNCHANGED <<encVars, pipe, dState, dRec, dQp, dType>>

\* A faulty variant: a packet that comes up short is waited for.
DecStopIgnoresTorn ==
    /\ dState = "run" /\ dPos = NoFrame
    /\ \/ setup.limit # 0 /\ dCount = setup.limit
       \/ pipe = <<>> /\ eState # "open"
    /\ dState' = "stopped"
    /\ UNCHANGED <<encVars, pipe, dRef, dRec, dQp, dType, dPos, dPkt, dCount, shown, recs>>

\* The loop of cmd_decode ends: -n frames are decoded, the file is at its end,
\* or the size or the payload of the next packet comes up short.
DecStop ==
    /\ dState = "run" /\ dPos = NoFrame
    /\ \/ setup.limit # 0 /\ dCount = setup.limit
       \/ pipe = <<>> /\ eState # "open"
       \/ pipe # <<>> /\ Head(pipe) = Torn
    /\ dState' = "stopped"
    /\ UNCHANGED <<encVars, pipe, dRef, dRec, dQp, dType, dPos, dPkt, dCount, shown, recs>>

-----------------------------------------------------------------------------

EncNext == EncBegin \/ EncodeIntra \/ EncodeSkip \/ EncodeInter \/ EncEnd \/ EncClose \/ EncKill
DecNext == DecBegin \/ DecodeIntra \/ DecodeSkip \/ DecodeInter \/ DecEnd \/ DecStop

Next == EncNext \/ DecNext

\* The decoder is a loop that blocks only in its reads; nothing is assumed of the encoder.
Spec == Init /\ [][Next]_vars /\ WF_vars(DecNext)

-----------------------------------------------------------------------------

\* The decoder reads exactly the elements the encoder wrote: a frame ends at
\* the end of its packet, with nothing left over and nothing read past it.
PacketConsumed ==
    /\ dPos = NMb => dPkt = <<>>
    /\ dPos \in Positions => dPkt # <<>>

\* No drift: when nothing is in flight both sides hold the same reference, so
\* the next P frame is predicted from the same picture on both sides.
SameReference ==
    (recs = <<>> /\ dPos = NoFrame /\ eState # "killed") => dRef = eRef

\* A P frame is only ever decoded against a reference that came from the stream.
ReferenceDecodedFirst ==
    (dPos # NoFrame /\ dType = FRAME_P) => dCount > 0

\* Once the encoder has ended, normally or not, the decoder shows every frame
\* that reached the file in full, and returns.
Drains == (eState # "open") ~> (dState = "stopped" /\ (setup.limit = 0 => recs = <<>>))

\* The pair implements the channel of pictures a user sees.
Channel == INSTANCE FrameChannel WITH
    Picture <- UNION {PictureOf(s) : s \in Setups},
    pending <- recs, shown <- shown, alive <- (eState = "open")
ChannelSpec == Channel!Spec

=============================================================================
