------------------------------- MODULE BitIO -------------------------------
(***************************************************************************)
(* src/bitstream.c: the bit writer and reader both programs share, with    *)
(* its fixed-width and Exp-Golomb codes.  A run writes a few syntax        *)
(* elements into a buffer of Capacity bytes, aligns, and reads them back   *)
(* from the bytes that bs_pos_bytes counted.  The words are W bits wide    *)
(* (32 in the code), and arithmetic on them wraps.                         *)
(***************************************************************************)
EXTENDS Integers, Sequences

CONSTANTS
    W,              \* width of uint32_t
    ByteBits,       \* 8
    Capacity,       \* bytes of the output buffer
    Widths,         \* widths passed to bs_write_bits
    UeValues,       \* values passed to bs_write_ue
    SeValues,       \* values passed to bs_write_se
    MaxElements     \* bound on the elements of a run

\* 1 << n
Pow2[n \in 0..W] == IF n = 0 THEN 1 ELSE 2 * Pow2[n - 1]
Word == Pow2[W]

\* The elements fit: the increment of bs_write_ue does not wrap.
ASSUME BitIOAssumption ==
    /\ W \in Nat \ {0} /\ ByteBits \in Nat \ {0} /\ Capacity \in Nat /\ MaxElements \in Nat
    /\ Widths \subseteq 1..W
    /\ UeValues \subseteq 0..(Word - 2)
    /\ SeValues \subseteq Int /\ \A v \in SeValues : -2 * v <= Word - 2 /\ 2 * v - 1 <= Word - 2

VARIABLES
    side,       \* "write", then "read"
    bs,         \* the Bitstream: buf (its bits), capacity, byte_pos, bit_pos
    script,     \* elements written so far, each with the position it ended at
    out_bytes,  \* what bs_pos_bytes returned
    got         \* elements read back so far

bitVars == <<side, bs, script, out_bytes, got>>

-----------------------------------------------------------------------------
\* Positions and single bits.

Position(s) == s.byte_pos * ByteBits + (ByteBits - 1 - s.bit_pos)
AtEnd(s) == s.byte_pos >= s.capacity

Advance(s) == IF s.bit_pos = 0
              THEN [s EXCEPT !.bit_pos = ByteBits - 1, !.byte_pos = @ + 1]
              ELSE [s EXCEPT !.bit_pos = @ - 1]

NewWriter(cap) == [buf |-> [i \in 0..(cap * ByteBits - 1) |-> 0], capacity |-> cap,
                   byte_pos |-> 0, bit_pos |-> ByteBits - 1]
NewReader(s, len) == [s EXCEPT !.capacity = len, !.byte_pos = 0, !.bit_pos = ByteBits - 1]

\* A faulty variant: the byte is assigned where the bit should be or-ed in.
WriteBitAssigns(s, b) ==
    IF AtEnd(s) THEN s
    ELSE Advance([s EXCEPT !.buf = [i \in DOMAIN s.buf |->
                    IF i \div ByteBits # s.byte_pos THEN s.buf[i]
                    ELSE IF i = Position(s) THEN b ELSE 0]])

\* A full buffer drops the bit; a bit is only ever set, never cleared.
WriteBit(s, b) == IF AtEnd(s) THEN s
                  ELSE Advance(IF b = 1 THEN [s EXCEPT !.buf[Position(s)] = 1] ELSE s)

\* The accumulator of a read: past the end it keeps the value it has.
ReadBit(r) == IF AtEnd(r.s) THEN r
              ELSE [s |-> Advance(r.s), val |-> (2 * r.val + r.s.buf[Position(r.s)]) % Word]

-----------------------------------------------------------------------------
\* The codes.

\* v >> i, for every i
Shifts(v) == LET shr[i \in 0..W] == IF i = 0 THEN v ELSE shr[i - 1] \div 2 IN shr

\* the loop of bs_write_ue that counts the bits of a word
BitLength(v) == CHOOSE n \in 0..W : Shifts(v)[n] = 0 /\ \A i \in 0..(n - 1) : Shifts(v)[i] > 0

\* the n low bits, from the highest to the lowest
WriteBits(s, val, n) ==
    LET w[i \in 0..n] == IF i = 0 THEN s ELSE WriteBit(w[i - 1], Shifts(val)[n - i] % 2)
    IN w[n]

WriteUe(s, v) ==
    LET vp1 == (v + 1) % Word
        bits == BitLength(vp1)
    IN WriteBits(WriteBits(s, 0, bits - 1), vp1, bits)

SeMapped(v) == (IF v > 0 THEN 2 * v - 1 ELSE -2 * v) % Word
WriteSe(s, v) == WriteUe(s, SeMapped(v))

ReadBits(s, n) ==
    LET r[i \in 0..n] == IF i = 0 THEN [s |-> s, val |-> 0] ELSE ReadBit(r[i - 1])
    IN r[n]

\* A faulty variant: the count stops one early.
CountZeroShort(z) ==
    IF z.done THEN z
    ELSE LET r == ReadBits(z.s, 1)
         IN IF r.val = 0 /\ z.zeros < W - 2
            THEN [s |-> r.s, zeros |-> z.zeros + 1, done |-> FALSE]
            ELSE [s |-> r.s, zeros |-> z.zeros, done |-> TRUE]

\* The loop of bs_read_ue: a bit is read before the count is compared, and the
\* count stops at W - 1.
CountZero(z) ==
    IF z.done THEN z
    ELSE LET r == ReadBits(z.s, 1)
         IN IF r.val = 0 /\ z.zeros < W - 1
            THEN [s |-> r.s, zeros |-> z.zeros + 1, done |-> FALSE]
            ELSE [s |-> r.s, zeros |-> z.zeros, done |-> TRUE]
LeadingZeros(s) ==
    LET z[i \in 0..W] == IF i = 0 THEN [s |-> s, zeros |-> 0, done |-> FALSE]
                         ELSE CountZero(z[i - 1])
    IN z[W]

ReadUe(s) ==
    LET z == LeadingZeros(s)
        r == ReadBits(z.s, z.zeros)
    IN [s |-> r.s, val |-> (Pow2[z.zeros] - 1 + r.val) % Word]

ReadSe(s) ==
    LET r == ReadUe(s)
    IN [s |-> r.s, val |-> IF r.val % 2 = 1 THEN (r.val + 1) \div 2 ELSE -(r.val \div 2)]

Align(s) == IF s.bit_pos # ByteBits - 1
            THEN [s EXCEPT !.byte_pos = @ + 1, !.bit_pos = ByteBits - 1] ELSE s
\* A faulty variant: the byte in progress is counted when there is none.
PosBytesOneMore(s) == s.byte_pos + 1

PosBytes(s) == s.byte_pos + (IF s.bit_pos < ByteBits - 1 THEN 1 ELSE 0)

-----------------------------------------------------------------------------

BitInit ==
    /\ side = "write"
    /\ bs = NewWriter(Capacity)
    /\ script = <<>> /\ got = <<>>
    /\ out_bytes = 0

\* truncated: the buffer was full before the element was complete
Written(kind, n, v, after, length) ==
    /\ bs' = after
    /\ script' = Append(script, [kind |-> kind, n |-> n, v |-> v, end |-> Position(after),
                                 truncated |-> Position(bs) + length # Position(after)])
    /\ UNCHANGED <<side, out_bytes, got>>

MayWrite == side = "write" /\ Len(script) < MaxElements

UeLength(v) == 2 * BitLength(v + 1) - 1

PutBits == /\ MayWrite
           /\ \E n \in Widths : \E v \in 0..(Pow2[n] - 1) :
                 Written("bits", n, v, WriteBits(bs, v, n), n)
PutUe == /\ MayWrite
         /\ \E v \in UeValues : Written("ue", 0, v, WriteUe(bs, v), UeLength(v))
PutSe == /\ MayWrite
         /\ \E v \in SeValues : Written("se", 0, v, WriteSe(bs, v), UeLength(SeMapped(v)))

\* End of a frame: bs_align_byte, bs_pos_bytes, and the decoder's bs_init_read
\* on the bytes counted.
Seal ==
    /\ side = "write"
    /\ side' = "read"
    /\ out_bytes' = PosBytes(Align(bs))
    /\ bs' = NewReader(bs, PosBytes(Align(bs)))
    /\ UNCHANGED <<script, got>>

\* The decoder reads the elements in the order they were written, whatever it got.
Get ==
    /\ side = "read" /\ Len(got) < Len(script)
    /\ LET e == script[Len(got) + 1]
           r == CASE e.kind = "bits" -> ReadBits(bs, e.n)
                  [] e.kind = "ue"   -> ReadUe(bs)
                  [] OTHER           -> ReadSe(bs)
       IN /\ bs' = r.s
          /\ got' = Append(got, [v |-> r.val, end |-> Position(r.s)])
    /\ UNCHANGED <<side, script, out_bytes>>

BitNext == PutBits \/ PutUe \/ PutSe \/ Seal \/ Get

BitSpec == BitInit /\ [][BitNext]_bitVars

-----------------------------------------------------------------------------

\* Every element that fitted is read back with its value, at the position it
\* was written, even when later elements did not fit: the codes are
\* self-delimiting and a full buffer damages nothing before its end.
RoundTrip ==
    \A i \in DOMAIN got :
        ~script[i].truncated =>
            got[i].v = script[i].v /\ got[i].end = script[i].end

\* The bytes counted are those the bits need, never more than the buffer has.
SizeIsExact ==
    (side = "read" /\ script # <<>>) =>
        LET bits == script[Len(script)].end
        IN /\ out_bytes * ByteBits >= bits
           /\ out_bytes * ByteBits < bits + ByteBits
           /\ out_bytes <= Capacity

\* Writing an element changes no bit of an earlier one.
EarlierBitsKept ==
    [][side = "write" => \A i \in 0..(Position(bs) - 1) : bs'.buf[i] = bs.buf[i]]_bitVars

=============================================================================
