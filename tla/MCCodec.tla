------------------------------ MODULE MCCodec ------------------------------
(***************************************************************************)
(* Toy quantizer and vectors for Codec: samples 0..3, quantizers 0..2.     *)
(***************************************************************************)
EXTENDS Codec

MCQStep == [q \in 0..2 |-> q + 1]
MCLevels == {-1, 0}

\* one row of macroblocks, all the types of frames and blocks
Line == [w |-> 2, h |-> 1, qp |-> 1, gop |-> 2, frames |-> 3, limit |-> 0,
         regions |-> {0, 1}, modes |-> {0, 1}, vectors |-> {<<-1, 0>>, <<0, 0>>, <<1, 0>>}]

\* two rows, the modes that look up, a QP above the table and a decoder that
\* is asked for fewer frames than the file may hold
Plane == [w |-> 2, h |-> 2, qp |-> 3, gop |-> 3, frames |-> 2, limit |-> 2,
          regions |-> {2}, modes |-> {2, 3}, vectors |-> {<<1, 0>>, <<0, -1>>, <<-1, 1>>}]

MCSetups == {Line, Plane}
=============================================================================
