---------------------------- MODULE FrameChannel ----------------------------
(***************************************************************************)
(* What "encode, then decode" promises a user of the codec: the decoder    *)
(* shows exactly the pictures the encoder reconstructed, in order, none    *)
(* skipped, repeated or altered.  A sender that dies may take the frames   *)
(* not yet shown with it, but only a suffix of them.                       *)
(***************************************************************************)
EXTENDS Sequences, Naturals

CONSTANT Picture

VARIABLES
    pending,    \* reconstructed by the encoder, not yet shown by the decoder
    shown,      \* the last picture shown
    alive       \* the encoder still runs

vars == <<pending, shown, alive>>

Init ==
    /\ pending = <<>>
    /\ shown \in Picture
    /\ alive = TRUE

Send ==
    /\ alive
    /\ \E p \in Picture : pending' = Append(pending, p)
    /\ UNCHANGED <<shown, alive>>

Show ==
    /\ pending # <<>>
    /\ shown' = Head(pending)
    /\ pending' = Tail(pending)
    /\ UNCHANGED alive

Close ==
    /\ alive /\ alive' = FALSE
    /\ \E k \in 0..Len(pending) : pending' = SubSeq(pending, 1, k)
    /\ UNCHANGED shown

Next == Send \/ Show \/ Close

Spec == Init /\ [][Next]_vars

=============================================================================
