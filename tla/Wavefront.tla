----------------------------- MODULE Wavefront -----------------------------
(***************************************************************************)
(* What threads that share the work on a frame promise about it: blocks    *)
(* are done once each, in an order a single thread could have used as far  *)
(* as their dependencies go, and a frame that is reported good is complete *)
(***************************************************************************)
EXTENDS Naturals

VARIABLES
    needs,          \* of each block of the current frame, the blocks it depends on
    encoded,        \* blocks of the current frame that are done
    outcome         \* "busy", then "ok" or "error"

vars == <<needs, encoded, outcome>>

Blocks == DOMAIN needs

Init == encoded = {} /\ outcome = "busy"

Encode ==
    /\ outcome = "busy"
    /\ \E b \in Blocks \ encoded :
        /\ needs[b] \subseteq encoded
        /\ encoded' = encoded \cup {b}
    /\ UNCHANGED <<needs, outcome>>

Succeed ==
    /\ outcome = "busy" /\ encoded = Blocks
    /\ outcome' = "ok" /\ UNCHANGED <<needs, encoded>>

Fail ==
    /\ outcome = "busy"
    /\ outcome' = "error" /\ UNCHANGED <<needs, encoded>>

\* with the blocks of another frame
NextFrame ==
    /\ outcome # "busy"
    /\ encoded' = {} /\ outcome' = "busy"

Next == Encode \/ Succeed \/ Fail \/ NextFrame

Spec == Init /\ [][Next]_vars

=============================================================================
