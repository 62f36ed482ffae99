----------------------------- MODULE AsyncCall -----------------------------
(***************************************************************************)
(* What an AVxWorker promises its owner: a call that is launched runs      *)
(* exactly once, the worker is free again when it is done, and the owner   *)
(* learns whether it failed.                                               *)
(***************************************************************************)
EXTENDS Naturals

VARIABLES
    state,      \* "none", "idle" or "busy"
    failed,     \* whether a call since the last reset of the flag failed
    calls       \* calls completed

vars == <<state, failed, calls>>

Init == state = "none" /\ failed = FALSE /\ calls = 0

Create == state = "none" /\ state' = "idle" /\ failed' = FALSE /\ UNCHANGED calls
Forgive == state # "busy" /\ failed' = FALSE /\ UNCHANGED <<state, calls>>
Launch == state = "idle" /\ state' = "busy" /\ UNCHANGED <<failed, calls>>
Complete ==
    /\ state = "busy" /\ state' = "idle"
    /\ failed' \in {failed, TRUE}
    /\ calls' = calls + 1
Destroy == state = "idle" /\ state' = "none" /\ UNCHANGED <<failed, calls>>

Next == Create \/ Forgive \/ Launch \/ Complete \/ Destroy

Safety == Init /\ [][Next]_vars

Spec == Safety /\ WF_vars(Complete)

=============================================================================
