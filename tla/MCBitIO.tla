------------------------------ MODULE MCBitIO ------------------------------
(***************************************************************************)
(* Words of 4 bits, bytes of 4 bits and a buffer of 3 of them: the longest *)
(* element (7 bits) crosses two byte boundaries and three elements need    *)
(* not fit.                                                                *)
(***************************************************************************)
EXTENDS BitIO

MCUeValues == 0..14
MCSeValues == -7..7
=============================================================================
