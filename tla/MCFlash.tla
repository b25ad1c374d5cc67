------------------------------ MODULE MCFlash ------------------------------
(* Two neighbours of the serial flash, of two words each.                   *)
EXTENDS FlashSafe, TLC

CONSTANTS s1, s2

MCSecs == {s1, s2}
MCNext == (s1 :> s2) @@ (s2 :> s2)
=============================================================================
