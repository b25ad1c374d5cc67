------------------------------- MODULE MCSfs -------------------------------
(***************************************************************************)
(* A ring of small blocks.  The logs are finite, so the runs are complete   *)
(* without a bound on the number of calls.                                 *)
(***************************************************************************)
EXTENDS SfsKv, TLC

CONSTANTS i1, i2, i3, short, long

TwoIds   == {i1, i2}
ThreeIds == {i1, i2, i3}
TwoVals  == {short, long}
Sizes    == (short :> 2) @@ (long :> 3)

Symm2 == Permutations(TwoIds)
Symm3 == Permutations(ThreeIds)

(* Every step, the steps at which a failure leaves no copy beside its       *)
(* original, and the copying of records.                                   *)
Everywhere   == Steps
NotDuplicate == Steps \ {"copy", "eraseold", "fmt"}
Copying      == {"start", "copy"}
=============================================================================
