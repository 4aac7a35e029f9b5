-------------------------------- MODULE Bits --------------------------------
(***************************************************************************)
(* Shifts: 1 << n.                                                         *)
(***************************************************************************)
EXTENDS Integers

TwoTo[n \in Nat] == IF n = 0 THEN 1 ELSE 2 * TwoTo[n - 1]
=============================================================================
