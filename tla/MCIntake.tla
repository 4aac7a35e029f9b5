------------------------------ MODULE MCIntake ------------------------------
(***************************************************************************)
(* Instances of Intake for TLC: two pool processes with one session each.  *)
(* Proofs 1 and 2 are blocks, 3 and 4 shares.                              *)
(***************************************************************************)
EXTENDS Intake, TLC

Own == "s1" :> "i1" @@ "s2" :> "i2"
Mining == "s1" :> "ann" @@ "s2" :> "bob"
Finders == 1 :> "s1" @@ 2 :> "s2" @@ 3 :> "s1" @@ 4 :> "s2"

\* Both blocks and a share at the first height, a share two heights up.
RivalJobs == 1 :> 1 @@ 2 :> 1 @@ 3 :> 1 @@ 4 :> 3
RivalHeights == 1 :> 1 @@ 2 :> 1

OwnWorkers == 1 :> 1 @@ 2 :> 2
Fees == 1 :> 3 @@ 2 :> 5
=============================================================================
