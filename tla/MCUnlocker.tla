----------------------------- MODULE MCUnlocker -----------------------------
(***************************************************************************)
(* Instances of Unlocker for TLC.  Depths are scaled down with minDepth:   *)
(* minDepth 1, depth 2, immatureDepth 1 for the code's 3, 100 and 20.      *)
(***************************************************************************)
EXTENDS Unlocker, TLC

\* Two blocks at different heights, on both sides of the halving.
ApartHeights == 1 :> 1 @@ 2 :> 2
\* Two blocks at the same height, found by different workers.
RivalHeights == 1 :> 1 @@ 2 :> 1
OwnWorkers == 1 :> 1 @@ 2 :> 2
\* Two submissions that carry the same worker name.
SameWorker == 1 :> 1 @@ 2 :> 1

Fees == 1 :> 3 @@ 2 :> 5

\* Two rounds: one miner alone, and a division that does not come out even.
TwoRounds == {"ann" :> 2 @@ "bob" :> 0, "ann" :> 1 @@ "bob" :> 2}
OneRound == {"ann" :> 1 @@ "bob" :> 2}
=============================================================================
