------------------------------- MODULE MCPool -------------------------------
(***************************************************************************)
(* An instance of Pool for TLC: two pool processes with one session each,  *)
(* two blocks and one more share.                                          *)
(***************************************************************************)
EXTENDS Pool, TLC

Own == "s1" :> "i1" @@ "s2" :> "i2"
Mining == "s1" :> "ann" @@ "s2" :> "bob"
Finders == 1 :> "s1" @@ 2 :> "s2" @@ 3 :> "s2"
RivalJobs == 1 :> 1 @@ 2 :> 1 @@ 3 :> 1
RivalHeights == 1 :> 1 @@ 2 :> 1
OwnWorkers == 1 :> 1 @@ 2 :> 2
Fees == 1 :> 3 @@ 2 :> 5

\* Every vector a round can be closed with here: up to three proofs of
\* difficulty 2, each counted once.
AllRounds == {[l \in {"ann", "bob"} |-> IF l = "ann" THEN m ELSE n] :
                 m \in {0, 2, 4}, n \in {0, 2, 4}} \ {"ann" :> 0 @@ "bob" :> 0}
=============================================================================
