------------------------------- MODULE Shares -------------------------------
(***************************************************************************)
(* Share vectors: the hashes shares:roundCurrent and shares:round<h>:<w>   *)
(* of Redis, login -> sum of share difficulties.  A field that is absent   *)
(* is 0, since HIncrBy never stores a zero share here.                     *)
(***************************************************************************)
EXTENDS Integers, FiniteSets, Functions

CONSTANT Logins       \* the miners' payout addresses

ASSUME SharesAssumption == IsFiniteSet(Logins)

NoShares == [l \in Logins |-> 0]

\* The sum WriteBlock takes over the closed round; also a sum of rewards.
TotalOf(f) == SumFunction(f)
=============================================================================
