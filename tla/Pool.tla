-------------------------------- MODULE Pool --------------------------------
(***************************************************************************)
(* The pool: share intake and the block unlocker over one Redis and one    *)
(* chain.  They share blocks:candidates and the rounds; nothing else joins *)
(* them, neither a lock nor a message.  Unlocker is checked on its own     *)
(* against an environment that closes rounds and records blocks as it      *)
(* likes; here the environment is the real one, and the composition is     *)
(* shown to stay within the assumption.                                    *)
(***************************************************************************)
EXTENDS Unlocker, Intake

payoutVars == <<ledgerVars, control, faults, crashes>>
poolVars == <<chainVars, roundVars, payoutVars, intakeVars>>

PoolInit == Init /\ IntakeInit

PayoutStep == (UnlockerStep \/ Fail \/ Crash) /\ UNCHANGED intakeVars

IntakeSide == ProxyStep /\ UNCHANGED payoutVars

NetworkSide == NetworkStep /\ UNCHANGED payoutVars

PoolNext == PayoutStep \/ IntakeSide \/ NetworkSide

PoolSpec == PoolInit /\ [][PoolNext]_poolVars

\* As in Unlocker; and a session's goroutine goes on, its calls ending too.
PoolFairSpec ==
    /\ PoolSpec
    /\ WF_poolVars(UnlockerStep /\ UNCHANGED intakeVars)
    /\ WF_poolVars(Extend /\ NetworkSide)
    /\ \A s \in Sessions : WF_poolVars(Handle(s) /\ UNCHANGED payoutVars)

-----------------------------------------------------------------------------
\* Share intake does to the chain, the rounds and the candidates only what
\* Unlocker's environment may do: what is checked and proved of the unlocker
\* alone holds in the pool (WriteBlock against unlocker.go).
UnlockerAssumptionHolds == Spec

\* The round of a block that is not settled yet holds the shares its rewards
\* will be divided by: settling another block, which deletes a round by its
\* key, takes none of them away (writeMaturedBlock against WriteBlock).
UnsettledRoundsIntact ==
    \A e \in closed : ~Settled(e.hash) => TotalOf(rounds[RoundKey(e.hash)]) = e.shares

\* A miner's immature amounts and balance come only from proofs the miner
\* has delivered: who is credited for a block had a share in Redis before it
\* (from WriteShare to WriteMaturedBlock).
OnlyWorkIsPaid ==
    \A l \in Logins :
        minerImmature[l] + minerBalance[l] > 0 =>
            \E p \in Proofs : LoginOf[SessionOf[p]] = l /\ credited[p] > 0

\* From the node's answer to the miners' balances: a block the node has taken
\* is settled in the end if no call fails and no instance dies on the way; a
\* restart of the unlocker is harmless.
ConfirmedSettles ==
    \A b \in Blocks : b \in confirmed ~>
        (Settled(b) \/ halt \/ intakeFaults > 0 \/ restarts > 0)
=============================================================================
