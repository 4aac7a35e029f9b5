------------------------------ MODULE Rewards ------------------------------
(***************************************************************************)
(* How a block reward is divided: payouts/unlocker.go calculateRewards,    *)
(* calculateRewardsForShares and chargeFee, util/util.go GetConstReward.   *)
(* Amounts are integers (zatoshi).  The code computes with exact rationals *)
(* and rounds each account's amount once, with FloatString(0); here every  *)
(* rational is a numerator over an explicit denominator.  Fees are whole   *)
(* per cents; the code takes any fraction that SetFloat64 gives.           *)
(***************************************************************************)
EXTENDS Shares

CONSTANTS
    PoolFee,           \* per cent of the reward
    KeepTxFees,
    Donate,
    DonationFee,       \* per cent of the pool's profit
    DonationAccount,
    PoolFeeAddress,    \* NoAddress when it is not configured
    NoAddress,
    HalvingHeight, PreReward, PostReward

ASSUME RewardsAssumption ==
    /\ PoolFee \in 0 .. 100 /\ DonationFee \in 0 .. 100
    /\ KeepTxFees \in BOOLEAN /\ Donate \in BOOLEAN
    /\ HalvingHeight \in Nat /\ PreReward \in Nat /\ PostReward \in Nat

Accounts == Logins \cup {DonationAccount} \cup ({PoolFeeAddress} \ {NoAddress})

GetConstReward(height) == IF height >= HalvingHeight THEN PostReward ELSE PreReward

\* Mutant of Round: truncation.
RoundDown(n, d) == IF n >= 0 THEN n \div d ELSE -((-n) \div d)

\* Rat.FloatString(0) of n/d: the nearest integer, halves away from zero.
Round(n, d) == IF n >= 0 THEN (2 * n + d) \div (2 * d) ELSE -((d - 2 * n) \div (2 * d))

\* Numerators over 100 of the two results of chargeFee(revenue, PoolFee).
MinersProfit(reward) == reward * (100 - PoolFee)
PoolProfit(reward, extra) == reward * PoolFee + 100 * extra

ShareReward(n, total, reward) ==
    IF n = 0 THEN 0 ELSE Round(MinersProfit(reward) * n, 100 * total)

\* `extra' is 0 when ExtraReward is nil.
CalculateRewards(reward, shares, total, extra) ==
    LET pool == PoolProfit(reward, extra)
        kept == IF Donate THEN 100 - DonationFee ELSE 100
    IN  [a \in Accounts |->
            (IF a \in Logins THEN ShareReward(shares[a], total, reward) ELSE 0)
            + (IF Donate /\ a = DonationAccount THEN Round(pool * DonationFee, 10000) ELSE 0)
            + (IF a = PoolFeeAddress THEN Round(pool * kept, 10000) ELSE 0)]
=============================================================================
