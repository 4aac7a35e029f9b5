------------------------------- MODULE Target -------------------------------
(***************************************************************************)
(* Difficulty and targets: what a miner is told its shares must meet       *)
(* (util.GetTargetHex, sent by mining.set_target) and what processShare    *)
(* checks (isShareDiffGeDiff, isHeaderLeTarget).  A header hash is a       *)
(* number, the bytes of double SHA-256 read with the lowest first.         *)
(***************************************************************************)
EXTENDS Integers, Sequences

CONSTANTS
    PowLimit,        \* util.PowLimitTest, 2^251 - 1
    Base, Width      \* 256 and 32: the bytes of a target

\* The powers of the base, up to the weight a further byte would have.
Power[k \in 0 .. Width] == IF k = 0 THEN 1 ELSE Base * Power[k - 1]

ASSUME TargetAssumption ==
    /\ PowLimit \in Nat \ {0}
    /\ Base \in Nat \ {0, 1} /\ Width \in Nat \ {0}
    /\ PowLimit < Power[Width]

\* big.Int.Div of naturals.
Div(a, b) == a \div b

\* big.Int.Bytes: the bytes of n, the highest first, none for 0.
BytesLen(n) == CHOOSE l \in 0 .. Width :
    n < Power[l] /\ \A k \in 0 .. l - 1 : n >= Power[k]
Bytes(n) == [i \in 1 .. BytesLen(n) |-> (n \div Power[BytesLen(n) - i]) % Base]

\* Mutant of GetTargetHex: the bytes are copied to the front.
TargetFromFront(diff) ==
    LET bytes == Bytes(Div(PowLimit, diff)) IN
    [i \in 1 .. Width |-> IF i <= Len(bytes) THEN bytes[i] ELSE 0]

\* The target for a difficulty: Width bytes, the quotient at their end.
GetTargetHex(diff) ==
    LET bytes == Bytes(Div(PowLimit, diff))
        gap == Width - Len(bytes)
    IN [i \in 1 .. Width |-> IF i <= gap THEN 0 ELSE bytes[i - gap]]

\* (PowLimit / hash) / minerDifficulty >= 1, in rationals; hash is not 0.
isShareDiffGeDiff(hash, minerDifficulty) == PowLimit >= hash * minerDifficulty

isHeaderLeTarget(hash, target) == hash <= target

\* processShare: what a proof that Equihash accepts is.
Kind(hash, target, minerDifficulty) ==
    IF isHeaderLeTarget(hash, target) THEN "block"
    ELSE IF isShareDiffGeDiff(hash, minerDifficulty) THEN "share"
    ELSE "low difficulty"

\* Work.Difficulty, the difficulty of a block, from the template's target.
WorkDifficulty(target) == Div(PowLimit, target)

-----------------------------------------------------------------------------
ByteValue(bytes, i) == bytes[i] * Power[Width - i]
TargetValue(bytes) ==
    LET sum[i \in 0 .. Width] == IF i = 0 THEN 0 ELSE sum[i - 1] + ByteValue(bytes, i)
    IN sum[Width]

\* A miner that is told the target of a difficulty and a pool that compares
\* rationals agree on every hash: it is at most the target if and only if it
\* is a share (GetTargetHex, isShareDiffGeDiff).
ToldIsChecked(hash, diff) ==
    hash <= TargetValue(GetTargetHex(diff)) <=> isShareDiffGeDiff(hash, diff)

\* A block whose difficulty is at least the miners' is a share as well, so
\* the pool loses nothing by not checking a block against its own difficulty
\* (processShare).
BlockIsShare(hash, target, diff) ==
    target > 0 /\ WorkDifficulty(target) >= diff /\ Kind(hash, target, diff) = "block"
        => isShareDiffGeDiff(hash, diff)
=============================================================================
