------------------------------ MODULE Coinbase ------------------------------
(***************************************************************************)
(* The parts of a block the pool writes itself: the height in the coinbase *)
(* script and the outputs (transaction/transaction.go), and the number of  *)
(* transactions (proxy/miner.go).  Bytes are numbers below 256.            *)
(***************************************************************************)
EXTENDS Bits, SequencesExt

CONSTANTS
    HalvingHeight,          \* util.FirstRewardHalvingBlock
    Interval16,             \* 16 * util.FoundersRewardAddressChangeInterval
    FoundersAddresses       \* len(util.TestFoundersRewardAddresses)

\* The table of addresses lasts until the halving.
ASSUME FoundersAssumption ==
    /\ HalvingHeight \in Nat /\ Interval16 \in Nat \ {0} /\ FoundersAddresses \in Nat
    /\ 16 * (HalvingHeight - 1) < Interval16 * FoundersAddresses

\* The digits strconv.FormatInt(n, 2^w) writes for an int64, of w bits each;
\* the first is not zero unless it is the only one.
IntBits == 63
IsInt64(n) == (n \div TwoTo[30]) \div TwoTo[30] < TwoTo[IntBits - 60]
DigitCount(n, w) ==
    CHOOSE l \in 1 .. IntBits :
        /\ n \div TwoTo[w * (l - 1)] < TwoTo[w]
        /\ l = 1 \/ n >= TwoTo[w * (l - 1)]
Digits(n, w) ==
    LET l == DigitCount(n, w)
    IN [i \in 1 .. l |-> (n \div TwoTo[w * (l - i)]) % TwoTo[w]]

\* util.HexToBytes of an even number of digits.
HexToBytes(hex) == [i \in 1 .. Len(hex) \div 2 |-> 16 * hex[2 * i - 1] + hex[2 * i]]
Even(hex) == IF Len(hex) % 2 = 1 THEN <<0>> \o hex ELSE hex

\* The length that is announced: room for the height and a sign bit.
Height(h) == (Len(Digits(2 * h, 1)) + 7) \div 8

\* The bytes of a number, the highest first.
Serial(n) == HexToBytes(Even(Digits(n, 4)))

\* The height, its bytes reversed, after its length and before a zero byte.
blockHeightScript(h) ==
    LET serial == Serial(h)
        lengthDiff == Len(serial) - Height(h)
        padded == serial \o (IF lengthDiff > 0 THEN [i \in 1 .. lengthDiff |-> 0] ELSE <<>>)
    IN HexToBytes(<<0, Height(h)>>) \o Reverse(padded) \o <<0>>

\* Which founder is paid, and a mutant that rounds up.
FounderRoundedUp(h) == (16 * h + Interval16 - 1) \div Interval16

FounderIndex(h) == (16 * h) \div Interval16

\* The outputs: the pool first, then the founder.
Outputs(h) == IF h < HalvingHeight THEN <<"pool", FounderIndex(h)>> ELSE <<"pool">>

\* The number of transactions, the coinbase among them, as processShare puts
\* it into the block.
TxCount(txs) == Serial(txs + 1)

-----------------------------------------------------------------------------
(***************************************************************************)
(* How a node reads them.                                                  *)
(***************************************************************************)
\* A script number of the given bytes, the lowest first; the highest bit is
\* the sign.
Values(bytes) ==
    LET value[k \in 0 .. Len(bytes)] ==
            IF k = 0 THEN 0 ELSE 256 * value[k - 1] + bytes[Len(bytes) + 1 - k]
    IN value
Value(bytes) == Values(bytes)[Len(bytes)]
Positive(bytes) == bytes # <<>> /\ Last(bytes) < 128

\* A node finds the height of the block in the first push of its script, as a
\* positive number written in as few bytes as possible; up to 16 it expects
\* an opcode and no push (BuildCoinbaseTxn).
HeightReadable(h) ==
    LET script == blockHeightScript(h)
        push == SubSeq(script, 2, script[1] + 1)
    IN /\ script[1] < Len(script)
       /\ Positive(push) /\ Value(push) > 16 /\ Value(push) = h
       /\ Len(push) > 1 => ~(push[Len(push)] = 0 /\ push[Len(push) - 1] < 128)

\* The index never leaves the table of addresses (BuildCoinbaseTxn).
FounderExists(h) == \A i \in 2 .. Len(Outputs(h)) : Outputs(h)[i] \in 0 .. FoundersAddresses - 1

\* A node reads the number of transactions of a block with at most 252 of
\* them as what it is: one byte (processShare).  Larger numbers need a
\* prefix, which the code does not write.
TxCountReadable(txs) == txs + 1 < 253 => TxCount(txs) = <<txs + 1>>
=============================================================================
