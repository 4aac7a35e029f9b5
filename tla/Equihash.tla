------------------------------ MODULE Equihash ------------------------------
(***************************************************************************)
(* The proof-of-work verifier: the solution's bits as equihash/equi.go     *)
(* reads them, and the verifier of equihash/libs/equi.c.                   *)
(*                                                                         *)
(* A hash is the set of the positions of its one-bits, the first being 0,  *)
(* so that xor is the symmetric difference.                                *)
(***************************************************************************)
EXTENDS Bits, Sequences, FiniteSets

CONSTANTS
    WN, WK,          \* 200 and 9
    ByteBits,        \* 8
    IndexBits        \* 21: bits of an index

ASSUME EquihashAssumption ==
    /\ WK \in Nat \ {0} /\ ByteBits \in Nat \ {0} /\ IndexBits \in Nat \ {0}
    /\ WN \in Nat \ {0} /\ WN % (WK + 1) = 0 /\ WN % ByteBits = 0

DIGITBITS == WN \div (WK + 1)
PROOFSIZE == TwoTo[WK]

(***************************************************************************)
(* equi.go.  The solution is a sequence of bytes; Verify has checked that  *)
(* it has IndexBits * PROOFSIZE bits.                                      *)
(***************************************************************************)
Bit(byte, offset) == (byte \div TwoTo[ByteBits - 1 - offset]) % 2

\* ReadBit: the reader's byte, and its offset in it; a new byte is read when
\* the offset is 0 or has run over.
ReadBit(r, bytes) ==
    LET offset == IF r.offset = ByteBits THEN 0 ELSE r.offset
        b == IF offset = 0 THEN bytes[r.next] ELSE r.b
    IN [next |-> IF offset = 0 THEN r.next + 1 ELSE r.next, b |-> b,
        offset |-> offset + 1, bit |-> Bit(b, offset)]

\* The reader after every bit; it goes on from index to index.
NewReader == [next |-> 1, b |-> 0, offset |-> 0, bit |-> 0]
Reading(bytes, bits) ==
    LET reader[k \in 0 .. bits] ==
            IF k = 0 THEN NewReader ELSE ReadBit(reader[k - 1], bytes)
    IN reader

\* Read21Bits: the bits that are on are put in from the highest.
Weighted(reader, from, k) == TwoTo[IndexBits - k] * reader[from + k].bit
Results(reader, from) ==
    LET result[k \in 0 .. IndexBits] ==
            IF k = 0 THEN 0 ELSE result[k - 1] + Weighted(reader, from, k)
    IN result
ReadIndex(reader, from) == Results(reader, from)[IndexBits]

Proof(bytes, n) ==
    LET reader == Reading(bytes, n * IndexBits)
    IN [i \in 1 .. n |-> ReadIndex(reader, (i - 1) * IndexBits)]

\* Verify has checked the length; every index has a hash of WN bits.
IsProof(genhash, indices, I) ==
    /\ I \subseteq Int
    /\ genhash \in [I -> SUBSET (0 .. WN - 1)]
    /\ indices \in [1 .. PROOFSIZE -> I]

(***************************************************************************)
(* equi.c.                                                                 *)
(***************************************************************************)
Xor(a, b) == (a \ b) \cup (b \ a)

\* The loop over the first r * DIGITBITS / 8 bytes.  The test of the bits of
\* the last, incomplete byte is inside it, where hash[i] is 0 already.
LeadingZero(hash, r) ==
    \A p \in hash : p >= ((r * DIGITBITS) \div ByteBits) * ByteBits

Reply(code, hash) == [code |-> code, hash |-> hash]

\* The call at level r is for the k-th group of 2^r indices, k from 0; its
\* halves are the groups 2k and 2k + 1 of the level below.
First(r, k) == k * TwoTo[r] + 1
Groups(r) == 0 .. TwoTo[WK - r] - 1

\* Mutant of verifyrec: the order of the halves is not checked.
verifyUnordered(indices, r, k, below) ==
    LET vrf0 == below[2 * k]
        vrf1 == below[2 * k + 1]
        hash == Xor(vrf0.hash, vrf1.hash)
    IN CASE vrf0.code # "POW_OK" -> vrf0
         [] vrf0.code = "POW_OK" /\ vrf1.code # "POW_OK" -> vrf1
         [] OTHER -> Reply(IF LeadingZero(hash, r) THEN "POW_OK" ELSE "POW_NONZERO_XOR", hash)

\* below has the replies of the calls for the halves.
verifyrec(indices, r, k, below) ==
    LET vrf0 == below[2 * k]
        vrf1 == below[2 * k + 1]
        hash == Xor(vrf0.hash, vrf1.hash)
        outOfOrder == indices[First(r, k)] >= indices[First(r - 1, 2 * k + 1)]
    IN CASE outOfOrder -> Reply("POW_OUT_OF_ORDER", {})
         [] ~outOfOrder /\ vrf0.code # "POW_OK" -> vrf0
         [] ~outOfOrder /\ vrf0.code = "POW_OK" /\ vrf1.code # "POW_OK" -> vrf1
         [] OTHER -> Reply(IF LeadingZero(hash, r) THEN "POW_OK" ELSE "POW_NONZERO_XOR", hash)

verifyLevel(indices, r, below) == [k \in Groups(r) |-> verifyrec(indices, r, k, below)]

\* The recursion: at level 0 an index is hashed.
Replies(genhash, indices) ==
    LET vrf[r \in 0 .. WK] ==
            IF r = 0 THEN [k \in Groups(0) |-> Reply("POW_OK", genhash[indices[k + 1]])]
            ELSE verifyLevel(indices, r, vrf[r - 1])
    IN vrf

duped(indices) == \E i, j \in 1 .. Len(indices) : i # j /\ indices[i] = indices[j]

Verify(genhash, indices) ==
    IF duped(indices) THEN "POW_DUPLICATE" ELSE Replies(genhash, indices)[WK][0].code

-----------------------------------------------------------------------------
(***************************************************************************)
(* The definition of a solution: the indices differ; at every level the    *)
(* left half of a group begins with the smaller index, and the hashes of   *)
(* the group cancel out on the first bits; all cancel out completely.      *)
(***************************************************************************)
Members(r, k) == First(r, k) .. First(r, k + 1) - 1
GroupXor(genhash, indices, r, k) ==
    {p \in 0 .. WN - 1 :
        Cardinality({i \in Members(r, k) : p \in genhash[indices[i]]}) % 2 = 1}

\* bits says how many leading bits must cancel out at a level.
Solves(genhash, indices, bits) ==
    /\ Cardinality({indices[i] : i \in 1 .. PROOFSIZE}) = PROOFSIZE
    /\ \A r \in 1 .. WK : \A k \in Groups(r) :
          /\ indices[First(r, k)] < indices[First(r - 1, 2 * k + 1)]
          /\ \A p \in GroupXor(genhash, indices, r, k) : p >= bits[r]

ValidBits == [r \in 1 .. WK |-> IF r = WK THEN WN ELSE r * DIGITBITS]
Valid(genhash, indices) == Solves(genhash, indices, ValidBits)

\* No valid solution is turned away (verify_200_9).
ValidIsAccepted(genhash, indices) ==
    Valid(genhash, indices) => Verify(genhash, indices) = "POW_OK"

\* What is accepted has distinct indices in the order of a solution, and at
\* every level cancels out on all whole bytes of the level's bits
\* (verify_200_9).
WholeBytes == [r \in 1 .. WK |-> ((r * DIGITBITS) \div ByteBits) * ByteBits]
AcceptedIsOrdered(genhash, indices) ==
    Verify(genhash, indices) = "POW_OK" => Solves(genhash, indices, WholeBytes)

\* equi.c:145, verify Wagner conditions: what is accepted is a solution.
AcceptedIsValid(genhash, indices) ==
    Verify(genhash, indices) = "POW_OK" => Valid(genhash, indices)

\* The indices are the bits of the solution in groups of IndexBits, the first
\* bit the highest, over the boundaries of bytes (Read21Bits).
BitOf(bytes, k) == Bit(bytes[k \div ByteBits + 1], k % ByteBits)
IndicesAreBits(bytes, n) ==
    \A i \in 1 .. n : \A b \in 0 .. IndexBits - 1 :
        (Proof(bytes, n)[i] \div TwoTo[b]) % 2 = BitOf(bytes, i * IndexBits - 1 - b)
=============================================================================
