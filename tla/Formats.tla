------------------------------ MODULE Formats ------------------------------
(***************************************************************************)
(* The small parts of the pool, one in each behaviour: its algorithms, of  *)
(* which one reads an input that never changes, the nonce counters of the  *)
(* instances, the API server, and the listener for stratum connections.    *)
(***************************************************************************)
EXTENDS ExtraNonce, Merkle, Coinbase, Target, Equihash, Statistics, Api, Listener

CONSTANTS
    Inputs,          \* inputs of the algorithms; kind says which reads it
    Now              \* when statistics are collected

\* What the code gives its algorithms: a block has a coinbase, a chain is past
\* its first blocks and a height is shifted as an int64, difficulties are
\* positive, a solution has been cut to its length, the purge was not in the
\* future, and luck windows are sorted.
ASSUME InputsAssumption ==
    /\ Now \in Int
    /\ \A i \in Inputs :
        /\ i.kind = "leaves" => i.n \in Nat \ {0}
        /\ i.kind = "height" => i.h \in Nat /\ i.h > 16 /\ IsInt64(2 * i.h)
        /\ i.kind = "txs" => i.n \in Nat
        /\ i.kind = "hash" => i.hash \in Nat /\ i.target \in Nat /\ i.diff \in Nat \ {0}
        /\ i.kind = "proof" => IsProof(i.hashes, i.indices, DOMAIN i.hashes)
        /\ i.kind = "bytes" => /\ i.bytes \in Seq(Nat) /\ i.n \in Nat
                               /\ Len(i.bytes) * ByteBits = i.n * IndexBits
        /\ i.kind = "shares" => /\ IsFiniteSet(i.shares) /\ \A s \in i.shares : s.at \in Int
                                /\ i.then \in Int /\ i.then <= Now
        /\ i.kind = "blocks" => /\ i.immature \in Nat /\ i.matured \in Nat
                                /\ i.windows \in Seq(Nat) /\ i.windows # <<>>
                                /\ \A k, l \in 1 .. Len(i.windows) :
                                      k <= l => i.windows[k] <= i.windows[l]

Upto(n) == [i \in 1 .. n |-> i]
Leaves(n) == [i \in 1 .. n |-> [leaf |-> i]]

VARIABLE input
Nonces == [kind |-> "nonces"]
ApiServer == [kind |-> "api"]
Accepting == [kind |-> "listener"]
Is(kind) == input.kind = kind

Init ==
    /\ NonceInit /\ ApiInit /\ ListenerInit
    /\ input \in Inputs \cup {Nonces, ApiServer, Accepting}
    /\ collector.at = "off" <=> ~Is("api")
    /\ ~Is("api") => known = {}
Next ==
    \/ Is("nonces") /\ NonceNext /\ UNCHANGED <<input, apiVars, listenerVars>>
    \/ Is("api") /\ ApiNext /\ UNCHANGED <<input, nonceVars, listenerVars>>
    \/ Is("listener") /\ ListenerNext /\ UNCHANGED <<input, nonceVars, apiVars>>
vars == <<input, nonceVars, apiVars, listenerVars>>
Spec == Init /\ [][Next]_vars
FairSpec == Spec /\ ApiFairness /\ ListenerFairness

\* The root in the header is that of the block's transactions, and the path
\* of every transaction leads to it (fetchWork, MerklePathForLeaf).
Roots == Is("leaves") =>
    RootIsTrue([leaf |-> 0], Leaves(input.n - 1)) /\ PathsLeadToRoot(Leaves(input.n))
\* A node reads every height above 16 in the coinbase and, up to 252, the
\* number of transactions; every height has a founder's address as long as founders are
\* paid (BuildCoinbaseTxn, processShare).
CoinbaseRight ==
    /\ Is("height") => HeightReadable(input.h) /\ FounderExists(input.h)
    /\ Is("txs") => TxCountReadable(input.n)
\* Miner and pool agree on what a share is, and a block is one too if blocks
\* are at least as difficult (GetTargetHex, isShareDiffGeDiff, processShare).
ToldAreChecked == Is("hash") =>
    ToldIsChecked(input.hash, input.diff) /\ BlockIsShare(input.hash, input.target, input.diff)
\* The indices are the bits of the proof in order, no valid proof is turned
\* away, and what is accepted is ordered and cancels out on whole bytes
\* (Read21Bits, verify_200_9).
VerifierRight ==
    /\ Is("bytes") => IndicesAreBits(input.bytes, input.n)
    /\ Is("proof") => /\ ValidIsAccepted(input.hashes, input.indices)
                      /\ AcceptedIsOrdered(input.hashes, input.indices)
\* What is accepted is a solution: "verify Wagner conditions", equi.c:145.
AcceptedValid == Is("proof") => AcceptedIsValid(input.hashes, input.indices)
\* Purging the share log changes no later statistics, miner list and account
\* page agree on who is offline, and a luck window counts the newest blocks
\* (FlushStaleStats, CollectStats, CollectWorkersStats, CollectLuckStats).
StatisticsRight ==
    /\ Is("shares") => /\ PurgeIsInvisible(input.shares, input.then, Now)
                       /\ OfflineAgrees(input.shares, Now)
    /\ Is("blocks") => LuckIsOfNewest(Upto(input.immature),
                           [i \in 1 .. input.matured |-> 10 + i], input.windows)
=============================================================================
