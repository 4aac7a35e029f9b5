------------------------------- MODULE Chain -------------------------------
(***************************************************************************)
(* The block chain as the pool sees it through zcashd, which is not part   *)
(* of this repository: how often it grows, which of the pool's blocks it   *)
(* takes, and how it reorganises.  It is modelled from the calls that      *)
(* payouts/unlocker.go (getmininginfo, getblock) and proxy/miner.go        *)
(* (submitblock) make and from what they do with the answers.              *)
(*                                                                         *)
(* A pool block is a number; numbers are ordered as the hex strings of the *)
(* block hashes are, which is the order of the members of one score in the *)
(* sorted sets of Redis.  A block hash commits to its height.              *)
(***************************************************************************)
EXTENDS Integers, FiniteSets

CONSTANTS
    Blocks,       \* blocks the pool's miners may find
    HeightOf,     \* the height each of them was mined for
    MaxHeight,    \* bound: the chain stops growing here
    ReorgDepth,   \* a reorganisation replaces at most this many blocks
    MaxReorgs     \* bound: how many reorganisations happen

Foreign == 0      \* a block of somebody else
Heights == 1 .. MaxHeight

ASSUME ChainAssumption ==
    /\ Blocks \subseteq Nat \ {0}
    /\ IsFiniteSet(Blocks)
    /\ MaxHeight \in Nat \ {0}
    /\ HeightOf \in [Blocks -> Heights]
    /\ ReorgDepth \in Nat
    /\ MaxReorgs \in Nat

VARIABLES
    tip,          \* height of the best chain
    chain,        \* the block at every height; Foreign above the tip
    accepted,     \* pool blocks for which submitblock succeeded
    reorgs        \* reorganisations so far

chainVars == <<tip, chain, accepted, reorgs>>

ChainInit ==
    /\ tip = 0
    /\ chain = [h \in Heights |-> Foreign]
    /\ accepted = {}
    /\ reorgs = 0

OnChain(b) == HeightOf[b] <= tip /\ chain[HeightOf[b]] = b

\* Somebody else's block extends the best chain.
Extend ==
    /\ tip < MaxHeight
    /\ tip' = tip + 1
    /\ UNCHANGED <<chain, accepted, reorgs>>

\* submitblock succeeds: the block extends the best chain, or it is a rival
\* of the block at the tip that the upstream node had not seen yet.
Accept(b) ==
    /\ b \notin accepted
    /\ accepted' = accepted \cup {b}
    /\ \/ /\ HeightOf[b] = tip + 1
          /\ tip' = tip + 1
          /\ chain' = [chain EXCEPT ![tip + 1] = b]
       \/ /\ HeightOf[b] = tip
          /\ chain[tip] # b
          /\ UNCHANGED <<tip, chain>>
    /\ UNCHANGED reorgs

\* A branch of the same length takes over from height k on; it has block b
\* at height k (Foreign, or a pool block that had lost there before).
Reorg(k, b) ==
    /\ reorgs < MaxReorgs
    /\ k <= tip /\ k > tip - ReorgDepth
    /\ b # Foreign => b \in accepted /\ HeightOf[b] = k
    /\ chain' = [h \in Heights |->
                    IF h < k THEN chain[h] ELSE IF h = k THEN b ELSE Foreign]
    /\ chain' # chain
    /\ reorgs' = reorgs + 1
    /\ UNCHANGED <<tip, accepted>>

ChainReorganises == \E k \in Heights, b \in accepted \cup {Foreign} : Reorg(k, b)
=============================================================================
