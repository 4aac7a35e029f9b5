------------------------------- MODULE Rounds -------------------------------
(***************************************************************************)
(* The part of Redis that share intake (storage/redis.go WriteBlock) fills *)
(* and payouts read: the closed rounds, shares:round<height>:<params[0]>,  *)
(* and the block candidates, blocks:candidates.  A round whose key does    *)
(* not exist is NoShares.                                                  *)
(***************************************************************************)
EXTENDS Chain, Shares

CONSTANTS
    WorkerOf,     \* params[0] of the submission that found the block
    FeesOf        \* Work.FeeReward: transaction fees of the block's template

ASSUME RoundsAssumption ==
    /\ WorkerOf \in [Blocks -> Nat]
    /\ FeesOf \in [Blocks -> Nat]

VARIABLES
    rounds,       \* shares:round<height>:<params[0]> -> login -> shares
    candidates,   \* blocks:candidates
    closed        \* history: entries whose transaction closed a round

roundVars == <<rounds, candidates, closed>>

\* Mutant of RoundKey: the key does not name the submission.
RoundKeyByHeight(b) == <<HeightOf[b]>>

\* formatRound(height, params[0]): params[0] of mining.submit is the worker.
RoundKey(b) == <<HeightOf[b], WorkerOf[b]>>
RoundKeys == {RoundKey(b) : b \in Blocks}

\* What keeps one block's round from another's: no worker finds two blocks
\* of one height.
KeysApart == \A a, b \in Blocks : RoundKey(a) = RoundKey(b) => a = b

\* The fields of a candidate's member that payouts use.
CandidateEntry(b, shares) == [hash |-> b, shares |-> TotalOf(shares), fees |-> FeesOf[b]]
Candidates == [hash : Blocks, shares : Nat \ {0}, fees : Nat]

RoundsInit ==
    /\ rounds = [k \in RoundKeys |-> NoShares]
    /\ candidates = {}
    /\ closed = {}

HashesOf(entries) == {e.hash : e \in entries}

\* The transaction of WriteBlock renames shares:roundCurrent, which holds
\* `shares', over the round of block b.
CloseRound(b, shares) ==
    /\ rounds' = [rounds EXCEPT ![RoundKey(b)] = shares]
    /\ closed' = closed \cup {CandidateEntry(b, shares)}
    /\ UNCHANGED candidates

\* The ZAdd after the transaction makes the block a candidate.
Record(e) ==
    /\ candidates' = candidates \cup {e}
    /\ UNCHANGED <<rounds, closed>>
=============================================================================
