------------------------------- MODULE Intake -------------------------------
(***************************************************************************)
(* Share intake: what a stratum session's goroutine does with              *)
(* mining.submit (proxy/miner.go processShare), with the calls to zcashd   *)
(* (SubmitBlock, fetchWork) and to Redis (WriteShare, WriteBlock) it makes.*)
(* Several pool instances share one Redis; every session is served by one  *)
(* goroutine, which handles its messages one after another.                *)
(*                                                                         *)
(* A proof is a submission whose hash and solution are right for the       *)
(* template of its height: a header contains the previous block's hash and *)
(* the session's extraNonce1, so that a proof is worth something only to   *)
(* its own session and only while that template is the current work.       *)
(* Every other submission is refused before anything is written.  Two      *)
(* submissions that differ in any parameter are two proofs: the PoW        *)
(* backlog compares all the parameters.                                    *)
(***************************************************************************)
EXTENDS Rounds

CONSTANTS
    Instances,       \* pool processes
    Sessions,        \* stratum connections, one goroutine each
    InstanceOf,      \* session -> instance
    LoginOf,         \* session -> login
    Proofs,          \* valid submissions, of bounded length; the pool blocks are some of them
    JobHeight,       \* proof -> height of the template it was found for
    SessionOf,       \* proof -> session
    ShareDiff,       \* config.Proxy.Difficulty
    MaxLag,          \* bound: heights a template's reply may be overtaken by
    Backlog,         \* 8: how far checkPoWExist remembers
    MaxSubmits,      \* bound: submissions of one proof
    MaxIntakeFaults, \* bound: remote calls that fail
    MaxRestarts      \* bound: restarts of an instance

None == 0

ASSUME IntakeAssumption ==
    /\ IsFiniteSet(Sessions)
    /\ InstanceOf \in [Sessions -> Instances]
    /\ LoginOf \in [Sessions -> Logins]
    /\ Proofs \subseteq Nat \ {None} /\ Blocks \subseteq Proofs /\ IsFiniteSet(Proofs)
    /\ JobHeight \in [Proofs -> 1 .. MaxHeight + 1]
    /\ \A b \in Blocks : JobHeight[b] = HeightOf[b]
    /\ SessionOf \in [Proofs -> Sessions]
    /\ ShareDiff \in Nat \ {0} /\ MaxLag \in Nat /\ Backlog \in Nat
    /\ MaxSubmits \in Nat /\ MaxIntakeFaults \in Nat /\ MaxRestarts \in Nat

VARIABLES
    work,            \* instance -> height of its current template, None before the first
    roundCurrent,    \* shares:roundCurrent
    roundShares,     \* stats roundShares
    pow,             \* pow: the proofs seen, scored by height
    at,              \* session -> the call its goroutine is about to make
    proof,           \* session -> the proof it handles
    entry,           \* session -> the candidate entry it is about to add
    confirmed,       \* history: blocks the node took and answered null to, read or lost
    credited,        \* history: proof -> times its share was counted
    submits, intakeFaults, restarts   \* counters of the bounds

seatVars == <<at, proof, entry>>
intakeVars == <<work, roundCurrent, roundShares, pow, seatVars, confirmed,
                credited, submits, intakeFaults, restarts>>

NoEntry == [hash |-> None, shares |-> 0, fees |-> 0]

IntakeInit ==
    /\ work = [i \in Instances |-> None]
    /\ roundCurrent = NoShares
    /\ roundShares = 0
    /\ pow = {}
    /\ at = [s \in Sessions |-> "idle"]
    /\ proof = [s \in Sessions |-> None]
    /\ entry = [s \in Sessions |-> NoEntry]
    /\ confirmed = {}
    /\ credited = [p \in Proofs |-> 0]
    /\ submits = [p \in Proofs |-> 0]
    /\ intakeFaults = 0
    /\ restarts = 0

\* The goroutine makes its next call, or has answered the miner.
Goto(s, next) == at' = [at EXCEPT ![s] = next] /\ UNCHANGED <<proof, entry>>

\* Mutant of Answer: what was handled is not dropped.
AnswerKeepsEntry(s) ==
    /\ at' = [at EXCEPT ![s] = "idle"]
    /\ proof' = [proof EXCEPT ![s] = None]
    /\ UNCHANGED entry

Answer(s) ==
    /\ at' = [at EXCEPT ![s] = "idle"]
    /\ proof' = [proof EXCEPT ![s] = None]
    /\ entry' = [entry EXCEPT ![s] = NoEntry]

Fault == intakeFaults < MaxIntakeFaults /\ intakeFaults' = intakeFaults + 1
NoFault == UNCHANGED intakeFaults

\* A valid proof for the current work: a block candidate is submitted to the
\* node first, a share goes straight to Redis.
Submit(s, p) ==
    /\ at[s] = "idle" /\ SessionOf[p] = s
    /\ submits[p] < MaxSubmits
    /\ work[InstanceOf[s]] = JobHeight[p]
    /\ submits' = [submits EXCEPT ![p] = @ + 1]
    /\ proof' = [proof EXCEPT ![s] = p]
    /\ at' = [at EXCEPT ![s] = IF p \in Blocks THEN "submit" ELSE "pow"]
    /\ UNCHANGED <<work, roundCurrent, roundShares, pow, entry, credited,
                   intakeFaults, restarts, chainVars, roundVars, confirmed>>

\* Mutant of SubmitBlock: an error of the node is not looked at.
SubmitBlockUnchecked(s) ==
    /\ at[s] = "submit" /\ Goto(s, "fetch") /\ NoFault
    /\ \/ Accept(proof[s]) /\ confirmed' = confirmed \cup {proof[s]}
       \/ UNCHANGED <<chainVars, confirmed>>
    /\ UNCHANGED <<work, roundCurrent, roundShares, pow, credited, submits,
                   restarts, roundVars>>

\* The node takes the block and answers null, and that reply may be lost.  Or
\* it answers with a word, as it does for a rival of its tip that it keeps
\* ("inconclusive"), a duplicate or a stale block; or the request is lost.
\* Without the null the miner gets "Submit block error" and the pool forgets
\* the block.
SubmitBlock(s) ==
    /\ at[s] = "submit"
    /\ \/ /\ Accept(proof[s]) /\ confirmed' = confirmed \cup {proof[s]}
          /\ (NoFault /\ Goto(s, "fetch")) \/ (Fault /\ Answer(s))
       \/ /\ Accept(proof[s]) /\ HeightOf[proof[s]] = tip
          /\ NoFault /\ Answer(s) /\ UNCHANGED confirmed
       \/ /\ Fault \/ (NoFault /\ (proof[s] \in accepted \/ HeightOf[proof[s]] < tip))
          /\ Answer(s)
          /\ UNCHANGED <<chainVars, confirmed>>
    /\ UNCHANGED <<work, roundCurrent, roundShares, pow, credited, submits,
                   restarts, roundVars>>

\* fetchWork: the template on top of the best chain, or an error that is only
\* logged.  Another goroutine's fetchWork may overtake this one between the
\* reply and the store: then it is the template of an earlier chain.
Template(i) ==
    \/ /\ work' \in {[work EXCEPT ![i] = h + 1] : h \in (tip - MaxLag .. tip) \cap Nat}
       /\ NoFault
    \/ Fault /\ UNCHANGED work

\* Mutant of FetchWork: without a new template the handler returns.
FetchWorkOrReturn(s) ==
    /\ at[s] = "fetch"
    /\ \/ work[InstanceOf[s]] # tip + 1 /\ Template(InstanceOf[s]) /\ Goto(s, "pow")
       \/ work[InstanceOf[s]] = tip + 1 /\ NoFault /\ UNCHANGED work /\ Answer(s)
    /\ UNCHANGED <<roundCurrent, roundShares, pow, credited, submits, restarts,
                   chainVars, roundVars, confirmed>>

FetchWork(s) ==
    /\ at[s] = "fetch"
    /\ Template(InstanceOf[s])
    /\ Goto(s, "pow")
    /\ UNCHANGED <<roundCurrent, roundShares, pow, credited, submits, restarts,
                   chainVars, roundVars, confirmed>>

\* fetchWork on the instance's refresh timer.
Refresh(i) ==
    /\ Template(i)
    /\ UNCHANGED <<roundCurrent, roundShares, pow, seatVars, credited, submits,
                   restarts, chainVars, roundVars, confirmed>>

Swept(h) == {q \in pow : JobHeight[q] >= h - Backlog}

\* Mutant of CheckPoWExist: the answer is not used.
CheckPoWUnused(s) ==
    /\ at[s] = "pow"
    /\ LET old == Swept(JobHeight[proof[s]])
       IN  \/ NoFault /\ pow' = old \cup {proof[s]} /\ Goto(s, "exec")
           \/ Fault /\ pow' = old /\ Answer(s)
    /\ UNCHANGED <<work, roundCurrent, roundShares, credited, submits, restarts,
                   chainVars, roundVars, confirmed>>

\* checkPoWExist.  A proof that is there already is answered with true and
\* nothing else is written; so is a share whose ZAdd failed.  That the sweep
\* failed is not noticed.
CheckPoWExist(s) ==
    /\ at[s] = "pow"
    /\ LET p == proof[s]
           clean == Swept(JobHeight[p])
       IN  \E old \in {clean, pow} :
              \/ /\ (NoFault /\ old = clean) \/ Fault
                 /\ pow' = old \cup {p}
                 /\ IF p \in old THEN Answer(s) ELSE Goto(s, "exec")
              \/ Fault /\ pow' \in {old, old \cup {p}} /\ Answer(s)
    /\ UNCHANGED <<work, roundCurrent, roundShares, credited, submits, restarts,
                   chainVars, roundVars, confirmed>>

\* Mutant of WithShare: every session has the same login.
WithSomeShare(s) == [roundCurrent EXCEPT ![CHOOSE l \in Logins : TRUE] = @ + ShareDiff]

\* The share of proof p added to the current round (writeShare).
WithShare(s) == [roundCurrent EXCEPT ![LoginOf[s]] = @ + ShareDiff]
Credit(s) == credited' = [credited EXCEPT ![proof[s]] = @ + 1]

\* WriteShare's transaction; an error is only logged, whether or not Redis
\* has executed it.
WriteShare(s) ==
    /\ at[s] = "exec" /\ proof[s] \notin Blocks
    /\ Answer(s)
    /\ \/ /\ NoFault \/ Fault
          /\ roundCurrent' = WithShare(s)
          /\ roundShares' = roundShares + ShareDiff
          /\ Credit(s)
       \/ Fault /\ UNCHANGED <<roundCurrent, roundShares, credited>>
    /\ UNCHANGED <<work, pow, submits, restarts, chainVars, roundVars, confirmed>>

\* Mutant of WriteBlock: the sum is taken before the block's own share.
WriteBlockSumsTooEarly(s) ==
    /\ at[s] = "exec" /\ proof[s] \in Blocks
    /\ CloseRound(proof[s], WithShare(s))
    /\ roundCurrent' = NoShares
    /\ roundShares' = 0
    /\ Credit(s)
    /\ NoFault
    /\ at' = [at EXCEPT ![s] = "zadd"]
    /\ entry' = [entry EXCEPT ![s] = CandidateEntry(proof[s], roundCurrent)]
    /\ UNCHANGED <<proof, work, pow, submits, restarts, chainVars, confirmed>>

\* Mutant of WriteBlock: the round is copied, not renamed.
WriteBlockCopiesRound(s) ==
    /\ at[s] = "exec" /\ proof[s] \in Blocks
    /\ CloseRound(proof[s], WithShare(s))
    /\ roundCurrent' = WithShare(s)
    /\ roundShares' = roundShares + ShareDiff
    /\ Credit(s)
    /\ NoFault
    /\ at' = [at EXCEPT ![s] = "zadd"]
    /\ entry' = [entry EXCEPT ![s] = CandidateEntry(proof[s], WithShare(s))]
    /\ UNCHANGED <<proof, work, pow, submits, restarts, chainVars, confirmed>>

\* WriteBlock's transaction: the share is counted and the round is closed.
WriteBlock(s) ==
    /\ at[s] = "exec" /\ proof[s] \in Blocks
    /\ LET b == proof[s]
       IN  \/ /\ CloseRound(b, WithShare(s))
              /\ roundCurrent' = NoShares
              /\ roundShares' = 0
              /\ Credit(s)
              /\ \/ /\ NoFault
                    /\ at' = [at EXCEPT ![s] = "zadd"]
                    /\ entry' = [entry EXCEPT ![s] = CandidateEntry(b, WithShare(s))]
                    /\ UNCHANGED proof
                 \/ Fault /\ Answer(s)
           \/ /\ Fault /\ Answer(s)
              /\ UNCHANGED <<roundCurrent, roundShares, credited, roundVars>>
    /\ UNCHANGED <<work, pow, submits, restarts, chainVars, confirmed>>

\* The ZAdd after WriteBlock's transaction.
AddCandidate(s) ==
    /\ at[s] = "zadd"
    /\ Answer(s)
    /\ \/ (NoFault \/ Fault) /\ Record(entry[s])
       \/ Fault /\ UNCHANGED roundVars
    /\ UNCHANGED <<work, roundCurrent, roundShares, pow, credited, submits,
                   restarts, chainVars, confirmed>>

\* An instance dies with all its sessions and is started again.
Restart(i) ==
    /\ restarts < MaxRestarts
    /\ restarts' = restarts + 1
    /\ work' = [work EXCEPT ![i] = None]
    /\ at' = [s \in Sessions |-> IF InstanceOf[s] = i THEN "idle" ELSE at[s]]
    /\ proof' = [s \in Sessions |-> IF InstanceOf[s] = i THEN None ELSE proof[s]]
    /\ entry' = [s \in Sessions |-> IF InstanceOf[s] = i THEN NoEntry ELSE entry[s]]
    /\ UNCHANGED <<roundCurrent, roundShares, pow, credited, submits, intakeFaults,
                   chainVars, roundVars, confirmed>>

Handle(s) ==
    \/ SubmitBlock(s) \/ FetchWork(s) \/ CheckPoWExist(s)
    \/ WriteShare(s) \/ WriteBlock(s) \/ AddCandidate(s)

ProxyStep ==
    \/ \E s \in Sessions : Handle(s) \/ \E p \in Proofs : Submit(s, p)
    \/ \E i \in Instances : Refresh(i) \/ Restart(i)

NetworkStep == (Extend \/ ChainReorganises) /\ UNCHANGED <<roundVars, intakeVars>>

IntakeNext == ProxyStep \/ NetworkStep

IntakeSpecInit == ChainInit /\ RoundsInit /\ IntakeInit

IntakeSpec ==
    /\ IntakeSpecInit
    /\ [][IntakeNext]_<<chainVars, roundVars, intakeVars>>

-----------------------------------------------------------------------------
(***************************************************************************)
(* Types: what a goroutine holds while it handles a proof.                 *)
(***************************************************************************)
\* Every variable has its type, a goroutine that is idle handles nothing, and
\* only one that is about to add a candidate holds its entry (processShare).
IntakeTypeOK ==
    /\ work \in [Instances -> 0 .. MaxHeight + 1]
    /\ roundCurrent \in [Logins -> Nat]
    /\ roundShares \in Nat
    /\ pow \subseteq Proofs
    /\ at \in [Sessions -> {"idle", "submit", "fetch", "pow", "exec", "zadd"}]
    /\ proof \in [Sessions -> Proofs \cup {None}]
    /\ \A s \in Sessions :
          /\ at[s] = "idle" <=> proof[s] = None
          /\ at[s] \in {"submit", "fetch", "zadd"} => proof[s] \in Blocks
          /\ IF at[s] = "zadd" THEN entry[s] \in closed ELSE entry[s] = NoEntry
    /\ closed \subseteq Candidates /\ candidates \subseteq Candidates
    /\ rounds \in [RoundKeys -> [Logins -> Nat]]
    /\ confirmed \subseteq accepted
    /\ credited \in [Proofs -> Nat]
    /\ submits \in [Proofs -> 0 .. MaxSubmits]
    /\ intakeFaults \in 0 .. MaxIntakeFaults
    /\ restarts \in 0 .. MaxRestarts

(***************************************************************************)
(* Safety.                                                                 *)
(***************************************************************************)

ProofsOf(l) == {p \in Proofs : LoginOf[SessionOf[p]] = l}

\* Every share Redis has counted is in exactly one round: the current one or
\* the one that was closed with it (Rename in WriteBlock against WriteShare
\* of the other sessions).  For blocks with different round keys.
SharesConserved ==
    \A l \in Logins :
        roundCurrent[l] + TotalOf([k \in RoundKeys |-> rounds[k][l]])
        = ShareDiff * TotalOf([p \in ProofsOf(l) |-> credited[p]])

\* A proof is counted once, however often it is submitted; only an instance
\* that is more than Backlog heights behind another can count it again
\* (checkPoWExist sweeps by the height of whoever calls it).
CreditedOnce ==
    \A p \in Proofs : credited[p] > 1 =>
        \E q \in Proofs : submits[q] > 0 /\ JobHeight[q] > JobHeight[p] + Backlog

\* The number a candidate's rewards are divided by is the sum of the round
\* stored for it, although the ZAdd comes after the transaction and other
\* rounds close in between (WriteBlock).  For different round keys.
EntryMatchesRound ==
    \A e \in closed \cup candidates : TotalOf(rounds[RoundKey(e.hash)]) = e.shares

InFlight(b) == \E s \in Sessions : proof[s] = b

\* A block the node has taken is recorded as a candidate or still being
\* handled, except for one block per failed call, a lost reply of the node
\* among them, and one per goroutine that dies with its instance (the error
\* paths of processShare and WriteBlock).
LossesNeedFaults ==
    Cardinality({b \in confirmed : b \notin HashesOf(candidates) /\ ~InFlight(b)})
        <= intakeFaults + restarts * Cardinality(Sessions)
=============================================================================
