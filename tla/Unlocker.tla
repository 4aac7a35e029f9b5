------------------------------ MODULE Unlocker ------------------------------
(***************************************************************************)
(* The block unlocker, payouts/unlocker.go: one goroutine that runs        *)
(* unlockPendingBlocks (the "candidates" pass) and unlockAndCreditMiners   *)
(* (the "immature" pass) on every timer tick.  A step is one remote call   *)
(* with the code around it, so blocks arrive, the chain reorganises and    *)
(* the process crashes between any two calls.                              *)
(*                                                                         *)
(* halt and lastFail live in memory: the first error suspends unlocking    *)
(* until the process is restarted.                                         *)
(***************************************************************************)
EXTENDS Ledger

CONSTANTS
    MinDepth,        \* minDepth
    Depth,           \* config.Depth
    ImmatureDepth,   \* config.ImmatureDepth
    RoundChoices,    \* share vectors that rounds may be closed with
    BlindReads,      \* whether a lost reply to HGETALL under Watch is considered
    MaxFaults,       \* bound: remote calls that fail
    MaxCrashes       \* bound: restarts of the process

ASSUME UnlockerAssumption ==
    /\ MinDepth \in Nat \ {0}
    /\ Depth \in Nat /\ Depth >= 2 * MinDepth
    /\ ImmatureDepth \in Nat /\ ImmatureDepth >= MinDepth
    /\ RoundChoices \subseteq [Logins -> Nat]
    /\ \A f \in RoundChoices : TotalOf(f) \in Nat \ {0}
    /\ BlindReads \in BOOLEAN
    /\ MaxFaults \in Nat /\ MaxCrashes \in Nat

VARIABLES
    pc,              \* the remote call the goroutine is about to make
    pass,            \* which of the two functions runs
    height,          \* currentHeight
    todo,            \* entries unlockCandidates has not looked at
    live,            \* result.maturedBlocks, each with its Reward
    lost,            \* result.orphanedBlocks
    loaded,          \* what GetRoundShares returned
    halt,            \* u.halt
    faults, crashes  \* counters of the two bounds

locals == <<height, todo, live, lost, loaded>>
control == <<pc, pass, height, todo, live, lost, loaded, halt>>
vars == <<chainVars, roundVars, ledgerVars, control, faults, crashes>>

Passes == {"candidates", "immature"}
\* Mutant of DepthOf: both functions use the setting of the first.
DepthImmature(p) == ImmatureDepth

DepthOf(p) == IF p = "candidates" THEN ImmatureDepth ELSE Depth

Init ==
    /\ ChainInit /\ RoundsInit /\ LedgerInit
    /\ pc = "info" /\ pass = "candidates"
    /\ height = 0 /\ todo = {} /\ live = {} /\ lost = {} /\ loaded = NoShares
    /\ halt = FALSE
    /\ faults = 0 /\ crashes = 0

\* The function returns or the process starts anew: its locals are gone.
Leave ==
    /\ pc' = "info"
    /\ height' = 0 /\ todo' = {} /\ live' = {} /\ lost' = {} /\ loaded' = NoShares

\* Mutant of EndPass: unlockAndCreditMiners is never called.
EndPassOnlyCandidates == Leave /\ pass' = "candidates"

EndPass == Leave /\ pass' = (IF pass = "candidates" THEN "immature" ELSE "candidates")

\* Mutant of Halt: the error is noted but the function does not return.
HaltWithoutReturn ==
    UNCHANGED <<pc, pass, height, todo, live, lost, loaded>> /\ halt' = TRUE /\ faults' = faults + 1

\* The error paths: halt, lastFail and return; the other function, run next
\* on the same tick, returns at once.
Halt == Leave /\ pass' = "candidates" /\ halt' = TRUE /\ faults' = faults + 1

CanFail == faults < MaxFaults

GetMiningInfo ==
    /\ pc = "info" /\ ~halt
    /\ height' = tip
    /\ pc' = "list"
    /\ UNCHANGED <<pass, todo, live, lost, loaded>>

\* GetCandidates or GetImmatureBlocks, up to currentHeight - depth.
ListBlocks ==
    /\ pc = "list"
    /\ LET found == {e \in Stage(pass) : HeightOf[e.hash] <= height - DepthOf(pass)}
       IN  \/ found = {} /\ EndPass
           \/ /\ found # {}
              /\ todo' = found
              /\ pc' = "check"
              /\ UNCHANGED <<pass, height, live, lost, loaded>>

\* One iteration of unlockCandidates.  Of the 2*minDepth blocks it asks for,
\* only the one at the candidate's own height can have the candidate's hash;
\* the others exist (the depths are at least minDepth) and can only fail.
CheckBlock(e) ==
    /\ pc = "check"
    /\ e \in FirstOf(pass, todo)
    /\ todo' = todo \ {e}
    /\ pc' = IF todo' = {} THEN "orphans" ELSE "check"
    /\ \/ /\ OnChain(e.hash)
          /\ \E fees \in GetBlockFees(HeightOf[e.hash], pass) :
                LET const == GetConstReward(HeightOf[e.hash])
                IN  live' = live \cup
                        {[entry |-> e, reward |-> IF KeepTxFees THEN const ELSE const + fees]}
          /\ UNCHANGED lost
       \/ /\ ~OnChain(e.hash)
          /\ lost' = lost \cup {e}
          /\ UNCHANGED live
    /\ UNCHANGED <<pass, height, loaded>>

\* After a write: go on with the blocks that are left, or return.
GoOn(blocks, next) ==
    IF blocks = {} THEN EndPass
    ELSE pc' = next /\ live' = blocks /\ lost' = {} /\ loaded' = NoShares
         /\ UNCHANGED <<pass, height, todo>>

\* A write was executed by Redis; its reply arrives, or it is lost and the
\* code takes the error path.
Replied(step) ==
    \/ step /\ UNCHANGED <<halt, faults>>
    \/ CanFail /\ Halt

PendingOrphans ==
    /\ pc = "orphans" /\ pass = "candidates"
    /\ WritePendingOrphans(lost)
    /\ Replied(GoOn(live, "load"))

\* The credit log, read by HGETALL in the Watch of the transaction that takes
\* it back: nobody else writes it.  An error is read as an empty log.
CreditLogReads(b) == {creditLog[b]} \cup (IF BlindReads THEN {NoCredits} ELSE {})

\* The loop over WriteOrphan in unlockAndCreditMiners.
Orphan(e) ==
    /\ pc = "orphans" /\ pass = "immature"
    /\ e \in FirstOf(pass, lost)
    /\ \E log \in CreditLogReads(e.hash) : WriteOrphan(e, log)
    /\ Replied(IF lost = {e} THEN GoOn(live, "load")
               ELSE lost' = lost \ {e} /\ UNCHANGED <<pc, pass, height, todo, live, loaded>>)

NoOrphans ==
    /\ pc = "orphans" /\ pass = "immature" /\ lost = {}
    /\ GoOn(live, "load")

Next1(blocks) == {m \in blocks : m.entry \in FirstOf(pass, {n.entry : n \in blocks})}

\* calculateRewards reads the round of the next block.
LoadRound(m) ==
    /\ pc = "load"
    /\ m \in Next1(live)
    /\ loaded' = rounds[RoundKey(m.entry.hash)]
    /\ pc' = "write"
    /\ UNCHANGED <<pass, height, todo, live, lost>>

\* Mutant of Credits: miners are announced the fees twice.
CreditsFeesTwice(m) ==
    IF pass = "candidates"
    THEN CalculateRewards(m.reward + m.entry.fees, loaded, m.entry.shares, 0)
    ELSE CalculateRewards(m.reward, loaded, m.entry.shares, 0)

Credits(m) ==
    CalculateRewards(m.reward, loaded, m.entry.shares,
                     IF pass = "candidates" THEN m.entry.fees ELSE 0)

Immature(m) ==
    /\ pc = "write" /\ pass = "candidates"
    /\ m \in Next1(live)
    /\ WriteImmatureBlock(m.entry, m.reward, Credits(m))
    /\ Replied(GoOn(live \ {m}, "load"))

Mature(m) ==
    /\ pc = "write" /\ pass = "immature"
    /\ m \in Next1(live)
    /\ \E log \in CreditLogReads(m.entry.hash) :
          WriteMaturedBlock(m.entry, m.reward, Credits(m), log)
    /\ Replied(GoOn(live \ {m}, "load"))

\* A remote call fails and nothing was done.
Fail ==
    /\ ~halt /\ CanFail
    /\ Halt
    /\ UNCHANGED <<chainVars, roundVars, ledgerVars, crashes>>

\* A tick while unlocking is suspended.
Suspended == halt /\ UNCHANGED vars

\* The process dies and is started again.  (It also dies when Watch fails:
\* the code uses the transaction before it looks at the error.)
Crash ==
    /\ crashes < MaxCrashes
    /\ crashes' = crashes + 1
    /\ Leave
    /\ pass' = "candidates" /\ halt' = FALSE
    /\ UNCHANGED <<chainVars, roundVars, ledgerVars, faults>>

Reads ==
    /\ \/ GetMiningInfo
       \/ ListBlocks
       \/ \E e \in todo : CheckBlock(e)
       \/ NoOrphans
       \/ \E m \in live : LoadRound(m)
    /\ UNCHANGED <<chainVars, roundVars, ledgerVars, halt, faults, crashes>>

Writes ==
    /\ \/ PendingOrphans
       \/ \E e \in lost : Orphan(e)
       \/ \E m \in live : Immature(m) \/ Mature(m)
    /\ UNCHANGED <<chainVars, closed, crashes>>

UnlockerStep == Reads \/ Writes

(***************************************************************************)
(* The environment: the chain, and share intake recording blocks.          *)
(***************************************************************************)
Recorded(b) == \E e \in candidates \cup immature \cup matured : e.hash = b

ChainStep ==
    /\ Extend \/ ChainReorganises \/ (\E b \in Blocks : Accept(b))
    /\ UNCHANGED <<roundVars, ledgerVars, control, faults, crashes>>

IntakeStep ==
    /\ \/ \E b \in accepted \ HashesOf(closed), f \in RoundChoices : CloseRound(b, f)
       \/ \E e \in closed : ~Recorded(e.hash) /\ Record(e)
    /\ UNCHANGED <<chainVars, ledgerVars, control, faults, crashes>>

Next == UnlockerStep \/ Fail \/ Suspended \/ Crash \/ ChainStep \/ IntakeStep

Spec == Init /\ [][Next]_vars

\* The timer goroutine keeps running, its calls ending, those to the node by
\* their time-out and those to Redis by assumption; the network keeps finding
\* blocks.
Fairness == WF_vars(UnlockerStep) /\ WF_vars(Extend /\ ChainStep)
FairSpec == Spec /\ Fairness

-----------------------------------------------------------------------------
(***************************************************************************)
(* Types, with what must be true of the goroutine's locals.                *)
(***************************************************************************)
ChainTypeOK ==
    /\ tip \in 0 .. MaxHeight
    /\ chain \in [Heights -> Blocks \cup {Foreign}]
    /\ accepted \subseteq Blocks
    /\ reorgs \in 0 .. MaxReorgs

LedgerTypeOK ==
    /\ rounds \in [RoundKeys -> [Logins -> Nat]]
    /\ candidates \subseteq Candidates
    /\ closed \subseteq Candidates
    /\ immature \subseteq BlockEntries
    /\ matured \subseteq BlockEntries
    /\ creditLog \in [Blocks -> [Accounts -> Int]]
    /\ paidLog \in [Blocks -> [Accounts -> Int]]
    /\ minerImmature \in [Accounts -> Int]
    /\ minerBalance \in [Accounts -> Int]

ControlTypeOK ==
    /\ pc \in {"info", "list", "check", "orphans", "load", "write"}
    /\ pass \in Passes
    /\ height \in 0 .. tip
    /\ todo \subseteq Stage(pass)
    /\ lost \subseteq Stage(pass)
    /\ live \subseteq [entry : Stage(pass), reward : Int]
    /\ loaded \in [Logins -> Nat]
    /\ halt \in BOOLEAN
    /\ halt => pc = "info"
    /\ faults \in 0 .. MaxFaults
    /\ crashes \in 0 .. MaxCrashes

\* Every variable has its type, and the lists the goroutine carries from
\* call to call still are entries of the stage it read them from
\* (unlockCandidates and the two loops after it).
TypeOK == ChainTypeOK /\ LedgerTypeOK /\ ControlTypeOK

(***************************************************************************)
(* Safety.                                                                 *)
(***************************************************************************)
\* A block is in one of blocks:candidates, blocks:immature and
\* blocks:matured, once: ZRem of the old member and ZAdd of the new one
\* always name the same block (writeImmatureBlock, writeMaturedBlock).
OneStage ==
    /\ \A e \in candidates, f \in immature \cup matured : e.hash # f.hash
    /\ \A e \in immature, f \in matured : e.hash # f.hash
    /\ \A e, f \in candidates : e.hash = f.hash => e = f
    /\ \A e, f \in immature : e.hash = f.hash => e = f
    /\ \A e, f \in matured : e.hash = f.hash => e = f

\* The credit log of a block exists only while the block is immature and not
\* an orphan, and it is paid only when it has matured: WriteMaturedBlock and
\* WriteOrphan take back what WriteImmatureBlock gave, through the log.
CreditsFollowStage ==
    \A b \in Blocks :
        /\ creditLog[b] # NoCredits => \E e \in immature : e.hash = b /\ ~e.orphan
        /\ paidLog[b] # NoCredits => \E e \in matured : e.hash = b /\ ~e.orphan

SumOverBlocks(log, a) == TotalOf([b \in Blocks |-> log[b][a]])

\* The miners' immature amounts and balances are the sums of the credit
\* logs, and the pool's finances the sums of the miners' (the HIncrBy pairs
\* of WriteImmatureBlock, WriteMaturedBlock and WriteOrphan).
LedgerBalanced ==
    /\ \A a \in Accounts : minerImmature[a] = SumOverBlocks(creditLog, a)
    /\ \A a \in Accounts : minerBalance[a] = SumOverBlocks(paidLog, a)
    /\ finances.immature = TotalOf(minerImmature)
    /\ finances.balance = TotalOf(minerBalance)
    /\ finances.totalMined = TotalOf([e \in matured |-> e.reward])

\* A settled block is never judged wrongly, not even after a reorganisation
\* that happens between getblock and the write: it was paid exactly if it is
\* in the chain (unlockAndCreditMiners).  For ReorgDepth <= Depth.
PaidIsFinal == \A e \in matured : e.orphan <=> ~OnChain(e.hash)

\* The reward a matured block is paid with is the subsidy of its height plus
\* its own transaction fees, if miners get them (handleBlock "Add TX fees").
RewardExact ==
    \A e \in matured : ~e.orphan =>
        e.reward = GetConstReward(HeightOf[e.hash])
                   + (IF KeepTxFees THEN 0 ELSE FeesOf[e.hash])

\* A block that is paid is paid with its subsidy at least, after transaction
\* fees are added (handleBlock "Add TX fees"), whatever became of it between.
FeesAdded == \A e \in matured : ~e.orphan => e.reward >= GetConstReward(HeightOf[e.hash])

\* What the miners are paid for a matured block is their part of its reward,
\* up to half a zatoshi per miner (calculateRewardsForShares): no share of
\* the round is forgotten and none counts twice.
PaidWithinRounding ==
    \A e \in matured : ~e.orphan =>
        LET paid == TotalOf([l \in Logins |-> paidLog[e.hash][l]])
            slack == 50 * Cardinality(Logins)
        IN  100 * paid - MinersProfit(e.reward) \in -slack .. slack

\* The round of an unsettled block holds the shares its entry was recorded
\* with: totalShares is the divisor of every reward (calculateRewards).
RoundIntact ==
    \A e \in candidates \cup immature : TotalOf(rounds[RoundKey(e.hash)]) = e.shares

(***************************************************************************)
(* What a step may never do.                                               *)
(***************************************************************************)
\* A recorded block stays recorded, and a settled one never changes again.
NeverForgotten ==
    [][ /\ \A b \in Blocks : Recorded(b) => Recorded(b)'
        /\ matured \subseteq matured' ]_vars

PoolsPart(credits) == TotalOf([a \in Accounts \ Logins |-> credits[a]])

\* A miner is paid for a block the amount the block's immature credit had
\* announced (WriteMaturedBlock recomputes it from the round).  What was
\* announced to the pool's own accounts is not: the transaction fees are in
\* the announcement only, whoever gets them (calculateRewards, ExtraReward).
PaidAsAnnounced ==
    [][ \A b \in Blocks : paidLog'[b] # paidLog[b] =>
            /\ \A l \in Logins : paidLog'[b][l] = creditLog[b][l]
            /\ PoolFeeAddress # NoAddress =>
                   PoolsPart(creditLog[b]) - FeesOf[b] - PoolsPart(paidLog'[b]) \in -2 .. 2 ]_vars

\* What a block's announcement put into the immature amounts is taken out
\* again exactly, when the block is paid or written off ("Must decrement
\* immatures using existing log entry", redis.go WriteMaturedBlock).
TakesBackAnnounced ==
    [][ \A b \in Blocks : creditLog[b] # NoCredits /\ creditLog'[b] = NoCredits =>
            minerImmature' = Minus(minerImmature, creditLog[b]) ]_vars

(***************************************************************************)
(* The unlocker implements Payout: every transaction is one of its steps,  *)
(* everything else stutters.                                               *)
(***************************************************************************)
StageOf(b) ==
    CASE b \in HashesOf(candidates) -> "candidate"
      [] \E e \in immature : e.hash = b /\ ~e.orphan -> "announced"
      [] \E e \in immature : e.hash = b /\ e.orphan -> "doubted"
      [] \E e \in matured : e.hash = b /\ ~e.orphan -> "paid"
      [] \E e \in matured : e.hash = b /\ e.orphan -> "void"
      [] OTHER -> "unknown"

P == INSTANCE Payout WITH
        stage <- [b \in Blocks |-> StageOf(b)],
        announced <- creditLog, paid <- paidLog,
        held <- minerImmature, balance <- minerBalance

\* Whatever fails, crashes or reorganises, the stages of the blocks and the
\* amounts in Redis only move as Payout allows (the four transactions).
ImplementsPayout == P!Spec

(***************************************************************************)
(* Liveness.                                                               *)
(***************************************************************************)
Settled(b) == \E e \in matured : e.hash = b

\* Every recorded block is settled in the end, if unlocking is not suspended
\* and the chain grows far enough: a restart at any point loses nothing.
EverySettles ==
    \A b \in Blocks : Recorded(b) ~> (Settled(b) \/ halt)
=============================================================================
