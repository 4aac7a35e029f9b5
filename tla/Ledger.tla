------------------------------- MODULE Ledger -------------------------------
(***************************************************************************)
(* The money in Redis and the four transactions of storage/redis.go that   *)
(* move it: WriteImmatureBlock, WritePendingOrphans, WriteMaturedBlock and *)
(* WriteOrphan.  Each is one MULTI/EXEC, so one step.                      *)
(*                                                                         *)
(* A credit log that does not exist is NoCredits.  Statistics that nothing *)
(* reads back (credits:all, lastCreditHeight, lastCreditHash) are left out.*)
(***************************************************************************)
EXTENDS Rounds, Rewards

VARIABLES
    immature,        \* blocks:immature
    matured,         \* blocks:matured
    creditLog,       \* credits:immature:<height>:<hash> -> account -> amount
    paidLog,         \* credits:<height>:<hash> -> account -> amount
    minerImmature,   \* miners:<account> immature
    minerBalance,    \* miners:<account> balance
    finances         \* finances: immature, balance, totalMined

ledgerVars == <<immature, matured, creditLog, paidLog,
                minerImmature, minerBalance, finances>>

NoCredits == [a \in Accounts |-> 0]

\* The fields of a member of blocks:immature and blocks:matured.
BlockEntries == [hash : Blocks, shares : Nat \ {0}, reward : Int, orphan : BOOLEAN]
BlockEntry(e, reward, orphan) ==
    [hash |-> e.hash, shares |-> e.shares, reward |-> reward, orphan |-> orphan]

LedgerInit ==
    /\ immature = {} /\ matured = {}
    /\ creditLog = [b \in Blocks |-> NoCredits]
    /\ paidLog = [b \in Blocks |-> NoCredits]
    /\ minerImmature = NoCredits
    /\ minerBalance = NoCredits
    /\ finances = [immature |-> 0, balance |-> 0, totalMined |-> 0]

Plus(f, g) == [a \in Accounts |-> f[a] + g[a]]
Minus(f, g) == [a \in Accounts |-> f[a] - g[a]]

\* HSetNX on every account of a credit log.
SetAbsent(log, credits) ==
    [a \in Accounts |-> IF log[a] = 0 THEN credits[a] ELSE log[a]]

(***************************************************************************)
(* Sorted sets.  Members come by score (height) and within a score by the  *)
(* bytes of the member: a candidate starts with its hash, any other entry  *)
(* with the orphan flag, the worker and the hash.                          *)
(***************************************************************************)
CandidateBefore(e, f) ==
    \/ HeightOf[e.hash] < HeightOf[f.hash]
    \/ HeightOf[e.hash] = HeightOf[f.hash] /\ e.hash < f.hash

ImmatureBefore(e, f) ==
    \/ HeightOf[e.hash] < HeightOf[f.hash]
    \/ /\ HeightOf[e.hash] = HeightOf[f.hash]
       /\ \/ ~e.orphan /\ f.orphan
          \/ /\ e.orphan = f.orphan
             /\ \/ WorkerOf[e.hash] < WorkerOf[f.hash]
                \/ WorkerOf[e.hash] = WorkerOf[f.hash] /\ e.hash < f.hash

Before(stage, e, f) ==
    IF stage = "candidates" THEN CandidateBefore(e, f) ELSE ImmatureBefore(e, f)

FirstOf(stage, entries) ==
    {e \in entries : \A f \in entries \ {e} : Before(stage, e, f)}

Stage(stage) == IF stage = "candidates" THEN candidates ELSE immature

\* Mutant of GetBlockFees: the fees of an immature block are its whole reward.
GetWholeReward(height, stage) ==
    LET first == FirstOf(stage, {e \in Stage(stage) : HeightOf[e.hash] = height})
    IN  IF stage = "candidates" THEN {e.fees : e \in first} ELSE {e.reward : e \in first}

\* GetBlockFees: the fees of the FIRST entry of the stage at that height, as
\* the set of that one amount; empty when there is no entry.
GetBlockFees(height, stage) ==
    LET first == FirstOf(stage, {e \in Stage(stage) : HeightOf[e.hash] = height})
    IN  IF stage = "candidates" THEN {e.fees : e \in first}
        ELSE {e.reward - GetConstReward(height) : e \in first}

(***************************************************************************)
(* The transactions.                                                       *)
(***************************************************************************)
\* Mutant of WriteImmatureBlock: the candidate is not removed.
WriteImmatureKeepsCandidate(e, reward, credits) ==
    /\ immature' = immature \cup {BlockEntry(e, reward, FALSE)}
    /\ minerImmature' = Plus(minerImmature, credits)
    /\ creditLog' = [creditLog EXCEPT ![e.hash] = SetAbsent(@, credits)]
    /\ finances' = [finances EXCEPT !.immature = @ + TotalOf(credits)]
    /\ UNCHANGED <<candidates, rounds, matured, paidLog, minerBalance>>

WriteImmatureBlock(e, reward, credits) ==
    /\ candidates' = candidates \ {e}
    /\ immature' = immature \cup {BlockEntry(e, reward, FALSE)}
    /\ minerImmature' = Plus(minerImmature, credits)
    /\ creditLog' = [creditLog EXCEPT ![e.hash] = SetAbsent(@, credits)]
    /\ finances' = [finances EXCEPT !.immature = @ + TotalOf(credits)]
    /\ UNCHANGED <<rounds, matured, paidLog, minerBalance>>

\* Mutant of WritePendingOrphans: what the node does not know is dropped.
DropPendingOrphans(entries) ==
    /\ candidates' = candidates \ entries
    /\ UNCHANGED <<rounds, immature, matured, creditLog, paidLog,
                   minerImmature, minerBalance, finances>>

\* Rounds and credits stay: the block may still return to the chain.
WritePendingOrphans(entries) ==
    /\ candidates' = candidates \ entries
    /\ immature' = immature \cup {BlockEntry(e, 0, TRUE) : e \in entries}
    /\ UNCHANGED <<rounds, matured, creditLog, paidLog,
                   minerImmature, minerBalance, finances>>

\* writeMaturedBlock: the round is deleted, whoever wrote it.
LeaveImmature(e, reward, orphan) ==
    /\ rounds' = [rounds EXCEPT ![RoundKey(e.hash)] = NoShares]
    /\ immature' = immature \ {e}
    /\ matured' = matured \cup {BlockEntry(e, reward, orphan)}

\* Mutant of WriteMaturedBlock: the immature amounts are decremented by the
\* rewards computed anew, not by the log.
WriteMaturedRecomputed(e, reward, credits, log) ==
    /\ LeaveImmature(e, reward, FALSE)
    /\ minerImmature' = Minus(minerImmature, credits)
    /\ minerBalance' = Plus(minerBalance, credits)
    /\ paidLog' = [paidLog EXCEPT ![e.hash] = SetAbsent(@, credits)]
    /\ creditLog' = [creditLog EXCEPT ![e.hash] = NoCredits]
    /\ finances' = [immature |-> finances.immature - TotalOf(credits),
                    balance |-> finances.balance + TotalOf(credits),
                    totalMined |-> finances.totalMined + reward]
    /\ UNCHANGED candidates

\* `log' is what HGetAllMap of the credit log returned under Watch.
WriteMaturedBlock(e, reward, credits, log) ==
    /\ LeaveImmature(e, reward, FALSE)
    /\ minerImmature' = Minus(minerImmature, log)
    /\ minerBalance' = Plus(minerBalance, credits)
    /\ paidLog' = [paidLog EXCEPT ![e.hash] = SetAbsent(@, credits)]
    /\ creditLog' = [creditLog EXCEPT ![e.hash] = NoCredits]
    /\ finances' = [immature |-> finances.immature - TotalOf(log),
                    balance |-> finances.balance + TotalOf(credits),
                    totalMined |-> finances.totalMined + reward]
    /\ UNCHANGED candidates

\* Mutant of WriteOrphan: the credit log is not deleted.
WriteOrphanKeepsLog(e, log) ==
    /\ LeaveImmature(e, 0, TRUE)
    /\ minerImmature' = Minus(minerImmature, log)
    /\ finances' = [finances EXCEPT !.immature = @ - TotalOf(log)]
    /\ UNCHANGED <<candidates, creditLog, paidLog, minerBalance>>

\* Mutant of WriteOrphan: the pool's total is forgotten.
WriteOrphanKeepsTotal(e, log) ==
    /\ LeaveImmature(e, 0, TRUE)
    /\ minerImmature' = Minus(minerImmature, log)
    /\ creditLog' = [creditLog EXCEPT ![e.hash] = NoCredits]
    /\ UNCHANGED <<candidates, paidLog, minerBalance, finances>>

WriteOrphan(e, log) ==
    /\ LeaveImmature(e, 0, TRUE)
    /\ minerImmature' = Minus(minerImmature, log)
    /\ creditLog' = [creditLog EXCEPT ![e.hash] = NoCredits]
    /\ finances' = [finances EXCEPT !.immature = @ - TotalOf(log)]
    /\ UNCHANGED <<candidates, paidLog, minerBalance>>
=============================================================================
