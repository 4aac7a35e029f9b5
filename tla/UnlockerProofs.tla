--------------------------- MODULE UnlockerProofs ---------------------------
(***************************************************************************)
(* Theorems about Unlocker for every value of its constants.               *)
(***************************************************************************)
EXTENDS Unlocker, TLAPS

(***************************************************************************)
(* The lists the goroutine carries do not overlap: a block is judged once. *)
(***************************************************************************)
ListsApart ==
    /\ todo \cap lost = {}
    /\ \A m \in live : m.entry \notin todo \cup lost
    /\ \A m, n \in live : m.entry = n.entry => m = n
    /\ pc \in {"info", "list"} => todo = {} /\ live = {} /\ lost = {}
    /\ pc # "check" => todo = {}

Inv1 == TypeOK /\ ListsApart

-----------------------------------------------------------------------------
\* Rounding a rational to an integer (FloatString(0)) gives an integer.
LEMMA RoundInt ==
    ASSUME NEW n \in Int, NEW d \in Nat \ {0}
    PROVE  Round(n, d) \in Int
<1>1. 2 * d \in Nat \ {0} /\ 2 * n + d \in Int /\ d - 2 * n \in Int
    OBVIOUS
<1>2. \A x \in Int, y \in Nat \ {0} : x \div y \in Int
    OBVIOUS
<1> QED
    BY <1>1, <1>2 DEF Round

\* calculateRewards gives every account an integer amount.
LEMMA RewardsType ==
    ASSUME NEW reward \in Int, NEW shares \in [Logins -> Nat],
           NEW total \in Nat \ {0}, NEW extra \in Int
    PROVE  CalculateRewards(reward, shares, total, extra) \in [Accounts -> Int]
<1> DEFINE pool == PoolProfit(reward, extra)
           kept == IF Donate THEN 100 - DonationFee ELSE 100
<1>1. PoolFee \in Int /\ DonationFee \in Int /\ kept \in Int
    BY RewardsAssumption
<1>2. pool \in Int /\ MinersProfit(reward) \in Int
    BY <1>1 DEF PoolProfit, MinersProfit
<1>3. \A l \in Logins : ShareReward(shares[l], total, reward) \in Int
  <2> SUFFICES ASSUME NEW l \in Logins PROVE ShareReward(shares[l], total, reward) \in Int
      OBVIOUS
  <2>1. MinersProfit(reward) * shares[l] \in Int /\ 100 * total \in Nat \ {0}
      BY <1>2
  <2> QED
      BY <2>1, RoundInt DEF ShareReward
<1>4. Round(pool * DonationFee, 10000) \in Int /\ Round(pool * kept, 10000) \in Int
  <2>1. pool * DonationFee \in Int /\ pool * kept \in Int
      BY <1>1, <1>2
  <2> QED
      BY <2>1, RoundInt
<1> HIDE DEF pool, kept
<1>5. \A a \in Accounts :
        (IF a \in Logins THEN ShareReward(shares[a], total, reward) ELSE 0)
        + (IF Donate /\ a = DonationAccount THEN Round(pool * DonationFee, 10000) ELSE 0)
        + (IF a = PoolFeeAddress THEN Round(pool * kept, 10000) ELSE 0) \in Int
    BY <1>3, <1>4
<1> QED
    BY <1>5 DEF CalculateRewards, pool, kept

-----------------------------------------------------------------------------
(***************************************************************************)
(* Shapes of what the operators of Ledger and Unlocker return.             *)
(***************************************************************************)
LEMMA StageMembers ==
    ASSUME TypeOK, NEW e \in Stage(pass)
    PROVE  /\ e.hash \in Blocks
           /\ e.shares \in Nat \ {0}
           /\ pass = "candidates" => e \in candidates /\ e \in Candidates
           /\ pass = "immature" => e \in immature /\ e \in BlockEntries
BY DEF TypeOK, LedgerTypeOK, ControlTypeOK, Stage, Passes, Candidates, BlockEntries

LEMMA FeesType ==
    ASSUME TypeOK, NEW h \in Heights, NEW fees \in GetBlockFees(h, pass)
    PROVE  fees \in Int
<1>1. GetConstReward(h) \in Int
    BY RewardsAssumption DEF GetConstReward
<1>2. \A S : FirstOf(pass, S) \subseteq S
    BY DEF FirstOf
<1>3. \A e \in candidates : e.fees \in Int
    BY DEF TypeOK, LedgerTypeOK, Candidates
<1>4. \A e \in immature : e.reward \in Int
    BY DEF TypeOK, LedgerTypeOK, BlockEntries
<1> DEFINE first == FirstOf(pass, {e \in Stage(pass) : HeightOf[e.hash] = h})
<1>5. first \subseteq Stage(pass)
    BY <1>2
<1>6. CASE pass = "candidates"
  <2>1. fees \in {e.fees : e \in first}
      BY <1>6 DEF GetBlockFees
  <2> QED
      BY <2>1, <1>3, <1>5, <1>6 DEF Stage
<1>7. CASE pass # "candidates"
  <2>1. fees \in {e.reward - GetConstReward(h) : e \in first}
      BY <1>7 DEF GetBlockFees
  <2>2. first \subseteq immature
      BY <1>5, <1>7 DEF Stage
  <2> HIDE DEF first
  <2> QED
      BY <2>1, <2>2, <1>1, <1>4
<1> QED
    BY <1>6, <1>7

LEMMA NoSharesType == NoShares \in [Logins -> Nat]
BY DEF NoShares

LEMMA NoCreditsType == NoCredits \in [Accounts -> Int]
BY DEF NoCredits

LEMMA EntryType ==
    ASSUME NEW e, e.hash \in Blocks, e.shares \in Nat \ {0},
           NEW reward \in Int, NEW orphan \in BOOLEAN
    PROVE  BlockEntry(e, reward, orphan) \in BlockEntries
BY DEF BlockEntry, BlockEntries

\* The amounts the unlocker is about to write.
LEMMA CreditsType ==
    ASSUME TypeOK, NEW m \in live
    PROVE  Credits(m) \in [Accounts -> Int]
<1>1. m.entry \in Stage(pass) /\ m.reward \in Int /\ loaded \in [Logins -> Nat]
    BY DEF TypeOK, ControlTypeOK
<1>2. m.entry.shares \in Nat \ {0}
    BY <1>1, StageMembers
<1>3. (IF pass = "candidates" THEN m.entry.fees ELSE 0) \in Int
    BY <1>1, StageMembers DEF Candidates
<1> QED
    BY <1>1, <1>2, <1>3, RewardsType DEF Credits

-----------------------------------------------------------------------------
(***************************************************************************)
(* Types.                                                                  *)
(***************************************************************************)
LEMMA Inv1Init == Init => Inv1
<1> SUFFICES ASSUME Init PROVE Inv1
    OBVIOUS
<1> USE DEF Init, ChainInit, RoundsInit, LedgerInit
<1>1. ChainTypeOK
    BY ChainAssumption DEF ChainTypeOK, Foreign, Heights
<1>2. LedgerTypeOK
  <2>1. rounds \in [RoundKeys -> [Logins -> Nat]]
      BY NoSharesType
  <2>2. creditLog \in [Blocks -> [Accounts -> Int]] /\ paidLog \in [Blocks -> [Accounts -> Int]]
      BY NoCreditsType
  <2> QED
      BY <2>1, <2>2, NoCreditsType DEF LedgerTypeOK
<1>3. ControlTypeOK
  <2>1. height \in 0 .. tip /\ faults \in 0 .. MaxFaults /\ crashes \in 0 .. MaxCrashes
      BY UnlockerAssumption
  <2>2. todo = {} /\ lost = {} /\ live = {} /\ halt = FALSE
      OBVIOUS
  <2>3. pc = "info" /\ pass = "candidates" /\ loaded \in [Logins -> Nat]
      BY NoSharesType
  <2> QED
      BY ONLY <2>1, <2>2, <2>3 DEF ControlTypeOK, Passes
<1>4. ListsApart
    BY DEF ListsApart
<1> QED
    BY <1>1, <1>2, <1>3, <1>4 DEF Inv1, TypeOK

\* The control part of a step that leaves the function.
LEMMA LeaveType ==
    ASSUME Leave, pass' \in Passes, halt' \in BOOLEAN, tip' \in 0 .. MaxHeight,
           faults' \in 0 .. MaxFaults, crashes' \in 0 .. MaxCrashes
    PROVE  ControlTypeOK' /\ ListsApart'
BY NoSharesType, ChainAssumption DEF Leave, ControlTypeOK, ListsApart

LEMMA EndPassType ==
    ASSUME Inv1, EndPass, UNCHANGED <<tip, halt, faults, crashes>>
    PROVE  ControlTypeOK' /\ ListsApart'
BY LeaveType DEF Inv1, TypeOK, ChainTypeOK, ControlTypeOK, EndPass, Passes

LEMMA HaltType ==
    ASSUME Inv1, CanFail, Halt, UNCHANGED <<tip, crashes>>
    PROVE  ControlTypeOK' /\ ListsApart'
<1>1. faults' \in 0 .. MaxFaults
    BY UnlockerAssumption DEF Inv1, TypeOK, ControlTypeOK, CanFail, Halt
<1> QED
    BY <1>1, LeaveType DEF Inv1, TypeOK, ChainTypeOK, ControlTypeOK, Halt, Passes

LEMMA ReadsType ==
    ASSUME Inv1, Reads
    PROVE  Inv1'
<1>0. ChainTypeOK' /\ LedgerTypeOK'
    BY DEF Inv1, TypeOK, Reads, ChainTypeOK, LedgerTypeOK, chainVars, roundVars, ledgerVars
<1>a. UNCHANGED <<tip, halt, faults, crashes, candidates, immature, rounds>>
    BY DEF Reads, chainVars, roundVars, ledgerVars
<1> USE DEF Inv1, TypeOK
<1>1. CASE GetMiningInfo
    BY <1>0, <1>1, <1>a DEF GetMiningInfo, ControlTypeOK, ChainTypeOK, ListsApart, Stage
<1>2. CASE ListBlocks
  <2> DEFINE found == {e \in Stage(pass) : HeightOf[e.hash] <= height - DepthOf(pass)}
  <2>1. CASE found = {} /\ EndPass
      BY <2>1, <1>0, <1>a, EndPassType
  <2>2. CASE todo' = found /\ pc' = "check" /\ UNCHANGED <<pass, height, live, lost, loaded>>
    <3>1. live = {} /\ lost = {}
        BY <1>2 DEF ListBlocks, ListsApart
    <3> QED
        BY <3>1, <2>2, <1>0, <1>a, <1>2 DEF ControlTypeOK, ListsApart, Stage, ListBlocks
  <2> QED
      BY <2>1, <2>2, <1>2 DEF ListBlocks
<1>3. ASSUME NEW e \in todo, CheckBlock(e) PROVE Inv1'
  <2>1. e \in Stage(pass) /\ HeightOf[e.hash] \in Heights
      BY StageMembers, ChainAssumption DEF ControlTypeOK
  <2>2. GetConstReward(HeightOf[e.hash]) \in Int
      BY RewardsAssumption DEF GetConstReward
  <2>3. todo' = todo \ {e} /\ UNCHANGED <<pass, height, loaded>>
        /\ pc' \in {"orphans", "check"} /\ (pc' # "check" => todo' = {})
      BY <1>3 DEF CheckBlock
  <2>4. Stage(pass)' = Stage(pass)
      BY <2>3, <1>a DEF Stage
  <2>5. CASE lost' = lost \cup {e} /\ live' = live
      BY <2>1, <2>3, <2>4, <2>5, <1>0, <1>a DEF ControlTypeOK, ListsApart
  <2>6. CASE lost' = lost /\ OnChain(e.hash)
             /\ \E fees \in GetBlockFees(HeightOf[e.hash], pass) :
                   live' = live \cup {[entry |-> e, reward |->
                      IF KeepTxFees THEN GetConstReward(HeightOf[e.hash])
                      ELSE GetConstReward(HeightOf[e.hash]) + fees]}
    <3>1. PICK r \in Int : live' = live \cup {[entry |-> e, reward |-> r]}
        BY <2>1, <2>2, <2>6, FeesType
    <3>2. live' \subseteq [entry : Stage(pass)', reward : Int]
        BY <3>1, <2>1, <2>4 DEF ControlTypeOK
    <3>3. /\ \A m \in live' : m.entry \notin todo' \cup lost'
          /\ \A m, n \in live' : m.entry = n.entry => m = n
        BY <3>1, <2>3, <2>6 DEF ListsApart
    <3> QED
        BY <3>2, <3>3, <2>3, <2>4, <2>6, <1>0, <1>a DEF ControlTypeOK, ListsApart
  <2> QED
      BY <2>5, <2>6, <1>3 DEF CheckBlock
<1>4. CASE NoOrphans
    BY <1>4, <1>0, <1>a, EndPassType, NoSharesType
       DEF NoOrphans, GoOn, ControlTypeOK, ListsApart, Stage
<1>5. ASSUME NEW m \in live, LoadRound(m) PROVE Inv1'
  <2>1. rounds[RoundKey(m.entry.hash)] \in [Logins -> Nat]
    <3>1. m.entry \in Stage(pass)
        BY DEF ControlTypeOK
    <3>2. RoundKey(m.entry.hash) \in RoundKeys
        BY <3>1, StageMembers DEF RoundKeys
    <3> QED
        BY <3>2 DEF LedgerTypeOK
  <2> QED
      BY <2>1, <1>5, <1>0, <1>a DEF LoadRound, ControlTypeOK, ListsApart, Stage
<1> QED
    BY <1>1, <1>2, <1>3, <1>4, <1>5 DEF Reads

-----------------------------------------------------------------------------
\* The control part after a write that leaves the entries of blocks to go on
\* with in their stage.
LEMMA GoOnType ==
    ASSUME Inv1, NEW blocks \in SUBSET live, GoOn(blocks, "load"),
           \A m \in blocks : m.entry \in Stage(pass)', todo = {}, pc # "info",
           UNCHANGED <<tip, halt, faults, crashes>>
    PROVE  ControlTypeOK' /\ ListsApart'
<1>1. CASE blocks = {}
    BY <1>1, EndPassType DEF GoOn
<1>2. CASE blocks # {}
  <2>1. blocks \subseteq [entry : Stage(pass)', reward : Int]
      BY DEF Inv1, TypeOK, ControlTypeOK
  <2>2. /\ pc' = "load" /\ live' = blocks /\ lost' = {} /\ loaded' = NoShares
        /\ UNCHANGED <<pass, height, todo>>
      BY <1>2 DEF GoOn
  <2>3. ControlTypeOK'
      BY <2>1, <2>2, NoSharesType DEF Inv1, TypeOK, ControlTypeOK, Passes
  <2>4. ListsApart'
      BY <2>2 DEF Inv1, ListsApart
  <2> QED
      BY <2>3, <2>4
<1> QED
    BY <1>1, <1>2

\* Both outcomes of a write: the reply arrives, or the goroutine halts.
LEMMA RepliedType ==
    ASSUME Inv1, NEW blocks \in SUBSET live, Replied(GoOn(blocks, "load")),
           \A m \in blocks : m.entry \in Stage(pass)' \/ pass' # pass,
           todo = {}, pc # "info", UNCHANGED <<tip, crashes>>
    PROVE  ControlTypeOK' /\ ListsApart'
<1>1. CASE GoOn(blocks, "load") /\ UNCHANGED <<halt, faults>>
  <2>1. blocks # {} => pass' = pass
      BY <1>1 DEF GoOn
  <2> QED
      BY <1>1, <2>1, GoOnType
<1>2. CASE CanFail /\ Halt
    BY <1>2, HaltType
<1> QED
    BY <1>1, <1>2 DEF Replied

LEMMA WritesType ==
    ASSUME Inv1, Writes
    PROVE  Inv1'
<1> USE DEF Inv1, TypeOK
<1>a. UNCHANGED <<tip, crashes, closed>> /\ ChainTypeOK'
    BY DEF Writes, chainVars, ChainTypeOK
<1>1. CASE PendingOrphans
  <2>1. todo = {} /\ pc # "info" /\ pass = "candidates" /\ lost \subseteq candidates
      BY <1>1 DEF PendingOrphans, ListsApart, ControlTypeOK, Stage
  <2>2. \A m \in live : m.entry \in candidates \ lost
      BY <2>1 DEF ControlTypeOK, ListsApart, Stage
  <2>3. /\ candidates' = candidates \ lost
        /\ immature' = immature \cup {BlockEntry(e, 0, TRUE) : e \in lost}
        /\ UNCHANGED <<rounds, matured, creditLog, paidLog, minerImmature, minerBalance>>
      BY <1>1 DEF PendingOrphans, WritePendingOrphans
  <2>4. \A e \in lost : BlockEntry(e, 0, TRUE) \in BlockEntries
      BY <2>1 DEF LedgerTypeOK, Candidates, BlockEntry, BlockEntries
  <2>5. LedgerTypeOK'
      BY <2>3, <2>4, <1>a DEF LedgerTypeOK
  <2>6. \A m \in live : m.entry \in Stage(pass)' \/ pass' # pass
      BY <2>1, <2>2, <2>3 DEF Stage
  <2>7. ControlTypeOK' /\ ListsApart'
      BY <1>1, <1>a, <2>1, <2>6, RepliedType DEF PendingOrphans
  <2> QED
      BY <1>a, <2>5, <2>7
<1>2. ASSUME NEW e \in lost, Orphan(e) PROVE Inv1'
  <2>1. todo = {} /\ pc # "info" /\ pass = "immature" /\ lost \subseteq immature
      BY <1>2 DEF Orphan, ListsApart, ControlTypeOK, Stage
  <2>2. \A m \in live : m.entry \in immature \ {e}
      BY <2>1 DEF ControlTypeOK, ListsApart, Stage
  <2>3. e \in BlockEntries /\ e.hash \in Blocks /\ e.shares \in Nat \ {0}
      BY <2>1 DEF LedgerTypeOK, BlockEntries
  <2>4. BlockEntry(e, 0, TRUE) \in BlockEntries
      BY <2>3 DEF BlockEntry, BlockEntries
  <2>a. CreditLogReads(e.hash) \subseteq [Accounts -> Int]
      BY <2>3, NoCreditsType DEF CreditLogReads, LedgerTypeOK
  <2>5. PICK log \in [Accounts -> Int] :
            /\ rounds' = [rounds EXCEPT ![RoundKey(e.hash)] = NoShares]
            /\ immature' = immature \ {e}
            /\ matured' = matured \cup {BlockEntry(e, 0, TRUE)}
            /\ minerImmature' = Minus(minerImmature, log)
            /\ creditLog' = [creditLog EXCEPT ![e.hash] = NoCredits]
            /\ UNCHANGED <<candidates, paidLog, minerBalance>>
      BY <1>2, <2>a DEF Orphan, WriteOrphan, LeaveImmature
  <2>6. minerImmature' \in [Accounts -> Int]
      BY <2>5 DEF LedgerTypeOK, Minus
  <2>7. LedgerTypeOK'
      BY <2>4, <2>5, <2>6, <1>a, NoSharesType, NoCreditsType DEF LedgerTypeOK
  <2>8. \A m \in live : m.entry \in Stage(pass)' \/ pass' # pass
      BY <2>1, <2>2, <2>5 DEF Stage
  <2>9. CASE lost = {e}
    <3>1. Replied(GoOn(live, "load"))
        BY <1>2, <2>9 DEF Orphan, Replied
    <3>2. ControlTypeOK' /\ ListsApart'
        BY <3>1, <1>a, <2>1, <2>8, RepliedType
    <3> QED
        BY <1>a, <2>7, <3>2
  <2>10. CASE CanFail /\ Halt
      BY <1>a, <2>7, <2>10, HaltType
  <2>11. CASE /\ lost' = lost \ {e}
              /\ UNCHANGED <<pc, pass, height, todo, live, loaded, halt, faults>>
    <3>1. lost' \subseteq Stage(pass)' /\ live' \subseteq [entry : Stage(pass)', reward : Int]
        BY <2>1, <2>2, <2>5, <2>11 DEF ControlTypeOK, Stage
    <3>2. ControlTypeOK' /\ ListsApart'
        BY <1>a, <2>1, <2>11, <3>1 DEF ControlTypeOK, ListsApart
    <3> QED
        BY <1>a, <2>7, <3>2
  <2> QED
      BY <1>2, <2>9, <2>10, <2>11 DEF Orphan, Replied
<1>3. ASSUME NEW m \in live, Immature(m) PROVE Inv1'
  <2>1. todo = {} /\ pc # "info" /\ pass = "candidates"
      BY <1>3 DEF Immature, ListsApart
  <2>2. m.entry \in candidates /\ m.entry.hash \in Blocks /\ m.entry.shares \in Nat \ {0}
        /\ m.reward \in Int
      BY <2>1 DEF LedgerTypeOK, Candidates, ControlTypeOK, Stage
  <2>3. \A n \in live \ {m} : n.entry \in candidates \ {m.entry}
      BY <2>1 DEF ControlTypeOK, ListsApart, Stage
  <2>4. PICK credits \in [Accounts -> Int] : WriteImmatureBlock(m.entry, m.reward, credits)
      BY <1>3, CreditsType DEF Immature
  <2>5. BlockEntry(m.entry, m.reward, FALSE) \in BlockEntries
      BY <2>2, EntryType
  <2>6. Plus(minerImmature, credits) \in [Accounts -> Int]
        /\ SetAbsent(creditLog[m.entry.hash], credits) \in [Accounts -> Int]
      BY <2>2 DEF LedgerTypeOK, Plus, SetAbsent
  <2>7. LedgerTypeOK'
      BY <2>4, <2>5, <2>6, <1>a DEF LedgerTypeOK, WriteImmatureBlock
  <2>8. \A n \in live \ {m} : n.entry \in Stage(pass)' \/ pass' # pass
      BY <2>1, <2>3, <2>4 DEF Stage, WriteImmatureBlock
  <2>9. ControlTypeOK' /\ ListsApart'
      BY <1>3, <1>a, <2>1, <2>8, RepliedType DEF Immature
  <2> QED
      BY <1>a, <2>7, <2>9
<1>4. ASSUME NEW m \in live, Mature(m) PROVE Inv1'
  <2>1. todo = {} /\ pc # "info" /\ pass = "immature"
      BY <1>4 DEF Mature, ListsApart
  <2>2. m.entry \in immature /\ m.entry.hash \in Blocks /\ m.entry.shares \in Nat \ {0}
        /\ m.reward \in Int
      BY <2>1 DEF LedgerTypeOK, BlockEntries, ControlTypeOK, Stage
  <2>3. \A n \in live \ {m} : n.entry \in immature \ {m.entry}
      BY <2>1 DEF ControlTypeOK, ListsApart, Stage
  <2>4. CreditLogReads(m.entry.hash) \subseteq [Accounts -> Int]
      BY <2>2, NoCreditsType DEF CreditLogReads, LedgerTypeOK
  <2>5. PICK credits \in [Accounts -> Int], log \in [Accounts -> Int] :
            WriteMaturedBlock(m.entry, m.reward, credits, log)
      BY <1>4, <2>4, CreditsType DEF Mature
  <2>6. BlockEntry(m.entry, m.reward, FALSE) \in BlockEntries
      BY <2>2, EntryType
  <2>7. Plus(minerBalance, credits) \in [Accounts -> Int]
        /\ Minus(minerImmature, log) \in [Accounts -> Int]
        /\ SetAbsent(paidLog[m.entry.hash], credits) \in [Accounts -> Int]
      BY <2>2 DEF LedgerTypeOK, Plus, Minus, SetAbsent
  <2>8. LedgerTypeOK'
      BY <2>5, <2>6, <2>7, <1>a, NoSharesType, NoCreditsType
         DEF LedgerTypeOK, WriteMaturedBlock, LeaveImmature
  <2>9. \A n \in live \ {m} : n.entry \in Stage(pass)' \/ pass' # pass
      BY <2>1, <2>3, <2>5 DEF Stage, WriteMaturedBlock, LeaveImmature
  <2>10. ControlTypeOK' /\ ListsApart'
      BY <1>4, <1>a, <2>1, <2>9, RepliedType DEF Mature
  <2> QED
      BY <1>a, <2>8, <2>10
<1> QED
    BY <1>1, <1>2, <1>3, <1>4 DEF Writes

-----------------------------------------------------------------------------
LEMMA ChainStepType ==
    ASSUME Inv1, ChainStep
    PROVE  Inv1' /\ tip <= tip'
<1>a. UNCHANGED <<roundVars, ledgerVars, control, faults, crashes>>
    BY DEF ChainStep
<1> USE ChainAssumption DEF Inv1, TypeOK, ChainTypeOK
<1>1. CASE Extend
  <2>1. ChainTypeOK' /\ tip <= tip'
      BY <1>1 DEF Extend
  <2> QED
      BY <1>a, <2>1 DEF roundVars, ledgerVars, control, LedgerTypeOK, ControlTypeOK, ListsApart, Stage
<1>2. CASE ChainReorganises
  <2>1. PICK k \in Heights, b \in accepted \cup {Foreign} : Reorg(k, b)
      BY <1>2 DEF ChainReorganises
  <2>2. ChainTypeOK' /\ tip <= tip'
      BY <2>1 DEF Reorg
  <2> QED
      BY <1>a, <2>2 DEF roundVars, ledgerVars, control, LedgerTypeOK, ControlTypeOK, ListsApart, Stage
<1>3. ASSUME NEW b \in Blocks, Accept(b) PROVE Inv1' /\ tip <= tip'
  <2>1. ChainTypeOK' /\ tip <= tip'
      BY <1>3 DEF Accept, Heights
  <2> QED
      BY <1>a, <2>1 DEF roundVars, ledgerVars, control, LedgerTypeOK, ControlTypeOK, ListsApart, Stage
<1> QED
    BY <1>1, <1>2, <1>3 DEF ChainStep

LEMMA IntakeStepType ==
    ASSUME Inv1, IntakeStep
    PROVE  Inv1'
<1>a. UNCHANGED <<chainVars, ledgerVars, control, faults, crashes>>
    BY DEF IntakeStep
<1> USE DEF Inv1, TypeOK
<1>1. ASSUME NEW b \in Blocks, NEW f \in RoundChoices, CloseRound(b, f) PROVE Inv1'
  <2>1. f \in [Logins -> Nat] /\ TotalOf(f) \in Nat \ {0} /\ FeesOf[b] \in Nat
      BY UnlockerAssumption, RoundsAssumption
  <2>2. CandidateEntry(b, f) \in Candidates
      BY <2>1 DEF CandidateEntry, Candidates
  <2>3. LedgerTypeOK'
      BY <1>1, <1>a, <2>1, <2>2 DEF CloseRound, LedgerTypeOK, ledgerVars
  <2> QED
      BY <1>1, <1>a, <2>3 DEF CloseRound, chainVars, ledgerVars, control,
                              ChainTypeOK, ControlTypeOK, ListsApart, Stage
<1>2. ASSUME NEW e \in closed, Record(e) PROVE Inv1'
  <2>1. LedgerTypeOK'
      BY <1>2, <1>a DEF Record, LedgerTypeOK, ledgerVars
  <2>2. Stage(pass) \subseteq Stage(pass)'
      BY <1>2, <1>a DEF Record, Stage, ledgerVars, control
  <2> QED
      BY <1>a, <2>1, <2>2 DEF chainVars, control, ChainTypeOK, ControlTypeOK, ListsApart
<1> QED
    BY <1>1, <1>2 DEF IntakeStep, ChainTypeOK

\* Every step keeps the types and the lists apart.
LEMMA Inv1Step == Inv1 /\ [Next]_vars => Inv1'
<1> SUFFICES ASSUME Inv1, [Next]_vars PROVE Inv1'
    OBVIOUS
<1>1. CASE UnlockerStep
    BY <1>1, ReadsType, WritesType DEF UnlockerStep
<1>2. CASE Fail
  <2>1. UNCHANGED <<chainVars, roundVars, ledgerVars, crashes>> /\ CanFail /\ Halt
      BY <1>2 DEF Fail
  <2>2. ControlTypeOK' /\ ListsApart'
      BY <2>1, HaltType DEF chainVars
  <2> QED
      BY <2>1, <2>2 DEF Inv1, TypeOK, ChainTypeOK, LedgerTypeOK, chainVars, roundVars, ledgerVars
<1>3. CASE Crash
  <2>1. UNCHANGED <<chainVars, roundVars, ledgerVars, faults>> /\ Leave
        /\ pass' \in Passes /\ halt' \in BOOLEAN
      BY <1>3 DEF Crash, Passes
  <2>2. crashes' \in 0 .. MaxCrashes
      BY <1>3, UnlockerAssumption DEF Crash, Inv1, TypeOK, ControlTypeOK
  <2>3. ControlTypeOK' /\ ListsApart'
      BY <2>1, <2>2, LeaveType DEF chainVars, Inv1, TypeOK, ChainTypeOK, ControlTypeOK
  <2> QED
      BY <2>1, <2>3 DEF Inv1, TypeOK, ChainTypeOK, LedgerTypeOK, chainVars, roundVars, ledgerVars
<1>4. CASE ChainStep
    BY <1>4, ChainStepType
<1>5. CASE IntakeStep
    BY <1>5, IntakeStepType
<1>6. CASE UNCHANGED vars
    BY <1>6 DEF vars, chainVars, roundVars, ledgerVars, control, Inv1, TypeOK,
                ChainTypeOK, LedgerTypeOK, ControlTypeOK, ListsApart, Stage
<1> QED
    BY <1>1, <1>2, <1>3, <1>4, <1>5, <1>6 DEF Next, Suspended

\* The type invariant of Unlocker, for every set of blocks and miners, every
\* configuration and any number of failures, restarts and reorganisations.
THEOREM Inv1Correct == Spec => []Inv1
<1> QED
    BY Inv1Init, Inv1Step, PTL DEF Spec

THEOREM TypeCorrect == Spec => []TypeOK
<1>1. Inv1 => TypeOK
    BY DEF Inv1
<1> QED
    BY <1>1, Inv1Correct, PTL

-----------------------------------------------------------------------------
(***************************************************************************)
(* What a step does to the stages and the logs.                            *)
(***************************************************************************)
SameStages == UNCHANGED <<candidates, immature, matured, creditLog, paidLog>>

Recording(e) ==
    /\ e \in closed /\ ~Recorded(e.hash)
    /\ candidates' = candidates \cup {e}
    /\ UNCHANGED <<immature, matured, creditLog, paidLog>>

Doubting(entries) ==
    /\ entries \subseteq candidates
    /\ WritePendingOrphans(entries)

Announcing(m, credits) ==
    m.entry \in candidates /\ WriteImmatureBlock(m.entry, m.reward, credits)

Paying(m, credits, log) ==
    /\ pass = "immature" /\ m.entry \in immature
    /\ WriteMaturedBlock(m.entry, m.reward, credits, log)

Voiding(e, log) == pass = "immature" /\ e \in immature /\ WriteOrphan(e, log)

AMove ==
    \/ SameStages
    \/ \E e \in closed : Recording(e)
    \/ Doubting(lost)
    \/ \E m \in live : \E credits \in [Accounts -> Int] : Announcing(m, credits)
    \/ \E m \in live : \E credits, log \in [Accounts -> Int] : Paying(m, credits, log)
    \/ \E e \in lost : \E log \in [Accounts -> Int] : Voiding(e, log)

LEMMA EveryStepIsAMove ==
    ASSUME Inv1, [Next]_vars
    PROVE  AMove
<1> USE DEF Inv1, TypeOK
<1>1. CASE UnlockerStep
  <2>1. CASE Reads
      BY <2>1 DEF Reads, AMove, SameStages, ledgerVars, roundVars
  <2>2. CASE PendingOrphans
    <3>1. lost \subseteq candidates /\ WritePendingOrphans(lost)
        BY <2>2 DEF PendingOrphans, ControlTypeOK, Stage
    <3> QED
        BY <3>1 DEF AMove, Doubting
  <2>3. ASSUME NEW e \in lost, Orphan(e) PROVE AMove
    <3>1. e \in immature /\ pass = "immature"
        BY <2>3 DEF Orphan, ControlTypeOK, Stage
    <3>2. CreditLogReads(e.hash) \subseteq [Accounts -> Int]
        BY <3>1, NoCreditsType DEF CreditLogReads, LedgerTypeOK, BlockEntries
    <3> QED
        BY <2>3, <3>1, <3>2 DEF Orphan, AMove, Voiding
  <2>4. ASSUME NEW m \in live, Immature(m) PROVE AMove
    <3>1. m.entry \in candidates /\ WriteImmatureBlock(m.entry, m.reward, Credits(m))
        BY <2>4 DEF Immature, ControlTypeOK, Stage
    <3> QED
        BY <3>1, CreditsType DEF AMove, Announcing
  <2>5. ASSUME NEW m \in live, Mature(m) PROVE AMove
    <3>1. pass = "immature" /\ m.entry \in immature
        BY <2>5 DEF Mature, ControlTypeOK, Stage
    <3>2. CreditLogReads(m.entry.hash) \subseteq [Accounts -> Int]
        BY <3>1, NoCreditsType DEF CreditLogReads, LedgerTypeOK, BlockEntries
    <3>3. \E log \in [Accounts -> Int] :
              WriteMaturedBlock(m.entry, m.reward, Credits(m), log)
        BY <2>5, <3>2 DEF Mature
    <3> QED
        BY <3>1, <3>3, CreditsType DEF AMove, Paying
  <2> QED
      BY <1>1, <2>1, <2>2, <2>3, <2>4, <2>5 DEF UnlockerStep, Writes
<1>2. CASE IntakeStep
    BY <1>2 DEF IntakeStep, CloseRound, Record, AMove, SameStages, Recording, ledgerVars
<1>3. CASE Fail \/ Crash \/ ChainStep \/ UNCHANGED vars
    BY <1>3 DEF Fail, Crash, ChainStep, vars, AMove, SameStages, ledgerVars, roundVars
<1> QED
    BY <1>1, <1>2, <1>3 DEF Next, Suspended

-----------------------------------------------------------------------------
(***************************************************************************)
(* A block is in one stage, once.                                          *)
(***************************************************************************)
LEMMA OneStageStep ==
    ASSUME Inv1, OneStage, [Next]_vars
    PROVE  OneStage'
<1> USE DEF OneStage
<1>1. CASE SameStages
    BY <1>1 DEF SameStages
<1>2. ASSUME NEW e \in closed, Recording(e) PROVE OneStage'
    BY <1>2 DEF Recording, Recorded
<1>3. CASE Doubting(lost)
  <2>1. candidates' = candidates \ lost /\ matured' = matured /\ lost \subseteq candidates
      BY <1>3 DEF Doubting, WritePendingOrphans
  <2>2. \A f \in immature' :
            f \in immature \/ \E e \in lost : f = BlockEntry(e, 0, TRUE) /\ f.hash = e.hash
      BY <1>3 DEF Doubting, WritePendingOrphans, BlockEntry
  <2>3. ASSUME NEW f \in immature', NEW g \in immature', f.hash = g.hash
        PROVE  f = g
    <3>1. CASE f \in immature /\ g \in immature
        BY <2>3, <3>1
    <3>2. ASSUME NEW e \in lost, e.hash = f.hash PROVE f \notin immature /\ g \notin immature
        BY <2>1, <2>3, <3>2
    <3>3. ASSUME NEW d \in lost, f = BlockEntry(d, 0, TRUE), f.hash = d.hash,
                 NEW e \in lost, g = BlockEntry(e, 0, TRUE), g.hash = e.hash
          PROVE  f = g
      <4>1. d = e
          BY <2>1, <2>3, <3>3
      <4> QED
          BY <4>1, <3>3
    <3> QED
        BY <2>2, <2>3, <3>1, <3>2, <3>3
  <2>4. \A f \in immature' : \A e \in candidates' \cup matured' : e.hash # f.hash
      BY <2>1, <2>2
  <2> QED
      BY <2>1, <2>3, <2>4
<1>4. ASSUME NEW m \in live, NEW credits, Announcing(m, credits) PROVE OneStage'
  <2>1. PICK new : new.hash = m.entry.hash /\ immature' = immature \cup {new}
      BY <1>4 DEF Announcing, WriteImmatureBlock, BlockEntry
  <2>2. candidates' = candidates \ {m.entry} /\ matured' = matured /\ m.entry \in candidates
      BY <1>4 DEF Announcing, WriteImmatureBlock
  <2> QED
      BY <2>1, <2>2
<1>5. ASSUME NEW m \in live, NEW credits, NEW log, Paying(m, credits, log) PROVE OneStage'
  <2>1. PICK new : new.hash = m.entry.hash /\ matured' = matured \cup {new}
      BY <1>5 DEF Paying, WriteMaturedBlock, LeaveImmature, BlockEntry
  <2>2. candidates' = candidates /\ immature' = immature \ {m.entry} /\ m.entry \in immature
      BY <1>5 DEF Paying, WriteMaturedBlock, LeaveImmature
  <2> QED
      BY <2>1, <2>2
<1>6. ASSUME NEW e \in lost, NEW log, Voiding(e, log) PROVE OneStage'
  <2>1. PICK new : new.hash = e.hash /\ matured' = matured \cup {new}
      BY <1>6 DEF Voiding, WriteOrphan, LeaveImmature, BlockEntry
  <2>2. candidates' = candidates /\ immature' = immature \ {e} /\ e \in immature
      BY <1>6 DEF Voiding, WriteOrphan, LeaveImmature
  <2> QED
      BY <2>1, <2>2
<1> QED
    BY <1>1, <1>2, <1>3, <1>4, <1>5, <1>6, EveryStepIsAMove DEF AMove

\* No block is ever in two stages or twice in one.
THEOREM OneStageCorrect == Spec => []OneStage
<1>1. Init => OneStage
    BY DEF Init, RoundsInit, LedgerInit, OneStage
<1>2. Inv1 /\ OneStage /\ [Next]_vars => OneStage'
    BY OneStageStep
<1> QED
    BY <1>1, <1>2, Inv1Correct, PTL DEF Spec

-----------------------------------------------------------------------------
(***************************************************************************)
(* The credit logs follow the stages.                                      *)
(***************************************************************************)
LEMMA CreditsStep ==
    ASSUME Inv1, OneStage, CreditsFollowStage, [Next]_vars
    PROVE  CreditsFollowStage'
<1> USE DEF CreditsFollowStage
<1>l. /\ creditLog \in [Blocks -> [Accounts -> Int]]
      /\ paidLog \in [Blocks -> [Accounts -> Int]]
    BY DEF Inv1, TypeOK, LedgerTypeOK
<1>1. CASE SameStages
    BY <1>1 DEF SameStages
<1>2. ASSUME NEW e \in closed, Recording(e) PROVE CreditsFollowStage'
    BY <1>2 DEF Recording
<1>3. CASE Doubting(lost)
    BY <1>3 DEF Doubting, WritePendingOrphans
<1>4. ASSUME NEW m \in live, NEW credits, Announcing(m, credits) PROVE CreditsFollowStage'
  <2>1. BlockEntry(m.entry, m.reward, FALSE).hash = m.entry.hash
        /\ ~BlockEntry(m.entry, m.reward, FALSE).orphan
      BY DEF BlockEntry
  <2> QED
      BY <1>4, <1>l, <2>1 DEF Announcing, WriteImmatureBlock
<1>5. ASSUME NEW m \in live, NEW credits, NEW log, Paying(m, credits, log)
      PROVE  CreditsFollowStage'
  <2> DEFINE new == BlockEntry(m.entry, m.reward, FALSE)
  <2>1. new.hash = m.entry.hash /\ ~new.orphan
      BY DEF BlockEntry
  <2>2. /\ immature' = immature \ {m.entry} /\ matured' = matured \cup {new}
        /\ creditLog' = [creditLog EXCEPT ![m.entry.hash] = NoCredits]
        /\ paidLog' = [paidLog EXCEPT ![m.entry.hash] = SetAbsent(@, credits)]
      BY <1>5 DEF Paying, WriteMaturedBlock, LeaveImmature
  <2> HIDE DEF new
  <2>3. \A b \in Blocks : b # m.entry.hash => creditLog'[b] = creditLog[b] /\ paidLog'[b] = paidLog[b]
      BY <2>2, <1>l
  <2>4. m.entry.hash \in Blocks => creditLog'[m.entry.hash] = NoCredits
      BY <2>2, <1>l
  <2> QED
      BY <2>1, <2>2, <2>3, <2>4
<1>6. ASSUME NEW e \in lost, NEW log, Voiding(e, log) PROVE CreditsFollowStage'
  <2>1. /\ immature' = immature \ {e} /\ matured \subseteq matured' /\ paidLog' = paidLog
        /\ creditLog' = [creditLog EXCEPT ![e.hash] = NoCredits]
      BY <1>6 DEF Voiding, WriteOrphan, LeaveImmature
  <2>2. \A b \in Blocks : IF b = e.hash THEN creditLog'[b] = NoCredits
                                         ELSE creditLog'[b] = creditLog[b]
      BY <2>1, <1>l
  <2> QED
      BY <2>1, <2>2
<1> QED
    BY <1>1, <1>2, <1>3, <1>4, <1>5, <1>6, EveryStepIsAMove DEF AMove

\* Money is only announced for blocks that are immature and believed good,
\* and only paid for blocks that have matured.
THEOREM CreditsFollowStageCorrect == Spec => []CreditsFollowStage
<1>1. Init => CreditsFollowStage
    BY DEF Init, LedgerInit, CreditsFollowStage
<1>2. Inv1 /\ OneStage /\ CreditsFollowStage /\ [Next]_vars => CreditsFollowStage'
    BY CreditsStep
<1> QED
    BY <1>1, <1>2, Inv1Correct, OneStageCorrect, PTL DEF Spec

-----------------------------------------------------------------------------
(***************************************************************************)
(* Nothing recorded is forgotten.                                          *)
(***************************************************************************)
LEMMA NeverForgottenStep ==
    ASSUME Inv1, [Next]_vars
    PROVE  (\A b \in Blocks : Recorded(b) => Recorded(b)') /\ matured \subseteq matured'
<1> DEFINE Kept(S, T) == \A e \in S : \E f \in T : f.hash = e.hash
<1>s. /\ Kept(candidates, candidates' \cup immature')
      /\ Kept(immature, immature' \cup matured')
      /\ matured \subseteq matured'
      => (\A b \in Blocks : Recorded(b) => Recorded(b)') /\ matured \subseteq matured'
    BY DEF Recorded
<1>1. CASE SameStages
    BY <1>1, <1>s DEF SameStages
<1>2. ASSUME NEW e \in closed, Recording(e)
      PROVE  (\A b \in Blocks : Recorded(b) => Recorded(b)') /\ matured \subseteq matured'
    BY <1>2, <1>s DEF Recording
<1>3. CASE Doubting(lost)
  <2>1. candidates' = candidates \ lost /\ immature \subseteq immature' /\ matured' = matured
      BY <1>3 DEF Doubting, WritePendingOrphans
  <2>2. \A e \in lost : BlockEntry(e, 0, TRUE) \in immature'
                        /\ BlockEntry(e, 0, TRUE).hash = e.hash
      BY <1>3 DEF Doubting, WritePendingOrphans, BlockEntry
  <2> QED
      BY <2>1, <2>2, <1>s
<1>4. ASSUME NEW m \in live, NEW credits, Announcing(m, credits)
      PROVE  (\A b \in Blocks : Recorded(b) => Recorded(b)') /\ matured \subseteq matured'
  <2>1. PICK new : new.hash = m.entry.hash /\ immature' = immature \cup {new}
      BY <1>4 DEF Announcing, WriteImmatureBlock, BlockEntry
  <2>2. candidates' = candidates \ {m.entry} /\ matured' = matured
      BY <1>4 DEF Announcing, WriteImmatureBlock
  <2> QED
      BY <2>1, <2>2, <1>s
<1>5. ASSUME NEW m \in live, NEW credits, NEW log, Paying(m, credits, log)
      PROVE  (\A b \in Blocks : Recorded(b) => Recorded(b)') /\ matured \subseteq matured'
  <2>1. PICK new : new.hash = m.entry.hash /\ matured' = matured \cup {new}
      BY <1>5 DEF Paying, WriteMaturedBlock, LeaveImmature, BlockEntry
  <2>2. candidates' = candidates /\ immature' = immature \ {m.entry}
      BY <1>5 DEF Paying, WriteMaturedBlock, LeaveImmature
  <2> QED
      BY <2>1, <2>2, <1>s
<1>6. ASSUME NEW e \in lost, NEW log, Voiding(e, log)
      PROVE  (\A b \in Blocks : Recorded(b) => Recorded(b)') /\ matured \subseteq matured'
  <2>1. PICK new : new.hash = e.hash /\ matured' = matured \cup {new}
      BY <1>6 DEF Voiding, WriteOrphan, LeaveImmature, BlockEntry
  <2>2. candidates' = candidates /\ immature' = immature \ {e}
      BY <1>6 DEF Voiding, WriteOrphan, LeaveImmature
  <2> QED
      BY <2>1, <2>2, <1>s
<1> QED
    BY <1>1, <1>2, <1>3, <1>4, <1>5, <1>6, EveryStepIsAMove DEF AMove

\* A recorded block stays in some stage, and a settled one stays settled as
\* it is, across every failure and restart.
THEOREM NeverForgottenCorrect == Spec => NeverForgotten
<1>1. Inv1 /\ [Next]_vars =>
        [(\A b \in Blocks : Recorded(b) => Recorded(b)') /\ matured \subseteq matured']_vars
    BY NeverForgottenStep
<1> QED
    BY <1>1, Inv1Correct, PTL DEF Spec, NeverForgotten

-----------------------------------------------------------------------------
(***************************************************************************)
(* A settled block was judged rightly for ever.  Between getblock and the  *)
(* transaction the chain goes on: the verdict must hold all that time, so  *)
(* the invariant speaks of every block of the lists the goroutine carries. *)
(***************************************************************************)
Deep(b, top) == HeightOf[b] <= top - Depth

Judged ==
    /\ \A e \in matured : Deep(e.hash, tip) /\ (e.orphan <=> ~OnChain(e.hash))
    /\ pass = "immature" =>
          /\ \A e \in todo : Deep(e.hash, height)
          /\ \A e \in lost : Deep(e.hash, height) /\ ~OnChain(e.hash)
          /\ \A m \in live : Deep(m.entry.hash, height) /\ OnChain(m.entry.hash)

\* A block as deep as any reorganisation is out of reach of every change of
\* the chain.
LEMMA DeepStays ==
    ASSUME Inv1, [Next]_vars, NEW depth \in Nat, ReorgDepth <= depth,
           NEW b \in Blocks, NEW top \in 0 .. tip, HeightOf[b] <= top - depth
    PROVE  HeightOf[b] <= tip' - depth /\ (OnChain(b)' <=> OnChain(b))
<1>1. /\ tip \in Nat /\ ReorgDepth \in Nat
      /\ HeightOf[b] \in Int /\ HeightOf[b] <= tip - depth
      /\ HeightOf[b] \in Heights
    BY ChainAssumption DEF Inv1, TypeOK, ChainTypeOK, Heights
<1>2. CASE UNCHANGED <<tip, chain>>
    BY <1>1, <1>2 DEF OnChain
<1>3. CASE ChainStep
  <2>1. CASE Extend
      BY <1>1, <2>1 DEF Extend, OnChain
  <2>2. CASE ChainReorganises
    <3>1. PICK k \in Heights, c \in accepted \cup {Foreign} : Reorg(k, c)
        BY <2>2 DEF ChainReorganises
    <3>2. k \in Int /\ HeightOf[b] < k /\ tip' = tip
        BY <1>1, <3>1 DEF Reorg, Heights
    <3>3. chain'[HeightOf[b]] = chain[HeightOf[b]]
        BY <1>1, <3>1, <3>2 DEF Reorg
    <3> QED
        BY <1>1, <3>2, <3>3 DEF OnChain
  <2>3. ASSUME NEW c \in Blocks, Accept(c) PROVE HeightOf[b] <= tip' - depth /\ (OnChain(b)' <=> OnChain(b))
    <3>1. tip' \in {tip, tip + 1} /\ chain' \in {chain, [chain EXCEPT ![tip + 1] = c]}
        BY <2>3 DEF Accept
    <3>2. chain \in [Heights -> Blocks \cup {Foreign}]
        BY DEF Inv1, TypeOK, ChainTypeOK
    <3>3. chain'[HeightOf[b]] = chain[HeightOf[b]]
        BY <1>1, <3>1, <3>2
    <3> QED
        BY <1>1, <3>1, <3>3 DEF OnChain
  <2> QED
      BY <1>3, <2>1, <2>2, <2>3 DEF ChainStep
<1>4. ChainStep \/ UNCHANGED <<tip, chain>>
    BY DEF Next, UnlockerStep, Reads, Writes, Fail, Suspended, Crash, IntakeStep, vars, chainVars
<1> QED
    BY <1>2, <1>3, <1>4

LEMMA DeepIsFinal ==
    ASSUME Inv1, [Next]_vars, ReorgDepth <= Depth,
           NEW b \in Blocks, NEW top \in 0 .. tip, Deep(b, top)
    PROVE  Deep(b, tip') /\ (OnChain(b)' <=> OnChain(b))
<1>1. Depth \in Nat
    BY UnlockerAssumption
<1> QED
    BY <1>1, DeepStays DEF Deep

ListsShrink ==
    \/ todo' = {} /\ lost' = {} /\ live' = {}
    \/ /\ pass' = pass /\ height' = height
       /\ todo' \subseteq todo /\ lost' \subseteq lost /\ live' \subseteq live

LEMMA GoOnShrinks ==
    ASSUME NEW blocks \in SUBSET live, Replied(GoOn(blocks, "load"))
    PROVE  ListsShrink
BY DEF Replied, GoOn, EndPass, Halt, Leave, ListsShrink

LEMMA JudgedStep ==
    ASSUME Inv1, Judged, [Next]_vars, ReorgDepth <= Depth
    PROVE  Judged'
<1> USE DEF Judged
<1>h. /\ \A e \in matured : e.hash \in Blocks
      /\ \A e \in todo \cup lost : e.hash \in Blocks
      /\ \A m \in live : m.entry.hash \in Blocks
      /\ height \in 0 .. tip /\ tip \in 0 .. tip /\ height \in Int /\ tip \in Int
      /\ pass \in Passes
  <2>1. \A e \in Stage(pass) : e.hash \in Blocks
      BY StageMembers DEF Inv1
  <2> QED
      BY <2>1 DEF Inv1, TypeOK, ControlTypeOK, ChainTypeOK, LedgerTypeOK, BlockEntries
<1>d. \A b \in Blocks : Deep(b, height) => Deep(b, tip)
    BY <1>h, ChainAssumption, UnlockerAssumption DEF Deep, Heights
\* While the chain moves, the goroutine's lists and the ledger stand still.
<1>1. CASE UNCHANGED <<matured, control>>
  <2>1. \A e \in matured : Deep(e.hash, tip)' /\ (OnChain(e.hash)' <=> OnChain(e.hash))
      BY <1>h, DeepIsFinal DEF Deep
  <2>2. pass = "immature" => \A e \in todo \cup lost : OnChain(e.hash)' <=> OnChain(e.hash)
      BY <1>h, DeepIsFinal
  <2>3. pass = "immature" => \A m \in live : OnChain(m.entry.hash)' <=> OnChain(m.entry.hash)
      BY <1>h, DeepIsFinal
  <2> QED
      BY <1>1, <2>1, <2>2, <2>3 DEF control, Deep
\* While the unlocker moves, the chain stands still.
<1>2. ASSUME UNCHANGED <<tip, chain>>, matured' = matured, ListsShrink PROVE Judged'
    BY <1>2 DEF ListsShrink, OnChain, Deep
<1>3. CASE Reads
  <2>0. UNCHANGED <<tip, chain, matured>>
      BY <1>3 DEF Reads, chainVars, ledgerVars
  <2>1. CASE GetMiningInfo
      BY <1>2, <2>0, <2>1 DEF GetMiningInfo, ListsShrink, Inv1, ListsApart
  <2>2. CASE ListBlocks
    <3>1. CASE EndPass
        BY <1>2, <2>0, <3>1 DEF EndPass, Leave, ListsShrink
    <3>2. CASE ~EndPass
      <4>1. /\ todo' = {e \in Stage(pass) : HeightOf[e.hash] <= height - DepthOf(pass)}
            /\ UNCHANGED <<pass, height, live, lost>> /\ live = {} /\ lost = {}
          BY <2>2, <3>2 DEF ListBlocks, Inv1, ListsApart
      <4>2. pass = "immature" => \A e \in todo' : Deep(e.hash, height)
          BY <4>1 DEF Deep, DepthOf
      <4> QED
          BY <2>0, <4>1, <4>2 DEF OnChain, Deep
    <3> QED
        BY <3>1, <3>2
  <2>3. ASSUME NEW e \in todo, CheckBlock(e) PROVE Judged'
    <3>1. UNCHANGED <<pass, height>> /\ todo' \subseteq todo
        BY <2>3 DEF CheckBlock
    <3>2. CASE OnChain(e.hash) /\ lost' = lost
               /\ \E r : live' = live \cup {[entry |-> e, reward |-> r]}
        BY <2>0, <3>1, <3>2 DEF OnChain, Deep
    <3>3. CASE ~OnChain(e.hash) /\ lost' = lost \cup {e} /\ live' = live
        BY <2>0, <3>1, <3>3 DEF OnChain, Deep
    <3> QED
        BY <2>3, <3>2, <3>3 DEF CheckBlock
  <2>4. CASE NoOrphans
      BY <1>2, <2>0, <2>4 DEF NoOrphans, GoOn, EndPass, Leave, ListsShrink
  <2>5. ASSUME NEW m \in live, LoadRound(m) PROVE Judged'
      BY <1>2, <2>0, <2>5 DEF LoadRound, ListsShrink
  <2> QED
      BY <1>3, <2>1, <2>2, <2>3, <2>4, <2>5 DEF Reads
<1>4. CASE Writes
  <2>0. UNCHANGED <<tip, chain>>
      BY <1>4 DEF Writes, chainVars
  <2>1. CASE PendingOrphans
      BY <1>2, <2>0, <2>1, GoOnShrinks DEF PendingOrphans, WritePendingOrphans
  <2>2. ASSUME NEW m \in live, Immature(m) PROVE Judged'
      BY <1>2, <2>0, <2>2, GoOnShrinks DEF Immature, WriteImmatureBlock
  <2>3. ASSUME NEW e \in lost, Orphan(e) PROVE Judged'
    <3>1. pass = "immature" /\ Deep(e.hash, tip) /\ ~OnChain(e.hash)
        BY <2>3, <1>h, <1>d DEF Orphan
    <3>2. matured' = matured \cup {BlockEntry(e, 0, TRUE)}
        BY <2>3 DEF Orphan, WriteOrphan, LeaveImmature
    <3>3. ListsShrink
      <4>1. CASE Replied(GoOn(live, "load"))
          BY <4>1, GoOnShrinks
      <4>2. CASE CanFail /\ Halt
          BY <4>2 DEF Halt, Leave, ListsShrink
      <4>3. CASE lost' = lost \ {e} /\ UNCHANGED <<pc, pass, height, todo, live, loaded>>
          BY <4>3 DEF ListsShrink
      <4> QED
          BY <2>3, <4>1, <4>2, <4>3 DEF Orphan, Replied
    <3>4. \A f \in matured' : Deep(f.hash, tip) /\ (f.orphan <=> ~OnChain(f.hash))
        BY <3>1, <3>2 DEF BlockEntry
    <3> QED
        BY <2>0, <3>3, <3>4 DEF ListsShrink, OnChain, Deep
  <2>4. ASSUME NEW m \in live, Mature(m) PROVE Judged'
    <3>1. pass = "immature" /\ Deep(m.entry.hash, tip) /\ OnChain(m.entry.hash)
        BY <2>4, <1>h, <1>d DEF Mature
    <3>2. matured' = matured \cup {BlockEntry(m.entry, m.reward, FALSE)}
        BY <2>4 DEF Mature, WriteMaturedBlock, LeaveImmature
    <3>3. ListsShrink
        BY <2>4, GoOnShrinks DEF Mature
    <3>4. \A f \in matured' : Deep(f.hash, tip) /\ (f.orphan <=> ~OnChain(f.hash))
        BY <3>1, <3>2 DEF BlockEntry
    <3> QED
        BY <2>0, <3>3, <3>4 DEF ListsShrink, OnChain, Deep
  <2> QED
      BY <1>4, <2>1, <2>2, <2>3, <2>4 DEF Writes
<1>5. CASE Fail \/ Crash
    BY <1>2, <1>5 DEF Fail, Crash, Halt, Leave, ListsShrink, chainVars, ledgerVars
<1>6. CASE ChainStep \/ IntakeStep \/ UNCHANGED vars
    BY <1>1, <1>6 DEF ChainStep, IntakeStep, vars, ledgerVars
<1> QED
    BY <1>3, <1>4, <1>5, <1>6 DEF Next, UnlockerStep, Suspended

\* If no reorganisation is deeper than Depth, a block is paid only if it is
\* in the chain for good and written off only if it never will be, however
\* the unlocker's calls, failures and restarts interleave with the chain.
THEOREM PaidIsFinalCorrect ==
    ASSUME ReorgDepth <= Depth
    PROVE  Spec => []PaidIsFinal
<1>1. Init => Judged
    BY DEF Init, LedgerInit, Judged
<1>2. Inv1 /\ Judged /\ [Next]_vars => Judged'
    BY JudgedStep
<1>3. Judged => PaidIsFinal
    BY DEF Judged, PaidIsFinal
<1> QED
    BY <1>1, <1>2, <1>3, Inv1Correct, PTL DEF Spec
=============================================================================
