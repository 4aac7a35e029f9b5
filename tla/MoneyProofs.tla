----------------------------- MODULE MoneyProofs -----------------------------
(***************************************************************************)
(* The money, for every set of blocks and miners and every configuration:  *)
(* the books balance, the unlocker implements Payout, and what a block is  *)
(* worth is what is announced and paid for it.                             *)
(*                                                                         *)
(* Where the code needs the reply of a read under Watch to arrive, or      *)
(* blocks to differ in height or round key, that is a hypothesis; the runs *)
(* that expect a violation show what happens without it.                   *)
(***************************************************************************)
EXTENDS UnlockerProofs, Sums

-----------------------------------------------------------------------------
(***************************************************************************)
(* Sums over the ledger.                                                   *)
(***************************************************************************)
\* There are finitely many accounts: two of them belong to the pool.
LEMMA AccountsFinite == IsFiniteSet(Accounts)
  <1>1. IsFiniteSet({DonationAccount}) /\ IsFiniteSet({PoolFeeAddress} \ {NoAddress})
    BY FS_EmptySet, FS_AddElement, FS_Subset
  <1>2. IsFiniteSet(Logins \cup {DonationAccount})
    BY SharesAssumption, <1>1, FS_Union
  <1> QED
    BY <1>1, <1>2, FS_Union DEF Accounts

\* The type of an account's sum over the credit logs.
LEMMA SumOverBlocksInt ==
    ASSUME NEW log \in [Blocks -> [Accounts -> Int]], NEW a \in Accounts
    PROVE  SumOverBlocks(log, a) \in Int
  <1>1. [b \in Blocks |-> log[b][a]] \in [Blocks -> Int]
    OBVIOUS
  <1> QED
    BY <1>1, ChainAssumption, SumInt DEF SumOverBlocks, TotalOf

\* One credit log is written anew.
LEMMA LogRewritten ==
    ASSUME NEW log \in [Blocks -> [Accounts -> Int]], NEW b \in Blocks,
           NEW new \in [Accounts -> Int], NEW a \in Accounts
    PROVE  SumOverBlocks([log EXCEPT ![b] = new], a)
             = SumOverBlocks(log, a) - log[b][a] + new[a]
  <1> DEFINE f == [c \in Blocks |-> log[c][a]]
  <1>1. f \in [Blocks -> Int] /\ new[a] \in Int /\ IsFiniteSet(Blocks)
    BY ChainAssumption
  <1>2. [c \in Blocks |-> [log EXCEPT ![b] = new][c][a]] = [f EXCEPT ![b] = new[a]]
    OBVIOUS
  <1>3. f[b] = log[b][a] /\ SumOverBlocks(log, a) = SumFunction(f)
    BY DEF SumOverBlocks, TotalOf
  <1> HIDE DEF f
  <1>4. SumFunction([f EXCEPT ![b] = new[a]]) = SumFunction(f) - f[b] + new[a]
    BY <1>1, SumUpdate
  <1> QED
    BY <1>2, <1>3, <1>4 DEF SumOverBlocks, TotalOf

\* Nothing is credited at first.
LEMMA NothingCredited ==
    ASSUME NEW a \in Accounts
    PROVE  SumOverBlocks([b \in Blocks |-> NoCredits], a) = 0
  <1>1. [b \in Blocks |-> [c \in Blocks |-> NoCredits][b][a]] = [b \in Blocks |-> 0]
    BY DEF NoCredits
  <1> QED
    BY <1>1, ChainAssumption, SumZero DEF SumOverBlocks, TotalOf

\* Totals of what two amount vectors add up to.
LEMMA TotalsAdd ==
    ASSUME NEW f \in [Accounts -> Int], NEW g \in [Accounts -> Int]
    PROVE  /\ TotalOf(Plus(f, g)) = TotalOf(f) + TotalOf(g)
           /\ TotalOf(Minus(f, g)) = TotalOf(f) - TotalOf(g)
           /\ TotalOf(f) \in Int /\ TotalOf(g) \in Int
BY AccountsFinite, SumPlus, SumMinus, SumInt DEF Plus, Minus, TotalOf

\* The blocks mined so far and one more.
LEMMA RewardsAdd ==
    ASSUME NEW entries \in SUBSET BlockEntries, IsFiniteSet(entries),
           NEW new \in BlockEntries, new \notin entries
    PROVE  TotalOf([e \in entries \cup {new} |-> e.reward])
             = TotalOf([e \in entries |-> e.reward]) + new.reward
  <1> DEFINE f == [e \in entries \cup {new} |-> e.reward]
  <1>1. f \in [entries \cup {new} -> Int] /\ f[new] = new.reward
        /\ [e \in entries |-> f[e]] = [e \in entries |-> e.reward]
    BY DEF BlockEntries
  <1> HIDE DEF f
  <1>2. SumFunction(f) = SumFunction([e \in entries |-> f[e]]) + f[new]
    BY <1>1, SumExtend
  <1> QED
    BY <1>1, <1>2 DEF TotalOf, f

-----------------------------------------------------------------------------
(***************************************************************************)
(* What a step does to the money.  Only three transactions move any, each  *)
(* for one block, whose log is empty before it is written.                 *)
(***************************************************************************)
amounts == <<matured, creditLog, paidLog, minerImmature, minerBalance, finances>>

\* The credit log of block b is taken back from the immature amounts.
TakesBack(b) ==
    /\ minerImmature' = Minus(minerImmature, creditLog[b])
    /\ creditLog' = [creditLog EXCEPT ![b] = NoCredits]

Announces(b, credits) ==
    /\ creditLog[b] = NoCredits
    /\ creditLog' = [creditLog EXCEPT ![b] = credits]
    /\ minerImmature' = Plus(minerImmature, credits)
    /\ finances' = [finances EXCEPT !.immature = @ + TotalOf(credits)]
    /\ UNCHANGED <<matured, paidLog, minerBalance>>

Pays(new, credits) ==
    /\ TakesBack(new.hash)
    /\ paidLog[new.hash] = NoCredits
    /\ paidLog' = [paidLog EXCEPT ![new.hash] = credits]
    /\ minerBalance' = Plus(minerBalance, credits)
    /\ new \in BlockEntries \ matured /\ matured' = matured \cup {new}
    /\ finances' = [immature |-> finances.immature - TotalOf(creditLog[new.hash]),
                    balance |-> finances.balance + TotalOf(credits),
                    totalMined |-> finances.totalMined + new.reward]

Voids(new) ==
    /\ TakesBack(new.hash)
    /\ new \in BlockEntries \ matured /\ matured' = matured \cup {new}
    /\ new.reward = 0
    /\ finances' = [finances EXCEPT !.immature = @ - TotalOf(creditLog[new.hash])]
    /\ UNCHANGED <<paidLog, minerBalance>>

Moves ==
    \/ UNCHANGED amounts
    \/ \E b \in Blocks : \E credits \in [Accounts -> Int] : Announces(b, credits)
    \/ \E new \in BlockEntries, credits \in [Accounts -> Int] : Pays(new, credits)
    \/ \E new \in BlockEntries : Voids(new)

\* HSetNX on a log that does not exist writes all of it.
LEMMA SetAbsentWrites ==
    ASSUME NEW credits \in [Accounts -> Int]
    PROVE  SetAbsent(NoCredits, credits) = credits
BY DEF SetAbsent, NoCredits

\* An entry that leaves blocks:immature is settled for the first time.
LEMMA FirstSettled ==
    ASSUME Inv1, OneStage, CreditsFollowStage, NEW e \in immature,
           NEW reward \in Int, NEW orphan \in BOOLEAN
    PROVE  /\ BlockEntry(e, reward, orphan) \in BlockEntries \ matured
           /\ BlockEntry(e, reward, orphan).hash = e.hash
           /\ BlockEntry(e, reward, orphan).reward = reward
           /\ e.hash \in Blocks /\ paidLog[e.hash] = NoCredits
  <1>1. e.hash \in Blocks /\ e.shares \in Nat \ {0}
    BY DEF Inv1, TypeOK, LedgerTypeOK, BlockEntries
  <1>2. \A f \in matured : f.hash # e.hash
    BY DEF OneStage
  <1>3. BlockEntry(e, reward, orphan) \in BlockEntries
    BY <1>1, EntryType
  <1> QED
    BY <1>1, <1>2, <1>3 DEF BlockEntry, CreditsFollowStage

LEMMA AnnouncementMoves ==
    ASSUME Inv1, OneStage, CreditsFollowStage, NEW m \in live, Immature(m)
    PROVE  Announces(m.entry.hash, Credits(m)) /\ Credits(m) \in [Accounts -> Int]
           /\ m.entry.hash \in Blocks
  <1>1. m.entry \in candidates /\ m.entry.hash \in Blocks
    BY DEF Immature, Inv1, TypeOK, ControlTypeOK, LedgerTypeOK, Stage, Candidates
  <1>2. creditLog[m.entry.hash] = NoCredits
    BY <1>1 DEF OneStage, CreditsFollowStage
  <1>3. Credits(m) \in [Accounts -> Int]
    BY CreditsType DEF Inv1
  <1>4. WriteImmatureBlock(m.entry, m.reward, Credits(m))
    BY DEF Immature
  <1>5. creditLog' = [creditLog EXCEPT ![m.entry.hash] = SetAbsent(NoCredits, Credits(m))]
    BY <1>2, <1>4 DEF WriteImmatureBlock
  <1> QED
    BY <1>1, <1>2, <1>3, <1>4, <1>5, SetAbsentWrites DEF WriteImmatureBlock, Announces

LEMMA PaymentMoves ==
    ASSUME Inv1, OneStage, CreditsFollowStage, BlindReads = FALSE, NEW m \in live, Mature(m)
    PROVE  /\ Pays(BlockEntry(m.entry, m.reward, FALSE), Credits(m))
           /\ Credits(m) \in [Accounts -> Int]
           /\ BlockEntry(m.entry, m.reward, FALSE) \in BlockEntries
  <1> DEFINE new == BlockEntry(m.entry, m.reward, FALSE)
  <1>1. m.entry \in immature /\ m.reward \in Int
    BY DEF Mature, Inv1, TypeOK, ControlTypeOK, Stage
  <1>2. /\ new \in BlockEntries \ matured /\ new.hash = m.entry.hash /\ new.reward = m.reward
        /\ m.entry.hash \in Blocks /\ paidLog[m.entry.hash] = NoCredits
    BY <1>1, FirstSettled
  <1>3. Credits(m) \in [Accounts -> Int]
    BY CreditsType DEF Inv1
  <1>4. CreditLogReads(m.entry.hash) = {creditLog[m.entry.hash]}
    BY DEF CreditLogReads
  <1>5. WriteMaturedBlock(m.entry, m.reward, Credits(m), creditLog[m.entry.hash])
    BY <1>4 DEF Mature
  <1>6. matured' = matured \cup {new}
    BY <1>5 DEF WriteMaturedBlock, LeaveImmature
  <1>7. paidLog' = [paidLog EXCEPT ![m.entry.hash] = SetAbsent(NoCredits, Credits(m))]
    BY <1>2, <1>5 DEF WriteMaturedBlock
  <1> HIDE DEF new
  <1>8. Pays(new, Credits(m))
    BY <1>2, <1>3, <1>5, <1>6, <1>7, SetAbsentWrites DEF WriteMaturedBlock, Pays, TakesBack
  <1> QED
    BY <1>2, <1>3, <1>8 DEF new

LEMMA WriteOffMoves ==
    ASSUME Inv1, OneStage, CreditsFollowStage, BlindReads = FALSE, NEW e \in lost, Orphan(e)
    PROVE  Voids(BlockEntry(e, 0, TRUE)) /\ BlockEntry(e, 0, TRUE) \in BlockEntries
  <1> DEFINE new == BlockEntry(e, 0, TRUE)
  <1>1. e \in immature
    BY DEF Orphan, Inv1, TypeOK, ControlTypeOK, Stage
  <1>2. new \in BlockEntries \ matured /\ new.hash = e.hash /\ new.reward = 0
    <2>1. 0 \in Int /\ TRUE \in BOOLEAN
      OBVIOUS
    <2> QED
      BY ONLY <1>1, <2>1, FirstSettled, Inv1, OneStage, CreditsFollowStage
  <1>3. WriteOrphan(e, creditLog[e.hash])
    BY DEF Orphan, CreditLogReads
  <1>4. matured' = matured \cup {new}
    BY <1>3 DEF WriteOrphan, LeaveImmature
  <1> HIDE DEF new
  <1>5. Voids(new)
    BY <1>2, <1>3, <1>4 DEF WriteOrphan, Voids, TakesBack
  <1> QED
    BY <1>2, <1>5 DEF new

LEMMA EveryStepMoves ==
    ASSUME Inv1, OneStage, CreditsFollowStage, BlindReads = FALSE, [Next]_vars
    PROVE  Moves
  <1>1. CASE PendingOrphans
    BY <1>1 DEF PendingOrphans, WritePendingOrphans, Moves, amounts
  <1>2. CASE Writes /\ ~PendingOrphans
    BY <1>2, AnnouncementMoves, PaymentMoves, WriteOffMoves DEF Writes, Moves
  <1>3. CASE Reads \/ Fail \/ Crash \/ ChainStep \/ IntakeStep \/ UNCHANGED vars
    BY <1>3 DEF Reads, Fail, Crash, ChainStep, IntakeStep, vars, ledgerVars, Moves, amounts
  <1> QED
    BY <1>1, <1>2, <1>3 DEF Next, UnlockerStep, Suspended, Writes

-----------------------------------------------------------------------------
(***************************************************************************)
(* The books balance.                                                      *)
(***************************************************************************)
Books ==
    /\ LedgerBalanced
    /\ IsFiniteSet(matured)
    /\ finances \in [immature : Int, balance : Int, totalMined : Int]

LEMMA BooksInit == Init => Books
  <1> SUFFICES ASSUME Init PROVE Books
    OBVIOUS
  <1>1. /\ creditLog = [b \in Blocks |-> NoCredits] /\ paidLog = [b \in Blocks |-> NoCredits]
        /\ minerImmature = NoCredits /\ minerBalance = NoCredits /\ matured = {}
        /\ finances = [immature |-> 0, balance |-> 0, totalMined |-> 0]
    BY DEF Init, LedgerInit
  <1>2. TotalOf(NoCredits) = 0
    BY AccountsFinite, SumZero DEF TotalOf, NoCredits
  <1>3. TotalOf([e \in matured |-> e.reward]) = 0 /\ IsFiniteSet(matured)
    <2>1. [e \in matured |-> e.reward] = [e \in {} |-> 0] /\ IsFiniteSet({})
      BY <1>1, FS_EmptySet
    <2> QED
      BY <1>1, <2>1, SumZero DEF TotalOf
  <1>4. \A a \in Accounts : NoCredits[a] = 0
    BY DEF NoCredits
  <1> QED
    BY <1>1, <1>2, <1>3, <1>4, NothingCredited DEF Books, LedgerBalanced

\* What taking a credit log back does to the immature amounts.
LEMMA TakenBack ==
    ASSUME Inv1, NEW b \in Blocks, TakesBack(b),
           \A a \in Accounts : minerImmature[a] = SumOverBlocks(creditLog, a)
    PROVE  /\ \A a \in Accounts : minerImmature'[a] = SumOverBlocks(creditLog, a)'
           /\ TotalOf(minerImmature)' = TotalOf(minerImmature) - TotalOf(creditLog[b])
           /\ TotalOf(minerImmature) \in Int /\ TotalOf(creditLog[b]) \in Int
  <1>1. creditLog \in [Blocks -> [Accounts -> Int]] /\ minerImmature \in [Accounts -> Int]
        /\ creditLog[b] \in [Accounts -> Int]
    BY DEF Inv1, TypeOK, LedgerTypeOK
  <1>2. ASSUME NEW a \in Accounts PROVE minerImmature'[a] = SumOverBlocks(creditLog, a)'
    <2>1. minerImmature'[a] = minerImmature[a] - creditLog[b][a]
      BY DEF TakesBack, Minus
    <2>2. SumOverBlocks(creditLog, a)' = SumOverBlocks(creditLog, a) - creditLog[b][a] + NoCredits[a]
      <3>1. SumOverBlocks(creditLog, a)' = SumOverBlocks(creditLog', a)
        BY DEF SumOverBlocks, TotalOf
      <3> QED
        BY <1>1, <3>1, NoCreditsType, LogRewritten DEF TakesBack
    <2>3. NoCredits[a] = 0 /\ creditLog[b][a] \in Int /\ SumOverBlocks(creditLog, a) \in Int
      BY <1>1, SumOverBlocksInt DEF NoCredits
    <2> QED
      BY <2>1, <2>2, <2>3
  <1>3. TotalOf(minerImmature)' = TotalOf(Minus(minerImmature, creditLog[b]))
    BY DEF TakesBack, TotalOf
  <1> QED
    BY <1>1, <1>2, <1>3, TotalsAdd

LEMMA AnnouncedBooks ==
    ASSUME Inv1, Books, NEW b \in Blocks, NEW credits \in [Accounts -> Int], Announces(b, credits)
    PROVE  Books'
  <1> USE DEF Announces
  <1>1. /\ creditLog \in [Blocks -> [Accounts -> Int]] /\ minerImmature \in [Accounts -> Int]
    BY DEF Inv1, TypeOK, LedgerTypeOK
  <1>2. ASSUME NEW a \in Accounts PROVE minerImmature'[a] = SumOverBlocks(creditLog, a)'
    <2>1. minerImmature'[a] = minerImmature[a] + credits[a]
      BY DEF Plus
    <2>2. SumOverBlocks(creditLog, a)' = SumOverBlocks(creditLog, a) - creditLog[b][a] + credits[a]
      <3>1. SumOverBlocks(creditLog, a)' = SumOverBlocks(creditLog', a)
        BY DEF SumOverBlocks, TotalOf
      <3> QED
        BY <1>1, <3>1, LogRewritten
    <2>3. creditLog[b][a] = 0 /\ credits[a] \in Int /\ SumOverBlocks(creditLog, a) \in Int
      BY <1>1, SumOverBlocksInt DEF NoCredits
    <2>4. minerImmature[a] = SumOverBlocks(creditLog, a)
      BY DEF Books, LedgerBalanced
    <2> QED
      BY <2>1, <2>2, <2>3, <2>4
  <1>3. TotalOf(minerImmature)' = TotalOf(minerImmature) + TotalOf(credits)
        /\ TotalOf(credits) \in Int
    <2>1. TotalOf(minerImmature)' = TotalOf(Plus(minerImmature, credits))
      BY DEF TotalOf
    <2> QED
      BY <1>1, <2>1, TotalsAdd
  <1>4. finances'.immature = TotalOf(minerImmature)'
        /\ finances' \in [immature : Int, balance : Int, totalMined : Int]
        /\ finances'.balance = finances.balance /\ finances'.totalMined = finances.totalMined
    BY <1>3 DEF Books, LedgerBalanced
  <1>5. UNCHANGED <<matured, paidLog, minerBalance>>
    OBVIOUS
  <1> QED
    BY ONLY <1>2, <1>4, <1>5, Books DEF Books, LedgerBalanced, SumOverBlocks, TotalOf

LEMMA PaidBooks ==
    ASSUME Inv1, Books, NEW new \in BlockEntries, NEW credits \in [Accounts -> Int],
           Pays(new, credits)
    PROVE  Books'
  <1> USE DEF Pays
  <1> DEFINE b == new.hash
  <1>1. /\ paidLog \in [Blocks -> [Accounts -> Int]] /\ minerBalance \in [Accounts -> Int]
        /\ b \in Blocks /\ new.reward \in Int /\ matured \subseteq BlockEntries
    BY DEF Inv1, TypeOK, LedgerTypeOK, BlockEntries
  <1>2. /\ \A a \in Accounts : minerImmature'[a] = SumOverBlocks(creditLog, a)'
        /\ TotalOf(minerImmature)' = TotalOf(minerImmature) - TotalOf(creditLog[b])
        /\ TotalOf(minerImmature) \in Int /\ TotalOf(creditLog[b]) \in Int
    BY <1>1, TakenBack DEF Books, LedgerBalanced
  <1>3. ASSUME NEW a \in Accounts PROVE minerBalance'[a] = SumOverBlocks(paidLog, a)'
    <2>1. minerBalance'[a] = minerBalance[a] + credits[a]
      BY DEF Plus
    <2>2. SumOverBlocks(paidLog, a)' = SumOverBlocks(paidLog, a) - paidLog[b][a] + credits[a]
      <3>1. SumOverBlocks(paidLog, a)' = SumOverBlocks(paidLog', a)
        BY DEF SumOverBlocks, TotalOf
      <3> QED
        BY <1>1, <3>1, LogRewritten
    <2>3. paidLog[b][a] = 0 /\ credits[a] \in Int /\ SumOverBlocks(paidLog, a) \in Int
      BY <1>1, SumOverBlocksInt DEF NoCredits
    <2>4. minerBalance[a] = SumOverBlocks(paidLog, a)
      BY DEF Books, LedgerBalanced
    <2> QED
      BY <2>1, <2>2, <2>3, <2>4
  <1>4. TotalOf(minerBalance)' = TotalOf(minerBalance) + TotalOf(credits)
        /\ TotalOf(minerBalance) \in Int /\ TotalOf(credits) \in Int
    <2>1. TotalOf(minerBalance)' = TotalOf(Plus(minerBalance, credits))
      BY DEF TotalOf
    <2> QED
      BY <1>1, <2>1, TotalsAdd
  <1>5. TotalOf([e \in matured |-> e.reward])' = TotalOf([e \in matured |-> e.reward]) + new.reward
        /\ IsFiniteSet(matured')
    <2>1. matured' = matured \cup {new} /\ new \notin matured /\ IsFiniteSet(matured)
      BY DEF Books
    <2>2. TotalOf([e \in matured |-> e.reward])' = TotalOf([e \in matured \cup {new} |-> e.reward])
      BY <2>1 DEF TotalOf
    <2> QED
      BY <1>1, <2>1, <2>2, RewardsAdd, FS_AddElement
  <1> HIDE DEF b
  <1>6. /\ finances'.immature = TotalOf(minerImmature)'
        /\ finances'.balance = TotalOf(minerBalance)'
        /\ finances'.totalMined = TotalOf([e \in matured |-> e.reward])'
        /\ finances' \in [immature : Int, balance : Int, totalMined : Int]
    <2>1. finances' = [immature |-> finances.immature - TotalOf(creditLog[b]),
                       balance |-> finances.balance + TotalOf(credits),
                       totalMined |-> finances.totalMined + new.reward]
      BY DEF b
    <2>2. /\ finances.immature = TotalOf(minerImmature)
          /\ finances.balance = TotalOf(minerBalance)
          /\ finances.totalMined = TotalOf([e \in matured |-> e.reward])
          /\ finances.totalMined \in Int
      BY DEF Books, LedgerBalanced
    <2> QED
      BY ONLY <1>1, <1>2, <1>4, <1>5, <2>1, <2>2
  <1> QED
    BY <1>2, <1>3, <1>5, <1>6 DEF Books, LedgerBalanced

LEMMA VoidedBooks ==
    ASSUME Inv1, Books, NEW new \in BlockEntries, Voids(new)
    PROVE  Books'
  <1> USE DEF Voids
  <1> DEFINE b == new.hash
  <1>1. b \in Blocks /\ matured \subseteq BlockEntries
    BY DEF Inv1, TypeOK, LedgerTypeOK, BlockEntries
  <1>2. /\ \A a \in Accounts : minerImmature'[a] = SumOverBlocks(creditLog, a)'
        /\ TotalOf(minerImmature)' = TotalOf(minerImmature) - TotalOf(creditLog[b])
        /\ TotalOf(minerImmature) \in Int /\ TotalOf(creditLog[b]) \in Int
    BY <1>1, TakenBack DEF Books, LedgerBalanced
  <1>3. TotalOf([e \in matured |-> e.reward])' = TotalOf([e \in matured |-> e.reward]) + 0
        /\ IsFiniteSet(matured')
    <2>1. matured' = matured \cup {new} /\ new \notin matured /\ IsFiniteSet(matured)
      BY DEF Books
    <2>2. TotalOf([e \in matured |-> e.reward])' = TotalOf([e \in matured \cup {new} |-> e.reward])
      BY <2>1 DEF TotalOf
    <2> QED
      BY <1>1, <2>1, <2>2, RewardsAdd, FS_AddElement
  <1> HIDE DEF b
  <1>4. /\ finances'.immature = TotalOf(minerImmature)'
        /\ finances'.balance = finances.balance
        /\ finances'.totalMined = TotalOf([e \in matured |-> e.reward])'
        /\ finances' \in [immature : Int, balance : Int, totalMined : Int]
    <2>1. finances' = [finances EXCEPT !.immature = @ - TotalOf(creditLog[b])]
      BY DEF b
    <2>2. /\ finances.immature = TotalOf(minerImmature)
          /\ finances.totalMined = TotalOf([e \in matured |-> e.reward])
          /\ finances \in [immature : Int, balance : Int, totalMined : Int]
      BY DEF Books, LedgerBalanced
    <2> QED
      BY ONLY <1>2, <1>3, <2>1, <2>2
  <1>5. UNCHANGED <<paidLog, minerBalance>>
    OBVIOUS
  <1> QED
    BY ONLY Books, <1>2, <1>3, <1>4, <1>5 DEF Books, LedgerBalanced, SumOverBlocks, TotalOf

LEMMA BooksStep ==
    ASSUME Inv1, OneStage, CreditsFollowStage, Books, BlindReads = FALSE, [Next]_vars
    PROVE  Books'
  <1>1. CASE UNCHANGED amounts
    BY <1>1 DEF amounts, Books, LedgerBalanced, SumOverBlocks, TotalOf
  <1> QED
    BY <1>1, EveryStepMoves, AnnouncedBooks, PaidBooks, VoidedBooks DEF Moves

\* Every immature amount and balance is the sum of the credit logs, and the
\* pool's finances are the sums over all accounts and blocks: no failure,
\* restart or reorganisation between the transactions loses or doubles a
\* zatoshi, provided the credit log that WriteMaturedBlock reads is the one
\* that is there (blind_read).
THEOREM LedgerBalancedCorrect ==
    ASSUME BlindReads = FALSE
    PROVE  Spec => []LedgerBalanced
  <1>1. Inv1 /\ OneStage /\ CreditsFollowStage /\ Books /\ [Next]_vars => Books'
    BY BooksStep
  <1>2. Books => LedgerBalanced
    BY DEF Books
  <1> QED
    BY <1>1, <1>2, BooksInit, Inv1Correct, OneStageCorrect, CreditsFollowStageCorrect, PTL DEF Spec

-----------------------------------------------------------------------------
(***************************************************************************)
(* The unlocker implements Payout.                                         *)
(***************************************************************************)
Stages == [b \in Blocks |-> StageOf(b)]

Waits(b) == \E e \in candidates : e.hash = b
Believed(b) == \E e \in immature : e.hash = b /\ ~e.orphan
Doubted(b) == \E e \in immature : e.hash = b /\ e.orphan
IsPaid(b) == \E e \in matured : e.hash = b /\ ~e.orphan
IsVoid(b) == \E e \in matured : e.hash = b /\ e.orphan

StagesByList ==
    \A b \in Blocks :
        /\ Waits(b) => StageOf(b) = "candidate"
        /\ Believed(b) => StageOf(b) = "announced"
        /\ Doubted(b) => StageOf(b) = "doubted"
        /\ IsPaid(b) => StageOf(b) = "paid"
        /\ IsVoid(b) => StageOf(b) = "void"
        /\ ~Recorded(b) => StageOf(b) = "unknown"

\* The stage of a block is the list its entry is in.
LEMMA StageByList == OneStage => StagesByList
  <1> SUFFICES ASSUME OneStage, NEW b \in Blocks
               PROVE  /\ Waits(b) => StageOf(b) = "candidate"
                      /\ Believed(b) => StageOf(b) = "announced"
                      /\ Doubted(b) => StageOf(b) = "doubted"
                      /\ IsPaid(b) => StageOf(b) = "paid"
                      /\ IsVoid(b) => StageOf(b) = "void"
                      /\ ~Recorded(b) => StageOf(b) = "unknown"
    BY DEF StagesByList
  <1>1. /\ Waits(b) => ~Believed(b) /\ ~Doubted(b) /\ ~IsPaid(b) /\ ~IsVoid(b)
        /\ Believed(b) => ~Doubted(b) /\ ~IsPaid(b) /\ ~IsVoid(b)
        /\ Doubted(b) => ~IsPaid(b) /\ ~IsVoid(b)
        /\ IsPaid(b) => ~IsVoid(b)
        /\ ~Recorded(b) => ~Waits(b) /\ ~Believed(b) /\ ~Doubted(b) /\ ~IsPaid(b) /\ ~IsVoid(b)
    BY DEF OneStage, Waits, Believed, Doubted, IsPaid, IsVoid, Recorded
  <1>2. StageOf(b) = CASE Waits(b) -> "candidate" [] Believed(b) -> "announced"
                       [] Doubted(b) -> "doubted" [] IsPaid(b) -> "paid"
                       [] IsVoid(b) -> "void" [] OTHER -> "unknown"
    <2>1. b \in HashesOf(candidates) <=> Waits(b)
      BY DEF HashesOf, Waits
    <2> QED
      BY <2>1 DEF StageOf, Believed, Doubted, IsPaid, IsVoid
  <1> QED
    BY <1>1, <1>2

\* The same after a step.
LEMMA StageByListNext == OneStage' => StagesByList'
BY StageByList, PTL

\* A block whose entries stay where they are keeps its stage.
LEMMA StageKept ==
    ASSUME NEW b \in Blocks,
           Waits(b)' <=> Waits(b), Believed(b)' <=> Believed(b), Doubted(b)' <=> Doubted(b),
           IsPaid(b)' <=> IsPaid(b), IsVoid(b)' <=> IsVoid(b)
    PROVE  StageOf(b)' = StageOf(b)
  <1>1. StageOf(b) = CASE Waits(b) -> "candidate" [] Believed(b) -> "announced"
                       [] Doubted(b) -> "doubted" [] IsPaid(b) -> "paid"
                       [] IsVoid(b) -> "void" [] OTHER -> "unknown"
    BY DEF StageOf, HashesOf, Waits, Believed, Doubted, IsPaid, IsVoid
  <1>2. StageOf(b)' = CASE Waits(b)' -> "candidate" [] Believed(b)' -> "announced"
                        [] Doubted(b)' -> "doubted" [] IsPaid(b)' -> "paid"
                        [] IsVoid(b)' -> "void" [] OTHER -> "unknown"
    BY DEF StageOf, HashesOf, Waits, Believed, Doubted, IsPaid, IsVoid
  <1> QED
    BY <1>1, <1>2

\* The entries of all blocks but b stay in their lists.
OthersStay(b) ==
    \A c \in Blocks \ {b} :
        /\ Waits(c)' <=> Waits(c)
        /\ Believed(c)' <=> Believed(c)
        /\ Doubted(c)' <=> Doubted(c)
        /\ IsPaid(c)' <=> IsPaid(c)
        /\ IsVoid(c)' <=> IsVoid(c)

\* One block moves.
LEMMA StageMoves ==
    ASSUME NEW b \in Blocks, OthersStay(b)
    PROVE  Stages' = [Stages EXCEPT ![b] = StageOf(b)']
  <1>1. \A c \in Blocks \ {b} : StageOf(c)' = StageOf(c)
    BY StageKept DEF OthersStay
  <1>2. Stages' = [c \in Blocks |-> StageOf(c)']
    BY DEF Stages
  <1> QED
    BY <1>1, <1>2 DEF Stages

\* No block moves.
LEMMA StagesStay ==
    ASSUME UNCHANGED <<candidates, immature, matured>>
    PROVE  Stages' = Stages
BY DEF Stages, StageOf, HashesOf

\* The books are the sums of the logs, as Payout has them.
LEMMA BooksAreAmounts ==
    ASSUME NEW log \in [Blocks -> [Accounts -> Int]], NEW sums \in [Accounts -> Int],
           \A a \in Accounts : sums[a] = SumOverBlocks(log, a)
    PROVE  sums = P!Amounts(log)
  <1>1. P!Amounts(log) = [a \in Accounts |-> SumOverBlocks(log, a)]
    BY DEF P!Amounts, P!SumFunction, P!SumFunctionOnSet, P!FoldFunctionOnSet, P!MapThenFoldSet,
           SumOverBlocks, TotalOf, SumFunction, SumFunctionOnSet, FoldFunctionOnSet, MapThenFoldSet
  <1> QED
    BY <1>1

LEMMA BooksKept ==
    ASSUME Inv1', Books'
    PROVE  P!Book
  <1>1. /\ creditLog' \in [Blocks -> [Accounts -> Int]]
        /\ paidLog' \in [Blocks -> [Accounts -> Int]]
        /\ minerImmature' \in [Accounts -> Int] /\ minerBalance' \in [Accounts -> Int]
    BY DEF Inv1, TypeOK, LedgerTypeOK
  <1>2. \A a \in Accounts : minerImmature'[a] = SumOverBlocks(creditLog', a)
    BY DEF Books, LedgerBalanced, SumOverBlocks, TotalOf
  <1>3. \A a \in Accounts : minerBalance'[a] = SumOverBlocks(paidLog', a)
    BY DEF Books, LedgerBalanced, SumOverBlocks, TotalOf
  <1>4. minerImmature' = P!Amounts(creditLog')
    BY <1>1, <1>2, BooksAreAmounts
  <1>5. minerBalance' = P!Amounts(paidLog')
    BY <1>1, <1>3, BooksAreAmounts
  <1> QED
    BY <1>4, <1>5 DEF P!Book

Promised == Inv1 /\ OneStage /\ CreditsFollowStage /\ Books

LEMMA PromisedStep ==
    ASSUME Promised, BlindReads = FALSE, [Next]_vars
    PROVE  Promised'
BY Inv1Step, OneStageStep, CreditsStep, BooksStep DEF Promised

LEMMA FindsIt ==
    ASSUME Promised, Promised', NEW e \in closed, Recording(e), e.hash \in Blocks,
           UNCHANGED <<minerImmature, minerBalance>>
    PROVE  P!Find(e.hash)
  <1> DEFINE b == e.hash
  <1>1. /\ candidates' = candidates \cup {e} /\ ~Recorded(b)
        /\ UNCHANGED <<immature, matured, creditLog, paidLog>>
    BY DEF Recording
  <1>2. OthersStay(b)
    BY <1>1 DEF OthersStay, Waits, Believed, Doubted, IsPaid, IsVoid
  <1>3. Waits(b)'
    BY <1>1 DEF Waits
  <1> HIDE DEF b
  <1>4. b \in Blocks
    BY DEF b
  <1>5. StageOf(b) = "unknown"
    BY <1>1, <1>4, StageByList DEF Promised, StagesByList
  <1>6. StageOf(b)' = "candidate"
    BY <1>3, <1>4, StageByListNext DEF Promised, StagesByList
  <1> QED
    BY <1>1, <1>2, <1>4, <1>5, <1>6, StageMoves DEF P!Find, P!Move, Stages, b

LEMMA DoubtsThem ==
    ASSUME Promised, Promised', PendingOrphans
    PROVE  P!Doubt({e.hash : e \in lost})
  <1> DEFINE S == {e.hash : e \in lost}
  <1>1. /\ candidates' = candidates \ lost /\ lost \subseteq candidates
        /\ immature' = immature \cup {BlockEntry(e, 0, TRUE) : e \in lost}
        /\ UNCHANGED <<matured, creditLog, paidLog, minerImmature, minerBalance>>
    BY DEF PendingOrphans, WritePendingOrphans, Promised, Inv1, TypeOK, ControlTypeOK, Stage
  <1>2. \A e, f \in candidates : e.hash = f.hash => e = f
    BY DEF Promised, OneStage
  <1>3. \A e \in lost : BlockEntry(e, 0, TRUE).hash = e.hash /\ BlockEntry(e, 0, TRUE).orphan
    BY DEF BlockEntry
  <1>4. ASSUME NEW b \in S PROVE Waits(b) /\ Doubted(b)'
    BY <1>1, <1>3 DEF Waits, Doubted
  <1>5. ASSUME NEW b \in Blocks, b \notin S PROVE StageOf(b)' = StageOf(b)
    <2>1. Waits(b)' <=> Waits(b)
      BY <1>1, <1>5 DEF Waits
    <2>2. (Believed(b)' <=> Believed(b)) /\ (Doubted(b)' <=> Doubted(b))
      BY <1>1, <1>3, <1>5 DEF Believed, Doubted
    <2>3. (IsPaid(b)' <=> IsPaid(b)) /\ (IsVoid(b)' <=> IsVoid(b))
      BY <1>1 DEF IsPaid, IsVoid
    <2> QED
      BY <2>1, <2>2, <2>3, StageKept
  <1>6. S \subseteq Blocks
    BY <1>1 DEF Promised, Inv1, TypeOK, LedgerTypeOK, Candidates
  <1>7. \A b \in S : StageOf(b) = "candidate" /\ StageOf(b)' = "doubted"
    BY <1>4, <1>6, StageByList, StageByListNext DEF Promised, StagesByList
  <1> HIDE DEF S
  <1>8. Stages' = [b \in Blocks |-> IF b \in S THEN "doubted" ELSE Stages[b]]
    BY <1>5, <1>6, <1>7 DEF Stages
  <1>9. \A b \in S : Stages[b] = "candidate"
    BY <1>6, <1>7 DEF Stages
  <1> QED
    BY <1>1, <1>8, <1>9 DEF P!Doubt, Stages, S

LEMMA AnnouncesIt ==
    ASSUME Promised, Promised', NEW m \in live, Immature(m)
    PROVE  m.entry.hash \in Blocks /\ P!Announce(m.entry.hash)
  <1> DEFINE b == m.entry.hash
             new == BlockEntry(m.entry, m.reward, FALSE)
  <1>1. b \in Blocks /\ Announces(b, Credits(m))
    BY AnnouncementMoves DEF Promised
  <1>2. /\ m.entry \in candidates /\ candidates' = candidates \ {m.entry}
        /\ immature' = immature \cup {new} /\ matured' = matured
    BY DEF Immature, WriteImmatureBlock, Promised, Inv1, TypeOK, ControlTypeOK, Stage
  <1>3. new.hash = b /\ ~new.orphan
    BY DEF BlockEntry
  <1> HIDE DEF new
  <1>4. OthersStay(b)
    BY <1>2, <1>3 DEF OthersStay, Waits, Believed, Doubted, IsPaid, IsVoid
  <1>5. Waits(b) /\ Believed(b)'
    BY <1>2, <1>3 DEF Waits, Believed
  <1>6. StageOf(b) = "candidate" /\ StageOf(b)' = "announced"
    BY <1>1, <1>5, StageByList, StageByListNext DEF Promised, StagesByList
  <1>7. P!Move(b, {"candidate"}, "announced")
    BY <1>1, <1>4, <1>6, StageMoves DEF P!Move, Stages
  <1>8. creditLog' = [creditLog EXCEPT ![b] = creditLog'[b]]
    <2>1. creditLog \in [Blocks -> [Accounts -> Int]] /\ creditLog' = [creditLog EXCEPT ![b] = Credits(m)]
      BY <1>1 DEF Announces, Promised, Inv1, TypeOK, LedgerTypeOK
    <2> QED
      BY <1>1, <2>1
  <1> HIDE DEF b
  <1>9. P!Announce(b)
    BY <1>1, <1>7, <1>8, BooksKept DEF P!Announce, Announces, Promised
  <1> QED
    BY <1>1, <1>9 DEF b

\* An entry moves from blocks:immature to blocks:matured.
LEMMA Settles ==
    ASSUME Promised, Promised', NEW e \in immature, NEW new \in BlockEntries,
           new.hash = e.hash, immature' = immature \ {e}, matured' = matured \cup {new},
           candidates' = candidates
    PROVE  /\ e.hash \in Blocks
           /\ P!Move(e.hash, {"announced", "doubted"}, IF new.orphan THEN "void" ELSE "paid")
  <1> DEFINE b == e.hash
  <1>1. b \in Blocks
    BY DEF Promised, Inv1, TypeOK, LedgerTypeOK, BlockEntries
  <1>2. OthersStay(b)
    BY DEF OthersStay, Waits, Believed, Doubted, IsPaid, IsVoid
  <1>3. (Believed(b) \/ Doubted(b)) /\ (IF new.orphan THEN IsVoid(b)' ELSE IsPaid(b)')
    BY DEF Believed, Doubted, IsPaid, IsVoid
  <1> HIDE DEF b
  <1>4. StageOf(b) \in {"announced", "doubted"}
    BY <1>1, <1>3, StageByList DEF Promised, StagesByList
  <1>5. StageOf(b)' = IF new.orphan THEN "void" ELSE "paid"
    BY <1>1, <1>3, StageByListNext DEF Promised, StagesByList
  <1>6. P!Move(b, {"announced", "doubted"}, IF new.orphan THEN "void" ELSE "paid")
    BY <1>1, <1>2, <1>4, <1>5, StageMoves DEF P!Move, Stages
  <1> QED
    BY <1>1, <1>6 DEF b

LEMMA PaysIt ==
    ASSUME Promised, Promised', BlindReads = FALSE, NEW m \in live, Mature(m)
    PROVE  m.entry.hash \in Blocks /\ P!Pay(m.entry.hash)
  <1> DEFINE b == m.entry.hash
             new == BlockEntry(m.entry, m.reward, FALSE)
  <1>1. Pays(new, Credits(m)) /\ new \in BlockEntries
    BY PaymentMoves DEF Promised
  <1>2. /\ m.entry \in immature /\ immature' = immature \ {m.entry}
        /\ matured' = matured \cup {new} /\ candidates' = candidates
    BY DEF Mature, WriteMaturedBlock, LeaveImmature, Promised, Inv1, TypeOK, ControlTypeOK, Stage
  <1>3. new.hash = b /\ ~new.orphan
    BY DEF BlockEntry
  <1> HIDE DEF new
  <1>4. b \in Blocks /\ P!Move(b, {"announced", "doubted"}, "paid")
    BY <1>1, <1>2, <1>3, Settles
  <1>5. paidLog' = [paidLog EXCEPT ![b] = paidLog'[b]]
    <2>1. paidLog \in [Blocks -> [Accounts -> Int]] /\ paidLog' = [paidLog EXCEPT ![b] = Credits(m)]
      BY <1>1, <1>3 DEF Pays, Promised, Inv1, TypeOK, LedgerTypeOK
    <2> QED
      BY <1>4, <2>1
  <1>6. creditLog' = [creditLog EXCEPT ![b] = P!Nothing]
    BY <1>1, <1>3 DEF Pays, TakesBack, P!Nothing, NoCredits
  <1> HIDE DEF b
  <1>7. P!Pay(b)
    BY <1>4, <1>5, <1>6, BooksKept DEF P!Pay, Promised
  <1> QED
    BY <1>4, <1>7 DEF b

LEMMA VoidsIt ==
    ASSUME Promised, Promised', BlindReads = FALSE, NEW e \in lost, Orphan(e)
    PROVE  e.hash \in Blocks /\ P!Void(e.hash)
  <1> DEFINE b == e.hash
             new == BlockEntry(e, 0, TRUE)
  <1>1. Voids(new) /\ new \in BlockEntries
    BY WriteOffMoves DEF Promised
  <1>2. /\ e \in immature /\ immature' = immature \ {e}
        /\ matured' = matured \cup {new} /\ candidates' = candidates
    BY DEF Orphan, WriteOrphan, LeaveImmature, Promised, Inv1, TypeOK, ControlTypeOK, Stage
  <1>3. new.hash = b /\ new.orphan
    BY DEF BlockEntry
  <1> HIDE DEF new
  <1>4. b \in Blocks /\ P!Move(b, {"announced", "doubted"}, "void")
    BY <1>1, <1>2, <1>3, Settles
  <1>5. creditLog' = [creditLog EXCEPT ![b] = P!Nothing] /\ paidLog' = paidLog
    BY <1>1, <1>3 DEF Voids, TakesBack, P!Nothing, NoCredits
  <1> HIDE DEF b
  <1>6. P!Void(b)
    BY <1>4, <1>5, BooksKept DEF P!Void, Promised
  <1> QED
    BY <1>4, <1>6 DEF b

\* Whatever leaves the lists and the money alone is a stutter.
LEMMA Stutters ==
    ASSUME UNCHANGED <<candidates, immature, matured, creditLog, paidLog,
                       minerImmature, minerBalance>>
    PROVE  UNCHANGED P!vars
BY StagesStay DEF P!vars, Stages

LEMMA StepImplements ==
    ASSUME Promised, BlindReads = FALSE, [Next]_vars
    PROVE  [P!Next]_(P!vars)
  <1>1. Promised'
    BY PromisedStep
  <1>2. CASE Writes
    <2>1. CASE PendingOrphans
      <3>1. P!Doubt({e.hash : e \in lost})
        BY <1>1, <2>1, DoubtsThem
      <3>2. {e.hash : e \in lost} \subseteq Blocks
        BY <2>1 DEF PendingOrphans, Promised, Inv1, TypeOK, ControlTypeOK, LedgerTypeOK,
                    Stage, Candidates
      <3> QED
        BY <3>1, <3>2 DEF P!Next
    <2>2. ASSUME NEW e \in lost, Orphan(e) PROVE P!Next
      BY <1>1, <2>2, VoidsIt DEF P!Next
    <2>3. ASSUME NEW m \in live, Immature(m) PROVE P!Next
      BY <1>1, <2>3, AnnouncesIt DEF P!Next
    <2>4. ASSUME NEW m \in live, Mature(m) PROVE P!Next
      BY <1>1, <2>4, PaysIt DEF P!Next
    <2> QED
      BY <1>2, <2>1, <2>2, <2>3, <2>4 DEF Writes
  <1>3. CASE IntakeStep
    <2>1. CASE \E b \in accepted \ HashesOf(closed), f \in RoundChoices : CloseRound(b, f)
      BY <1>3, <2>1, Stutters DEF IntakeStep, CloseRound, ledgerVars
    <2>2. ASSUME NEW e \in closed, ~Recorded(e.hash), Record(e) PROVE P!Next
      <3>1. Recording(e) /\ UNCHANGED <<minerImmature, minerBalance>>
        BY <1>3, <2>2 DEF IntakeStep, Record, Recording, ledgerVars
      <3>2. e.hash \in Blocks
        BY DEF Promised, Inv1, TypeOK, LedgerTypeOK, Candidates
      <3> QED
        BY <1>1, <3>1, <3>2, FindsIt DEF P!Next
    <2> QED
      BY <1>3, <2>1, <2>2 DEF IntakeStep
  <1>4. CASE Reads \/ Fail \/ Crash \/ ChainStep \/ UNCHANGED vars
    BY <1>4, Stutters DEF Reads, Fail, Crash, ChainStep, vars, roundVars, ledgerVars
  <1> QED
    BY <1>2, <1>3, <1>4 DEF Next, UnlockerStep, Suspended

LEMMA InitImplements == Init => P!Init
  <1> SUFFICES ASSUME Init PROVE P!Init
    OBVIOUS
  <1>1. /\ candidates = {} /\ immature = {} /\ matured = {}
        /\ creditLog = [b \in Blocks |-> NoCredits] /\ paidLog = [b \in Blocks |-> NoCredits]
        /\ minerImmature = NoCredits /\ minerBalance = NoCredits
    BY DEF Init, RoundsInit, LedgerInit
  <1>2. OneStage /\ \A b \in Blocks : ~Recorded(b)
    BY <1>1 DEF OneStage, Recorded
  <1>3. \A b \in Blocks : StageOf(b) = "unknown"
    BY <1>2, StageByList DEF StagesByList
  <1> QED
    BY <1>1, <1>3 DEF P!Init, P!Nothing, NoCredits

\* The unlocker implements Payout: whatever fails, crashes or reorganises,
\* blocks go through the stages one at a time, and an account's immature
\* amount and balance are the sums of what was announced and paid to it.
THEOREM ImplementsPayoutCorrect ==
    ASSUME BlindReads = FALSE
    PROVE  Spec => ImplementsPayout
  <1>1. Init => Promised
    BY Inv1Init, BooksInit DEF Promised, Init, RoundsInit, LedgerInit, OneStage, CreditsFollowStage
  <1>2. Promised /\ [Next]_vars => Promised'
    BY PromisedStep
  <1>3. Promised /\ [Next]_vars => [P!Next]_(P!vars)
    BY StepImplements
  <1> QED
    BY <1>1, <1>2, <1>3, InitImplements, PTL DEF Spec, ImplementsPayout, P!Spec

-----------------------------------------------------------------------------
(***************************************************************************)
(* What was announced is taken back.                                       *)
(***************************************************************************)
\* The immature amounts go down by exactly what a block's announcement had
\* added, when the block is paid or written off, provided the credit log
\* that WriteMaturedBlock reads is the one that is there.
THEOREM TakesBackAnnouncedCorrect ==
    ASSUME BlindReads = FALSE
    PROVE  Spec => TakesBackAnnounced
  <1> DEFINE Taken == \A b \in Blocks : creditLog[b] # NoCredits /\ creditLog'[b] = NoCredits =>
                          minerImmature' = Minus(minerImmature, creditLog[b])
  <1>1. Promised /\ [Next]_vars => Taken
    <2> SUFFICES ASSUME Promised, [Next]_vars, NEW b \in Blocks,
                        creditLog[b] # NoCredits, creditLog'[b] = NoCredits
                 PROVE  minerImmature' = Minus(minerImmature, creditLog[b])
      OBVIOUS
    <2>1. creditLog \in [Blocks -> [Accounts -> Int]]
      BY DEF Promised, Inv1, TypeOK, LedgerTypeOK
    <2>2. ASSUME NEW c \in Blocks, TakesBack(c) PROVE minerImmature' = Minus(minerImmature, creditLog[b])
      <3>1. b = c
        BY <2>1, <2>2 DEF TakesBack
      <3> QED
        BY <2>2, <3>1 DEF TakesBack
    <2>3. ~(\E c \in Blocks : \E credits \in [Accounts -> Int] : Announces(c, credits))
      BY <2>1 DEF Announces
    <2>4. Moves
      BY EveryStepMoves DEF Promised
    <2> QED
      BY <2>2, <2>3, <2>4 DEF Moves, amounts, Pays, Voids, BlockEntries
  <1>2. Init => Promised
    BY Inv1Init, BooksInit DEF Promised, Init, RoundsInit, LedgerInit, OneStage, CreditsFollowStage
  <1>3. Promised /\ [Next]_vars => Promised'
    BY PromisedStep
  <1> QED
    BY <1>1, <1>2, <1>3, PTL DEF Spec, TakesBackAnnounced

-----------------------------------------------------------------------------
(***************************************************************************)
(* The round of a block that is not settled is the one it was closed with, *)
(* and every entry of the block carries the sum of that round.             *)
(***************************************************************************)
RoundsRight ==
    /\ \A c \in closed : ~Settled(c.hash) => TotalOf(rounds[RoundKey(c.hash)]) = c.shares
    /\ candidates \subseteq closed
    /\ \A e \in immature : \E c \in closed : c.hash = e.hash /\ c.shares = e.shares

\* A round that leaves blocks:immature takes no other block's shares along.
LEMMA SettlingKeepsRounds ==
    ASSUME KeysApart, Inv1, RoundsRight, NEW e \in immature, NEW reward, NEW orphan,
           LeaveImmature(e, reward, orphan), UNCHANGED <<candidates, closed>>
    PROVE  RoundsRight'
  <1>1. /\ e.hash \in Blocks /\ rounds \in [RoundKeys -> [Logins -> Nat]]
        /\ \A c \in closed : c.hash \in Blocks
    BY DEF Inv1, TypeOK, LedgerTypeOK, BlockEntries, Candidates
  <1>2. BlockEntry(e, reward, orphan).hash = e.hash
    BY DEF BlockEntry
  <1>3. Settled(e.hash)' /\ immature' \subseteq immature
        /\ \A b \in Blocks : Settled(b) => Settled(b)'
    BY <1>2 DEF LeaveImmature, Settled
  <1>4. ASSUME NEW c \in closed, ~Settled(c.hash)'
        PROVE  TotalOf(rounds[RoundKey(c.hash)])' = c.shares
    <2>1. c.hash # e.hash /\ ~Settled(c.hash) /\ c.hash \in Blocks
      BY <1>1, <1>3, <1>4
    <2>2. RoundKey(c.hash) # RoundKey(e.hash) /\ RoundKey(c.hash) \in RoundKeys
      BY <1>1, <2>1 DEF KeysApart, RoundKeys
    <2>3. rounds'[RoundKey(c.hash)] = rounds[RoundKey(c.hash)]
      BY <1>1, <2>2 DEF LeaveImmature
    <2> QED
      BY <2>1, <2>3 DEF RoundsRight, TotalOf, RoundKey
  <1> QED
    BY <1>3, <1>4 DEF RoundsRight

LEMMA RoundsRightWrites ==
    ASSUME KeysApart, Inv1, RoundsRight, Writes
    PROVE  RoundsRight'
  <1>1. closed' = closed
    BY DEF Writes
  <1>2. CASE PendingOrphans
    <2>1. /\ candidates' = candidates \ lost /\ UNCHANGED <<rounds, matured>>
          /\ immature' = immature \cup {BlockEntry(e, 0, TRUE) : e \in lost}
          /\ lost \subseteq candidates
      BY <1>2 DEF PendingOrphans, WritePendingOrphans, Inv1, TypeOK, ControlTypeOK, Stage
    <2>2. \A e \in lost : BlockEntry(e, 0, TRUE).hash = e.hash /\ BlockEntry(e, 0, TRUE).shares = e.shares
      BY DEF BlockEntry
    <2>3. \A e \in immature' : \E c \in closed : c.hash = e.hash /\ c.shares = e.shares
      <3>1. ASSUME NEW e \in lost
            PROVE  \E c \in closed : c.hash = BlockEntry(e, 0, TRUE).hash
                                     /\ c.shares = BlockEntry(e, 0, TRUE).shares
        <4>1. e \in closed
          BY <2>1 DEF RoundsRight
        <4> QED
          BY <2>2, <4>1
      <3> QED
        BY <2>1, <3>1 DEF RoundsRight
    <2>4. \A c \in closed' : ~Settled(c.hash)' => TotalOf(rounds[RoundKey(c.hash)])' = c.shares
      BY <1>1, <2>1 DEF RoundsRight, Settled, TotalOf, RoundKey
    <2> QED
      BY <1>1, <2>1, <2>3, <2>4 DEF RoundsRight
  <1>3. ASSUME NEW m \in live, Immature(m) PROVE RoundsRight'
    <2> DEFINE new == BlockEntry(m.entry, m.reward, FALSE)
    <2>1. /\ candidates' = candidates \ {m.entry} /\ UNCHANGED <<rounds, matured>>
          /\ immature' = immature \cup {new} /\ m.entry \in candidates
      BY <1>3 DEF Immature, WriteImmatureBlock, Inv1, TypeOK, ControlTypeOK, Stage
    <2>2. new.hash = m.entry.hash /\ new.shares = m.entry.shares
      BY DEF BlockEntry
    <2> HIDE DEF new
    <2> QED
      BY <1>1, <2>1, <2>2 DEF RoundsRight, Settled
  <1>4. ASSUME NEW m \in live, Mature(m) PROVE RoundsRight'
    <2>1. LeaveImmature(m.entry, m.reward, FALSE) /\ UNCHANGED candidates /\ m.entry \in immature
      BY <1>4 DEF Mature, WriteMaturedBlock, Inv1, TypeOK, ControlTypeOK, Stage
    <2> QED
      BY <1>1, <2>1, SettlingKeepsRounds
  <1>5. ASSUME NEW e \in lost, Orphan(e) PROVE RoundsRight'
    <2>1. LeaveImmature(e, 0, TRUE) /\ UNCHANGED candidates /\ e \in immature
      BY <1>5 DEF Orphan, WriteOrphan, Inv1, TypeOK, ControlTypeOK, Stage
    <2> QED
      BY <1>1, <2>1, SettlingKeepsRounds
  <1> QED
    BY <1>2, <1>3, <1>4, <1>5 DEF Writes

LEMMA RoundsRightIntake ==
    ASSUME KeysApart, Inv1, RoundsRight, IntakeStep
    PROVE  RoundsRight'
  <1>0. UNCHANGED <<immature, matured>>
    BY DEF IntakeStep, ledgerVars
  <1>1. ASSUME NEW e \in closed, Record(e) PROVE RoundsRight'
    BY <1>0, <1>1 DEF Record, RoundsRight, Settled
  <1>2. ASSUME NEW b \in accepted \ HashesOf(closed), NEW f \in RoundChoices, CloseRound(b, f)
        PROVE  RoundsRight'
    <2>1. /\ b \in Blocks /\ RoundKey(b) \in RoundKeys /\ rounds \in [RoundKeys -> [Logins -> Nat]]
          /\ \A c \in closed : c.hash \in Blocks /\ c.hash # b
      BY DEF Inv1, TypeOK, ChainTypeOK, LedgerTypeOK, Candidates, HashesOf, RoundKeys
    <2>2. /\ CandidateEntry(b, f).hash = b /\ CandidateEntry(b, f).shares = TotalOf(f)
          /\ closed' = closed \cup {CandidateEntry(b, f)} /\ candidates' = candidates
          /\ rounds' = [rounds EXCEPT ![RoundKey(b)] = f]
      BY <1>2 DEF CloseRound, CandidateEntry
    <2>3. rounds'[RoundKey(b)] = f
      BY <2>1, <2>2
    <2>4. \A c \in closed : rounds'[RoundKey(c.hash)] = rounds[RoundKey(c.hash)]
      BY <2>1, <2>2 DEF KeysApart
    <2>5. \A c \in closed' : ~Settled(c.hash)' => TotalOf(rounds'[RoundKey(c.hash)]) = c.shares
      BY <1>0, <2>2, <2>3, <2>4 DEF RoundsRight, Settled
    <2> QED
      BY <1>0, <2>2, <2>5 DEF RoundsRight, TotalOf, RoundKey
  <1> QED
    BY <1>1, <1>2 DEF IntakeStep

LEMMA RoundsRightStep ==
    ASSUME KeysApart, Inv1, RoundsRight, [Next]_vars
    PROVE  RoundsRight'
  <1>1. CASE UNCHANGED <<roundVars, ledgerVars>>
    BY <1>1 DEF roundVars, ledgerVars, RoundsRight, Settled, TotalOf, RoundKey
  <1>2. CASE Reads \/ Fail \/ Crash \/ ChainStep \/ UNCHANGED vars
    BY <1>1, <1>2 DEF Reads, Fail, Crash, ChainStep, vars
  <1> QED
    BY <1>2, RoundsRightWrites, RoundsRightIntake DEF Next, UnlockerStep, Suspended

LEMMA EntriesMatch ==
    ASSUME OneStage, RoundsRight
    PROVE  RoundIntact
  <1>1. \A e \in candidates \cup immature : ~Settled(e.hash)
    BY DEF OneStage, Settled
  <1>2. \A e \in candidates \cup immature : \E c \in closed : c.hash = e.hash /\ c.shares = e.shares
    BY DEF RoundsRight
  <1> QED
    BY <1>1, <1>2 DEF RoundsRight, RoundIntact

\* The number the rewards of a block are divided by is the sum of the round
\* they are divided with, whatever else is settled or closed meanwhile, if
\* no two blocks have the same round key (rival_same_worker).
THEOREM RoundIntactCorrect ==
    ASSUME KeysApart
    PROVE  Spec => []RoundIntact
  <1>1. Init => RoundsRight
    BY DEF Init, RoundsInit, LedgerInit, RoundsRight
  <1>2. Inv1 /\ RoundsRight /\ [Next]_vars => RoundsRight'
    BY RoundsRightStep
  <1>3. OneStage /\ RoundsRight => RoundIntact
    BY EntriesMatch
  <1> QED
    BY <1>1, <1>2, <1>3, Inv1Correct, OneStageCorrect, PTL DEF Spec

-----------------------------------------------------------------------------
(***************************************************************************)
(* Rounding.                                                               *)
(***************************************************************************)
LEMMA DivBounds ==
    ASSUME NEW a \in Int, NEW d \in Nat \ {0}
    PROVE  /\ a \div d \in Int
           /\ d * (a \div d) <= a
           /\ a < d * (a \div d) + d
  OBVIOUS

LEMMA RoundBound ==
    ASSUME NEW n \in Int, NEW d \in Nat \ {0}
    PROVE  /\ Round(n, d) \in Int
           /\ 2 * d * Round(n, d) <= 2 * n + d
           /\ 2 * d * Round(n, d) >= 2 * n - d
  <1>1. 2 * d \in Nat \ {0} /\ 2 * n + d \in Int /\ d - 2 * n \in Int
    OBVIOUS
  <1>2. CASE n >= 0
    <2> DEFINE q == (2 * n + d) \div (2 * d)
    <2>1. q \in Int /\ 2 * d * q <= 2 * n + d /\ 2 * n + d < 2 * d * q + 2 * d
      BY <1>1, DivBounds
    <2>2. Round(n, d) = q
      BY <1>2 DEF Round
    <2> HIDE DEF q
    <2>3. 2 * d * q \in Int
      BY <2>1
    <2>4. 2 * d * q >= 2 * n - d
      BY <2>1, <2>3
    <2> QED
      BY <2>1, <2>2, <2>4
  <1>3. CASE n < 0
    <2> DEFINE q == (d - 2 * n) \div (2 * d)
    <2>1. q \in Int /\ 2 * d * q <= d - 2 * n /\ d - 2 * n < 2 * d * q + 2 * d
      BY <1>1, DivBounds
    <2>2. Round(n, d) = -q
      BY <1>3 DEF Round
    <2> HIDE DEF q
    <2>3. 2 * d * (-q) = -(2 * d * q) /\ 2 * d * q \in Int
      BY <2>1
    <2> QED
      BY <2>1, <2>2, <2>3
  <1> QED
    BY <1>2, <1>3

LEMMA CancelFactor ==
    ASSUME NEW a \in Int, NEW b \in Int, NEW t \in Nat \ {0}, t * a <= t * b
    PROVE  a <= b
  <1> SUFFICES ASSUME a > b PROVE FALSE
    OBVIOUS
  <1>1. a >= b + 1
    OBVIOUS
  <1>2. t * a >= t * (b + 1)
    BY <1>1
  <1> QED
    BY <1>2
LEMMA ShareRewardBound ==
    ASSUME NEW n \in Nat, NEW total \in Nat \ {0}, NEW reward \in Int
    PROVE  LET x == ShareReward(n, total, reward)
           IN  /\ x \in Int
               /\ 200 * total * x <= 2 * MinersProfit(reward) * n + 100 * total
               /\ 200 * total * x >= 2 * MinersProfit(reward) * n - 100 * total
  <1> DEFINE x == ShareReward(n, total, reward)
             p == MinersProfit(reward)
  <1>1. p \in Int
    BY RewardsAssumption DEF MinersProfit
  <1> HIDE DEF p
  <1>2. p * n \in Int /\ 100 * total \in Nat \ {0}
    BY <1>1
  <1>3. CASE n = 0
    <2>1. x = 0
      BY <1>3 DEF ShareReward
    <2> QED
      BY <1>1, <1>3, <2>1 DEF p
  <1>4. CASE n # 0
    <2> DEFINE d == 100 * total
    <2>1. x = Round(p * n, d)
      BY <1>4 DEF ShareReward, p
    <2> HIDE DEF x, d
    <2>2. d \in Nat \ {0} /\ p * n \in Int
      BY <1>2 DEF d
    <2>3. x \in Int /\ 2 * d * x <= 2 * (p * n) + d /\ 2 * d * x >= 2 * (p * n) - d
      BY <2>1, <2>2, RoundBound
    <2>4. 2 * d * x = 200 * total * x /\ 2 * (p * n) = 2 * p * n
      BY <1>1, <2>3 DEF d
    <2> QED
      BY <2>3, <2>4 DEF d, x, p
  <1> QED
    BY <1>3, <1>4

\* What the miners of a round get together: half a zatoshi each at most
\* separates it from their part of the reward.
LEMMA SharesAddUp ==
    ASSUME NEW reward \in Int, NEW shares \in [Logins -> Nat], TotalOf(shares) \in Nat \ {0}
    PROVE  LET paid == TotalOf([l \in Logins |-> ShareReward(shares[l], TotalOf(shares), reward)])
               slack == 50 * Cardinality(Logins)
           IN  100 * paid - MinersProfit(reward) \in -slack .. slack
  <1> DEFINE total == TotalOf(shares)
             p == MinersProfit(reward)
             x == [l \in Logins |-> ShareReward(shares[l], total, reward)]
             scaled == [l \in Logins |-> (200 * total) * x[l]]
             exact == [l \in Logins |-> (2 * p) * shares[l]]
             unit == [l \in Logins |-> 100 * total]
             paid == SumFunction(x)
             k == Cardinality(Logins)
  <1>1. p \in Int /\ total \in Nat \ {0} /\ k \in Nat /\ IsFiniteSet(Logins)
    BY RewardsAssumption, SharesAssumption, FS_CardinalityType DEF MinersProfit
  <1>2. total = SumFunction(shares) /\ shares \in [Logins -> Int]
    BY DEF TotalOf
  <1> HIDE DEF total, p, k
  <1>3. \A l \in Logins : /\ x[l] \in Int
                          /\ 200 * total * x[l] <= 2 * p * shares[l] + 100 * total
                          /\ 200 * total * x[l] >= 2 * p * shares[l] - 100 * total
    BY <1>1, ShareRewardBound DEF p
  <1>4. x \in [Logins -> Int]
    BY <1>3
  <1> HIDE DEF x
  <1>5. 200 * total \in Int /\ 2 * p \in Int /\ 100 * total \in Int
    BY <1>1
  <1>6. paid \in Int /\ SumFunction(scaled) = (200 * total) * paid
    BY <1>1, <1>4, <1>5, SumInt, SumTimes
  <1>7. SumFunction(exact) = (2 * p) * total
    BY <1>1, <1>2, <1>5, SumTimes
  <1>8. SumFunction(unit) = (100 * total) * k
    BY <1>1, <1>5, SumConstant DEF k
  <1>9. scaled \in [Logins -> Int] /\ exact \in [Logins -> Int] /\ unit \in [Logins -> Int]
    BY <1>2, <1>4, <1>5
  <1>10. \A l \in Logins : scaled[l] <= exact[l] + unit[l] /\ exact[l] - unit[l] <= scaled[l]
    <2> SUFFICES ASSUME NEW l \in Logins PROVE scaled[l] <= exact[l] + unit[l] /\ exact[l] - unit[l] <= scaled[l]
      OBVIOUS
    <2>1. scaled[l] = (200 * total) * x[l] /\ exact[l] = (2 * p) * shares[l] /\ unit[l] = 100 * total
      OBVIOUS
    <2> HIDE DEF scaled, exact, unit
    <2> QED
      BY <1>3, <1>1, <1>2, <2>1
  <1> HIDE DEF scaled, exact, unit
  <1>11. /\ SumFunction([l \in Logins |-> exact[l] + unit[l]]) = (2 * p) * total + (100 * total) * k
         /\ SumFunction([l \in Logins |-> exact[l] - unit[l]]) = (2 * p) * total - (100 * total) * k
    <2>1. SumFunction([l \in Logins |-> exact[l] + unit[l]]) = SumFunction(exact) + SumFunction(unit)
      BY ONLY <1>1, <1>9, SumPlus
    <2>2. SumFunction([l \in Logins |-> exact[l] - unit[l]]) = SumFunction(exact) - SumFunction(unit)
      BY ONLY <1>1, <1>9, SumMinus
    <2> QED
      BY <1>7, <1>8, <2>1, <2>2
  <1>12. (200 * total) * paid <= (2 * p) * total + (100 * total) * k
    <2> DEFINE h == [l \in Logins |-> exact[l] + unit[l]]
    <2>1. h \in [Logins -> Int] /\ \A l \in Logins : scaled[l] <= h[l]
      BY <1>9, <1>10
    <2>2. SumFunction(h) = (2 * p) * total + (100 * total) * k
      BY <1>11
    <2> HIDE DEF h
    <2>3. SumFunction(scaled) <= SumFunction(h)
      BY ONLY <1>1, <1>9, <2>1, SumMonotone
    <2> QED
      BY <1>6, <2>2, <2>3
  <1>13. (2 * p) * total - (100 * total) * k <= (200 * total) * paid
    <2> DEFINE h == [l \in Logins |-> exact[l] - unit[l]]
    <2>1. h \in [Logins -> Int] /\ \A l \in Logins : h[l] <= scaled[l]
      BY <1>9, <1>10
    <2>2. SumFunction(h) = (2 * p) * total - (100 * total) * k
      BY <1>11
    <2> HIDE DEF h
    <2>3. SumFunction(h) <= SumFunction(scaled)
      BY ONLY <1>1, <1>9, <2>1, SumMonotone
    <2> QED
      BY <1>6, <2>2, <2>3
  <1> HIDE DEF paid
  <1>14. 100 * paid <= p + 50 * k
    <2>1. total * (100 * paid) <= total * (p + 50 * k)
      BY <1>1, <1>6, <1>12
    <2> QED
      BY <1>1, <1>6, <2>1, CancelFactor
  <1>15. p - 50 * k <= 100 * paid
    <2>1. total * (p - 50 * k) <= total * (100 * paid)
      BY <1>1, <1>6, <1>13
    <2> QED
      BY <1>1, <1>6, <2>1, CancelFactor
  <1>16. 100 * paid - p \in -(50 * k) .. (50 * k)
    BY <1>1, <1>6, <1>14, <1>15
  <1>17. paid = TotalOf([l \in Logins |-> ShareReward(shares[l], TotalOf(shares), reward)])
    BY DEF paid, x, total, TotalOf
  <1> QED
    BY <1>16, <1>17 DEF p, k

-----------------------------------------------------------------------------
(***************************************************************************)
(* The rewards are computed with the block's own round.                    *)
(***************************************************************************)
LEMMA NextUnique ==
    ASSUME Inv1, NEW m \in Next1(live), NEW n \in Next1(live)
    PROVE  m = n
  <1> DEFINE entries == {k.entry : k \in live}
  <1>1. m \in live /\ n \in live /\ m.entry \in FirstOf(pass, entries) /\ n.entry \in FirstOf(pass, entries)
    BY DEF Next1
  <1>2. ASSUME m.entry # n.entry PROVE FALSE
    <2>1. Before(pass, m.entry, n.entry) /\ Before(pass, n.entry, m.entry)
      BY <1>1, <1>2 DEF FirstOf
    <2>2. m.entry \in Stage(pass) /\ n.entry \in Stage(pass)
      BY <1>1 DEF Inv1, TypeOK, ControlTypeOK
    <2>3. m.entry.hash \in Blocks /\ n.entry.hash \in Blocks
      BY <2>2, StageMembers DEF Inv1
    <2>4. \A b \in Blocks : HeightOf[b] \in Int /\ WorkerOf[b] \in Int /\ b \in Int
      <3>1. \A b \in Blocks : HeightOf[b] \in Heights /\ b \in Nat /\ WorkerOf[b] \in Nat
        BY ChainAssumption, RoundsAssumption
      <3>2. \A h \in Heights : h \in Int
        BY ChainAssumption DEF Heights
      <3> QED
        BY <3>1, <3>2
    <2>5. pass = "candidates" => FALSE
      BY <2>1, <2>3, <2>4 DEF Before, CandidateBefore
    <2>6. pass = "immature" => m.entry.orphan \in BOOLEAN /\ n.entry.orphan \in BOOLEAN
      BY <2>2, StageMembers DEF Inv1, BlockEntries
    <2>7. pass = "immature" => FALSE
      BY <2>1, <2>3, <2>4, <2>6 DEF Before, ImmatureBefore
    <2> QED
      BY <2>5, <2>7 DEF Inv1, TypeOK, ControlTypeOK, Passes
  <1> QED
    BY <1>1, <1>2 DEF Inv1, ListsApart

LoadedRight ==
    pc = "write" => \A m \in Next1(live) : loaded = rounds[RoundKey(m.entry.hash)]

\* What the rewards of a pass are computed from.
RoundsInv == Inv1 /\ OneStage /\ CreditsFollowStage /\ RoundsRight /\ LoadedRight

\* A block of the goroutine's lists has closed its round, and is not settled.
LEMMA LiveIsClosed ==
    ASSUME Inv1, OneStage, RoundsRight, NEW e \in Stage(pass)
    PROVE  /\ e.hash \in Blocks /\ ~Settled(e.hash)
           /\ \E c \in closed : c.hash = e.hash /\ c.shares = e.shares
  <1>1. e \in candidates \cup immature
    BY DEF Stage
  <1>2. e.hash \in Blocks
    BY StageMembers DEF Inv1
  <1> QED
    BY <1>1, <1>2 DEF OneStage, Settled, RoundsRight

LEMMA LoadedRightStep ==
    ASSUME KeysApart, Inv1, OneStage, RoundsRight, LoadedRight, [Next]_vars
    PROVE  LoadedRight'
  <1>1. ASSUME UNCHANGED control, ~IntakeStep, UNCHANGED rounds PROVE LoadedRight'
    <2>1. Next1(live)' = Next1(live)
      BY <1>1 DEF control, Next1
    <2> QED
      BY <1>1, <2>1 DEF control, LoadedRight, RoundKey
  <1>2. CASE Reads
    <2>1. ASSUME NEW m \in live, LoadRound(m) PROVE LoadedRight'
      <3>1. /\ m \in Next1(live) /\ loaded' = rounds[RoundKey(m.entry.hash)]
            /\ UNCHANGED <<live, pass, rounds>>
        BY <1>2, <2>1 DEF LoadRound, Reads, roundVars
      <3>2. Next1(live)' = Next1(live)
        BY <3>1 DEF Next1
      <3>3. \A n \in Next1(live) : n = m
        BY <3>1, NextUnique
      <3> QED
        BY <3>1, <3>2, <3>3 DEF LoadedRight, RoundKey
    <2> QED
      BY <1>2, <2>1 DEF Reads, GetMiningInfo, ListBlocks, EndPass, Leave, CheckBlock,
                        NoOrphans, GoOn, LoadedRight
  <1>3. CASE Writes
    <2>1. pc' # "write"
      BY <1>3 DEF Writes, PendingOrphans, Orphan, Immature, Mature, Replied, GoOn, EndPass,
                  Halt, Leave
    <2> QED
      BY <2>1 DEF LoadedRight
  <1>4. CASE Fail \/ Crash
    BY <1>4 DEF Fail, Crash, Halt, Leave, LoadedRight
  <1>5. CASE IntakeStep
    <2>1. UNCHANGED control /\ Next1(live)' = Next1(live)
      BY <1>5 DEF IntakeStep, control, Next1
    <2>2. ASSUME NEW m \in Next1(live)
          PROVE  rounds'[RoundKey(m.entry.hash)] = rounds[RoundKey(m.entry.hash)]
      <3>1. m.entry \in Stage(pass)
        BY DEF Next1, Inv1, TypeOK, ControlTypeOK
      <3>2. m.entry.hash \in Blocks /\ m.entry.hash \in HashesOf(closed)
        BY <3>1, LiveIsClosed DEF HashesOf
      <3>3. ASSUME NEW b \in accepted \ HashesOf(closed), NEW f \in RoundChoices, CloseRound(b, f)
            PROVE  rounds'[RoundKey(m.entry.hash)] = rounds[RoundKey(m.entry.hash)]
        <4>1. b \in Blocks /\ rounds \in [RoundKeys -> [Logins -> Nat]]
          BY DEF Inv1, TypeOK, ChainTypeOK, LedgerTypeOK
        <4>2. RoundKey(b) # RoundKey(m.entry.hash)
              /\ RoundKey(m.entry.hash) \in RoundKeys
          BY <3>2, <4>1 DEF KeysApart, RoundKeys
        <4> QED
          BY <3>3, <4>1, <4>2 DEF CloseRound
      <3> QED
        BY <1>5, <3>3 DEF IntakeStep, Record
    <2> QED
      BY <2>1, <2>2 DEF control, LoadedRight, RoundKey
  <1>6. CASE ChainStep \/ UNCHANGED vars
    <2>1. UNCHANGED control /\ UNCHANGED rounds
      BY <1>6 DEF ChainStep, vars, roundVars
    <2> QED
      BY <1>1, <1>5, <2>1
  <1> QED
    BY <1>2, <1>3, <1>4, <1>5, <1>6 DEF Next, UnlockerStep, Suspended

LEMMA RoundsInvInit == Init => RoundsInv
  BY Inv1Init DEF Init, RoundsInit, LedgerInit, OneStage, CreditsFollowStage, RoundsRight,
                  LoadedRight, RoundsInv

LEMMA RoundsInvStep ==
    ASSUME KeysApart, RoundsInv, [Next]_vars
    PROVE  RoundsInv'
  BY Inv1Step, OneStageStep, CreditsStep, RoundsRightStep, LoadedRightStep DEF RoundsInv

\* The shares a reward is divided by are those of the round it is divided with.
LEMMA DivisorRight ==
    ASSUME RoundsInv, pc = "write", NEW m \in Next1(live)
    PROVE  /\ loaded = rounds[RoundKey(m.entry.hash)]
           /\ TotalOf(loaded) = m.entry.shares
           /\ m.entry.shares \in Nat \ {0} /\ loaded \in [Logins -> Nat] /\ m.reward \in Int
  <1>1. m \in live /\ m.entry \in Stage(pass) /\ loaded \in [Logins -> Nat] /\ m.reward \in Int
    BY DEF Next1, RoundsInv, Inv1, TypeOK, ControlTypeOK
  <1>2. m.entry.shares \in Nat \ {0}
    BY <1>1, StageMembers DEF RoundsInv, Inv1
  <1>3. TotalOf(rounds[RoundKey(m.entry.hash)]) = m.entry.shares
    BY <1>1, LiveIsClosed DEF RoundsInv, RoundsRight
  <1> QED
    BY <1>1, <1>2, <1>3 DEF RoundsInv, LoadedRight

-----------------------------------------------------------------------------
(***************************************************************************)
(* What is paid for a block is its reward.                                 *)
(***************************************************************************)
\* The pool's addresses are no miners'.
OwnAddresses == DonationAccount \notin Logins /\ PoolFeeAddress \notin Logins

LEMMA MinersGetTheirShare ==
    ASSUME OwnAddresses, NEW m, NEW l \in Logins, loaded \in [Logins -> Nat],
           m.entry.shares \in Nat \ {0}, m.reward \in Int
    PROVE  Credits(m)[l] = ShareReward(loaded[l], m.entry.shares, m.reward)
  <1>1. l \in Accounts /\ l # DonationAccount /\ l # PoolFeeAddress
    BY DEF OwnAddresses, Accounts
  <1>2. \A extra : CalculateRewards(m.reward, loaded, m.entry.shares, extra)[l]
                     = ShareReward(loaded[l], m.entry.shares, m.reward) + 0 + 0
    BY <1>1 DEF CalculateRewards
  <1>3. ShareReward(loaded[l], m.entry.shares, m.reward) \in Int
    <2>1. loaded[l] \in Nat
      OBVIOUS
    <2> QED
      BY <2>1, ShareRewardBound
  <1> QED
    BY <1>2, <1>3 DEF Credits

\* The only steps that settle a block or pay one.
LEMMA EveryStepSettles ==
    ASSUME [Next]_vars
    PROVE  \/ UNCHANGED <<matured, paidLog>>
           \/ \E m \in live : Mature(m)
           \/ \E e \in lost : Orphan(e)
  <1>1. CASE Writes
    BY <1>1 DEF Writes, PendingOrphans, WritePendingOrphans, Immature, WriteImmatureBlock
  <1>2. CASE Reads \/ Fail \/ Crash \/ ChainStep \/ IntakeStep \/ UNCHANGED vars
    BY <1>2 DEF Reads, Fail, Crash, ChainStep, IntakeStep, vars, ledgerVars
  <1> QED
    BY <1>1, <1>2 DEF Next, UnlockerStep, Suspended

\* A block that is paid gets a credit log of its own.
LEMMA Payment ==
    ASSUME Inv1, OneStage, CreditsFollowStage, NEW m \in live, Mature(m)
    PROVE  /\ m \in Next1(live) /\ m.entry \in immature /\ m.entry.hash \in Blocks
           /\ BlockEntry(m.entry, m.reward, FALSE).hash = m.entry.hash
           /\ BlockEntry(m.entry, m.reward, FALSE).reward = m.reward
           /\ ~BlockEntry(m.entry, m.reward, FALSE).orphan
           /\ matured' = matured \cup {BlockEntry(m.entry, m.reward, FALSE)}
           /\ paidLog' = [paidLog EXCEPT ![m.entry.hash] = Credits(m)]
           /\ \A e \in matured : e.hash \in Blocks \ {m.entry.hash}
  <1>1. m.entry \in immature /\ m.reward \in Int
    BY DEF Mature, Inv1, TypeOK, ControlTypeOK, Stage
  <1>2. m.entry.hash \in Blocks /\ paidLog[m.entry.hash] = NoCredits
    BY <1>1, FirstSettled
  <1>3. Credits(m) \in [Accounts -> Int]
    BY CreditsType DEF Inv1
  <1>4. PICK log \in CreditLogReads(m.entry.hash) :
            WriteMaturedBlock(m.entry, m.reward, Credits(m), log)
    BY DEF Mature
  <1>5. paidLog' = [paidLog EXCEPT ![m.entry.hash] = SetAbsent(NoCredits, Credits(m))]
    BY <1>2, <1>4 DEF WriteMaturedBlock
  <1>6. matured' = matured \cup {BlockEntry(m.entry, m.reward, FALSE)}
    BY <1>4 DEF WriteMaturedBlock, LeaveImmature
  <1>7. \A e \in matured : e.hash \in Blocks \ {m.entry.hash}
    BY <1>1 DEF OneStage, Inv1, TypeOK, LedgerTypeOK, BlockEntries
  <1> QED
    BY <1>1, <1>2, <1>3, <1>5, <1>6, <1>7, SetAbsentWrites DEF Mature, BlockEntry

LEMMA WriteOff ==
    ASSUME Inv1, NEW e \in lost, Orphan(e)
    PROVE  /\ e \in immature /\ matured' = matured \cup {BlockEntry(e, 0, TRUE)}
           /\ BlockEntry(e, 0, TRUE).orphan /\ paidLog' = paidLog
BY DEF Orphan, WriteOrphan, LeaveImmature, BlockEntry, Inv1, TypeOK, ControlTypeOK, Stage

LEMMA PaidWithinRoundingStep ==
    ASSUME OwnAddresses, RoundsInv, PaidWithinRounding, [Next]_vars
    PROVE  PaidWithinRounding'
  <1> DEFINE slack == 50 * Cardinality(Logins)
             Sum(credits) == TotalOf([l \in Logins |-> credits[l]])
             Right(credits, reward) == 100 * Sum(credits) - MinersProfit(reward) \in -slack .. slack
  <1>1. PaidWithinRounding <=> \A e \in matured : ~e.orphan => Right(paidLog[e.hash], e.reward)
    BY DEF PaidWithinRounding
  <1>2. PaidWithinRounding' <=> \A e \in matured' : ~e.orphan => Right(paidLog'[e.hash], e.reward)
    BY DEF PaidWithinRounding, TotalOf, MinersProfit
  <1>3. CASE UNCHANGED <<matured, paidLog>>
    BY <1>1, <1>2, <1>3
  <1>4. ASSUME NEW e \in lost, Orphan(e) PROVE PaidWithinRounding'
    <2> HIDE DEF Right
    <2> QED
      BY <1>1, <1>2, <1>4, WriteOff DEF RoundsInv
  <1>5. ASSUME NEW m \in live, Mature(m) PROVE PaidWithinRounding'
    <2> DEFINE new == BlockEntry(m.entry, m.reward, FALSE)
    <2>1. /\ m \in Next1(live) /\ m.entry.hash \in Blocks
          /\ new.hash = m.entry.hash /\ new.reward = m.reward
          /\ matured' = matured \cup {new}
          /\ paidLog' = [paidLog EXCEPT ![m.entry.hash] = Credits(m)]
          /\ \A e \in matured : e.hash \in Blocks \ {m.entry.hash}
      BY <1>5, Payment DEF RoundsInv
    <2>2. /\ TotalOf(loaded) = m.entry.shares /\ TotalOf(loaded) \in Nat \ {0}
          /\ loaded \in [Logins -> Nat] /\ m.reward \in Int
      BY <1>5, <2>1, DivisorRight DEF Mature
    <2>3. [l \in Logins |-> Credits(m)[l]]
            = [l \in Logins |-> ShareReward(loaded[l], TotalOf(loaded), m.reward)]
      BY <2>2, MinersGetTheirShare
    <2>4. Right(Credits(m), m.reward)
      BY <2>2, <2>3, SharesAddUp
    <2>5. paidLog \in [Blocks -> [Accounts -> Int]]
      BY DEF RoundsInv, Inv1, TypeOK, LedgerTypeOK
    <2>6. paidLog'[m.entry.hash] = Credits(m)
          /\ \A e \in matured : paidLog'[e.hash] = paidLog[e.hash]
      BY <2>1, <2>5
    <2> HIDE DEF Right, new
    <2> QED
      BY <1>1, <1>2, <2>1, <2>4, <2>6
  <1> QED
    BY <1>3, <1>4, <1>5, EveryStepSettles

\* The miners are paid what a block is worth, to half a zatoshi each: the
\* amounts of a round add up to the miners' part of the reward, because the
\* divisor is the sum of the very round that is divided.
THEOREM PaidWithinRoundingCorrect ==
    ASSUME KeysApart, OwnAddresses
    PROVE  Spec => []PaidWithinRounding
  <1>1. Init => PaidWithinRounding
    BY DEF Init, LedgerInit, PaidWithinRounding
  <1>2. RoundsInv /\ PaidWithinRounding /\ [Next]_vars => PaidWithinRounding'
    BY PaidWithinRoundingStep
  <1>3. RoundsInv /\ [Next]_vars => RoundsInv'
    BY RoundsInvStep
  <1> QED
    BY <1>1, <1>2, <1>3, RoundsInvInit, PTL DEF Spec

-----------------------------------------------------------------------------
(***************************************************************************)
(* The reward of a block.  Where fees are computed again, from the entry   *)
(* of blocks:immature, an entry that was written with reward 0 because its *)
(* block was missing would spoil them: such a block must never be found in *)
(* the chain again, so the invariant says how deep it is.                  *)
(***************************************************************************)
Worth(b) == GetConstReward(HeightOf[b]) + (IF KeepTxFees THEN 0 ELSE FeesOf[b])

HeightsApart == \A a, b \in Blocks : HeightOf[a] = HeightOf[b] => a = b

RightReward(b, reward) ==
    /\ reward >= GetConstReward(HeightOf[b])
    /\ HeightsApart => reward = Worth(b)

DeepEnough(b, top) == HeightOf[b] <= top - ImmatureDepth
Gone(b, top) == DeepEnough(b, top) /\ ~OnChain(b)

Valued ==
    /\ \A c \in candidates \cup closed : c.fees = FeesOf[c.hash]
    /\ \A e \in immature :
          IF e.orphan THEN Gone(e.hash, tip) ELSE RightReward(e.hash, e.reward)
    /\ \A e \in matured : ~e.orphan => RightReward(e.hash, e.reward)
    /\ pass = "candidates" =>
          /\ \A e \in todo : DeepEnough(e.hash, height)
          /\ \A e \in lost : Gone(e.hash, height)
    /\ \A m \in live : /\ RightReward(m.entry.hash, m.reward)
                       /\ pass = "immature" => ~m.entry.orphan

LEMMA HeightType == \A b \in Blocks : HeightOf[b] \in Int
  BY ChainAssumption DEF Heights

LEMMA ConstRewardType == \A h : GetConstReward(h) \in Nat
  BY RewardsAssumption DEF GetConstReward

LEMMA WorthRight ==
    ASSUME NEW b \in Blocks, NEW fees \in Int,
           fees >= 0, ~KeepTxFees /\ HeightsApart => fees = FeesOf[b]
    PROVE  RightReward(b, IF KeepTxFees THEN GetConstReward(HeightOf[b])
                          ELSE GetConstReward(HeightOf[b]) + fees)
  <1>1. GetConstReward(HeightOf[b]) \in Nat /\ FeesOf[b] \in Nat
    BY ConstRewardType, RoundsAssumption
  <1> QED
    BY <1>1 DEF RightReward, Worth

\* handleBlock "Add TX fees": GetBlockFees finds an entry of the height that
\* was believed in, the block's own if it is the only one of its height.
LEMMA RewardRight ==
    ASSUME Inv1, Valued, NEW e \in Stage(pass), OnChain(e.hash),
           NEW fees \in GetBlockFees(HeightOf[e.hash], pass)
    PROVE  RightReward(e.hash, IF KeepTxFees THEN GetConstReward(HeightOf[e.hash])
                               ELSE GetConstReward(HeightOf[e.hash]) + fees)
  <1> DEFINE const == GetConstReward(HeightOf[e.hash])
             same == {f \in Stage(pass) : HeightOf[f.hash] = HeightOf[e.hash]}
  <1>1. e.hash \in Blocks /\ e \in same /\ const \in Nat
    BY StageMembers, ConstRewardType DEF Inv1
  <1>2. \A f \in FirstOf(pass, same) : f \in same /\ f.hash \in Blocks
    BY StageMembers DEF FirstOf, Inv1
  <1>3. \A f \in same : f.hash \in Blocks /\ (HeightsApart => f.hash = e.hash)
    BY <1>1, StageMembers DEF HeightsApart, Inv1
  <1>4. CASE pass = "candidates"
    <2>1. PICK f \in FirstOf(pass, same) : fees = f.fees
      BY <1>4 DEF GetBlockFees
    <2>2. f \in candidates /\ fees = FeesOf[f.hash]
      BY <1>2, <1>4, <2>1 DEF Stage, Valued
    <2>3. fees \in Nat /\ (HeightsApart => fees = FeesOf[e.hash])
      BY <1>2, <1>3, <2>1, <2>2, RoundsAssumption
    <2> QED
      BY <1>1, <2>3, WorthRight
  <1>5. CASE pass = "immature"
    <2>1. PICK f \in FirstOf(pass, same) : fees = f.reward - const
      BY <1>5 DEF GetBlockFees
    <2>2. /\ f \in immature /\ e \in immature /\ HeightOf[f.hash] = HeightOf[e.hash]
          /\ f.orphan \in BOOLEAN /\ e.orphan \in BOOLEAN /\ f.reward \in Int
      BY <1>2, <1>5, <2>1 DEF Stage, Inv1, TypeOK, LedgerTypeOK, BlockEntries
    <2>3. ~e.orphan
      BY <2>2 DEF Valued, Gone
    <2>4. ~f.orphan
      <3>1. f = e \/ ImmatureBefore(f, e)
        BY <1>1, <1>5, <2>1 DEF FirstOf, Before
      <3>2. HeightOf[e.hash] \in Int
        BY <1>1, HeightType
      <3> QED
        BY <2>2, <2>3, <3>1, <3>2 DEF ImmatureBefore
    <2>5. RightReward(f.hash, f.reward)
      BY <2>2, <2>4 DEF Valued
    <2>6. f.reward >= const /\ (HeightsApart => f.reward = Worth(e.hash))
      BY <1>2, <1>3, <2>1, <2>2, <2>5 DEF RightReward
    <2>7. fees \in Int /\ fees >= 0
      BY <1>1, <2>1, <2>2, <2>6
    <2>8. ~KeepTxFees /\ HeightsApart => fees = FeesOf[e.hash]
      <3>1. FeesOf[e.hash] \in Nat
        BY <1>1, RoundsAssumption
      <3> QED
        BY <1>1, <2>1, <2>6, <3>1 DEF Worth
    <2> QED
      BY <1>1, <2>7, <2>8, WorthRight
  <1> QED
    BY <1>4, <1>5 DEF Inv1, TypeOK, ControlTypeOK, Passes

\* A block that was missing when it was ImmatureDepth deep stays missing.
LEMMA GoneForGood ==
    ASSUME Inv1, [Next]_vars, ReorgDepth <= ImmatureDepth,
           NEW b \in Blocks, NEW top \in 0 .. tip, Gone(b, top)
    PROVE  Gone(b, tip)' /\ ~OnChain(b)'
  <1>1. ImmatureDepth \in Nat
    BY UnlockerAssumption
  <1> QED
    BY <1>1, DeepStays DEF Gone, DeepEnough

LEMMA Deeper ==
    ASSUME Inv1, NEW b \in Blocks, Gone(b, height)
    PROVE  Gone(b, tip)
  <1>1. height \in Int /\ tip \in Int /\ height <= tip /\ ImmatureDepth \in Nat
    BY UnlockerAssumption DEF Inv1, TypeOK, ControlTypeOK, ChainTypeOK
  <1>2. HeightOf[b] \in Int
    BY ChainAssumption DEF Heights
  <1> QED
    BY <1>1, <1>2 DEF Gone, DeepEnough

\* The chain moves and the ledger stands still.
LEMMA ValuedChain ==
    ASSUME Inv1, Valued, [Next]_vars, ReorgDepth <= ImmatureDepth,
           UNCHANGED <<immature, matured, control>>,
           \A c \in (candidates \cup closed)' : c.fees = FeesOf[c.hash]
    PROVE  Valued'
  <1>1. \A e \in immature : e.orphan => Gone(e.hash, tip)'
    <2>1. \A e \in immature : e.hash \in Blocks /\ tip \in 0 .. tip
      BY DEF Inv1, TypeOK, LedgerTypeOK, BlockEntries, ChainTypeOK
    <2> QED
      BY <2>1, GoneForGood DEF Valued
  <1>2. pass = "candidates" => \A e \in lost : Gone(e.hash, height)'
    <2>1. \A e \in lost : e.hash \in Blocks /\ height \in 0 .. tip
      BY StageMembers DEF Inv1, TypeOK, ControlTypeOK
    <2> QED
      BY <2>1, GoneForGood DEF Valued, Gone, DeepEnough, control
  <1> QED
    BY <1>1, <1>2 DEF Valued, control, DeepEnough, RightReward, Worth, HeightsApart

\* The goroutine drops some of what it carries and the ledger stands still.
LEMMA ValuedShrinks ==
    ASSUME Valued, ListsShrink, UNCHANGED <<tip, chain, candidates, closed>>,
           \A e \in immature' :
              IF e.orphan THEN Gone(e.hash, tip) ELSE RightReward(e.hash, e.reward),
           \A e \in matured' : ~e.orphan => RightReward(e.hash, e.reward)
    PROVE  Valued'
BY DEF Valued, ListsShrink, Gone, OnChain, DeepEnough, RightReward, Worth, HeightsApart

LEMMA ValuedReads ==
    ASSUME Inv1, Valued, Reads
    PROVE  Valued'
  <1>0. UNCHANGED <<tip, chain, candidates, closed, immature, matured>>
    BY DEF Reads, chainVars, roundVars, ledgerVars
  <1>1. ListsShrink => Valued'
    BY <1>0, ValuedShrinks DEF Valued
  <1>2. CASE GetMiningInfo
    BY <1>1, <1>2 DEF GetMiningInfo, ListsShrink, Inv1, ListsApart
  <1>3. CASE ListBlocks
    <2>1. CASE EndPass
      BY <1>1, <2>1 DEF EndPass, Leave, ListsShrink
    <2>2. CASE ~EndPass
      <3>1. /\ todo' = {e \in Stage(pass) : HeightOf[e.hash] <= height - DepthOf(pass)}
            /\ UNCHANGED <<pass, height, live, lost>> /\ live = {} /\ lost = {}
        BY <1>3, <2>2 DEF ListBlocks, Inv1, ListsApart
      <3>2. pass = "candidates" => \A e \in todo' : DeepEnough(e.hash, height)
        BY <3>1 DEF DeepEnough, DepthOf
      <3> QED
        BY <1>0, <3>1, <3>2 DEF Valued, Gone, OnChain, DeepEnough, RightReward, Worth, HeightsApart
    <2> QED
      BY <2>1, <2>2
  <1>4. ASSUME NEW e \in todo, CheckBlock(e) PROVE Valued'
    <2>1. UNCHANGED <<pass, height>> /\ todo' \subseteq todo /\ e \in Stage(pass)
      BY <1>4 DEF CheckBlock, Inv1, TypeOK, ControlTypeOK
    <2>2. CASE lost' = lost /\ OnChain(e.hash)
               /\ \E fees \in GetBlockFees(HeightOf[e.hash], pass) :
                     live' = live \cup {[entry |-> e, reward |->
                        IF KeepTxFees THEN GetConstReward(HeightOf[e.hash])
                        ELSE GetConstReward(HeightOf[e.hash]) + fees]}
      <3>1. PICK r : RightReward(e.hash, r) /\ live' = live \cup {[entry |-> e, reward |-> r]}
        BY <2>1, <2>2, RewardRight
      <3>2. pass = "immature" => ~e.orphan
        BY <2>1, <2>2 DEF Valued, Gone, Stage
      <3>3. \A m \in live' : /\ RightReward(m.entry.hash, m.reward)
                             /\ pass = "immature" => ~m.entry.orphan
        BY <3>1, <3>2 DEF Valued
      <3> QED
        BY <1>0, <2>1, <2>2, <3>3 DEF Valued, Gone, OnChain, DeepEnough, RightReward, Worth, HeightsApart
    <2>3. CASE ~OnChain(e.hash) /\ lost' = lost \cup {e} /\ live' = live
      BY <1>0, <2>1, <2>3 DEF Valued, Gone, OnChain, DeepEnough, RightReward, Worth, HeightsApart
    <2> QED
      BY <1>4, <2>2, <2>3 DEF CheckBlock
  <1>5. CASE NoOrphans
    BY <1>1, <1>5 DEF NoOrphans, GoOn, EndPass, Leave, ListsShrink
  <1>6. ASSUME NEW m \in live, LoadRound(m) PROVE Valued'
    BY <1>1, <1>6 DEF LoadRound, ListsShrink
  <1> QED
    BY <1>2, <1>3, <1>4, <1>5, <1>6 DEF Reads

LEMMA ValuedWrites ==
    ASSUME Inv1, Valued, Writes
    PROVE  Valued'
  <1>0. UNCHANGED <<tip, chain, closed>>
    BY DEF Writes, chainVars
  <1> DEFINE ImmatureRight == \A e \in immature' :
                IF e.orphan THEN Gone(e.hash, tip) ELSE RightReward(e.hash, e.reward)
             MaturedRight == \A e \in matured' : ~e.orphan => RightReward(e.hash, e.reward)
  <1>s. ASSUME ListsShrink, candidates' \subseteq candidates, ImmatureRight, MaturedRight
        PROVE  Valued'
    BY <1>0, <1>s DEF Valued, ListsShrink, Gone, OnChain, DeepEnough, RightReward, Worth, HeightsApart
  <1>1. CASE PendingOrphans
    <2>1. /\ candidates' = candidates \ lost /\ matured' = matured
          /\ immature' = immature \cup {BlockEntry(e, 0, TRUE) : e \in lost}
          /\ lost \subseteq Stage(pass) /\ pass = "candidates"
      BY <1>1 DEF PendingOrphans, WritePendingOrphans, Inv1, TypeOK, ControlTypeOK
    <2>2. ASSUME NEW e \in lost
          PROVE  BlockEntry(e, 0, TRUE).orphan /\ Gone(BlockEntry(e, 0, TRUE).hash, tip)
      <3>1. e.hash \in Blocks /\ Gone(e.hash, height)
        BY <2>1, StageMembers DEF Valued, Inv1
      <3> QED
        BY <3>1, Deeper DEF BlockEntry
    <2>3. ImmatureRight /\ MaturedRight
      BY <2>1, <2>2 DEF Valued
    <2>4. ListsShrink
      BY <1>1, GoOnShrinks DEF PendingOrphans
    <2> QED
      BY <1>s, <2>1, <2>3, <2>4
  <1>2. ASSUME NEW m \in live, Immature(m) PROVE Valued'
    <2> DEFINE new == BlockEntry(m.entry, m.reward, FALSE)
    <2>1. /\ candidates' = candidates \ {m.entry} /\ matured' = matured
          /\ immature' = immature \cup {new}
      BY <1>2 DEF Immature, WriteImmatureBlock
    <2>2. ~new.orphan /\ RightReward(new.hash, new.reward)
      BY DEF BlockEntry, Valued
    <2> HIDE DEF new
    <2>3. ImmatureRight /\ MaturedRight
      BY <2>1, <2>2 DEF Valued
    <2>4. ListsShrink
      BY <1>2, GoOnShrinks DEF Immature
    <2> QED
      BY <1>s, <2>1, <2>3, <2>4
  <1>3. ASSUME NEW m \in live, Mature(m) PROVE Valued'
    <2> DEFINE new == BlockEntry(m.entry, m.reward, FALSE)
    <2>1. /\ candidates' = candidates /\ matured' = matured \cup {new}
          /\ immature' \subseteq immature
      BY <1>3 DEF Mature, WriteMaturedBlock, LeaveImmature
    <2>2. ~new.orphan /\ RightReward(new.hash, new.reward)
      BY DEF BlockEntry, Valued
    <2> HIDE DEF new
    <2>3. ImmatureRight /\ MaturedRight
      BY <2>1, <2>2 DEF Valued
    <2>4. ListsShrink
      BY <1>3, GoOnShrinks DEF Mature
    <2> QED
      BY <1>s, <2>1, <2>3, <2>4
  <1>4. ASSUME NEW e \in lost, Orphan(e) PROVE Valued'
    <2>1. /\ candidates' = candidates /\ matured' = matured \cup {BlockEntry(e, 0, TRUE)}
          /\ immature' \subseteq immature /\ BlockEntry(e, 0, TRUE).orphan
      BY <1>4 DEF Orphan, WriteOrphan, LeaveImmature, BlockEntry
    <2>2. ImmatureRight /\ MaturedRight
      BY <2>1 DEF Valued
    <2>3. ListsShrink
      <3>1. CASE lost' = lost \ {e} /\ UNCHANGED <<pc, pass, height, todo, live, loaded>>
        BY <3>1 DEF ListsShrink
      <3>2. CASE Replied(GoOn(live, "load")) \/ Halt
        BY <3>2, GoOnShrinks DEF Halt, Leave, ListsShrink
      <3> QED
        BY <1>4, <3>1, <3>2 DEF Orphan, Replied
    <2> QED
      BY <1>s, <2>1, <2>2, <2>3
  <1> QED
    BY <1>1, <1>2, <1>3, <1>4 DEF Writes

LEMMA ValuedStep ==
    ASSUME Inv1, Valued, ReorgDepth <= ImmatureDepth, [Next]_vars
    PROVE  Valued'
  <1>1. CASE UnlockerStep
    BY <1>1, ValuedReads, ValuedWrites DEF UnlockerStep
  <1>2. CASE Fail \/ Crash
    <2>1. UNCHANGED <<tip, chain, candidates, closed, immature, matured>> /\ ListsShrink
      BY <1>2 DEF Fail, Crash, Halt, Leave, ListsShrink, chainVars, roundVars, ledgerVars
    <2> QED
      BY <2>1, ValuedShrinks DEF Valued
  <1>3. CASE IntakeStep
    <2>1. UNCHANGED <<immature, matured, control>>
      BY <1>3 DEF IntakeStep, ledgerVars
    <2>2. \A c \in (candidates \cup closed)' : c.fees = FeesOf[c.hash]
      BY <1>3 DEF IntakeStep, CloseRound, Record, CandidateEntry, Valued
    <2> QED
      BY <2>1, <2>2, ValuedChain
  <1>4. CASE ChainStep \/ UNCHANGED vars
    <2>1. UNCHANGED <<immature, matured, control, candidates, closed>>
      BY <1>4 DEF ChainStep, vars, roundVars, ledgerVars
    <2> QED
      BY <2>1, ValuedChain DEF Valued
  <1> QED
    BY <1>1, <1>2, <1>3, <1>4 DEF Next, Suspended

LEMMA ValuedInit == Init => Valued
  BY DEF Init, RoundsInit, LedgerInit, Valued

LEMMA ValuedAlways ==
    ASSUME ReorgDepth <= ImmatureDepth
    PROVE  Spec => []Valued
  <1>1. Inv1 /\ Valued /\ [Next]_vars => Valued'
    BY ValuedStep
  <1> QED
    BY <1>1, ValuedInit, Inv1Correct, PTL DEF Spec

\* No paid block loses its subsidy: if no reorganisation is deeper than
\* ImmatureDepth, a block whose reward was set to 0 never comes back to be
\* paid (returned_orphan), and rivals cannot take the fees below zero.
THEOREM FeesAddedCorrect ==
    ASSUME ReorgDepth <= ImmatureDepth
    PROVE  Spec => []FeesAdded
  <1>1. Valued => FeesAdded
    BY DEF Valued, FeesAdded, RightReward
  <1> QED
    BY <1>1, ValuedAlways, PTL

\* A block is paid with the subsidy of its height and its own transaction
\* fees: computing the fees twice, once from the candidate and once from the
\* immature entry, changes nothing, if no two blocks have the same height
\* and no reorganisation is deeper than ImmatureDepth.
THEOREM RewardExactCorrect ==
    ASSUME HeightsApart, ReorgDepth <= ImmatureDepth
    PROVE  Spec => []RewardExact
  <1>1. Valued => RewardExact
    BY DEF Valued, RewardExact, RightReward, Worth
  <1> QED
    BY <1>1, ValuedAlways, PTL

-----------------------------------------------------------------------------
(***************************************************************************)
(* What is paid is what was announced.                                     *)
(***************************************************************************)
\* The credit log of a block is what its round is worth.
Announced ==
    \A e \in immature : ~e.orphan =>
        creditLog[e.hash] = CalculateRewards(e.reward, rounds[RoundKey(e.hash)],
                                             e.shares, FeesOf[e.hash])

LEMMA HeightsSeparate == HeightsApart => KeysApart
  BY DEF HeightsApart, KeysApart, RoundKey

\* Nothing happens to the entry, the log and the round of an entry.
LEMMA AnnouncedKept ==
    ASSUME Announced,
           \A e \in immature' : ~e.orphan =>
               /\ e \in immature /\ creditLog'[e.hash] = creditLog[e.hash]
               /\ rounds'[RoundKey(e.hash)] = rounds[RoundKey(e.hash)]
    PROVE  Announced'
  <1> SUFFICES ASSUME NEW e \in immature', ~e.orphan
               PROVE  creditLog'[e.hash] = CalculateRewards(e.reward, rounds'[RoundKey(e.hash)],
                                                            e.shares, FeesOf[e.hash])
    BY DEF Announced, RoundKey
  <1> QED
    BY DEF Announced

\* A block that is settled takes its own round and its own log along.
LEMMA AnnouncedSettled ==
    ASSUME KeysApart, RoundsInv, Announced, NEW e \in immature, NEW reward, NEW orphan,
           LeaveImmature(e, reward, orphan), creditLog' = [creditLog EXCEPT ![e.hash] = NoCredits]
    PROVE  Announced'
  <1>1. /\ rounds \in [RoundKeys -> [Logins -> Nat]] /\ creditLog \in [Blocks -> [Accounts -> Int]]
        /\ \A f \in immature : f.hash \in Blocks
    BY DEF RoundsInv, Inv1, TypeOK, LedgerTypeOK, BlockEntries
  <1>2. immature' = immature \ {e} /\ rounds' = [rounds EXCEPT ![RoundKey(e.hash)] = NoShares]
    BY DEF LeaveImmature
  <1>3. ASSUME NEW f \in immature'
        PROVE  /\ f \in immature /\ creditLog'[f.hash] = creditLog[f.hash]
               /\ rounds'[RoundKey(f.hash)] = rounds[RoundKey(f.hash)]
    <2>1. f \in immature /\ f.hash # e.hash /\ f.hash \in Blocks /\ e.hash \in Blocks
      BY <1>1, <1>2 DEF RoundsInv, OneStage
    <2>2. RoundKey(f.hash) # RoundKey(e.hash) /\ RoundKey(f.hash) \in RoundKeys
      BY <2>1 DEF KeysApart, RoundKeys
    <2> QED
      BY <1>1, <1>2, <2>1, <2>2
  <1> QED
    BY <1>3, AnnouncedKept

LEMMA AnnouncedStep ==
    ASSUME KeysApart, RoundsInv, Valued, Announced, [Next]_vars
    PROVE  Announced'
  <1>1. CASE Writes
    <2>1. CASE PendingOrphans
      <3>1. /\ immature' = immature \cup {BlockEntry(e, 0, TRUE) : e \in lost}
            /\ UNCHANGED <<rounds, creditLog>>
        BY <2>1 DEF PendingOrphans, WritePendingOrphans
      <3>2. \A e \in lost : BlockEntry(e, 0, TRUE).orphan
        BY DEF BlockEntry
      <3> QED
        BY <3>1, <3>2, AnnouncedKept
    <2>2. ASSUME NEW m \in live, Immature(m) PROVE Announced'
      <3> DEFINE new == BlockEntry(m.entry, m.reward, FALSE)
                 b == m.entry.hash
      <3>1. b \in Blocks /\ Announces(b, Credits(m))
        BY <2>2, AnnouncementMoves DEF RoundsInv
      <3>2. /\ immature' = immature \cup {new} /\ rounds' = rounds
            /\ m.entry \in candidates /\ m \in Next1(live) /\ pc = "write" /\ pass = "candidates"
        BY <2>2 DEF Immature, WriteImmatureBlock, RoundsInv, Inv1, TypeOK, ControlTypeOK, Stage
      <3>3. creditLog \in [Blocks -> [Accounts -> Int]]
            /\ \A e \in immature : e.hash \in Blocks \ {b}
        BY <3>2 DEF RoundsInv, Inv1, TypeOK, LedgerTypeOK, BlockEntries, OneStage
      <3>4. /\ new.hash = b /\ new.reward = m.reward /\ new.shares = m.entry.shares
        BY DEF BlockEntry
      <3>5. loaded = rounds[RoundKey(b)] /\ m.entry.fees = FeesOf[b]
        BY <3>2, DivisorRight DEF Valued
      <3>6. Credits(m) = CalculateRewards(m.reward, rounds[RoundKey(b)], m.entry.shares, FeesOf[b])
        BY <3>2, <3>5 DEF Credits
      <3>7. creditLog' = [creditLog EXCEPT ![b] = Credits(m)]
        BY <3>1 DEF Announces
      <3> HIDE DEF new, b
      <3>8. ASSUME NEW e \in immature', ~e.orphan
            PROVE  creditLog'[e.hash] = CalculateRewards(e.reward, rounds'[RoundKey(e.hash)],
                                                         e.shares, FeesOf[e.hash])
        <4>1. CASE e = new
          BY <3>1, <3>2, <3>3, <3>4, <3>6, <3>7, <4>1
        <4>2. CASE e \in immature
          BY <3>1, <3>2, <3>3, <3>7, <3>8, <4>2 DEF Announced
        <4> QED
          BY <3>2, <4>1, <4>2
      <3> QED
        BY <3>8 DEF Announced, RoundKey
    <2>3. ASSUME NEW m \in live, Mature(m) PROVE Announced'
      <3>1. /\ m.entry \in immature /\ LeaveImmature(m.entry, m.reward, FALSE)
            /\ creditLog' = [creditLog EXCEPT ![m.entry.hash] = NoCredits]
        BY <2>3 DEF Mature, WriteMaturedBlock, RoundsInv, Inv1, TypeOK, ControlTypeOK, Stage
      <3> QED
        BY <3>1, AnnouncedSettled
    <2>4. ASSUME NEW e \in lost, Orphan(e) PROVE Announced'
      <3>1. /\ e \in immature /\ LeaveImmature(e, 0, TRUE)
            /\ creditLog' = [creditLog EXCEPT ![e.hash] = NoCredits]
        BY <2>4 DEF Orphan, WriteOrphan, RoundsInv, Inv1, TypeOK, ControlTypeOK, Stage
      <3> QED
        BY <3>1, AnnouncedSettled
    <2> QED
      BY <1>1, <2>1, <2>2, <2>3, <2>4 DEF Writes
  <1>2. CASE IntakeStep
    <2>1. UNCHANGED <<immature, creditLog>>
      BY <1>2 DEF IntakeStep, ledgerVars
    <2>2. ASSUME NEW e \in immature, NEW b \in accepted \ HashesOf(closed), NEW f \in RoundChoices,
                 CloseRound(b, f)
          PROVE  rounds'[RoundKey(e.hash)] = rounds[RoundKey(e.hash)]
      <3>1. b \in Blocks /\ e.hash \in Blocks /\ rounds \in [RoundKeys -> [Logins -> Nat]]
        BY DEF RoundsInv, Inv1, TypeOK, ChainTypeOK, LedgerTypeOK, BlockEntries
      <3>2. e.hash \in HashesOf(closed)
        BY DEF RoundsInv, RoundsRight, HashesOf
      <3>3. RoundKey(b) # RoundKey(e.hash) /\ RoundKey(e.hash) \in RoundKeys
        BY <3>1, <3>2 DEF KeysApart, RoundKeys
      <3> QED
        BY <2>2, <3>1, <3>3 DEF CloseRound
    <2>3. \A e \in immature : rounds'[RoundKey(e.hash)] = rounds[RoundKey(e.hash)]
      BY <1>2, <2>2 DEF IntakeStep, Record
    <2> QED
      BY <2>1, <2>3, AnnouncedKept
  <1>3. CASE Reads \/ Fail \/ Crash \/ ChainStep \/ UNCHANGED vars
    <2>1. UNCHANGED <<immature, creditLog, rounds>>
      BY <1>3 DEF Reads, Fail, Crash, ChainStep, vars, roundVars, ledgerVars
    <2> QED
      BY <2>1, AnnouncedKept
  <1> QED
    BY <1>1, <1>2, <1>3 DEF Next, UnlockerStep, Suspended

\* Part of the pool's profit, in hundredths of a per cent.
LEMMA ProfitRounded ==
    ASSUME NEW n \in Int
    PROVE  /\ Round(n, 10000) \in Int
           /\ 20000 * Round(n, 10000) <= 2 * n + 10000
           /\ 20000 * Round(n, 10000) >= 2 * n - 10000
  <1> DEFINE denom == 10000
  <1>1. denom \in Nat \ {0} /\ denom = 10000
    OBVIOUS
  <1> HIDE DEF denom
  <1>2. /\ Round(n, denom) \in Int
        /\ 2 * denom * Round(n, denom) <= 2 * n + denom
        /\ 2 * denom * Round(n, denom) >= 2 * n - denom
    BY <1>1, RoundBound
  <1> QED
    BY <1>1, <1>2

\* The pool's accounts get its profit, which they may divide in two.
LEMMA PoolsShare ==
    ASSUME OwnAddresses, PoolFeeAddress # NoAddress, NEW reward \in Int,
           NEW shares \in [Logins -> Nat], NEW total \in Nat \ {0}, NEW extra \in Int
    PROVE  LET part == PoolsPart(CalculateRewards(reward, shares, total, extra))
           IN  part \in Int /\ 100 * part - PoolProfit(reward, extra) \in -100 .. 100
  <1> DEFINE pool == PoolProfit(reward, extra)
             kept == IF Donate THEN 100 - DonationFee ELSE 100
             u == pool * DonationFee
             v == pool * kept
             given == IF Donate THEN Round(u, 10000) ELSE 0
             left == Round(v, 10000)
             S == Accounts \ Logins
             credits == CalculateRewards(reward, shares, total, extra)
             d == [a \in S |-> IF a = DonationAccount THEN given ELSE 0]
             g == [a \in S |-> IF a = PoolFeeAddress THEN left ELSE 0]
  <1>1. DonationFee \in Int /\ PoolFee \in Int /\ kept \in Int
    BY RewardsAssumption
  <1>2. pool \in Int
    BY <1>1 DEF PoolProfit
  <1>3. IsFiniteSet(S) /\ DonationAccount \in S /\ PoolFeeAddress \in S
    BY AccountsFinite, FS_Subset DEF Accounts, OwnAddresses
  <1>4. \A a \in S : credits[a] = (IF Donate /\ a = DonationAccount
                                   THEN Round(u, 10000) ELSE 0)
                                  + (IF a = PoolFeeAddress THEN left ELSE 0)
    <2> SUFFICES ASSUME NEW a \in S
                 PROVE  credits[a] = (IF Donate /\ a = DonationAccount
                                      THEN Round(u, 10000) ELSE 0)
                                     + (IF a = PoolFeeAddress THEN left ELSE 0)
      OBVIOUS
    <2>1. credits[a] = 0 + (IF Donate /\ a = DonationAccount
                            THEN Round(u, 10000) ELSE 0)
                         + (IF a = PoolFeeAddress THEN left ELSE 0)
      BY DEF CalculateRewards
    <2>2. u \in Int
      BY <1>1, <1>2
    <2>3. Round(u, 10000) \in Int
      BY <2>2, RoundBound
    <2> QED
      BY <2>1, <2>3
  <1> HIDE DEF pool, kept
  <1>5. /\ u \in Int /\ v \in Int
        /\ Donate => u + v = 100 * pool
        /\ ~Donate => v = 100 * pool
    BY <1>1, <1>2 DEF kept
  <1> HIDE DEF u, v
  <1>6. given \in Int /\ left \in Int
    BY <1>5, ProfitRounded
  <1>7. 100 * (given + left) - pool \in -100 .. 100
    <2>0. v \in Int
      BY <1>5
    <2>1. /\ 20000 * Round(v, 10000) <= 2 * v + 10000
          /\ 20000 * Round(v, 10000) >= 2 * v - 10000
      BY ONLY <2>0, ProfitRounded
    <2>2. /\ 20000 * Round(u, 10000) <= 2 * u + 10000
          /\ 20000 * Round(u, 10000) >= 2 * u - 10000
      <3>1. u \in Int
        BY <1>5
      <3> QED
        BY ONLY <3>1, ProfitRounded
    <2>3. left = Round(v, 10000) /\ given = (IF Donate THEN Round(u, 10000) ELSE 0)
      OBVIOUS
    <2> HIDE DEF given, left
    <2>4. /\ 20000 * left <= 2 * v + 10000 /\ 20000 * left >= 2 * v - 10000
          /\ Donate => 20000 * given <= 2 * u + 10000 /\ 20000 * given >= 2 * u - 10000
          /\ ~Donate => given = 0
      BY <2>1, <2>2, <2>3
    <2> QED
      BY <1>2, <1>5, <1>6, <2>4
  <1>8. [a \in S |-> credits[a]] = [a \in S |-> d[a] + g[a]]
    BY <1>4
  <1> HIDE DEF given, left, S, credits
  <1>9. d \in [S -> Int] /\ g \in [S -> Int]
    BY <1>6
  <1>10. SumFunction(d) = given
    <2>1. d[DonationAccount] = given /\ \A a \in S \ {DonationAccount} : d[a] = 0
      BY <1>3
    <2> HIDE DEF d
    <2> QED
      BY <1>3, <1>9, <2>1, SumSingle
  <1>11. SumFunction(g) = left
    <2>1. g[PoolFeeAddress] = left /\ \A a \in S \ {PoolFeeAddress} : g[a] = 0
      BY <1>3
    <2> HIDE DEF g
    <2> QED
      BY <1>3, <1>9, <2>1, SumSingle
  <1> HIDE DEF d, g
  <1>12. SumFunction([a \in S |-> d[a] + g[a]]) = given + left
    BY <1>3, <1>9, <1>10, <1>11, SumPlus
  <1>13. PoolsPart(credits) = given + left
    BY <1>8, <1>12 DEF PoolsPart, TotalOf, S
  <1> QED
    BY <1>6, <1>7, <1>13 DEF credits, pool

LEMMA PaysAsAnnounced ==
    ASSUME HeightsApart, OwnAddresses, RoundsInv, Valued, Announced, [Next]_vars,
           NEW b \in Blocks, paidLog'[b] # paidLog[b]
    PROVE  /\ \A l \in Logins : paidLog'[b][l] = creditLog[b][l]
           /\ PoolFeeAddress # NoAddress =>
                 PoolsPart(creditLog[b]) - FeesOf[b] - PoolsPart(paidLog'[b]) \in -2 .. 2
  <1>1. PICK m \in live : Mature(m)
    BY EveryStepSettles, WriteOff DEF RoundsInv
  <1>2. /\ m \in Next1(live) /\ m.entry \in immature /\ m.entry.hash \in Blocks
        /\ paidLog' = [paidLog EXCEPT ![m.entry.hash] = Credits(m)]
    BY <1>1, Payment DEF RoundsInv
  <1>3. b = m.entry.hash /\ paidLog'[b] = Credits(m)
    BY <1>2 DEF RoundsInv, Inv1, TypeOK, LedgerTypeOK
  <1>4. /\ loaded = rounds[RoundKey(b)] /\ m.entry.shares \in Nat \ {0}
        /\ loaded \in [Logins -> Nat] /\ m.reward \in Int /\ pass = "immature"
    BY <1>1, <1>2, <1>3, DivisorRight DEF Mature
  <1>5. ~m.entry.orphan /\ m.reward = m.entry.reward
    BY <1>2, <1>4 DEF Valued, RightReward
  <1> DEFINE paid == CalculateRewards(m.reward, loaded, m.entry.shares, 0)
             told == CalculateRewards(m.reward, loaded, m.entry.shares, FeesOf[b])
  <1>6. paidLog'[b] = paid
    BY <1>3, <1>4 DEF Credits
  <1>7. creditLog[b] = told
    BY <1>2, <1>3, <1>4, <1>5 DEF Announced
  <1>8. FeesOf[b] \in Int
    BY RoundsAssumption
  <1>9. \A l \in Logins : paid[l] = told[l]
    <2> SUFFICES ASSUME NEW l \in Logins PROVE paid[l] = told[l]
      OBVIOUS
    <2>1. l \in Accounts /\ l # DonationAccount /\ l # PoolFeeAddress
      BY DEF OwnAddresses, Accounts
    <2> QED
      BY <2>1 DEF CalculateRewards
  <1>10. PoolProfit(m.reward, FeesOf[b]) = PoolProfit(m.reward, 0) + 100 * FeesOf[b]
         /\ PoolProfit(m.reward, 0) \in Int
    <2>1. PoolFee \in Int
      BY RewardsAssumption
    <2>2. m.reward * PoolFee \in Int
      BY <1>4, <2>1
    <2> QED
      BY <1>8, <2>2 DEF PoolProfit
  <1> HIDE DEF paid, told
  <1>11. ASSUME PoolFeeAddress # NoAddress
         PROVE  PoolsPart(told) - FeesOf[b] - PoolsPart(paid) \in -2 .. 2
    <2>1. /\ PoolsPart(told) \in Int
          /\ 100 * PoolsPart(told) - PoolProfit(m.reward, FeesOf[b]) \in -100 .. 100
      BY <1>4, <1>8, <1>11, PoolsShare DEF told
    <2>2. /\ PoolsPart(paid) \in Int
          /\ 100 * PoolsPart(paid) - PoolProfit(m.reward, 0) \in -100 .. 100
      <3>1. 0 \in Int
        OBVIOUS
      <3> QED
        BY ONLY <1>4, <1>11, <3>1, PoolsShare, OwnAddresses DEF paid
    <2> QED
      BY <1>8, <1>10, <2>1, <2>2
  <1> QED
    BY <1>6, <1>7, <1>9, <1>11

\* A miner is paid what was announced, to the zatoshi, and the pool what was
\* announced without the fees, although WriteMaturedBlock computes it all
\* again from a round read again: if no two blocks have the same height, no
\* reorganisation is deeper than ImmatureDepth and the pool's addresses are
\* no miners'.
THEOREM PaidAsAnnouncedCorrect ==
    ASSUME HeightsApart, OwnAddresses, ReorgDepth <= ImmatureDepth
    PROVE  Spec => PaidAsAnnounced
  <1> DEFINE Same == \A b \in Blocks : paidLog'[b] # paidLog[b] =>
                 /\ \A l \in Logins : paidLog'[b][l] = creditLog[b][l]
                 /\ PoolFeeAddress # NoAddress =>
                       PoolsPart(creditLog[b]) - FeesOf[b] - PoolsPart(paidLog'[b]) \in -2 .. 2
  <1>1. KeysApart
    BY HeightsSeparate
  <1>2. Init => Announced
    BY DEF Init, LedgerInit, Announced
  <1>3. RoundsInv /\ [Next]_vars => RoundsInv'
    BY <1>1, RoundsInvStep
  <1>4. RoundsInv /\ Valued /\ Announced /\ [Next]_vars => Announced'
    BY <1>1, AnnouncedStep
  <1>5. RoundsInv /\ Valued /\ Announced /\ [Next]_vars => [Same]_vars
    BY PaysAsAnnounced
  <1> QED
    BY <1>2, <1>3, <1>4, <1>5, RoundsInvInit, ValuedAlways, PTL DEF Spec, PaidAsAnnounced
=============================================================================
