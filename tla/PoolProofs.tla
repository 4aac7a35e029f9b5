------------------------------ MODULE PoolProofs ------------------------------
(***************************************************************************)
(* Share intake keeps to what the unlocker assumes of its environment, for *)
(* any number of pool instances, sessions and proofs, any faults and any   *)
(* restarts: every step of the pool is a step of Unlocker or none of it.   *)
(* What is proved of the unlocker alone holds in the pool.                 *)
(*                                                                         *)
(* A goroutine that is about to add a candidate must find it unrecorded,   *)
(* while the unlocker moves other entries from list to list.               *)
(***************************************************************************)
EXTENDS Pool, MoneyProofs, IntakeProofs

USE IntakeAssumption DEF None

\* The unlocker's environment may close a round with any shares.
AnyRound == \A f \in [Logins -> Nat] : (\E l \in Logins : f[l] > 0) => f \in RoundChoices

Current == roundCurrent \in [Logins -> Nat]
ClosedFirst == \A b : Recorded(b) => IsClosed(b)
Waiting(s) == at[s] = "zadd" => ~Recorded(proof[s])

PoolInv ==
    /\ Inv1 /\ Seated
    /\ Current /\ ClosedFirst
    /\ \A s \in Sessions : Waiting(s)

LEMMA PoolInvInit == PoolInit => PoolInv
  <1> SUFFICES ASSUME PoolInit PROVE PoolInv
    OBVIOUS
  <1>1. Inv1
    BY Inv1Init DEF PoolInit
  <1>2. IntakeSpecInit
    BY DEF PoolInit, Init, IntakeSpecInit
  <1>3. Seated
    BY <1>2, SeatedInit
  <1>4. Current
    BY DEF PoolInit, IntakeInit, Current, NoShares
  <1>5. ClosedFirst
    BY DEF PoolInit, Init, RoundsInit, LedgerInit, ClosedFirst, Recorded
  <1>6. \A s \in Sessions : Waiting(s)
    BY DEF PoolInit, IntakeInit, Waiting
  <1> QED
    BY <1>1, <1>3, <1>4, <1>5, <1>6 DEF PoolInv

-----------------------------------------------------------------------------
(***************************************************************************)
(* A step of intake, as the unlocker sees it.                              *)
(***************************************************************************)
LEMMA SharedRound ==
    ASSUME AnyRound, Current, NEW s \in Sessions
    PROVE  WithShare(s) \in RoundChoices /\ WithShare(s) \in [Logins -> Nat]
  <1>1. LoginOf[s] \in Logins /\ ShareDiff \in Nat \ {0}
    OBVIOUS
  <1>2. WithShare(s) = [roundCurrent EXCEPT ![LoginOf[s]] = roundCurrent[LoginOf[s]] + ShareDiff]
    BY DEF WithShare
  <1>3. roundCurrent[LoginOf[s]] \in Nat
    BY <1>1 DEF Current
  <1>4. WithShare(s) \in [Logins -> Nat]
    BY <1>1, <1>2, <1>3 DEF Current
  <1>5. WithShare(s)[LoginOf[s]] = roundCurrent[LoginOf[s]] + ShareDiff
    BY <1>1, <1>2 DEF Current
  <1>6. WithShare(s)[LoginOf[s]] > 0
    BY <1>1, <1>3, <1>5
  <1> QED
    BY <1>1, <1>4, <1>6 DEF AnyRound

\* The rest of the unlocker's variables.
Elsewhere == UNCHANGED payoutVars

LEMMA SubmitBlockAllowed ==
    ASSUME PoolInv, NEW s \in Sessions, SubmitBlock(s), Elsewhere
    PROVE  ChainStep \/ UNCHANGED vars
  <1>1. proof[s] \in Blocks /\ UNCHANGED roundVars
    BY Handled DEF PoolInv, SubmitBlock
  <1>2. Accept(proof[s]) \/ UNCHANGED chainVars
    BY DEF SubmitBlock
  <1> QED
    BY <1>1, <1>2 DEF Elsewhere, payoutVars, ChainStep, vars

LEMMA WriteBlockAllowed ==
    ASSUME AnyRound, PoolInv, NEW s \in Sessions, WriteBlock(s), Elsewhere
    PROVE  IntakeStep \/ UNCHANGED vars
  <1>1. /\ proof[s] \in Blocks /\ proof[s] \in confirmed /\ ~IsClosed(proof[s])
        /\ confirmed \subseteq accepted
    BY Handled DEF PoolInv, WriteBlock, Handling, ToDo, Typed
  <1>2. proof[s] \in accepted \ HashesOf(closed)
    BY <1>1 DEF IsClosed, HashesOf
  <1>3. WithShare(s) \in RoundChoices
    BY SharedRound DEF PoolInv
  <1>4. UNCHANGED chainVars /\ (CloseRound(proof[s], WithShare(s)) \/ UNCHANGED roundVars)
    BY DEF WriteBlock
  <1> QED
    BY <1>2, <1>3, <1>4 DEF Elsewhere, payoutVars, IntakeStep, vars

LEMMA AddCandidateAllowed ==
    ASSUME PoolInv, NEW s \in Sessions, AddCandidate(s), Elsewhere
    PROVE  IntakeStep \/ UNCHANGED vars
  <1>1. entry[s] \in closed /\ entry[s].hash = proof[s] /\ ~Recorded(proof[s])
    BY Handled DEF PoolInv, AddCandidate, Holds, Waiting
  <1>2. UNCHANGED chainVars /\ (Record(entry[s]) \/ UNCHANGED roundVars)
    BY DEF AddCandidate
  <1> QED
    BY <1>1, <1>2 DEF Elsewhere, payoutVars, IntakeStep, vars

LEMMA IntakeAllowed ==
    ASSUME AnyRound, PoolInv, IntakeSide \/ NetworkSide PROVE [Next]_vars
  <1>1. Elsewhere
    BY DEF IntakeSide, NetworkSide, Elsewhere
  <1>2. ASSUME NEW s \in Sessions, SubmitBlock(s) \/ WriteBlock(s) \/ AddCandidate(s)
        PROVE  [Next]_vars
    BY <1>1, <1>2, SubmitBlockAllowed, WriteBlockAllowed, AddCandidateAllowed DEF Next
  <1>3. ASSUME NEW s \in Sessions, FetchWork(s) \/ CheckPoWExist(s) \/ WriteShare(s)
                                   \/ \E p \in Proofs : Submit(s, p)
        PROVE  UNCHANGED vars
    BY <1>1, <1>3 DEF FetchWork, CheckPoWExist, WriteShare, Submit, Elsewhere, payoutVars, vars
  <1>4. ASSUME NEW i \in Instances, Refresh(i) \/ Restart(i) PROVE UNCHANGED vars
    BY <1>1, <1>4 DEF Refresh, Restart, Elsewhere, payoutVars, vars
  <1>5. CASE NetworkStep
    BY <1>1, <1>5 DEF NetworkStep, Elsewhere, payoutVars, ChainStep, Next
  <1> QED
    BY <1>2, <1>3, <1>4, <1>5 DEF IntakeSide, NetworkSide, ProxyStep, Handle

LEMMA EveryStepAllowed ==
    ASSUME AnyRound, PoolInv, [PoolNext]_poolVars PROVE [Next]_vars
  <1>1. CASE PayoutStep
    BY <1>1 DEF PayoutStep, Next
  <1>2. CASE UNCHANGED poolVars
    BY <1>2 DEF poolVars, payoutVars, vars
  <1> QED
    BY <1>1, <1>2, IntakeAllowed DEF PoolNext

-----------------------------------------------------------------------------
(***************************************************************************)
(* A step of the unlocker, as intake sees it: it records nothing, and a    *)
(* round that it deletes is the round of a block it settles.               *)
(***************************************************************************)
RoundsKept ==
    \/ rounds' = rounds
    \/ \E b \in Blocks : Settled(b)' /\ rounds' = [rounds EXCEPT ![RoundKey(b)] = NoShares]

Payouts ==
    /\ UNCHANGED <<chainVars, closed, intakeVars>>
    /\ \A b : Recorded(b)' => Recorded(b)
    /\ RoundsKept

LEMMA WritePays ==
    ASSUME Inv1, Writes PROVE (\A b : Recorded(b)' => Recorded(b)) /\ RoundsKept
  <1> USE DEF Inv1, TypeOK
  <1>1. CASE PendingOrphans
    <2>1. lost \subseteq candidates /\ WritePendingOrphans(lost)
      BY <1>1 DEF PendingOrphans, ControlTypeOK, Stage
    <2>2. /\ candidates' \subseteq candidates /\ matured' = matured
          /\ immature' = immature \cup {BlockEntry(e, 0, TRUE) : e \in lost}
      BY <2>1 DEF WritePendingOrphans
    <2>3. \A f \in immature' \ immature : \E e \in candidates : e.hash = f.hash
      BY <2>1, <2>2 DEF BlockEntry
    <2> QED
      BY <2>1, <2>2, <2>3 DEF WritePendingOrphans, Recorded, RoundsKept
  <1>2. ASSUME NEW e \in immature, NEW reward, NEW orphan, LeaveImmature(e, reward, orphan),
               UNCHANGED candidates
        PROVE  (\A b : Recorded(b)' => Recorded(b)) /\ RoundsKept
    <2>1. BlockEntry(e, reward, orphan).hash = e.hash /\ e.hash \in Blocks
      BY DEF BlockEntry, LedgerTypeOK, BlockEntries
    <2>2. Settled(e.hash)'
      BY <1>2, <2>1 DEF LeaveImmature, Settled
    <2>3. RoundsKept
      BY <1>2, <2>1, <2>2 DEF LeaveImmature, RoundsKept
    <2>4. \A b : Recorded(b)' => Recorded(b)
      BY <1>2, <2>1 DEF LeaveImmature, Recorded
    <2> QED
      BY <2>3, <2>4
  <1>3. ASSUME NEW e \in lost, Orphan(e)
        PROVE  (\A b : Recorded(b)' => Recorded(b)) /\ RoundsKept
    <2>1. e \in immature /\ LeaveImmature(e, 0, TRUE) /\ UNCHANGED candidates
      BY <1>3 DEF Orphan, WriteOrphan, ControlTypeOK, Stage
    <2> QED
      BY <1>2, <2>1
  <1>4. ASSUME NEW m \in live, Mature(m)
        PROVE  (\A b : Recorded(b)' => Recorded(b)) /\ RoundsKept
    <2>1. m.entry \in immature /\ LeaveImmature(m.entry, m.reward, FALSE) /\ UNCHANGED candidates
      BY <1>4 DEF Mature, WriteMaturedBlock, ControlTypeOK, Stage
    <2> QED
      BY <1>2, <2>1
  <1>5. ASSUME NEW m \in live, Immature(m)
        PROVE  (\A b : Recorded(b)' => Recorded(b)) /\ RoundsKept
    <2>1. /\ m.entry \in candidates /\ matured' = matured /\ rounds' = rounds
          /\ candidates' \subseteq candidates
          /\ immature' = immature \cup {BlockEntry(m.entry, m.reward, FALSE)}
      BY <1>5 DEF Immature, WriteImmatureBlock, ControlTypeOK, Stage
    <2>2. BlockEntry(m.entry, m.reward, FALSE).hash = m.entry.hash
      BY DEF BlockEntry
    <2> QED
      BY <2>1, <2>2 DEF Recorded, RoundsKept
  <1> QED
    BY <1>1, <1>3, <1>4, <1>5 DEF Writes

LEMMA StepPays ==
    ASSUME Inv1, PayoutStep PROVE Payouts
  <1>1. UNCHANGED intakeVars
    BY DEF PayoutStep
  <1>2. CASE Writes
    BY <1>1, <1>2, WritePays DEF Writes, Payouts
  <1>3. CASE Reads \/ Fail \/ Crash
    BY <1>1, <1>3 DEF Reads, Fail, Crash, Payouts, RoundsKept, Recorded, roundVars, ledgerVars
  <1> QED
    BY <1>2, <1>3 DEF PayoutStep, UnlockerStep

LEMMA PaysSeated ==
    ASSUME Seated, UNCHANGED <<chainVars, closed, intakeVars>> PROVE Seated'
  <1>1. UNCHANGED <<accepted, closed, pow, at, proof, entry, confirmed, credited, submits,
                    intakeFaults, restarts>>
    BY DEF chainVars, intakeVars, seatVars
  <1>2. Typed'
    BY <1>1 DEF Seated, Typed
  <1>3. Taken'
    BY <1>1 DEF Seated, Taken, IsClosed
  <1>4. \A s \in Sessions : Seat(s)'
    BY <1>1 DEF Seated, Seat, Own, OfBlock, ToDo, Holds, IsClosed
  <1> QED
    BY <1>2, <1>3, <1>4 DEF Seated

-----------------------------------------------------------------------------
(***************************************************************************)
(* The invariant is kept.                                                  *)
(***************************************************************************)
\* What is recorded, as a set of hashes.
RecordedSet == HashesOf(candidates) \cup HashesOf(immature) \cup HashesOf(matured)

LEMMA RecordedIn ==
    /\ \A b : Recorded(b) <=> b \in RecordedSet
    /\ \A b : Recorded(b)' <=> b \in RecordedSet'
  BY DEF Recorded, RecordedSet, HashesOf

LEMMA PayoutKeeps ==
    ASSUME PoolInv, PayoutStep
    PROVE  Seated' /\ Current' /\ ClosedFirst' /\ \A s \in Sessions : Waiting(s)'
  <1>1. Payouts
    BY StepPays DEF PoolInv
  <1>2. Seated'
    BY <1>1, PaysSeated DEF PoolInv, Payouts
  <1>3. UNCHANGED <<at, proof, closed, roundCurrent>>
    BY <1>1 DEF Payouts, intakeVars, seatVars
  <1>4. Current'
    BY <1>3 DEF PoolInv, Current
  <1>5. ClosedFirst'
    BY <1>1, <1>3 DEF PoolInv, ClosedFirst, IsClosed, Payouts
  <1>6. RecordedSet' \subseteq RecordedSet
    BY <1>1, RecordedIn DEF Payouts
  <1>7. \A s \in Sessions : Waiting(s)'
    BY <1>3, <1>6, RecordedIn DEF PoolInv, Waiting
  <1> QED
    BY <1>2, <1>4, <1>5, <1>7

\* Steps of intake that leave the candidates alone.
LEMMA IntakeCalm ==
    ASSUME PoolInv, UNCHANGED <<candidates, immature, matured>>, closed \subseteq closed',
           \A s \in Sessions : at'[s] = "zadd" =>
               \/ at[s] = "zadd" /\ proof'[s] = proof[s]
               \/ proof'[s] = proof[s] /\ ~IsClosed(proof[s])
    PROVE  ClosedFirst' /\ \A s \in Sessions : Waiting(s)'
  <1>1. RecordedSet' = RecordedSet
    BY DEF RecordedSet, HashesOf
  <1>2. ClosedFirst'
    BY <1>1, RecordedIn DEF PoolInv, ClosedFirst, IsClosed
  <1>3. ASSUME NEW s \in Sessions PROVE Waiting(s)'
    <2>1. at'[s] = "zadd" => proof[s] \notin RecordedSet /\ proof'[s] = proof[s]
      BY RecordedIn DEF PoolInv, Waiting, ClosedFirst
    <2> QED
      BY <1>1, <2>1, RecordedIn DEF Waiting
  <1> QED
    BY <1>2, <1>3

LEMMA WriteBlockKeeps ==
    ASSUME AnyRound, PoolInv, NEW s \in Sessions, WriteBlock(s), Elsewhere
    PROVE  Current' /\ ClosedFirst' /\ \A t \in Sessions : Waiting(t)'
  <1>1. proof[s] \in Blocks /\ ~IsClosed(proof[s]) /\ Typed
    BY Handled DEF PoolInv, WriteBlock, ToDo
  <1>2. roundCurrent' \in {NoShares, roundCurrent}
    BY DEF WriteBlock
  <1>3. Current'
    BY <1>2 DEF PoolInv, Current, NoShares
  <1>4. UNCHANGED <<candidates, immature, matured>> /\ closed \subseteq closed'
    BY DEF WriteBlock, CloseRound, roundVars, Elsewhere, payoutVars, ledgerVars
  <1>5. \/ Answer(s)
        \/ at' = [at EXCEPT ![s] = "zadd"] /\ proof' = proof
    BY DEF WriteBlock
  <1>6. \A t \in Sessions : at'[t] = "zadd" =>
            \/ at[t] = "zadd" /\ proof'[t] = proof[t]
            \/ proof'[t] = proof[t] /\ ~IsClosed(proof[t])
    BY <1>1, <1>5 DEF Answer, Typed
  <1> QED
    BY <1>3, <1>4, <1>6, IntakeCalm

LEMMA AddCandidateKeeps ==
    ASSUME PoolInv, NEW s \in Sessions, AddCandidate(s), Elsewhere
    PROVE  Current' /\ ClosedFirst' /\ \A t \in Sessions : Waiting(t)'
  <1>1. /\ entry[s] \in closed /\ entry[s].hash = proof[s] /\ Typed
        /\ SessionOf[proof[s]] = s /\ at[s] = "zadd"
    BY Handled DEF PoolInv, AddCandidate, Holds
  <1>2. Answer(s) /\ UNCHANGED <<roundCurrent, closed, immature, matured>>
    BY DEF AddCandidate, Record, roundVars, Elsewhere, payoutVars, ledgerVars
  <1>3. Current'
    BY <1>2 DEF PoolInv, Current
  <1>4. RecordedSet' \subseteq RecordedSet \cup {proof[s]}
    BY <1>1, <1>2 DEF AddCandidate, Record, roundVars, RecordedSet, HashesOf
  <1>5. ClosedFirst'
    <2>1. \A b \in RecordedSet' : IsClosed(b)
      BY <1>1, <1>4, RecordedIn DEF PoolInv, ClosedFirst, IsClosed
    <2> QED
      BY <1>2, <2>1, RecordedIn DEF ClosedFirst, IsClosed
  <1>6. ASSUME NEW t \in Sessions PROVE Waiting(t)'
    <2>1. at'[s] = "idle" /\ \A u \in Sessions \ {s} : at'[u] = at[u] /\ proof'[u] = proof[u]
      BY <1>1, <1>2 DEF Answer, Typed
    <2>2. CASE t = s
      BY <2>1, <2>2 DEF Waiting
    <2>3. CASE t # s /\ at[t] = "zadd"
      <3>1. SessionOf[proof[t]] = t
        BY <2>3, Handled DEF PoolInv
      <3>2. proof[t] # proof[s] /\ proof[t] \notin RecordedSet
        BY <1>1, <2>3, <3>1, RecordedIn DEF PoolInv, Waiting
      <3>3. proof'[t] \notin RecordedSet'
        BY <1>4, <2>1, <2>3, <3>2
      <3> QED
        BY <3>3, RecordedIn DEF Waiting
    <2> QED
      BY <2>1, <2>2, <2>3 DEF Waiting
  <1> QED
    BY <1>3, <1>5, <1>6

LEMMA WriteShareKeeps ==
    ASSUME AnyRound, PoolInv, NEW s \in Sessions, WriteShare(s), Elsewhere
    PROVE  Current' /\ ClosedFirst' /\ \A t \in Sessions : Waiting(t)'
  <1>1. Typed /\ WithShare(s) \in [Logins -> Nat]
    BY SharedRound DEF PoolInv, Seated
  <1>2. roundCurrent' \in {WithShare(s), roundCurrent}
    BY DEF WriteShare
  <1>3. Current'
    BY <1>1, <1>2 DEF PoolInv, Current
  <1>4. UNCHANGED <<candidates, immature, matured, closed>> /\ Answer(s)
    BY DEF WriteShare, roundVars, Elsewhere, payoutVars, ledgerVars
  <1>5. \A t \in Sessions : at'[t] = "zadd" => at[t] = "zadd" /\ proof'[t] = proof[t]
    BY <1>1, <1>4 DEF Answer, Typed
  <1> QED
    BY <1>3, <1>4, <1>5, IntakeCalm

\* Every other step of intake or of the network.
LEMMA OtherKeeps ==
    ASSUME PoolInv, Elsewhere,
           \/ \E s \in Sessions : SubmitBlock(s) \/ FetchWork(s) \/ CheckPoWExist(s)
           \/ \E s \in Sessions, p \in Proofs : Submit(s, p)
           \/ \E i \in Instances : Refresh(i) \/ Restart(i)
           \/ NetworkStep
    PROVE  Current' /\ ClosedFirst' /\ \A t \in Sessions : Waiting(t)'
  <1>1. Typed
    BY DEF PoolInv, Seated
  <1>2. UNCHANGED <<roundVars, roundCurrent>>
    BY DEF SubmitBlock, FetchWork, CheckPoWExist, Submit, Refresh, Restart, NetworkStep, intakeVars
  <1>3. Current' /\ UNCHANGED <<candidates, immature, matured, closed>>
    BY <1>2 DEF PoolInv, Current, roundVars, Elsewhere, payoutVars, ledgerVars
  <1>4. \A t \in Sessions : at'[t] = "zadd" => at[t] = "zadd" /\ proof'[t] = proof[t]
    <2>1. ASSUME NEW s \in Sessions,
                 Answer(s) \/ Goto(s, "fetch") \/ Goto(s, "pow") \/ Goto(s, "exec")
          PROVE  \A t \in Sessions : at'[t] = "zadd" => at[t] = "zadd" /\ proof'[t] = proof[t]
      BY <1>1, <2>1 DEF Answer, Goto, Typed
    <2>2. ASSUME NEW s \in Sessions, SubmitBlock(s) \/ FetchWork(s) \/ CheckPoWExist(s)
          PROVE  Answer(s) \/ Goto(s, "fetch") \/ Goto(s, "pow") \/ Goto(s, "exec")
      BY <2>2 DEF SubmitBlock, FetchWork, CheckPoWExist
    <2>3. ASSUME NEW s \in Sessions, NEW p \in Proofs, Submit(s, p)
          PROVE  \A t \in Sessions : at'[t] = "zadd" => at[t] = "zadd" /\ proof'[t] = proof[t]
      BY <1>1, <2>3 DEF Submit, Typed
    <2>4. ASSUME NEW i \in Instances, Refresh(i) \/ Restart(i)
          PROVE  \A t \in Sessions : at'[t] = "zadd" => at[t] = "zadd" /\ proof'[t] = proof[t]
      BY <1>1, <2>4 DEF Refresh, Restart, seatVars, Typed
    <2>5. CASE NetworkStep
      BY <2>5 DEF NetworkStep, intakeVars, seatVars
    <2> QED
      BY <2>1, <2>2, <2>3, <2>4, <2>5
  <1> QED
    BY <1>3, <1>4, IntakeCalm

LEMMA IntakeKeeps ==
    ASSUME AnyRound, PoolInv, IntakeSide \/ NetworkSide
    PROVE  Seated' /\ Current' /\ ClosedFirst' /\ \A s \in Sessions : Waiting(s)'
  <1>1. IntakeNext /\ Elsewhere
    BY DEF IntakeSide, NetworkSide, IntakeNext, Elsewhere
  <1>2. Seated'
    BY <1>1, SeatedNext DEF PoolInv
  <1> QED
    BY <1>1, <1>2, WriteBlockKeeps, AddCandidateKeeps, WriteShareKeeps, OtherKeeps
       DEF IntakeNext, ProxyStep, Handle

LEMMA PoolInvNext ==
    ASSUME AnyRound, PoolInv, [PoolNext]_poolVars PROVE PoolInv'
  <1>1. Inv1'
    BY EveryStepAllowed, Inv1Step DEF PoolInv
  <1>2. CASE PayoutStep \/ IntakeSide \/ NetworkSide
    BY <1>1, <1>2, PayoutKeeps, IntakeKeeps DEF PoolInv
  <1>3. CASE UNCHANGED poolVars
    <2>1. UNCHANGED <<chainVars, closed, intakeVars>>
          /\ UNCHANGED <<candidates, immature, matured, closed, roundCurrent, at, proof>>
      BY <1>3 DEF poolVars, payoutVars, roundVars, ledgerVars, intakeVars, seatVars
    <2>2. Seated' /\ Current'
      BY <2>1, PaysSeated DEF PoolInv, Current
    <2>3. ClosedFirst' /\ \A s \in Sessions : Waiting(s)'
      BY <2>1, IntakeCalm
    <2> QED
      BY <1>1, <2>2, <2>3 DEF PoolInv
  <1> QED
    BY <1>2, <1>3 DEF PoolNext

-----------------------------------------------------------------------------
\* Share intake, on any number of instances and with its own faults and
\* restarts, does to the chain, the rounds and the candidates only what the
\* unlocker's environment may do (processShare against unlocker.go).
THEOREM PoolImplementsUnlocker ==
    ASSUME AnyRound PROVE PoolSpec => UnlockerAssumptionHolds
  <1>1. PoolInit => Init
    BY DEF PoolInit
  <1>2. PoolInv /\ [PoolNext]_poolVars => PoolInv' /\ [Next]_vars
    BY PoolInvNext, EveryStepAllowed
  <1> QED
    BY <1>1, <1>2, PoolInvInit, PTL DEF PoolSpec, UnlockerAssumptionHolds, Spec

\* In the pool, too, no settled block is judged wrongly, and a block is in
\* one stage only.
THEOREM PoolPaysRightly ==
    ASSUME AnyRound, ReorgDepth <= Depth
    PROVE  PoolSpec => [](PaidIsFinal /\ OneStage)
  <1>1. Spec => []PaidIsFinal
    BY PaidIsFinalCorrect
  <1>2. PoolSpec => Spec
    BY PoolImplementsUnlocker DEF UnlockerAssumptionHolds
  <1> QED
    BY <1>1, <1>2, OneStageCorrect, PTL

-----------------------------------------------------------------------------
(***************************************************************************)
(* Settling a block deletes no other block's round, if no two blocks have  *)
(* the same round key.                                                     *)
(***************************************************************************)
Holding(e) == TotalOf(rounds[RoundKey(e.hash)]) = e.shares
Intact == \A e \in closed : Settled(e.hash) \/ Holding(e)

LEMMA ClosedTyped ==
    ASSUME Inv1
    PROVE  /\ \A e \in closed : e.hash \in Blocks /\ RoundKey(e.hash) \in RoundKeys
           /\ DOMAIN rounds = RoundKeys /\ rounds = [k \in RoundKeys |-> rounds[k]]
  BY DEF Inv1, TypeOK, LedgerTypeOK, Candidates, RoundKeys

LEMMA PayoutIntact ==
    ASSUME KeysApart, PoolInv, Intact, PayoutStep PROVE Intact'
  <1>1. RoundsKept /\ closed' = closed /\ Inv1
    BY StepPays DEF PoolInv, Payouts
  <1>2. matured \subseteq matured'
    BY <1>1, NeverForgottenStep DEF PayoutStep, Next
  <1>3. ASSUME NEW e \in closed PROVE Settled(e.hash)' \/ Holding(e)'
    <2>1. CASE Settled(e.hash)
      BY <1>2, <2>1 DEF Settled
    <2>2. CASE rounds' = rounds /\ ~Settled(e.hash)
      BY <2>2 DEF Intact, Holding
    <2>3. ASSUME NEW b \in Blocks, Settled(b)', ~Settled(e.hash),
                 rounds' = [rounds EXCEPT ![RoundKey(b)] = NoShares]
          PROVE  Settled(e.hash)' \/ Holding(e)'
      <3>1. CASE e.hash = b
        BY <2>3, <3>1 DEF Settled
      <3>2. CASE e.hash # b
        <4>1. RoundKey(e.hash) # RoundKey(b) /\ RoundKey(e.hash) \in RoundKeys
          BY <1>1, <3>2, ClosedTyped DEF KeysApart
        <4>2. rounds'[RoundKey(e.hash)] = rounds[RoundKey(e.hash)]
          BY <1>1, <2>3, <4>1, ClosedTyped
        <4> QED
          BY <2>3, <4>2 DEF Intact, Holding
      <3> QED
        BY <3>1, <3>2
    <2> QED
      BY <1>1, <2>1, <2>2, <2>3 DEF RoundsKept
  <1> QED
    BY <1>1, <1>3 DEF Intact

LEMMA WriteBlockIntact ==
    ASSUME KeysApart, PoolInv, Intact, NEW s \in Sessions, WriteBlock(s), Elsewhere PROVE Intact'
  <1> DEFINE p == proof[s]
             ws == WithShare(s)
             entered == CandidateEntry(p, ws)
  <1>1. p \in Blocks /\ ~IsClosed(p) /\ Inv1 /\ matured' = matured
    BY Handled DEF PoolInv, WriteBlock, ToDo, Elsewhere, payoutVars, ledgerVars
  <1>2. CASE UNCHANGED roundVars
    BY <1>1, <1>2 DEF Intact, Holding, Settled, roundVars
  <1>3. CASE CloseRound(p, ws)
    <2>1. /\ rounds' = [rounds EXCEPT ![RoundKey(p)] = ws]
          /\ closed' = closed \cup {entered}
      BY <1>3 DEF CloseRound
    <2>2. entered.hash = p /\ entered.shares = TotalOf(ws)
      BY DEF CandidateEntry
    <2>3. RoundKey(p) \in RoundKeys
      BY <1>1 DEF RoundKeys
    <2> HIDE DEF entered, ws, p
    <2>4. rounds'[RoundKey(p)] = ws
      BY <1>1, <2>1, <2>3, ClosedTyped
    <2>5. ASSUME NEW e, e = entered PROVE Holding(e)'
      BY <2>2, <2>4, <2>5 DEF Holding
    <2>6. ASSUME NEW e \in closed PROVE Settled(e.hash)' \/ Holding(e)'
      <3>1. e.hash \in Blocks /\ e.hash # p /\ RoundKey(e.hash) \in RoundKeys
        BY <1>1, ClosedTyped DEF IsClosed
      <3>2. RoundKey(e.hash) # RoundKey(p)
        BY <1>1, <3>1 DEF KeysApart
      <3>3. rounds'[RoundKey(e.hash)] = rounds[RoundKey(e.hash)]
        BY <1>1, <2>1, <3>1, <3>2, ClosedTyped
      <3> QED
        BY <1>1, <3>3 DEF Intact, Holding, Settled
    <2> QED
      BY <2>1, <2>5, <2>6 DEF Intact
  <1> QED
    BY <1>2, <1>3 DEF WriteBlock

LEMMA QuietIntact ==
    ASSUME Intact, UNCHANGED <<rounds, closed, matured>> PROVE Intact'
  BY DEF Intact, Holding, Settled

LEMMA IntactNext ==
    ASSUME KeysApart, PoolInv, Intact, [PoolNext]_poolVars PROVE Intact'
  <1>1. CASE IntakeSide \/ NetworkSide
    <2>1. IntakeNext /\ Elsewhere /\ matured' = matured
      BY <1>1 DEF IntakeSide, NetworkSide, IntakeNext, Elsewhere, payoutVars, ledgerVars
    <2>2. ASSUME NEW s \in Sessions, \/ SubmitBlock(s) \/ FetchWork(s) \/ CheckPoWExist(s)
                                     \/ WriteShare(s) \/ AddCandidate(s)
                                     \/ \E p \in Proofs : Submit(s, p)
          PROVE  UNCHANGED <<rounds, closed>>
      BY <2>2 DEF SubmitBlock, FetchWork, CheckPoWExist, WriteShare, AddCandidate, Record,
                  Submit, roundVars
    <2>3. ASSUME NetworkStep \/ \E i \in Instances : Refresh(i) \/ Restart(i)
          PROVE  UNCHANGED <<rounds, closed>>
      BY <2>3 DEF NetworkStep, Refresh, Restart, roundVars
    <2> QED
      BY <2>1, <2>2, <2>3, WriteBlockIntact, QuietIntact DEF IntakeNext, ProxyStep, Handle
  <1>2. CASE PayoutStep
    BY <1>2, PayoutIntact
  <1>3. CASE UNCHANGED poolVars
    BY <1>3, QuietIntact DEF poolVars, payoutVars, roundVars, ledgerVars
  <1> QED
    BY <1>1, <1>2, <1>3 DEF PoolNext

\* The round of a block that is not settled holds the shares its rewards will
\* be divided by, whatever intake closes and the unlocker settles meanwhile
\* (writeMaturedBlock against WriteBlock).
THEOREM UnsettledRoundsIntactCorrect ==
    ASSUME AnyRound, KeysApart PROVE PoolSpec => []UnsettledRoundsIntact
  <1>1. PoolInit => Intact
    BY DEF PoolInit, Init, RoundsInit, Intact
  <1>2. PoolInv /\ Intact /\ [PoolNext]_poolVars => PoolInv' /\ Intact'
    BY PoolInvNext, IntactNext
  <1>3. Intact => UnsettledRoundsIntact
    BY DEF Intact, Holding, UnsettledRoundsIntact
  <1> QED
    BY <1>1, <1>2, <1>3, PoolInvInit, PTL DEF PoolSpec

-----------------------------------------------------------------------------
(***************************************************************************)
(* Who has delivered no proof has nothing: no share in any round, nothing  *)
(* announced and nothing paid.                                             *)
(***************************************************************************)
Worked(l) == \E p \in Proofs : LoginOf[SessionOf[p]] = l /\ credited[p] > 0

NoMoney(l) ==
    /\ \A b \in Blocks : creditLog[b][l] = 0
    /\ minerImmature[l] = 0 /\ minerBalance[l] = 0
HasNothing(l) ==
    /\ roundCurrent[l] = 0 /\ loaded[l] = 0
    /\ \A k \in RoundKeys : rounds[k][l] = 0
    /\ NoMoney(l)
OnlyWorkers == \A l \in Logins : Worked(l) \/ HasNothing(l)

LEMMA OnlyWorkersInit == PoolInit => OnlyWorkers
  <1> SUFFICES ASSUME PoolInit, NEW l \in Logins PROVE HasNothing(l)
    BY DEF OnlyWorkers
  <1>1. l \in Accounts
    BY DEF Accounts
  <1>2. roundCurrent[l] = 0 /\ loaded[l] = 0
    BY DEF PoolInit, IntakeInit, Init, NoShares
  <1>3. \A k \in RoundKeys : rounds[k][l] = 0
    BY DEF PoolInit, Init, RoundsInit, NoShares
  <1>4. NoMoney(l)
    BY <1>1 DEF PoolInit, Init, LedgerInit, NoCredits, NoMoney
  <1> QED
    BY <1>2, <1>3, <1>4 DEF HasNothing

\* No share, no reward.
LEMMA NoShareNoReward ==
    ASSUME Inv1, OwnAddresses, NEW m \in live, NEW l \in Logins, loaded[l] = 0
    PROVE  Credits(m)[l] = 0
  <1>1. m.entry \in Stage(pass) /\ m.reward \in Int /\ loaded \in [Logins -> Nat]
    BY DEF Inv1, TypeOK, ControlTypeOK
  <1>2. m.entry.shares \in Nat \ {0}
    BY <1>1, StageMembers DEF Inv1
  <1>3. Credits(m)[l] = ShareReward(loaded[l], m.entry.shares, m.reward)
    BY <1>1, <1>2, MinersGetTheirShare
  <1> QED
    BY <1>3 DEF ShareReward

\* What is taken back, from the log or from nothing, was nothing.
LEMMA NothingTakenBack ==
    ASSUME Inv1, NEW l \in Logins, NoMoney(l), NEW b \in Blocks,
           NEW log \in {creditLog[b], NoCredits},
           minerImmature' = Minus(minerImmature, log),
           creditLog' = [creditLog EXCEPT ![b] = NoCredits]
    PROVE  minerImmature'[l] = 0 /\ \A c \in Blocks : creditLog'[c][l] = 0
  <1>1. l \in Accounts /\ creditLog \in [Blocks -> [Accounts -> Int]]
    BY DEF Accounts, Inv1, TypeOK, LedgerTypeOK
  <1>2. log[l] = 0 /\ NoCredits[l] = 0 /\ minerImmature[l] = 0
    BY <1>1 DEF NoMoney, NoCredits
  <1>3. minerImmature'[l] = 0 - 0
    BY <1>1, <1>2 DEF Minus
  <1> QED
    BY <1>1, <1>2, <1>3 DEF NoMoney

LEMMA NoMoneyWrites ==
    ASSUME Inv1, OwnAddresses, NEW l \in Logins, HasNothing(l), Writes PROVE NoMoney(l)'
  <1>1. l \in Accounts /\ NoMoney(l) /\ loaded[l] = 0
        /\ creditLog \in [Blocks -> [Accounts -> Int]] /\ paidLog \in [Blocks -> [Accounts -> Int]]
    BY DEF Accounts, HasNothing, Inv1, TypeOK, LedgerTypeOK
  <1>2. CASE PendingOrphans
    BY <1>1, <1>2 DEF PendingOrphans, WritePendingOrphans, NoMoney
  <1>3. ASSUME NEW e \in lost, Orphan(e) PROVE NoMoney(l)'
    <2>1. e.hash \in Blocks
      BY <1>3 DEF Orphan, Inv1, TypeOK, ControlTypeOK, LedgerTypeOK, Stage, BlockEntries
    <2>2. PICK log \in {creditLog[e.hash], NoCredits} :
             /\ minerImmature' = Minus(minerImmature, log) /\ minerBalance' = minerBalance
             /\ creditLog' = [creditLog EXCEPT ![e.hash] = NoCredits]
      BY <1>3 DEF Orphan, WriteOrphan, CreditLogReads
    <2> QED
      BY <1>1, <2>1, <2>2, NothingTakenBack DEF NoMoney
  <1>4. ASSUME NEW m \in live, Mature(m) PROVE NoMoney(l)'
    <2> DEFINE b == m.entry.hash
    <2>1. b \in Blocks
      BY <1>4 DEF Mature, Inv1, TypeOK, ControlTypeOK, LedgerTypeOK, Stage, BlockEntries
    <2>2. PICK log \in CreditLogReads(b) : WriteMaturedBlock(m.entry, m.reward, Credits(m), log)
      BY <1>4 DEF Mature
    <2>3. log \in {creditLog[b], NoCredits}
      BY <2>2 DEF CreditLogReads
    <2>4. minerImmature'[l] = 0 /\ \A c \in Blocks : creditLog'[c][l] = 0
      BY <1>1, <2>1, <2>2, <2>3, NothingTakenBack DEF WriteMaturedBlock
    <2>5. minerBalance'[l] = 0 + 0
      <3>1. Credits(m)[l] = 0
        BY <1>1, NoShareNoReward
      <3> QED
        BY <1>1, <2>2, <3>1 DEF WriteMaturedBlock, Plus, NoMoney
    <2>6. minerBalance'[l] = 0
      BY <2>5
    <2> QED
      BY <2>4, <2>6, Zenon DEF NoMoney
  <1>5. ASSUME NEW m \in live, Immature(m) PROVE NoMoney(l)'
    <2> DEFINE b == m.entry.hash
    <2>1. b \in Blocks
      BY <1>5 DEF Immature, Inv1, TypeOK, ControlTypeOK, LedgerTypeOK, Stage, Candidates
    <2>2. Credits(m)[l] = 0
      BY <1>1, NoShareNoReward
    <2>3. WriteImmatureBlock(m.entry, m.reward, Credits(m))
      BY <1>5 DEF Immature
    <2>4. minerImmature'[l] = 0 + 0 /\ minerBalance' = minerBalance
      BY <1>1, <2>2, <2>3 DEF WriteImmatureBlock, Plus, NoMoney
    <2>5. SetAbsent(creditLog[b], Credits(m))[l] = 0
      BY <1>1, <2>1, <2>2 DEF SetAbsent, NoMoney
    <2>6. creditLog' = [creditLog EXCEPT ![b] = SetAbsent(creditLog[b], Credits(m))]
      BY <2>3 DEF WriteImmatureBlock
    <2>7. \A c \in Blocks : creditLog'[c][l] = 0
      BY <1>1, <2>5, <2>6 DEF NoMoney
    <2> QED
      BY <1>1, <2>4, <2>7 DEF NoMoney
  <1> QED
    BY <1>2, <1>3, <1>4, <1>5 DEF Writes

\* The unlocker works with rounds it has read.
LEMMA LoadsRounds ==
    ASSUME Inv1, PayoutStep
    PROVE  loaded' \in {loaded, NoShares} \/ \E k \in RoundKeys : loaded' = rounds[k]
  <1>1. ASSUME NEW m \in live, LoadRound(m) PROVE \E k \in RoundKeys : loaded' = rounds[k]
    <2>1. m.entry.hash \in Blocks
      BY <1>1 DEF Inv1, TypeOK, ControlTypeOK, LedgerTypeOK, Stage, Candidates, BlockEntries
    <2> QED
      BY <1>1, <2>1 DEF LoadRound, RoundKeys
  <1>2. CASE Reads
    BY <1>1, <1>2 DEF Reads, GetMiningInfo, ListBlocks, EndPass, Leave, CheckBlock, NoOrphans, GoOn
  <1>3. CASE Writes
    BY <1>3 DEF Writes, PendingOrphans, Orphan, Immature, Mature, Replied, Halt, GoOn, EndPass, Leave
  <1>4. CASE Fail \/ Crash
    BY <1>4 DEF Fail, Halt, Crash, Leave
  <1> QED
    BY <1>2, <1>3, <1>4 DEF PayoutStep, UnlockerStep

LEMMA PayoutGivesNothing ==
    ASSUME PoolInv, OwnAddresses, PayoutStep, NEW l \in Logins, HasNothing(l)
    PROVE  HasNothing(l)'
  <1>1. Inv1 /\ RoundsKept /\ roundCurrent' = roundCurrent
    BY StepPays DEF PoolInv, Payouts, intakeVars
  <1>2. NoShares[l] = 0
    BY DEF NoShares
  <1>3. loaded'[l] = 0
    BY <1>1, <1>2, LoadsRounds DEF HasNothing
  <1>4. \A k \in RoundKeys : rounds'[k][l] = 0
    BY <1>1, <1>2, ClosedTyped DEF RoundsKept, HasNothing
  <1>5. NoMoney(l)'
    <2>1. CASE Writes
      BY <1>1, <2>1, NoMoneyWrites
    <2>2. CASE Reads \/ Fail \/ Crash
      BY <2>2 DEF Reads, Fail, Crash, ledgerVars, HasNothing, NoMoney
    <2> QED
      BY <2>1, <2>2 DEF PayoutStep, UnlockerStep
  <1> QED
    BY <1>1, <1>3, <1>4, <1>5 DEF HasNothing

\* A session's share is counted together with its proof.
LEMMA ShareIsWork ==
    ASSUME PoolInv, NEW s \in Sessions, at[s] = "exec", Credit(s), NEW l \in Logins, ~Worked(l)'
    PROVE  WithShare(s)[l] = roundCurrent[l]
  <1>1. proof[s] \in Proofs /\ SessionOf[proof[s]] = s /\ credited \in [Proofs -> Nat]
        /\ roundCurrent \in [Logins -> Nat]
    BY Handled DEF PoolInv, Typed, Current
  <1>2. credited'[proof[s]] > 0
    <2> DEFINE p == proof[s]
    <2>1. credited' = [credited EXCEPT ![p] = credited[p] + 1]
      BY DEF Credit
    <2>2. p \in Proofs /\ credited[p] \in Nat
      BY <1>1
    <2> HIDE DEF p
    <2>3. credited'[p] = credited[p] + 1
      BY <1>1, <2>1, <2>2
    <2>4. credited'[p] > 0
      BY <2>2, <2>3
    <2> QED
      BY <2>4 DEF p
  <1>3. l # LoginOf[s]
    BY <1>1, <1>2 DEF Worked
  <1> QED
    BY <1>1, <1>3, ShareAdded

LEMMA IntakeGivesNothing ==
    ASSUME PoolInv, IntakeSide \/ NetworkSide, NEW l \in Logins, HasNothing(l), ~Worked(l)'
    PROVE  HasNothing(l)'
  <1>1. IntakeNext /\ UNCHANGED <<loaded, creditLog, minerImmature, minerBalance>>
    BY DEF IntakeSide, NetworkSide, IntakeNext, payoutVars, ledgerVars, control
  <1>2. ASSUME roundCurrent'[l] = 0, \A k \in RoundKeys : rounds'[k][l] = 0 PROVE HasNothing(l)'
    BY <1>1, <1>2 DEF HasNothing, NoMoney
  <1>3. ASSUME UNCHANGED <<roundCurrent, rounds>> PROVE HasNothing(l)'
    BY <1>2, <1>3 DEF HasNothing
  <1>4. ASSUME NEW s \in Sessions, WriteShare(s) PROVE HasNothing(l)'
    <2>1. at[s] = "exec" /\ rounds' = rounds
          /\ (UNCHANGED roundCurrent \/ (Credit(s) /\ roundCurrent' = WithShare(s)))
      BY <1>4 DEF WriteShare, roundVars
    <2> QED
      BY <1>2, <2>1, ShareIsWork DEF HasNothing
  <1>5. ASSUME NEW s \in Sessions, WriteBlock(s) PROVE HasNothing(l)'
    <2>1. at[s] = "exec" /\ proof[s] \in Blocks
      BY <1>5 DEF WriteBlock
    <2>2. CASE UNCHANGED <<roundVars, roundCurrent>>
      BY <1>3, <2>2 DEF roundVars
    <2>3. CASE CloseRound(proof[s], WithShare(s)) /\ roundCurrent' = NoShares /\ Credit(s)
      <3>1. WithShare(s)[l] = 0
        BY <2>1, <2>3, ShareIsWork DEF HasNothing
      <3>2. \A k \in RoundKeys : rounds'[k][l] = 0
        BY <2>3, <3>1, ClosedTyped DEF CloseRound, HasNothing, PoolInv
      <3> QED
        BY <1>2, <2>3, <3>2 DEF NoShares
    <2> QED
      BY <1>5, <2>2, <2>3 DEF WriteBlock
  <1>6. ASSUME NEW s \in Sessions,
               \/ SubmitBlock(s) \/ FetchWork(s) \/ CheckPoWExist(s) \/ AddCandidate(s)
               \/ \E p \in Proofs : Submit(s, p)
        PROVE  HasNothing(l)'
    BY <1>3, <1>6 DEF SubmitBlock, FetchWork, CheckPoWExist, AddCandidate, Record, Submit, roundVars
  <1>7. ASSUME NetworkStep \/ \E i \in Instances : Refresh(i) \/ Restart(i) PROVE HasNothing(l)'
    BY <1>3, <1>7 DEF NetworkStep, Refresh, Restart, roundVars, intakeVars
  <1> QED
    BY <1>1, <1>4, <1>5, <1>6, <1>7 DEF IntakeNext, ProxyStep, Handle

\* What is counted stays counted.
LEMMA StillWorked ==
    ASSUME PoolInv, [PoolNext]_poolVars, NEW l \in Logins, Worked(l) PROVE Worked(l)'
  <1>1. PICK p \in Proofs : LoginOf[SessionOf[p]] = l /\ credited[p] > 0
    BY DEF Worked
  <1>2. credited \in [Proofs -> Nat]
    BY DEF PoolInv, Seated, Typed
  <1>3. credited' = credited \/ \E s \in Sessions : Credit(s)
    BY DEF PoolNext, poolVars, PayoutStep, IntakeSide, NetworkSide, NetworkStep, intakeVars, ProxyStep,
           Handle, SubmitBlock, FetchWork, CheckPoWExist, WriteShare, WriteBlock, AddCandidate, Submit,
           Refresh, Restart
  <1>4. credited'[p] >= credited[p]
    BY <1>2, <1>3 DEF Credit
  <1>5. credited[p] \in Nat /\ credited'[p] > 0
    BY <1>1, <1>2, <1>3, <1>4 DEF Credit
  <1> QED
    BY <1>1, <1>5 DEF Worked

LEMMA OnlyWorkersNext ==
    ASSUME PoolInv, OwnAddresses, OnlyWorkers, [PoolNext]_poolVars PROVE OnlyWorkers'
  <1> SUFFICES ASSUME NEW l \in Logins, ~Worked(l)' PROVE HasNothing(l)'
    BY DEF OnlyWorkers
  <1>1. HasNothing(l)
    BY StillWorked DEF OnlyWorkers
  <1>2. CASE UNCHANGED poolVars
    BY <1>1, <1>2 DEF poolVars, payoutVars, roundVars, ledgerVars, control, intakeVars, HasNothing,
                      NoMoney
  <1> QED
    BY <1>1, <1>2, PayoutGivesNothing, IntakeGivesNothing DEF PoolNext

\* A miner's immature amounts and balance come only from proofs the miner has
\* delivered, whatever rounds are overwritten, whatever calls fail and
\* whatever the reply to the read of a credit log, if the pool's own
\* addresses do not mine (from WriteShare to WriteMaturedBlock).
THEOREM OnlyWorkIsPaidCorrect ==
    ASSUME AnyRound, OwnAddresses PROVE PoolSpec => []OnlyWorkIsPaid
  <1>1. OnlyWorkers => OnlyWorkIsPaid
    BY DEF OnlyWorkers, HasNothing, NoMoney, Worked, OnlyWorkIsPaid
  <1>2. PoolInv /\ OnlyWorkers /\ [PoolNext]_poolVars => PoolInv' /\ OnlyWorkers'
    BY PoolInvNext, OnlyWorkersNext
  <1> QED
    BY <1>1, <1>2, PoolInvInit, OnlyWorkersInit, PTL DEF PoolSpec

\* In the pool, too, the books balance and the stages and amounts move as
\* Payout allows, whatever intake does between the unlocker's transactions.
THEOREM PoolBooksBalance ==
    ASSUME AnyRound, BlindReads = FALSE
    PROVE  PoolSpec => []LedgerBalanced /\ ImplementsPayout
  <1>1. PoolSpec => Spec
    BY PoolImplementsUnlocker DEF UnlockerAssumptionHolds
  <1> QED
    BY <1>1, LedgerBalancedCorrect, ImplementsPayoutCorrect, PTL
=============================================================================
