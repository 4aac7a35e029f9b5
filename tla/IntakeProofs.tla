----------------------------- MODULE IntakeProofs -----------------------------
(***************************************************************************)
(* What module Intake says of shares and blocks, for any number of pool    *)
(* instances, sessions and proofs, any faults and any restarts.            *)
(*                                                                         *)
(* The invariant follows a proof along the calls of processShare: a        *)
(* session handles its own proofs only, a block is taken by the node once, *)
(* and what a goroutine still has to do has not been done before.          *)
(***************************************************************************)
EXTENDS Intake, Sums

USE IntakeAssumption DEF None

\* The calls after the node has taken the block, or for a share all calls.
Handling == {"fetch", "pow", "exec", "zadd"}

Typed ==
    /\ at \in [Sessions -> {"idle", "submit"} \cup Handling]
    /\ proof \in [Sessions -> Proofs \cup {None}]
    /\ DOMAIN entry = Sessions /\ entry = [s \in Sessions |-> entry[s]]
    /\ credited \in [Proofs -> Nat] /\ submits \in [Proofs -> Nat]
    /\ pow \subseteq Proofs /\ confirmed \subseteq accepted /\ confirmed \subseteq Blocks
    /\ intakeFaults \in Nat /\ restarts \in Nat

IsClosed(b) == \E e \in closed : e.hash = b

\* What a session's goroutine holds is its own, and still to be done.
Own(s) ==
    at[s] # "idle" =>
        proof[s] \in Proofs /\ SessionOf[proof[s]] = s /\ submits[proof[s]] > 0
OfBlock(s) ==
    /\ at[s] \in {"submit", "fetch", "zadd"} => proof[s] \in Blocks
    /\ at[s] \in Handling /\ proof[s] \in Blocks => proof[s] \in confirmed
ToDo(s) ==
    proof[s] \in Blocks =>
        /\ at[s] \in {"fetch", "pow"} => proof[s] \notin pow
        /\ at[s] \in {"fetch", "pow", "exec"} => ~IsClosed(proof[s])
Holds(s) == at[s] = "zadd" => entry[s] \in closed /\ entry[s].hash = proof[s]
Seat(s) == Own(s) /\ OfBlock(s) /\ ToDo(s) /\ Holds(s)

\* Only what the node has taken gets further than SubmitBlock.
Taken == \A b \in Blocks : b \in pow \/ IsClosed(b) => b \in confirmed

Seated == Typed /\ Taken /\ \A s \in Sessions : Seat(s)

LEMMA SeatedInit == IntakeSpecInit => Seated
  <1> SUFFICES ASSUME IntakeSpecInit PROVE Seated
    OBVIOUS
  <1>1. Typed
    BY DEF IntakeSpecInit, IntakeInit, ChainInit, Typed, Handling
  <1>2. Taken
    BY DEF IntakeSpecInit, IntakeInit, RoundsInit, Taken, IsClosed
  <1>3. ASSUME NEW s \in Sessions PROVE Seat(s)
    BY DEF IntakeSpecInit, IntakeInit, Seat, Own, OfBlock, ToDo, Holds, Handling
  <1> QED
    BY <1>1, <1>2, <1>3 DEF Seated

-----------------------------------------------------------------------------
(***************************************************************************)
(* A step of the session s, which handles the proof p.                     *)
(***************************************************************************)
Moved(s) ==
    \A t \in Sessions \ {s} : at'[t] = at[t] /\ proof'[t] = proof[t] /\ entry'[t] = entry[t]
Grows(p) ==
    /\ pow' \subseteq pow \cup {p}
    /\ \A e \in closed' : e \in closed \/ e.hash = p
    /\ closed \subseteq closed' /\ confirmed \subseteq confirmed'
    /\ \A q \in Proofs : submits[q] > 0 => submits'[q] > 0

LEMMA OthersKept ==
    ASSUME Seated, NEW s \in Sessions, NEW p \in Proofs, SessionOf[p] = s, Moved(s), Grows(p)
    PROVE  \A t \in Sessions \ {s} : Seat(t)'
  <1> SUFFICES ASSUME NEW t \in Sessions \ {s} PROVE Seat(t)'
    OBVIOUS
  <1>1. Seat(t) /\ at'[t] = at[t] /\ proof'[t] = proof[t] /\ entry'[t] = entry[t]
    BY DEF Seated, Moved
  <1>2. at[t] # "idle" => proof[t] # p
    BY <1>1 DEF Seat, Own
  <1>3. Own(t)'
    BY <1>1 DEF Seat, Own, Grows
  <1>4. OfBlock(t)'
    BY <1>1 DEF Seat, OfBlock, Grows
  <1>5. ToDo(t)'
    BY <1>1, <1>2 DEF Seat, ToDo, Grows, IsClosed
  <1>6. Holds(t)'
    BY <1>1 DEF Seat, Holds, Grows
  <1> QED
    BY <1>3, <1>4, <1>5, <1>6 DEF Seat

\* What every step of a session does to the seats.
LEMMA StepMoves ==
    ASSUME Typed, NEW s \in Sessions
    PROVE  /\ \A next : Goto(s, next) =>
                Moved(s) /\ at'[s] = next /\ proof'[s] = proof[s] /\ entry'[s] = entry[s]
                /\ proof' = proof /\ entry' = entry
           /\ Answer(s) => Moved(s) /\ at'[s] = "idle" /\ proof'[s] = None
  <1>1. ASSUME NEW next, Goto(s, next)
        PROVE  Moved(s) /\ at'[s] = next /\ proof'[s] = proof[s] /\ entry'[s] = entry[s]
               /\ proof' = proof /\ entry' = entry
    BY <1>1 DEF Typed, Goto, Moved
  <1>2. ASSUME Answer(s) PROVE Moved(s) /\ at'[s] = "idle" /\ proof'[s] = None
    BY <1>2 DEF Typed, Answer, Moved
  <1> QED
    BY <1>1, <1>2

\* The variables of the goroutines after a step.
SeatsTyped ==
    /\ at \in [Sessions -> {"idle", "submit"} \cup Handling]
    /\ proof \in [Sessions -> Proofs \cup {None}]
    /\ DOMAIN entry = Sessions /\ entry = [s \in Sessions |-> entry[s]]

LEMMA StepSeats ==
    ASSUME Typed, NEW s \in Sessions,
           Answer(s) \/ \E next \in {"submit"} \cup Handling : Goto(s, next)
    PROVE  SeatsTyped'
  BY DEF Typed, SeatsTyped, Answer, Goto, NoEntry

LEMMA AnsweredSeat ==
    ASSUME NEW s \in Sessions, at'[s] = "idle", proof'[s] = None PROVE Seat(s)'
  BY DEF Seat, Own, OfBlock, ToDo, Holds, Handling

LEMMA StepKept ==
    ASSUME Seated, NEW s \in Sessions, NEW p \in Proofs, SessionOf[p] = s, Moved(s), Grows(p),
           Seat(s)', Typed', Taken'
    PROVE  Seated'
  <1>1. \A t \in Sessions \ {s} : Seat(t)'
    BY OthersKept
  <1> QED
    BY <1>1 DEF Seated

LEMMA SubmitKept ==
    ASSUME Seated, NEW s \in Sessions, NEW p \in Proofs, Submit(s, p) PROVE Seated'
  <1>1. Typed /\ at[s] = "idle" /\ SessionOf[p] = s
        /\ UNCHANGED <<pow, entry, credited, intakeFaults, restarts, confirmed, closed, accepted>>
    BY DEF Seated, Submit, chainVars, roundVars
  <1>2. /\ proof'[s] = p /\ at'[s] = (IF p \in Blocks THEN "submit" ELSE "pow")
        /\ Moved(s) /\ SeatsTyped'
    BY <1>1 DEF Submit, Typed, Moved, SeatsTyped, Handling
  <1>3. submits' \in [Proofs -> Nat] /\ submits'[p] > 0
        /\ \A q \in Proofs : submits[q] > 0 => submits'[q] > 0
    BY <1>1 DEF Submit, Typed
  <1>4. Typed'
    BY <1>1, <1>2, <1>3 DEF Typed, SeatsTyped
  <1>5. Grows(p)
    BY <1>1, <1>3 DEF Grows
  <1>6. Taken'
    BY <1>1 DEF Seated, Taken, IsClosed
  <1>7. Seat(s)'
    BY <1>1, <1>2, <1>3 DEF Seat, Own, OfBlock, ToDo, Holds, Handling
  <1> QED
    BY <1>1, <1>2, <1>4, <1>5, <1>6, <1>7, StepKept

\* What is known of the proof a session handles.
LEMMA Handled ==
    ASSUME Seated, NEW s \in Sessions, at[s] # "idle"
    PROVE  /\ proof[s] \in Proofs /\ SessionOf[proof[s]] = s /\ submits[proof[s]] > 0
           /\ at[s] \in {"submit", "fetch", "zadd"} => proof[s] \in Blocks
           /\ at[s] \in Handling /\ proof[s] \in Blocks => proof[s] \in confirmed
           /\ ToDo(s) /\ Holds(s) /\ Typed /\ Taken
  BY DEF Seated, Seat, Own, OfBlock

LEMMA Faults ==
    ASSUME Typed, Fault \/ NoFault PROVE intakeFaults' \in Nat
  BY DEF Typed, Fault, NoFault

LEMMA SubmitBlockKept == ASSUME Seated, NEW s \in Sessions, SubmitBlock(s) PROVE Seated'
  <1> DEFINE p == proof[s]
  <1>1. /\ at[s] = "submit" /\ p \in Blocks /\ p \in Proofs /\ SessionOf[p] = s
        /\ submits[p] > 0 /\ Typed /\ Taken
    BY Handled DEF SubmitBlock
  <1>2. UNCHANGED <<pow, credited, submits, restarts, closed>>
    BY DEF SubmitBlock, roundVars
  <1>3. intakeFaults' \in Nat
    BY <1>1, Faults DEF SubmitBlock
  <1>4. accepted \subseteq accepted' /\ confirmed \subseteq confirmed'
        /\ confirmed' \subseteq confirmed \cup {p} /\ confirmed' \subseteq accepted'
    BY <1>1 DEF SubmitBlock, Accept, Typed, chainVars
  <1>5. Answer(s) \/ (Goto(s, "fetch") /\ p \notin accepted /\ p \in confirmed')
    BY <1>1 DEF SubmitBlock, Accept
  <1>6. SeatsTyped'
    BY <1>1, <1>5, StepSeats DEF Handling
  <1>7. Typed'
    BY <1>1, <1>2, <1>3, <1>4, <1>6 DEF Typed, SeatsTyped
  <1>8. Grows(p) /\ Taken'
    BY <1>1, <1>2, <1>4 DEF Grows, Taken, IsClosed
  <1>9. Moved(s)
    BY <1>1, <1>5, StepMoves
  <1>10. CASE Answer(s)
    <2>1. Seat(s)'
      BY <1>1, <1>10, StepMoves, AnsweredSeat
    <2> QED
      BY <1>1, <1>7, <1>8, <1>9, <2>1, StepKept
  <1>11. CASE Goto(s, "fetch") /\ p \notin accepted /\ p \in confirmed'
    <2>1. at'[s] = "fetch" /\ proof'[s] = p
      BY <1>1, <1>11, StepMoves
    <2>2. p \notin pow /\ ~IsClosed(p)
      BY <1>1, <1>11 DEF Taken, Typed
    <2>3. Seat(s)'
      BY <1>1, <1>2, <1>11, <2>1, <2>2 DEF Seat, Own, OfBlock, ToDo, Holds, IsClosed
    <2> QED
      BY <1>1, <1>7, <1>8, <1>9, <2>3, StepKept
  <1> QED
    BY <1>5, <1>10, <1>11

LEMMA FetchKept == ASSUME Seated, NEW s \in Sessions, FetchWork(s) PROVE Seated'
  <1> DEFINE p == proof[s]
  <1>1. /\ at[s] = "fetch" /\ p \in Blocks /\ p \in Proofs /\ SessionOf[p] = s
        /\ submits[p] > 0 /\ p \in confirmed /\ ToDo(s) /\ Typed /\ Taken
    BY Handled DEF FetchWork, Handling
  <1>2. UNCHANGED <<pow, credited, submits, restarts, closed, confirmed, accepted>> /\ Goto(s, "pow")
    BY DEF FetchWork, roundVars, chainVars
  <1>3. intakeFaults' \in Nat
    BY <1>1, Faults DEF FetchWork, Template
  <1>4. Moved(s) /\ SeatsTyped' /\ at'[s] = "pow" /\ proof'[s] = p
    BY <1>1, <1>2, StepMoves, StepSeats DEF Handling
  <1>5. Typed'
    BY <1>1, <1>2, <1>3, <1>4 DEF Typed, SeatsTyped
  <1>6. Grows(p) /\ Taken'
    BY <1>1, <1>2 DEF Grows, Taken, IsClosed
  <1>7. Seat(s)'
    BY <1>1, <1>2, <1>4 DEF Seat, Own, OfBlock, ToDo, Holds, IsClosed
  <1> QED
    BY <1>1, <1>4, <1>5, <1>6, <1>7, StepKept

LEMMA PoWKept == ASSUME Seated, NEW s \in Sessions, CheckPoWExist(s) PROVE Seated'
  <1> DEFINE p == proof[s]
  <1>1. /\ at[s] = "pow" /\ p \in Proofs /\ SessionOf[p] = s /\ submits[p] > 0
        /\ (p \in Blocks => p \in confirmed) /\ ToDo(s) /\ Typed /\ Taken
    BY Handled DEF CheckPoWExist, Handling
  <1>2. UNCHANGED <<credited, submits, restarts, closed, confirmed, accepted>>
    BY DEF CheckPoWExist, roundVars, chainVars
  <1>3. intakeFaults' \in Nat
    BY <1>1, Faults DEF CheckPoWExist
  <1>4. pow' \subseteq pow \cup {p}
    BY DEF CheckPoWExist, Swept
  <1>5. Answer(s) \/ Goto(s, "exec")
    BY DEF CheckPoWExist
  <1>6. Moved(s) /\ SeatsTyped'
    BY <1>1, <1>5, StepMoves, StepSeats DEF Handling
  <1>7. Typed'
    BY <1>1, <1>2, <1>3, <1>4, <1>6 DEF Typed, SeatsTyped
  <1>8. Grows(p) /\ Taken'
    BY <1>1, <1>2, <1>4 DEF Grows, Taken, IsClosed
  <1>9. CASE Answer(s)
    BY <1>1, <1>6, <1>7, <1>8, <1>9, StepMoves, AnsweredSeat, StepKept
  <1>10. CASE Goto(s, "exec")
    <2>1. at'[s] = "exec" /\ proof'[s] = p
      BY <1>1, <1>10, StepMoves
    <2>2. Seat(s)'
      BY <1>1, <1>2, <2>1 DEF Seat, Own, OfBlock, ToDo, Holds, IsClosed, Handling
    <2> QED
      BY <1>1, <1>6, <1>7, <1>8, <2>2, StepKept
  <1> QED
    BY <1>5, <1>9, <1>10

LEMMA CreditType ==
    ASSUME Typed, NEW s \in Sessions, Credit(s), proof[s] \in Proofs
    PROVE  credited' \in [Proofs -> Nat]
  BY DEF Typed, Credit

LEMMA ShareKept == ASSUME Seated, NEW s \in Sessions, WriteShare(s) PROVE Seated'
  <1> DEFINE p == proof[s]
  <1>1. /\ at[s] = "exec" /\ p \in Proofs /\ SessionOf[p] = s /\ Typed /\ Taken /\ Answer(s)
    BY Handled DEF WriteShare
  <1>2. UNCHANGED <<pow, submits, restarts, closed, confirmed, accepted>>
    BY DEF WriteShare, roundVars, chainVars
  <1>3. intakeFaults' \in Nat /\ credited' \in [Proofs -> Nat]
    BY <1>1, Faults, CreditType DEF WriteShare, Typed
  <1>4. Moved(s) /\ SeatsTyped' /\ Seat(s)'
    BY <1>1, StepMoves, StepSeats, AnsweredSeat
  <1>5. Typed'
    BY <1>1, <1>2, <1>3, <1>4 DEF Typed, SeatsTyped
  <1>6. Grows(p) /\ Taken'
    BY <1>1, <1>2 DEF Grows, Taken, IsClosed
  <1> QED
    BY <1>1, <1>4, <1>5, <1>6, StepKept

\* A closing step: the candidate's entry is the block's.
LEMMA Closing ==
    ASSUME NEW b, NEW shares, CloseRound(b, shares)
    PROVE  /\ closed' = closed \cup {CandidateEntry(b, shares)}
           /\ CandidateEntry(b, shares).hash = b
  BY DEF CloseRound, CandidateEntry

LEMMA BlockKept == ASSUME Seated, NEW s \in Sessions, WriteBlock(s) PROVE Seated'
  <1> DEFINE p == proof[s]
             e == CandidateEntry(p, WithShare(s))
  <1>1. /\ at[s] = "exec" /\ p \in Blocks /\ p \in Proofs /\ SessionOf[p] = s
        /\ submits[p] > 0 /\ p \in confirmed /\ Typed /\ Taken
    BY Handled DEF WriteBlock, Handling
  <1>2. UNCHANGED <<pow, submits, restarts, confirmed, accepted>>
    BY DEF WriteBlock, chainVars
  <1>3. intakeFaults' \in Nat /\ credited' \in [Proofs -> Nat]
    BY <1>1, Faults, CreditType DEF WriteBlock, Typed
  <1>4. e.hash = p
    BY DEF CandidateEntry
  <1>5. closed' = closed \/ closed' = closed \cup {e}
    BY DEF WriteBlock, CloseRound, roundVars
  <1>6. \/ Answer(s)
        \/ /\ at' = [at EXCEPT ![s] = "zadd"] /\ entry' = [entry EXCEPT ![s] = e]
           /\ proof' = proof /\ closed' = closed \cup {e}
    BY DEF WriteBlock, CloseRound
  <1> HIDE DEF e
  <1>7. Grows(p) /\ Taken'
    BY <1>1, <1>2, <1>4, <1>5 DEF Grows, Taken, IsClosed
  <1>8. CASE Answer(s)
    <2>1. Moved(s) /\ SeatsTyped' /\ Seat(s)'
      BY <1>1, <1>8, StepMoves, StepSeats, AnsweredSeat
    <2>2. Typed'
      BY <1>1, <1>2, <1>3, <2>1 DEF Typed, SeatsTyped
    <2> QED
      BY <1>1, <1>7, <2>1, <2>2, StepKept
  <1>9. CASE /\ at' = [at EXCEPT ![s] = "zadd"] /\ entry' = [entry EXCEPT ![s] = e]
             /\ proof' = proof /\ closed' = closed \cup {e}
    <2>1. Moved(s) /\ SeatsTyped' /\ at'[s] = "zadd" /\ proof'[s] = p /\ entry'[s] = e
      BY <1>1, <1>9 DEF Typed, Moved, SeatsTyped, Handling
    <2>2. Typed'
      BY <1>1, <1>2, <1>3, <2>1 DEF Typed, SeatsTyped
    <2>3. Seat(s)'
      BY <1>1, <1>2, <1>4, <1>9, <2>1 DEF Seat, Own, OfBlock, ToDo, Holds, Handling
    <2> QED
      BY <1>1, <1>7, <2>1, <2>2, <2>3, StepKept
  <1> QED
    BY <1>6, <1>8, <1>9

LEMMA CandidateKept == ASSUME Seated, NEW s \in Sessions, AddCandidate(s) PROVE Seated'
  <1> DEFINE p == proof[s]
  <1>1. /\ at[s] = "zadd" /\ p \in Proofs /\ SessionOf[p] = s /\ Typed /\ Taken /\ Answer(s)
    BY Handled DEF AddCandidate
  <1>2. UNCHANGED <<pow, credited, submits, restarts, closed, confirmed, accepted>>
    BY DEF AddCandidate, Record, roundVars, chainVars
  <1>3. intakeFaults' \in Nat
    BY <1>1, Faults DEF AddCandidate
  <1>4. Moved(s) /\ SeatsTyped' /\ Seat(s)'
    BY <1>1, StepMoves, StepSeats, AnsweredSeat
  <1>5. Typed'
    BY <1>1, <1>2, <1>3, <1>4 DEF Typed, SeatsTyped
  <1>6. Grows(p) /\ Taken'
    BY <1>1, <1>2 DEF Grows, Taken, IsClosed
  <1> QED
    BY <1>1, <1>4, <1>5, <1>6, StepKept

LEMMA RestartKept == ASSUME Seated, NEW i \in Instances, Restart(i) PROVE Seated'
  <1>1. Typed /\ Taken /\ restarts' = restarts + 1
        /\ UNCHANGED <<pow, credited, submits, intakeFaults, closed, confirmed, accepted>>
    BY DEF Seated, Restart, roundVars, chainVars
  <1>2. Typed'
    BY <1>1 DEF Typed, Restart, NoEntry
  <1>3. Taken'
    BY <1>1 DEF Taken, IsClosed
  <1>4. ASSUME NEW s \in Sessions PROVE Seat(s)'
    <2>1. CASE InstanceOf[s] = i
      BY <2>1, AnsweredSeat DEF Restart
    <2>2. CASE InstanceOf[s] # i
      <3>1. at'[s] = at[s] /\ proof'[s] = proof[s] /\ entry'[s] = entry[s] /\ Seat(s)
        BY <2>2 DEF Restart, Seated
      <3> QED
        BY <1>1, <3>1 DEF Seat, Own, OfBlock, ToDo, Holds, IsClosed
    <2> QED
      BY <2>1, <2>2
  <1> QED
    BY <1>2, <1>3, <1>4 DEF Seated

\* The other steps leave the goroutines and what they have written alone.
Quiet ==
    UNCHANGED <<at, proof, entry, pow, credited, submits, restarts, closed, candidates, rounds,
                confirmed, accepted>>

LEMMA QuietSteps ==
    ASSUME Typed
    PROVE  /\ \A i \in Instances : Refresh(i) => Quiet /\ intakeFaults' \in {intakeFaults, intakeFaults + 1}
           /\ NetworkStep => Quiet /\ intakeFaults' = intakeFaults
           /\ UNCHANGED <<chainVars, roundVars, intakeVars>> => Quiet /\ intakeFaults' = intakeFaults
  <1>1. ASSUME NEW i \in Instances, Refresh(i)
        PROVE  Quiet /\ intakeFaults' \in {intakeFaults, intakeFaults + 1}
    BY <1>1 DEF Refresh, Template, Fault, NoFault, Quiet, seatVars, roundVars, chainVars
  <1>2. ASSUME NetworkStep PROVE Quiet /\ intakeFaults' = intakeFaults
    BY <1>2 DEF NetworkStep, Extend, ChainReorganises, Reorg, Quiet, intakeVars, seatVars, roundVars
  <1>3. ASSUME UNCHANGED <<chainVars, roundVars, intakeVars>> PROVE Quiet /\ intakeFaults' = intakeFaults
    BY <1>3 DEF Quiet, intakeVars, seatVars, roundVars, chainVars
  <1> QED
    BY <1>1, <1>2, <1>3

LEMMA QuietKept ==
    ASSUME Seated, Quiet, intakeFaults' \in {intakeFaults, intakeFaults + 1} PROVE Seated'
  <1>1. Typed'
    BY DEF Seated, Typed, Quiet
  <1>2. Taken'
    BY DEF Seated, Taken, IsClosed, Quiet
  <1>3. ASSUME NEW s \in Sessions PROVE Seat(s)'
    BY DEF Seated, Seat, Own, OfBlock, ToDo, Holds, IsClosed, Quiet
  <1> QED
    BY <1>1, <1>2, <1>3 DEF Seated

\* Every step, by what it is.
LEMMA Steps ==
    ASSUME Typed, [IntakeNext]_<<chainVars, roundVars, intakeVars>>
    PROVE  \/ \E s \in Sessions :
                 \/ SubmitBlock(s) \/ FetchWork(s) \/ CheckPoWExist(s)
                 \/ WriteShare(s) \/ WriteBlock(s) \/ AddCandidate(s)
                 \/ \E p \in Proofs : Submit(s, p)
           \/ \E i \in Instances : Restart(i)
           \/ Quiet /\ intakeFaults' \in {intakeFaults, intakeFaults + 1}
  BY QuietSteps DEF IntakeNext, ProxyStep, Handle

LEMMA SeatedNext ==
    ASSUME Seated, [IntakeNext]_<<chainVars, roundVars, intakeVars>> PROVE Seated'
  <1>1. Typed
    BY DEF Seated
  <1> QED
    BY <1>1, Steps, SubmitKept, SubmitBlockKept, FetchKept, PoWKept, ShareKept, BlockKept,
       CandidateKept, RestartKept, QuietKept

LEMMA SeatedCorrect == IntakeSpec => []Seated
  BY SeatedInit, SeatedNext, PTL DEF IntakeSpec

-----------------------------------------------------------------------------
(***************************************************************************)
(* A share is counted once, unless its proof was swept from the backlog.   *)
(***************************************************************************)
\* A later instance may have swept p.
Apart(p) == \E q \in Proofs : submits[q] > 0 /\ JobHeight[q] > JobHeight[p] + Backlog
ToCount(p) == \E s \in Sessions : at[s] = "exec" /\ proof[s] = p
Counted(p) ==
    /\ credited[p] <= 1
    /\ credited[p] > 0 \/ ToCount(p) => p \in pow
    /\ ToCount(p) => credited[p] = 0
CountedOnce == \A p \in Proofs : Apart(p) \/ Counted(p)

LEMMA CountedInit == IntakeSpecInit => CountedOnce
  BY DEF IntakeSpecInit, IntakeInit, CountedOnce, Counted, ToCount

\* A step that counts nothing, and takes no session to "exec" but may take one
\* from there.
Calm ==
    /\ credited' = credited /\ pow' = pow
    /\ \A q \in Proofs : submits[q] > 0 => submits'[q] > 0
    /\ \A s \in Sessions : at'[s] = "exec" => at[s] = "exec" /\ proof'[s] = proof[s]

LEMMA CalmKept == ASSUME CountedOnce, Calm PROVE CountedOnce'
  <1> SUFFICES ASSUME NEW p \in Proofs PROVE Apart(p)' \/ Counted(p)'
    BY DEF CountedOnce
  <1>1. Apart(p) => Apart(p)'
    BY DEF Apart, Calm
  <1>2. ToCount(p)' => ToCount(p)
    BY DEF ToCount, Calm
  <1>3. Counted(p) => Counted(p)'
    BY <1>2 DEF Counted, Calm
  <1> QED
    BY <1>1, <1>3 DEF CountedOnce

LEMMA SubmitCalm ==
    ASSUME Seated, NEW s \in Sessions, NEW p \in Proofs, Submit(s, p) PROVE Calm
  <1>1. at \in [Sessions -> {"idle", "submit"} \cup Handling] /\ submits \in [Proofs -> Nat]
        /\ proof \in [Sessions -> Proofs \cup {None}]
    BY DEF Seated, Typed
  <1> QED
    BY <1>1 DEF Submit, Calm

LEMMA GotoCalm ==
    ASSUME Seated, NEW s \in Sessions, Answer(s) \/ Goto(s, "fetch") \/ Goto(s, "pow"),
           UNCHANGED <<credited, pow, submits>>
    PROVE  Calm
  <1>1. Typed
    BY DEF Seated
  <1>2. Moved(s) /\ at'[s] # "exec"
    BY <1>1, StepMoves
  <1> QED
    BY <1>2 DEF Calm, Moved

LEMMA PoWCounted ==
    ASSUME Seated, CountedOnce, NEW s \in Sessions, CheckPoWExist(s) PROVE CountedOnce'
  <1> DEFINE p == proof[s]
             old == Swept(JobHeight[p])
  <1>1. /\ at[s] = "pow" /\ p \in Proofs /\ SessionOf[p] = s /\ submits[p] > 0 /\ Typed
    BY Handled DEF CheckPoWExist
  <1>2. UNCHANGED <<credited, submits>>
    BY DEF CheckPoWExist
  <1>3. Backlog \in Nat /\ \A q \in Proofs : JobHeight[q] \in Int
    OBVIOUS
  <1>4. \/ Answer(s)
        \/ p \notin old /\ p \in pow' /\ Goto(s, "exec")
    BY DEF CheckPoWExist, Swept
  <1>5. old \subseteq pow' \/ pow' = pow
    BY DEF CheckPoWExist, Swept
  <1>6. \A q \in pow : JobHeight[q] + Backlog >= JobHeight[p] => q \in old
    BY <1>1, <1>3 DEF Swept, Typed
  <1>7. \A t \in Sessions : at[t] = "exec" => proof[t] # p
    <2>1. ASSUME NEW t \in Sessions, at[t] = "exec" PROVE proof[t] # p
      BY <1>1, <2>1, Handled
    <2> QED
      BY <2>1
  <1>8. Moved(s)
    BY <1>1, <1>4, StepMoves
  <1> SUFFICES ASSUME NEW q \in Proofs, ~Apart(q) PROVE Counted(q)'
    BY <1>2 DEF CountedOnce, Apart
  <1>9. Counted(q)
    BY DEF CountedOnce
  <1>10. q \in pow => q \in pow'
    <2>1. JobHeight[q] + Backlog >= JobHeight[p]
      <3>1. JobHeight[q] \in Int /\ JobHeight[p] \in Int
        BY <1>1, <1>3, Zenon
      <3>2. ~(JobHeight[p] > JobHeight[q] + Backlog)
        BY <1>1, Zenon DEF Apart
      <3> QED
        BY <1>3, <3>1, <3>2
    <2> QED
      BY <1>5, <1>6, <2>1
  <1>11. CASE Answer(s)
    <2>1. at'[s] = "idle"
      BY <1>1, <1>11, StepMoves
    <2>2. ToCount(q)' => ToCount(q)
      BY <1>8, <2>1 DEF ToCount, Moved
    <2> QED
      BY <1>2, <1>9, <1>10, <2>2 DEF Counted
  <1>12. CASE p \notin old /\ p \in pow' /\ Goto(s, "exec")
    <2>1. at'[s] = "exec" /\ proof'[s] = p
      BY <1>1, <1>12, StepMoves
    <2>2. CASE q = p
      <3>1. p \notin pow
        <4>1. JobHeight[p] + Backlog >= JobHeight[p]
          <5>1. JobHeight[p] \in Int /\ Backlog \in Nat
            BY <1>1, <1>3
          <5> QED
            BY <5>1
        <4> QED
          BY <1>6, <1>12, <4>1
      <3>2. credited[p] = 0
        BY <1>1, <1>9, <2>2, <3>1 DEF Counted, Typed
      <3> QED
        BY <1>2, <1>12, <2>2, <3>2 DEF Counted
    <2>3. CASE q # p
      <3>1. ToCount(q)' => ToCount(q)
        BY <1>8, <2>1, <2>3 DEF ToCount, Moved
      <3> QED
        BY <1>2, <1>9, <1>10, <3>1 DEF Counted
    <2> QED
      BY <2>2, <2>3
  <1> QED
    BY <1>4, <1>11, <1>12

\* The share is counted, or not, and the session is no longer at "exec".
LEMMA ExecCounted ==
    ASSUME Seated, CountedOnce, NEW s \in Sessions, at[s] = "exec", Moved(s),
           at'[s] # "exec", UNCHANGED <<pow, submits>>, Credit(s) \/ credited' = credited
    PROVE  CountedOnce'
  <1> DEFINE p == proof[s]
  <1>1. p \in Proofs /\ SessionOf[p] = s /\ Typed
    BY Handled
  <1> SUFFICES ASSUME NEW q \in Proofs, ~Apart(q) PROVE Counted(q)'
    BY DEF CountedOnce, Apart
  <1>2. Counted(q)
    BY DEF CountedOnce
  <1>3. ToCount(q)' => ToCount(q)
    BY DEF ToCount, Moved
  <1>4. CASE q = p
    <2>1. ~ToCount(q)'
      <3>1. ASSUME NEW t \in Sessions, at'[t] = "exec", proof'[t] = p PROVE FALSE
        <4>1. t # s /\ at[t] = "exec" /\ proof[t] = p
          BY <3>1 DEF Moved
        <4> QED
          BY <1>1, <4>1, Handled
      <3> QED
        BY <1>4, <3>1 DEF ToCount
    <2>2. ToCount(q)
      BY <1>4 DEF ToCount
    <2>3. credited[q] = 0 /\ q \in pow /\ credited'[q] <= 1
      BY <1>1, <1>2, <1>4, <2>2 DEF Counted, Credit, Typed
    <2> QED
      BY <2>1, <2>3 DEF Counted
  <1>5. CASE q # p
    <2>1. credited'[q] = credited[q]
      BY <1>1, <1>5 DEF Credit, Typed
    <2> QED
      BY <1>2, <1>3, <2>1 DEF Counted
  <1> QED
    BY <1>4, <1>5

LEMMA CountedNext ==
    ASSUME Seated, CountedOnce, [IntakeNext]_<<chainVars, roundVars, intakeVars>>
    PROVE  CountedOnce'
  <1>1. Typed
    BY DEF Seated
  <1>2. ASSUME NEW s \in Sessions, NEW p \in Proofs, Submit(s, p) PROVE CountedOnce'
    BY <1>2, SubmitCalm, CalmKept
  <1>3. ASSUME NEW s \in Sessions, SubmitBlock(s) \/ FetchWork(s) \/ AddCandidate(s)
        PROVE  CountedOnce'
    <2>1. Answer(s) \/ Goto(s, "fetch") \/ Goto(s, "pow")
      BY <1>3 DEF SubmitBlock, FetchWork, AddCandidate
    <2>2. UNCHANGED <<credited, pow, submits>>
      BY <1>3 DEF SubmitBlock, FetchWork, AddCandidate
    <2> QED
      BY <2>1, <2>2, GotoCalm, CalmKept
  <1>4. ASSUME NEW s \in Sessions, CheckPoWExist(s) PROVE CountedOnce'
    BY <1>4, PoWCounted
  <1>5. ASSUME NEW s \in Sessions, WriteShare(s) PROVE CountedOnce'
    <2>1. at[s] = "exec" /\ Answer(s) /\ UNCHANGED <<pow, submits>> /\ (Credit(s) \/ credited' = credited)
      BY <1>5 DEF WriteShare
    <2> QED
      BY <1>1, <2>1, StepMoves, ExecCounted
  <1>6. ASSUME NEW s \in Sessions, WriteBlock(s) PROVE CountedOnce'
    <2>1. at[s] = "exec" /\ UNCHANGED <<pow, submits>> /\ (Credit(s) \/ credited' = credited)
      BY <1>6 DEF WriteBlock
    <2>2. Moved(s) /\ at'[s] # "exec"
      BY <1>1, <1>6, StepMoves DEF WriteBlock, Typed, Moved
    <2> QED
      BY <2>1, <2>2, ExecCounted
  <1>7. ASSUME NEW i \in Instances, Restart(i) PROVE CountedOnce'
    <2>1. Calm
      BY <1>7 DEF Restart, Calm
    <2> QED
      BY <2>1, CalmKept
  <1>8. CASE Quiet
    <2>1. Calm
      BY <1>8 DEF Quiet, Calm
    <2> QED
      BY <2>1, CalmKept
  <1> QED
    BY <1>1, <1>2, <1>3, <1>4, <1>5, <1>6, <1>7, <1>8, Steps

\* A proof is counted once, however often it is submitted and whatever is
\* lost, unless an instance more than Backlog heights ahead has been at work.
THEOREM CreditedOnceCorrect == IntakeSpec => []CreditedOnce
  <1>1. Seated /\ CountedOnce => CreditedOnce
    BY DEF Seated, Typed, CountedOnce, Counted, Apart, CreditedOnce
  <1>2. Seated /\ CountedOnce /\ [IntakeNext]_<<chainVars, roundVars, intakeVars>> => CountedOnce'
    BY CountedNext
  <1> QED
    BY <1>1, <1>2, SeatedCorrect, CountedInit, PTL DEF IntakeSpec

-----------------------------------------------------------------------------
(***************************************************************************)
(* What a candidate's rewards are divided by is in the round stored for    *)
(* it, if no two blocks have the same round key.                           *)
(***************************************************************************)
Matches(e) == e.hash \in Blocks /\ TotalOf(rounds[RoundKey(e.hash)]) = e.shares
Stored ==
    /\ DOMAIN rounds = RoundKeys /\ rounds = [k \in RoundKeys |-> rounds[k]]
    /\ candidates \subseteq closed
    /\ \A e \in closed : Matches(e)

LEMMA StoredInit == IntakeSpecInit => Stored
  BY DEF IntakeSpecInit, RoundsInit, Stored

LEMMA BlockStored ==
    ASSUME KeysApart, Seated, Stored, NEW s \in Sessions, WriteBlock(s) PROVE Stored'
  <1> DEFINE p == proof[s]
             ws == WithShare(s)
             entered == CandidateEntry(p, ws)
  <1>1. p \in Blocks /\ ~IsClosed(p)
    BY Handled DEF WriteBlock, ToDo
  <1>2. CASE UNCHANGED roundVars
    BY <1>2 DEF Stored, Matches, roundVars
  <1>3. CASE CloseRound(p, ws)
    <2>1. /\ rounds' = [rounds EXCEPT ![RoundKey(p)] = ws]
          /\ closed' = closed \cup {entered} /\ candidates' = candidates
      BY <1>3 DEF CloseRound
    <2>2. entered.hash = p /\ entered.shares = TotalOf(ws)
      BY DEF CandidateEntry
    <2>3. RoundKey(p) \in RoundKeys
      BY <1>1 DEF RoundKeys
    <2> HIDE DEF entered, ws, p
    <2>4. rounds'[RoundKey(p)] = ws
      BY <2>1, <2>3 DEF Stored
    <2>5. ASSUME NEW e, e = entered PROVE Matches(e)'
      BY <1>1, <2>2, <2>4, <2>5 DEF Matches
    <2>6. ASSUME NEW e \in closed PROVE Matches(e)'
      <3>1. e.hash \in Blocks /\ e.hash # p /\ Matches(e)
        BY <1>1 DEF Stored, Matches, IsClosed
      <3>2. RoundKey(e.hash) # RoundKey(p) /\ RoundKey(e.hash) \in RoundKeys
        BY <1>1, <3>1 DEF KeysApart, RoundKeys
      <3>3. rounds'[RoundKey(e.hash)] = rounds[RoundKey(e.hash)]
        BY <2>1, <3>2 DEF Stored
      <3> QED
        BY <3>1, <3>3 DEF Matches
    <2>7. DOMAIN rounds' = RoundKeys /\ rounds' = [k \in RoundKeys |-> rounds'[k]]
      BY <2>1 DEF Stored
    <2>8. \A e \in closed' : Matches(e)'
      BY <2>1, <2>5, <2>6
    <2>9. candidates' \subseteq closed'
      BY <2>1 DEF Stored
    <2> QED
      BY <2>7, <2>8, <2>9 DEF Stored
  <1> QED
    BY <1>2, <1>3 DEF WriteBlock

LEMMA CandidateStored ==
    ASSUME Seated, Stored, NEW s \in Sessions, AddCandidate(s) PROVE Stored'
  <1>1. entry[s] \in closed
    BY Handled DEF AddCandidate, Holds
  <1> QED
    BY <1>1 DEF AddCandidate, Record, Stored, Matches, roundVars

LEMMA StoredNext ==
    ASSUME KeysApart, Seated, Stored, [IntakeNext]_<<chainVars, roundVars, intakeVars>>
    PROVE  Stored'
  <1>1. Typed
    BY DEF Seated
  <1>2. ASSUME UNCHANGED roundVars PROVE Stored'
    BY <1>2 DEF Stored, Matches, roundVars
  <1>3. ASSUME NEW s \in Sessions,
               \/ SubmitBlock(s) \/ FetchWork(s) \/ CheckPoWExist(s) \/ WriteShare(s)
               \/ \E p \in Proofs : Submit(s, p)
        PROVE  Stored'
    BY <1>2, <1>3 DEF SubmitBlock, FetchWork, CheckPoWExist, WriteShare, Submit
  <1>4. ASSUME NEW i \in Instances, Restart(i) PROVE Stored'
    BY <1>2, <1>4 DEF Restart
  <1>5. CASE Quiet
    BY <1>2, <1>5 DEF Quiet, roundVars
  <1> QED
    BY <1>1, <1>3, <1>4, <1>5, BlockStored, CandidateStored, Steps

\* The number a candidate's rewards are divided by is the sum of the round
\* stored for it, whatever is closed and recorded in between.
THEOREM EntryMatchesRoundCorrect ==
    ASSUME KeysApart PROVE IntakeSpec => []EntryMatchesRound
  <1>1. Stored => EntryMatchesRound
    BY DEF Stored, Matches, EntryMatchesRound
  <1>2. Seated /\ Stored /\ [IntakeNext]_<<chainVars, roundVars, intakeVars>> => Stored'
    BY StoredNext
  <1> QED
    BY <1>1, <1>2, SeatedCorrect, StoredInit, PTL DEF IntakeSpec

-----------------------------------------------------------------------------
(***************************************************************************)
(* Blocks are lost to faults and restarts only.  A block that is submitted *)
(* again is in flight but not carried: it was lost before.                 *)
(***************************************************************************)
Carried(b) == \E s \in Sessions : proof[s] = b /\ at[s] \in Handling
IsCandidate(b) == \E e \in candidates : e.hash = b
Lost == {b \in confirmed : ~IsCandidate(b) /\ ~Carried(b)}
Losses == Cardinality(Lost) <= intakeFaults + restarts * Cardinality(Sessions)

LEMMA LostFinite ==
    ASSUME Typed
    PROVE  IsFiniteSet(Lost) /\ Cardinality(Lost) \in Nat /\ Cardinality(Sessions) \in Nat
  <1>1. IsFiniteSet(Blocks) /\ Lost \in SUBSET Blocks
    BY ChainAssumption DEF Lost, Typed
  <1> QED
    BY <1>1, FS_Subset, FS_CardinalityType

LEMMA LossesInit == IntakeSpecInit => Losses
  <1> SUFFICES ASSUME IntakeSpecInit PROVE Losses
    OBVIOUS
  <1>1. Lost = {} /\ intakeFaults = 0 /\ restarts = 0
    BY DEF IntakeSpecInit, IntakeInit, Lost
  <1>2. Cardinality(Sessions) \in Nat
    BY FS_CardinalityType
  <1> QED
    BY <1>1, <1>2, FS_EmptySet DEF Losses

\* No block more is lost.
LEMMA NoLoss ==
    ASSUME Typed, Losses, Lost' \subseteq Lost, restarts' = restarts,
           intakeFaults' \in {intakeFaults, intakeFaults + 1}
    PROVE  Losses'
  <1>1. IsFiniteSet(Lost) /\ Cardinality(Lost) \in Nat /\ Cardinality(Sessions) \in Nat
    BY LostFinite
  <1>2. Lost' \in SUBSET Lost
    OBVIOUS
  <1>3. Cardinality(Lost') <= Cardinality(Lost) /\ Cardinality(Lost') \in Nat
    BY <1>1, <1>2, FS_Subset, FS_CardinalityType
  <1> DEFINE n == restarts * Cardinality(Sessions)
  <1>4. Cardinality(Lost) <= intakeFaults + n /\ n \in Nat /\ intakeFaults \in Nat
    BY <1>1 DEF Losses, Typed
  <1>5. Cardinality(Lost') <= intakeFaults' + n
    <2> HIDE DEF n
    <2> QED
      BY <1>1, <1>3, <1>4
  <1> QED
    BY <1>5 DEF Losses

\* A fault costs one block.
LEMMA OneLoss ==
    ASSUME Typed, Losses, NEW p, Lost' \subseteq Lost \cup {p}, restarts' = restarts,
           intakeFaults' = intakeFaults + 1
    PROVE  Losses'
  <1>1. IsFiniteSet(Lost) /\ Cardinality(Lost) \in Nat /\ Cardinality(Sessions) \in Nat
    BY LostFinite
  <1>2. IsFiniteSet(Lost \cup {p}) /\ Cardinality(Lost \cup {p}) <= Cardinality(Lost) + 1
    <2>1. /\ IsFiniteSet(Lost \cup {p})
          /\ Cardinality(Lost \cup {p}) = IF p \in Lost THEN Cardinality(Lost) ELSE Cardinality(Lost) + 1
      BY <1>1, FS_AddElement, Zenon
    <2> QED
      BY <1>1, <2>1
  <1>3. Lost' \in SUBSET (Lost \cup {p})
    OBVIOUS
  <1>4. Cardinality(Lost') <= Cardinality(Lost \cup {p}) /\ Cardinality(Lost') \in Nat
        /\ Cardinality(Lost \cup {p}) \in Nat
    BY <1>2, <1>3, FS_Subset, FS_CardinalityType
  <1> DEFINE n == restarts * Cardinality(Sessions)
  <1>5. Cardinality(Lost) <= intakeFaults + n /\ n \in Nat /\ intakeFaults \in Nat
    BY <1>1 DEF Losses, Typed
  <1>6. Cardinality(Lost') <= intakeFaults' + n
    <2> HIDE DEF n
    <2> QED
      BY <1>1, <1>2, <1>4, <1>5
  <1> QED
    BY <1>6 DEF Losses

\* A restart costs at most what the sessions of the instance carried.
LEMMA RestartLosses ==
    ASSUME Seated, Losses, NEW i \in Instances, Restart(i) PROVE Losses'
  <1> DEFINE T == {proof[s] : s \in Sessions}
  <1>1. Typed /\ IsFiniteSet(Lost) /\ Cardinality(Lost) \in Nat /\ Cardinality(Sessions) \in Nat
    BY LostFinite DEF Seated
  <1>2. IsFiniteSet(T) /\ Cardinality(T) <= Cardinality(Sessions)
    <2>1. proof \in Surjection(Sessions, T)
      BY <1>1 DEF Typed, Surjection
    <2> QED
      BY <2>1, FS_Surjection
  <1>3. restarts' = restarts + 1 /\ UNCHANGED <<intakeFaults, confirmed, candidates>>
    BY DEF Restart, roundVars
  <1>4. Lost' \in SUBSET (Lost \cup T)
    <2>1. ASSUME NEW b \in Lost' PROVE b \in Lost \cup T
      <3>1. b \in confirmed /\ ~IsCandidate(b)
        BY <1>3, <2>1 DEF Lost, IsCandidate
      <3>2. Carried(b) => b \in T
        BY DEF Carried
      <3> QED
        BY <3>1, <3>2 DEF Lost
    <2> QED
      BY <2>1
  <1> HIDE DEF T
  <1>5. /\ IsFiniteSet(Lost \cup T)
        /\ Cardinality(Lost \cup T) = Cardinality(Lost) + Cardinality(T) - Cardinality(Lost \cap T)
    BY <1>1, <1>2, FS_Union
  <1>6. Cardinality(T) \in Nat /\ Cardinality(Lost \cap T) \in Nat
    <2>1. Lost \cap T \in SUBSET Lost
      OBVIOUS
    <2> QED
      BY <1>1, <1>2, <2>1, FS_Subset, FS_CardinalityType
  <1>7. Cardinality(Lost') <= Cardinality(Lost \cup T) /\ Cardinality(Lost') \in Nat
    BY <1>4, <1>5, FS_Subset, FS_CardinalityType
  <1>8. Cardinality(Lost') <= Cardinality(Lost) + Cardinality(Sessions)
    BY <1>1, <1>2, <1>5, <1>6, <1>7
  <1>9. /\ (restarts + 1) * Cardinality(Sessions) = restarts * Cardinality(Sessions) + Cardinality(Sessions)
        /\ restarts * Cardinality(Sessions) \in Nat /\ intakeFaults \in Nat
    BY <1>1 DEF Typed
  <1> DEFINE n == restarts * Cardinality(Sessions)
             k == Cardinality(Sessions)
  <1>10. Cardinality(Lost) <= intakeFaults + n /\ n \in Nat /\ k \in Nat /\ intakeFaults \in Nat
    BY <1>1, <1>9 DEF Losses
  <1>11. Cardinality(Lost') <= intakeFaults + (n + k)
    <2>1. Cardinality(Lost') <= Cardinality(Lost) + k
      BY <1>8
    <2> HIDE DEF n, k
    <2> QED
      BY <1>1, <1>7, <1>10, <2>1
  <1> QED
    BY <1>3, <1>9, <1>11 DEF Losses

\* A step of the session s loses at most the proof it handles, and not that
\* if it still carries it, or did not, or has recorded it.
LEMMA StepLoses ==
    ASSUME Seated, NEW s \in Sessions, Moved(s), candidates \subseteq candidates',
           confirmed' \subseteq confirmed \cup {proof[s]}
    PROVE  /\ Lost' \subseteq Lost \cup {proof[s]}
           /\ \/ at'[s] \in Handling /\ proof'[s] = proof[s]
              \/ at[s] \notin Handling /\ confirmed' = confirmed
              \/ proof[s] \notin Blocks /\ confirmed' = confirmed
              \/ \E e \in candidates' : e.hash = proof[s]
              => Lost' \subseteq Lost
  <1>1. \A b : IsCandidate(b) => IsCandidate(b)'
    BY DEF IsCandidate
  <1>2. ASSUME NEW b, Carried(b), ~Carried(b)' PROVE b = proof[s] /\ at[s] \in Handling
    BY <1>2 DEF Carried, Moved
  <1>3. confirmed \subseteq Blocks
    BY DEF Seated, Typed
  <1>4. ASSUME NEW b \in Lost', b \notin Lost
        PROVE  /\ b = proof[s]
               /\ at[s] \in Handling \/ confirmed' # confirmed
               /\ b \in Blocks \/ confirmed' # confirmed
               /\ ~Carried(b)' /\ ~IsCandidate(b)'
    <2>1. b \in confirmed' /\ ~IsCandidate(b)' /\ ~Carried(b)'
      BY <1>4 DEF Lost
    <2>2. b \notin confirmed \/ Carried(b)
      BY <1>1, <1>4, <2>1 DEF Lost
    <2> QED
      BY <1>2, <1>3, <2>1, <2>2
  <1>5. ASSUME NEW b, b = proof[s], at'[s] \in Handling /\ proof'[s] = proof[s]
        PROVE  Carried(b)'
    BY <1>5 DEF Carried
  <1>6. ASSUME NEW b, b = proof[s], \E e \in candidates' : e.hash = proof[s]
        PROVE  IsCandidate(b)'
    BY <1>6 DEF IsCandidate
  <1>7. Lost' \subseteq Lost \cup {proof[s]}
    BY <1>4
  <1>8. ASSUME \/ at'[s] \in Handling /\ proof'[s] = proof[s]
               \/ at[s] \notin Handling /\ confirmed' = confirmed
               \/ proof[s] \notin Blocks /\ confirmed' = confirmed
               \/ \E e \in candidates' : e.hash = proof[s]
        PROVE  Lost' \subseteq Lost
    <2> SUFFICES ASSUME NEW b \in Lost', b \notin Lost PROVE FALSE
      OBVIOUS
    <2>1. /\ b = proof[s]
          /\ at[s] \in Handling \/ confirmed' # confirmed
          /\ b \in Blocks \/ confirmed' # confirmed
          /\ ~Carried(b)' /\ ~IsCandidate(b)'
      BY <1>4
    <2> QED
      BY <1>5, <1>6, <1>8, <2>1
  <1> QED
    BY <1>7, <1>8

LEMMA SubmitLosses ==
    ASSUME Seated, Losses, NEW s \in Sessions, NEW p \in Proofs, Submit(s, p) PROVE Losses'
  <1>1. Typed
    BY DEF Seated
  <1>2. at[s] = "idle" /\ UNCHANGED <<confirmed, candidates, intakeFaults, restarts>>
    BY DEF Submit, roundVars
  <1>3. \A t \in Sessions \ {s} : at'[t] = at[t] /\ proof'[t] = proof[t]
    BY <1>1 DEF Submit, Typed
  <1>4. Lost' \subseteq Lost
    BY <1>2, <1>3 DEF Lost, IsCandidate, Carried, Handling
  <1> QED
    BY <1>1, <1>2, <1>4, NoLoss

LEMMA SubmitBlockLosses ==
    ASSUME Seated, Losses, NEW s \in Sessions, SubmitBlock(s) PROVE Losses'
  <1>1. Typed /\ at[s] = "submit"
    BY DEF Seated, SubmitBlock
  <1>2. UNCHANGED <<candidates, restarts>> /\ intakeFaults' \in {intakeFaults, intakeFaults + 1}
    BY DEF SubmitBlock, roundVars, Fault, NoFault
  <1>3. /\ confirmed' \subseteq confirmed \cup {proof[s]}
        /\ \/ Goto(s, "fetch")
           \/ Fault /\ Answer(s)
           \/ confirmed' = confirmed /\ Answer(s)
    BY DEF SubmitBlock
  <1>4. Moved(s) /\ (Goto(s, "fetch") => at'[s] \in Handling /\ proof'[s] = proof[s])
    BY <1>1, <1>3, StepMoves DEF Handling
  <1>5. CASE Goto(s, "fetch") \/ confirmed' = confirmed
    <2>1. Lost' \subseteq Lost
      BY <1>1, <1>2, <1>3, <1>4, <1>5, StepLoses DEF Handling
    <2> QED
      BY <1>1, <1>2, <2>1, NoLoss
  <1>6. CASE Fault
    <2>1. Lost' \subseteq Lost \cup {proof[s]}
      BY <1>2, <1>3, <1>4, StepLoses
    <2>2. intakeFaults' = intakeFaults + 1
      BY <1>6 DEF Fault
    <2> QED
      BY <1>1, <1>2, <2>1, <2>2, OneLoss
  <1> QED
    BY <1>3, <1>5, <1>6

LEMMA FetchLosses ==
    ASSUME Seated, Losses, NEW s \in Sessions, FetchWork(s) PROVE Losses'
  <1>1. Typed /\ Goto(s, "pow")
    BY DEF Seated, FetchWork
  <1>2. UNCHANGED <<confirmed, candidates, restarts>> /\ intakeFaults' \in {intakeFaults, intakeFaults + 1}
    BY DEF FetchWork, roundVars, Template, Fault, NoFault
  <1>3. Moved(s) /\ at'[s] \in Handling /\ proof'[s] = proof[s]
    BY <1>1, StepMoves DEF Handling
  <1>4. Lost' \subseteq Lost
    BY <1>2, <1>3, StepLoses
  <1> QED
    BY <1>1, <1>2, <1>4, NoLoss

\* The backlog never refuses a block the node has just taken.
LEMMA PoWLosses ==
    ASSUME Seated, Losses, NEW s \in Sessions, CheckPoWExist(s) PROVE Losses'
  <1>1. Typed /\ at[s] = "pow" /\ (proof[s] \in Blocks => proof[s] \notin pow)
    BY Handled DEF CheckPoWExist, ToDo
  <1>2. UNCHANGED <<confirmed, candidates, restarts>>
    BY DEF CheckPoWExist, roundVars
  <1>3. \/ NoFault /\ Goto(s, "exec")
        \/ NoFault /\ proof[s] \in pow /\ Answer(s)
        \/ Fault /\ (Answer(s) \/ Goto(s, "exec"))
    BY DEF CheckPoWExist, Swept
  <1>4. Moved(s) /\ (Goto(s, "exec") => at'[s] \in Handling /\ proof'[s] = proof[s])
    BY <1>1, <1>3, StepMoves DEF Handling
  <1>5. CASE NoFault /\ (Goto(s, "exec") \/ proof[s] \in pow)
    <2>1. Lost' \subseteq Lost
      BY <1>1, <1>2, <1>4, <1>5, StepLoses
    <2>2. intakeFaults' = intakeFaults
      BY <1>5 DEF NoFault
    <2> QED
      BY <1>1, <1>2, <2>1, <2>2, NoLoss
  <1>6. CASE Fault
    <2>1. Lost' \subseteq Lost \cup {proof[s]}
      BY <1>2, <1>4, StepLoses
    <2>2. intakeFaults' = intakeFaults + 1
      BY <1>6 DEF Fault
    <2> QED
      BY <1>1, <1>2, <2>1, <2>2, OneLoss
  <1> QED
    BY <1>3, <1>5, <1>6

LEMMA ShareLosses ==
    ASSUME Seated, Losses, NEW s \in Sessions, WriteShare(s) PROVE Losses'
  <1>1. Typed /\ proof[s] \notin Blocks /\ Answer(s) /\ UNCHANGED <<confirmed, candidates, restarts>>
        /\ intakeFaults' \in {intakeFaults, intakeFaults + 1}
    BY DEF Seated, WriteShare, roundVars, Fault, NoFault
  <1>2. Moved(s)
    BY <1>1, StepMoves
  <1>3. Lost' \subseteq Lost
    BY <1>1, <1>2, StepLoses
  <1> QED
    BY <1>1, <1>3, NoLoss

LEMMA BlockLosses ==
    ASSUME Seated, Losses, NEW s \in Sessions, WriteBlock(s) PROVE Losses'
  <1>1. Typed /\ UNCHANGED <<confirmed, candidates, restarts>>
    BY DEF Seated, WriteBlock, CloseRound, roundVars
  <1>2. \/ /\ NoFault /\ Moved(s) /\ at'[s] \in Handling /\ proof'[s] = proof[s]
        \/ Fault /\ Moved(s)
    BY <1>1, StepMoves DEF WriteBlock, Typed, Moved, Handling
  <1>3. CASE /\ NoFault /\ Moved(s) /\ at'[s] \in Handling /\ proof'[s] = proof[s]
    <2>1. Lost' \subseteq Lost
      BY <1>1, <1>3, StepLoses
    <2>2. intakeFaults' = intakeFaults
      BY <1>3 DEF NoFault
    <2> QED
      BY <1>1, <2>1, <2>2, NoLoss
  <1>4. CASE Fault /\ Moved(s)
    <2>1. Lost' \subseteq Lost \cup {proof[s]}
      BY <1>1, <1>4, StepLoses
    <2>2. intakeFaults' = intakeFaults + 1
      BY <1>4 DEF Fault
    <2> QED
      BY <1>1, <2>1, <2>2, OneLoss
  <1> QED
    BY <1>2, <1>3, <1>4

LEMMA CandidateLosses ==
    ASSUME Seated, Losses, NEW s \in Sessions, AddCandidate(s) PROVE Losses'
  <1>1. Typed /\ entry[s].hash = proof[s]
    BY Handled DEF AddCandidate, Holds
  <1>2. Answer(s) /\ UNCHANGED <<confirmed, restarts>> /\ candidates \subseteq candidates'
        /\ (Fault \/ (NoFault /\ entry[s] \in candidates'))
    BY DEF AddCandidate, Record, roundVars
  <1>3. Moved(s)
    BY <1>1, <1>2, StepMoves
  <1>4. CASE NoFault /\ entry[s] \in candidates'
    <2>1. Lost' \subseteq Lost
      BY <1>1, <1>2, <1>3, <1>4, StepLoses
    <2>2. intakeFaults' = intakeFaults
      BY <1>4 DEF NoFault
    <2> QED
      BY <1>1, <1>2, <2>1, <2>2, NoLoss
  <1>5. CASE Fault
    <2>1. Lost' \subseteq Lost \cup {proof[s]}
      BY <1>2, <1>3, StepLoses
    <2>2. intakeFaults' = intakeFaults + 1
      BY <1>5 DEF Fault
    <2> QED
      BY <1>1, <1>2, <2>1, <2>2, OneLoss
  <1> QED
    BY <1>2, <1>4, <1>5

LEMMA LossesNext ==
    ASSUME Seated, Losses, [IntakeNext]_<<chainVars, roundVars, intakeVars>> PROVE Losses'
  <1>1. Typed
    BY DEF Seated
  <1>2. CASE Quiet /\ intakeFaults' \in {intakeFaults, intakeFaults + 1}
    <2>1. Lost' = Lost /\ restarts' = restarts
      BY <1>2 DEF Quiet, Lost, IsCandidate, Carried
    <2> QED
      BY <1>1, <1>2, <2>1, NoLoss
  <1> QED
    BY <1>1, <1>2, Steps, SubmitLosses, SubmitBlockLosses, FetchLosses, PoWLosses, ShareLosses,
       BlockLosses, CandidateLosses, RestartLosses

\* Every block the node has taken is recorded or still being handled, but for
\* one per failed call and one per session that died with its instance.
THEOREM LossesNeedFaultsCorrect == IntakeSpec => []LossesNeedFaults
  <1>1. Seated /\ Losses => LossesNeedFaults
    <2> SUFFICES ASSUME Seated, Losses PROVE LossesNeedFaults
      OBVIOUS
    <2> DEFINE Gone == {b \in confirmed : b \notin HashesOf(candidates) /\ ~InFlight(b)}
    <2>1. Typed
      BY DEF Seated
    <2>2. Gone \in SUBSET Lost
      BY DEF Lost, IsCandidate, Carried, HashesOf, InFlight
    <2>3. IsFiniteSet(Lost) /\ Cardinality(Lost) \in Nat /\ Cardinality(Sessions) \in Nat
      BY <2>1, LostFinite
    <2>4. Cardinality(Gone) <= Cardinality(Lost) /\ Cardinality(Gone) \in Nat
      BY <2>2, <2>3, FS_Subset, FS_CardinalityType
    <2> DEFINE n == intakeFaults + restarts * Cardinality(Sessions)
    <2>5. n \in Nat /\ Cardinality(Lost) <= n
      BY <2>1, <2>3 DEF Typed, Losses
    <2>6. Cardinality(Gone) <= n
      <3> HIDE DEF n, Gone
      <3> QED
        BY <2>3, <2>4, <2>5
    <2> QED
      BY <2>6 DEF LossesNeedFaults
  <1>2. Seated /\ Losses /\ [IntakeNext]_<<chainVars, roundVars, intakeVars>> => Losses'
    BY LossesNext
  <1> QED
    BY <1>1, <1>2, SeatedCorrect, LossesInit, PTL DEF IntakeSpec

-----------------------------------------------------------------------------
(***************************************************************************)
(* Types.                                                                  *)
(***************************************************************************)
TemplatesTyped == tip \in 0 .. MaxHeight /\ work \in [Instances -> 0 .. MaxHeight + 1]

BoundsKept ==
    /\ submits \in [Proofs -> 0 .. MaxSubmits]
    /\ intakeFaults \in 0 .. MaxIntakeFaults /\ restarts \in 0 .. MaxRestarts

Hand(s) == (at[s] = "idle" <=> proof[s] = None) /\ (at[s] # "zadd" => entry[s] = NoEntry)

RoundsTyped ==
    /\ roundCurrent \in [Logins -> Nat] /\ roundShares \in Nat
    /\ rounds \in [RoundKeys -> [Logins -> Nat]]
    /\ closed \subseteq Candidates /\ candidates \subseteq closed

IntakeTyped == TemplatesTyped /\ BoundsKept /\ RoundsTyped /\ \A s \in Sessions : Hand(s)

LEMMA IntakeTypedInit == IntakeSpecInit => IntakeTyped
  <1> SUFFICES ASSUME IntakeSpecInit PROVE IntakeTyped
    OBVIOUS
  <1>1. TemplatesTyped
    BY ChainAssumption DEF IntakeSpecInit, IntakeInit, ChainInit, TemplatesTyped
  <1>2. BoundsKept
    BY DEF IntakeSpecInit, IntakeInit, BoundsKept
  <1>3. RoundsTyped
    BY DEF IntakeSpecInit, IntakeInit, RoundsInit, RoundsTyped, NoShares
  <1>4. \A s \in Sessions : Hand(s)
    BY DEF IntakeSpecInit, IntakeInit, Hand
  <1> QED
    BY <1>1, <1>2, <1>3, <1>4 DEF IntakeTyped

\* A template is for a height that is or was the next one.
LEMMA TemplateType ==
    ASSUME TemplatesTyped, NEW i \in Instances, Template(i), tip' = tip
    PROVE  TemplatesTyped'
  <1>1. MaxHeight \in Nat /\ MaxLag \in Nat /\ tip \in 0 .. MaxHeight
    BY ChainAssumption DEF TemplatesTyped
  <1>2. ASSUME NEW h \in (tip - MaxLag .. tip) \cap Nat PROVE h + 1 \in 0 .. MaxHeight + 1
    BY <1>1
  <1>3. work' = work \/ \E h \in (tip - MaxLag .. tip) \cap Nat : work' = [work EXCEPT ![i] = h + 1]
    BY DEF Template
  <1> QED
    BY <1>2, <1>3 DEF TemplatesTyped

LEMMA NetworkTemplates ==
    ASSUME TemplatesTyped, UNCHANGED work,
           \/ Extend \/ ChainReorganises \/ UNCHANGED chainVars
           \/ \E b \in Blocks : Accept(b)
    PROVE  TemplatesTyped'
  <1>1. MaxHeight \in Nat /\ tip \in 0 .. MaxHeight /\ \A b \in Blocks : HeightOf[b] \in 1 .. MaxHeight
    BY ChainAssumption DEF TemplatesTyped, Heights
  <1>2. tip' = tip \/ (tip' = tip + 1 /\ tip < MaxHeight) \/ tip' \in 1 .. MaxHeight
    BY <1>1 DEF Extend, ChainReorganises, Reorg, chainVars, Accept
  <1>3. tip' \in 0 .. MaxHeight
    BY <1>1, <1>2
  <1> QED
    BY <1>3 DEF TemplatesTyped

LEMMA TemplatesTypedNext ==
    ASSUME Seated, TemplatesTyped, [IntakeNext]_<<chainVars, roundVars, intakeVars>>
    PROVE  TemplatesTyped'
  <1>1. ASSUME NEW s \in Sessions, SubmitBlock(s) PROVE TemplatesTyped'
    <2>1. proof[s] \in Blocks /\ work' = work
      BY <1>1, Handled DEF SubmitBlock
    <2>2. Accept(proof[s]) \/ UNCHANGED chainVars
      BY <1>1 DEF SubmitBlock
    <2> QED
      BY <2>1, <2>2, NetworkTemplates
  <1>2. ASSUME NEW s \in Sessions, FetchWork(s) PROVE TemplatesTyped'
    <2>1. InstanceOf[s] \in Instances /\ Template(InstanceOf[s]) /\ tip' = tip
      BY <1>2 DEF FetchWork, chainVars
    <2> QED
      BY <2>1, TemplateType
  <1>3. ASSUME NEW i \in Instances, Refresh(i) PROVE TemplatesTyped'
    BY <1>3, TemplateType DEF Refresh, chainVars
  <1>4. ASSUME NEW i \in Instances, Restart(i) PROVE TemplatesTyped'
    BY <1>4, ChainAssumption DEF Restart, chainVars, TemplatesTyped
  <1>5. ASSUME NEW s \in Sessions,
               \/ CheckPoWExist(s) \/ WriteShare(s) \/ WriteBlock(s) \/ AddCandidate(s)
               \/ \E p \in Proofs : Submit(s, p)
        PROVE  TemplatesTyped'
    <2>1. UNCHANGED <<chainVars, work>>
      BY <1>5 DEF CheckPoWExist, WriteShare, WriteBlock, AddCandidate, Submit
    <2> QED
      BY <2>1, NetworkTemplates
  <1>6. ASSUME NetworkStep \/ UNCHANGED <<chainVars, roundVars, intakeVars>> PROVE TemplatesTyped'
    BY <1>6, NetworkTemplates DEF NetworkStep, intakeVars
  <1> QED
    BY <1>1, <1>2, <1>3, <1>4, <1>5, <1>6 DEF IntakeNext, ProxyStep, Handle

LEMMA CountersStep ==
    ASSUME BoundsKept, Fault \/ NoFault, UNCHANGED <<submits, restarts>> PROVE BoundsKept'
  BY DEF BoundsKept, Fault, NoFault

LEMMA BoundsKeptNext ==
    ASSUME Seated, BoundsKept, [IntakeNext]_<<chainVars, roundVars, intakeVars>>
    PROVE  BoundsKept'
  <1>1. ASSUME NEW s \in Sessions, NEW p \in Proofs, Submit(s, p) PROVE BoundsKept'
    BY <1>1 DEF Submit, BoundsKept
  <1>2. ASSUME NEW s \in Sessions, Handle(s) PROVE BoundsKept'
    <2>1. Fault \/ NoFault
      BY <1>2 DEF Handle, SubmitBlock, FetchWork, Template, CheckPoWExist, WriteShare, WriteBlock,
                  AddCandidate
    <2>2. UNCHANGED <<submits, restarts>>
      BY <1>2 DEF Handle, SubmitBlock, FetchWork, CheckPoWExist, WriteShare, WriteBlock, AddCandidate
    <2> QED
      BY <2>1, <2>2, CountersStep
  <1>3. ASSUME NEW i \in Instances, Refresh(i) PROVE BoundsKept'
    BY <1>3, CountersStep DEF Refresh, Template
  <1>4. ASSUME NEW i \in Instances, Restart(i) PROVE BoundsKept'
    BY <1>4 DEF Restart, BoundsKept
  <1>5. ASSUME NetworkStep \/ UNCHANGED <<chainVars, roundVars, intakeVars>> PROVE BoundsKept'
    BY <1>5 DEF NetworkStep, intakeVars, BoundsKept
  <1> QED
    BY <1>1, <1>2, <1>3, <1>4, <1>5 DEF IntakeNext, ProxyStep

\* A goroutine that answers lets go of what it handled.
LEMMA AnsweredHand == ASSUME Typed, NEW s \in Sessions, Answer(s) PROVE Hand(s)'
  BY DEF Typed, Answer, Hand, NoEntry

LEMMA GoneToHand ==
    ASSUME Typed, NEW s \in Sessions, Hand(s), at[s] \notin {"idle", "zadd"},
           Goto(s, "fetch") \/ Goto(s, "pow") \/ Goto(s, "exec")
    PROVE  Hand(s)'
  BY StepMoves DEF Hand

LEMMA HandsNext ==
    ASSUME Seated, \A s \in Sessions : Hand(s), [IntakeNext]_<<chainVars, roundVars, intakeVars>>
    PROVE  \A s \in Sessions : Hand(s)'
  <1>1. Typed
    BY DEF Seated
  <1>2. ASSUME NEW s \in Sessions, Moved(s), Hand(s)' PROVE \A t \in Sessions : Hand(t)'
    BY <1>2 DEF Moved, Hand
  <1>3. ASSUME NEW s \in Sessions, NEW p \in Proofs, Submit(s, p) PROVE \A t \in Sessions : Hand(t)'
    <2>1. Moved(s) /\ at'[s] \in {"submit", "pow"} /\ proof'[s] = p /\ entry' = entry /\ at[s] = "idle"
      BY <1>1, <1>3 DEF Submit, Typed, Moved
    <2> QED
      BY <1>2, <2>1 DEF Hand
  <1>4. ASSUME NEW s \in Sessions, Handle(s), ~WriteBlock(s) PROVE \A t \in Sessions : Hand(t)'
    <2>1. Answer(s) \/ (at[s] \notin {"idle", "zadd"} /\ \E next \in {"fetch", "pow", "exec"} : Goto(s, next))
      BY <1>4 DEF Handle, SubmitBlock, FetchWork, CheckPoWExist, WriteShare, AddCandidate
    <2>2. Moved(s)
      BY <1>1, <2>1, StepMoves
    <2>3. Hand(s)'
      BY <1>1, <2>1, AnsweredHand, GoneToHand
    <2> QED
      BY <1>2, <2>2, <2>3
  <1>5. ASSUME NEW s \in Sessions, WriteBlock(s) PROVE \A t \in Sessions : Hand(t)'
    <2>1. CASE Answer(s)
      BY <1>1, <1>2, <2>1, StepMoves, AnsweredHand
    <2>2. CASE /\ at' = [at EXCEPT ![s] = "zadd"] /\ proof' = proof
               /\ entry' = [entry EXCEPT ![s] = CandidateEntry(proof[s], WithShare(s))]
      <3>1. Moved(s) /\ at'[s] = "zadd" /\ proof'[s] = proof[s]
        BY <1>1, <2>2 DEF Typed, Moved
      <3>2. at[s] = "exec"
        BY <1>5 DEF WriteBlock
      <3> QED
        BY <1>2, <3>1, <3>2 DEF Hand
    <2> QED
      BY <1>5, <2>1, <2>2 DEF WriteBlock
  <1>6. ASSUME NEW i \in Instances, Restart(i) PROVE \A t \in Sessions : Hand(t)'
    BY <1>6 DEF Restart, Hand
  <1>7. CASE Quiet
    BY <1>7 DEF Quiet, Hand
  <1> QED
    BY <1>1, <1>3, <1>4, <1>5, <1>6, <1>7, Steps DEF Handle

\* The round with the session's share is worth something.
LEMMA ShareAdded ==
    ASSUME roundCurrent \in [Logins -> Nat], NEW s \in Sessions
    PROVE  /\ WithShare(s) \in [Logins -> Nat]
           /\ WithShare(s)[LoginOf[s]] = roundCurrent[LoginOf[s]] + ShareDiff
           /\ \A l \in Logins \ {LoginOf[s]} : WithShare(s)[l] = roundCurrent[l]
           /\ TotalOf(WithShare(s)) \in Nat \ {0}
  <1> DEFINE ws == WithShare(s)
             l0 == LoginOf[s]
  <1>1. l0 \in Logins /\ ShareDiff \in Nat \ {0}
    OBVIOUS
  <1>2. ws \in [Logins -> Nat] /\ ws[l0] = roundCurrent[l0] + ShareDiff
        /\ \A l \in Logins \ {l0} : ws[l] = roundCurrent[l]
    BY <1>1 DEF WithShare
  <1> HIDE DEF ws
  <1>3. SumFunction(ws) \in Nat /\ ws[l0] <= SumFunction(ws)
    BY <1>1, <1>2, SharesAssumption, SumNat, TermInSum
  <1>4. ws[l0] > 0 /\ ws[l0] \in Nat
    BY <1>1, <1>2
  <1>5. TotalOf(ws) \in Nat \ {0}
    BY <1>3, <1>4 DEF TotalOf
  <1> QED
    BY <1>2, <1>5 DEF ws

LEMMA RoundsTypedNext ==
    ASSUME Seated, RoundsTyped, [IntakeNext]_<<chainVars, roundVars, intakeVars>>
    PROVE  RoundsTyped'
  <1>1. ASSUME UNCHANGED <<roundVars, roundCurrent, roundShares>> PROVE RoundsTyped'
    BY <1>1 DEF roundVars, RoundsTyped
  <1>2. ASSUME NEW s \in Sessions, WriteShare(s) PROVE RoundsTyped'
    BY <1>1, <1>2, ShareAdded DEF WriteShare, roundVars, RoundsTyped
  <1>3. ASSUME NEW s \in Sessions, WriteBlock(s) PROVE RoundsTyped'
    <2> DEFINE p == proof[s]
               ws == WithShare(s)
    <2>1. CASE UNCHANGED <<roundVars, roundCurrent, roundShares>>
      BY <1>1, <2>1
    <2>2. CASE CloseRound(p, ws) /\ roundCurrent' = NoShares /\ roundShares' = 0
      <3>1. p \in Blocks /\ FeesOf[p] \in Nat /\ RoundKey(p) \in RoundKeys
        BY <1>3, RoundsAssumption DEF WriteBlock, RoundKeys
      <3>2. ws \in [Logins -> Nat] /\ TotalOf(ws) \in Nat \ {0}
        BY ShareAdded DEF RoundsTyped
      <3>3. CandidateEntry(p, ws) \in Candidates
        BY <3>1, <3>2 DEF CandidateEntry, Candidates
      <3> HIDE DEF p, ws
      <3> QED
        BY <2>2, <3>1, <3>2, <3>3 DEF CloseRound, RoundsTyped, NoShares
    <2> QED
      BY <1>3, <2>1, <2>2 DEF WriteBlock
  <1>4. ASSUME NEW s \in Sessions, AddCandidate(s) PROVE RoundsTyped'
    BY <1>4, Handled DEF AddCandidate, Record, roundVars, RoundsTyped, Holds
  <1>5. ASSUME NEW s \in Sessions,
               \/ SubmitBlock(s) \/ FetchWork(s) \/ CheckPoWExist(s)
               \/ \E p \in Proofs : Submit(s, p)
        PROVE  RoundsTyped'
    BY <1>1, <1>5 DEF SubmitBlock, FetchWork, CheckPoWExist, Submit
  <1>6. ASSUME NEW i \in Instances, Refresh(i) \/ Restart(i) PROVE RoundsTyped'
    BY <1>1, <1>6 DEF Refresh, Restart
  <1>7. ASSUME NetworkStep \/ UNCHANGED <<chainVars, roundVars, intakeVars>> PROVE RoundsTyped'
    BY <1>1, <1>7 DEF NetworkStep, intakeVars
  <1> QED
    BY <1>2, <1>3, <1>4, <1>5, <1>6, <1>7 DEF IntakeNext, ProxyStep, Handle

LEMMA IntakeTypedCorrect == IntakeSpec => []IntakeTyped
  <1>1. Seated /\ IntakeTyped /\ [IntakeNext]_<<chainVars, roundVars, intakeVars>> => IntakeTyped'
    BY TemplatesTypedNext, BoundsKeptNext, HandsNext, RoundsTypedNext DEF IntakeTyped
  <1> QED
    BY <1>1, SeatedCorrect, IntakeTypedInit, PTL DEF IntakeSpec

\* Every variable keeps its type, and what a goroutine holds of a proof or of
\* a candidate's entry fits the call it is about to make.
THEOREM IntakeTypeOKCorrect == IntakeSpec => []IntakeTypeOK
  <1>1. ASSUME Seated, IntakeTyped PROVE IntakeTypeOK
    <2>1. Typed /\ TemplatesTyped /\ BoundsKept /\ RoundsTyped
      BY <1>1 DEF Seated, IntakeTyped
    <2>2. ASSUME NEW s \in Sessions
          PROVE  /\ at[s] = "idle" <=> proof[s] = None
                 /\ at[s] \in {"submit", "fetch", "zadd"} => proof[s] \in Blocks
                 /\ IF at[s] = "zadd" THEN entry[s] \in closed ELSE entry[s] = NoEntry
      BY <1>1 DEF Seated, IntakeTyped, Seat, OfBlock, Holds, Hand
    <2> QED
      BY <2>1, <2>2 DEF IntakeTypeOK, Typed, Handling, TemplatesTyped, BoundsKept, RoundsTyped
  <1> QED
    BY <1>1, SeatedCorrect, IntakeTypedCorrect, PTL

-----------------------------------------------------------------------------
(***************************************************************************)
(* Every counted share is in exactly one round, if no two blocks have the  *)
(* same round key: a round that is renamed over has held nothing.          *)
(***************************************************************************)
RoundsEmptyFirst == \A b \in Blocks : ~IsClosed(b) => rounds[RoundKey(b)] = NoShares

\* A login's shares in the closed rounds, and its proofs that were counted.
InRounds(l) == TotalOf([k \in RoundKeys |-> rounds[k][l]])
CountedOf(l) == TotalOf([p \in ProofsOf(l) |-> credited[p]])
Conserved(l) == roundCurrent[l] + InRounds(l) = ShareDiff * CountedOf(l)

LEMMA RoundsEmptyInit == IntakeSpecInit => RoundsEmptyFirst
  BY DEF IntakeSpecInit, RoundsInit, RoundsEmptyFirst, RoundKeys

LEMMA BlockEmptiesOne ==
    ASSUME KeysApart, RoundsTyped, RoundsEmptyFirst, NEW b \in Blocks, NEW shares,
           CloseRound(b, shares)
    PROVE  RoundsEmptyFirst'
  <1> SUFFICES ASSUME NEW a \in Blocks, ~IsClosed(a)' PROVE rounds'[RoundKey(a)] = NoShares
    BY DEF RoundsEmptyFirst
  <1>1. closed' = closed \cup {CandidateEntry(b, shares)} /\ CandidateEntry(b, shares).hash = b
        /\ rounds' = [rounds EXCEPT ![RoundKey(b)] = shares]
    BY Closing DEF CloseRound
  <1>2. a # b /\ ~IsClosed(a)
    BY <1>1 DEF IsClosed
  <1>3. RoundKey(a) # RoundKey(b) /\ RoundKey(a) \in RoundKeys
    BY <1>2 DEF KeysApart, RoundKeys
  <1> QED
    BY <1>1, <1>2, <1>3 DEF RoundsEmptyFirst, RoundsTyped

LEMMA RoundsEmptyNext ==
    ASSUME KeysApart, Seated, RoundsTyped, RoundsEmptyFirst,
           [IntakeNext]_<<chainVars, roundVars, intakeVars>>
    PROVE  RoundsEmptyFirst'
  <1>1. ASSUME UNCHANGED rounds, closed \subseteq closed' PROVE RoundsEmptyFirst'
    BY <1>1 DEF RoundsEmptyFirst, IsClosed
  <1>2. ASSUME NEW s \in Sessions, WriteBlock(s) PROVE RoundsEmptyFirst'
    <2>1. CASE UNCHANGED roundVars
      BY <1>1, <2>1 DEF roundVars
    <2>2. CASE proof[s] \in Blocks /\ CloseRound(proof[s], WithShare(s))
      BY <2>2, BlockEmptiesOne
    <2> QED
      BY <1>2, <2>1, <2>2 DEF WriteBlock
  <1>3. ASSUME NEW s \in Sessions,
               \/ SubmitBlock(s) \/ FetchWork(s) \/ CheckPoWExist(s) \/ WriteShare(s)
               \/ AddCandidate(s) \/ \E p \in Proofs : Submit(s, p)
        PROVE  RoundsEmptyFirst'
    BY <1>1, <1>3 DEF SubmitBlock, FetchWork, CheckPoWExist, WriteShare, AddCandidate, Record,
                      Submit, roundVars
  <1>4. ASSUME NEW i \in Instances, Restart(i) PROVE RoundsEmptyFirst'
    BY <1>1, <1>4 DEF Restart, roundVars
  <1>5. CASE Quiet
    BY <1>1, <1>5 DEF Quiet
  <1>6. Typed
    BY DEF Seated
  <1> QED
    BY <1>2, <1>3, <1>4, <1>5, <1>6, Steps

LEMMA SumsFinite == IsFiniteSet(RoundKeys) /\ \A l \in Logins : IsFiniteSet(ProofsOf(l))
  <1>1. IsFiniteSet(Blocks)
    BY ChainAssumption
  <1> DEFINE key == [b \in Blocks |-> RoundKey(b)]
  <1>2. key \in Surjection(Blocks, RoundKeys)
    BY DEF Surjection, RoundKeys
  <1>3. IsFiniteSet(RoundKeys)
    BY <1>1, <1>2, FS_Surjection
  <1>4. ASSUME NEW l \in Logins PROVE IsFiniteSet(ProofsOf(l))
    <2>1. ProofsOf(l) \in SUBSET Proofs /\ IsFiniteSet(Proofs)
      BY DEF ProofsOf
    <2> QED
      BY <2>1, FS_Subset
  <1> QED
    BY <1>3, <1>4

LEMMA ConservedInit == ASSUME IntakeSpecInit, NEW l \in Logins PROVE Conserved(l)
  <1> DEFINE f == [k \in RoundKeys |-> rounds[k][l]]
             g == [p \in ProofsOf(l) |-> credited[p]]
  <1>1. f = [k \in RoundKeys |-> 0] /\ roundCurrent[l] = 0
    BY DEF IntakeSpecInit, RoundsInit, IntakeInit, NoShares
  <1>2. g = [p \in ProofsOf(l) |-> 0]
    BY DEF IntakeSpecInit, IntakeInit, ProofsOf
  <1>3. SumFunction(f) = 0 /\ SumFunction(g) = 0
    <2> HIDE DEF f, g
    <2> QED
      BY <1>1, <1>2, SumsFinite, SumZero
  <1>4. ShareDiff * 0 = 0
    BY ShareDiff \in Nat
  <1> QED
    BY <1>1, <1>3, <1>4 DEF Conserved, InRounds, CountedOf, TotalOf

\* The share of the session's proof is counted.
LEMMA CreditCounts ==
    ASSUME Seated, NEW s \in Sessions, at[s] = "exec", Credit(s), NEW l \in Logins
    PROVE  /\ CountedOf(l) \in Nat
           /\ CountedOf(l)' = CountedOf(l) + (IF l = LoginOf[s] THEN 1 ELSE 0)
  <1> DEFINE p == proof[s]
             P == ProofsOf(l)
             g == [q \in P |-> credited[q]]
             h == [q \in P |-> credited'[q]]
  <1>1. p \in Proofs /\ SessionOf[p] = s /\ credited \in [Proofs -> Nat]
    BY Handled DEF Typed
  <1>2. /\ g \in [P -> Nat] /\ IsFiniteSet(P) /\ P \subseteq Proofs
        /\ p \in P <=> l = LoginOf[s]
    BY <1>1, SumsFinite DEF ProofsOf
  <1>3. credited' = [credited EXCEPT ![p] = credited[p] + 1]
    BY DEF Credit
  <1>4. SumFunction(g) \in Nat
    BY <1>2, SumNat
  <1>5. CASE l = LoginOf[s]
    <2>1. h \in [P -> Int] /\ h[p] = g[p] + 1 /\ \A q \in P \ {p} : h[q] = g[q]
      BY <1>1, <1>2, <1>3, <1>5
    <2>2. g[p] \in Nat /\ p \in P /\ g \in [P -> Int]
      BY <1>2, <1>5
    <2>3. SumFunction(h) = SumFunction(g) - g[p] + h[p]
      <3>1. IsFiniteSet(P)
        BY <1>2
      <3>2. h \in [P -> Int] /\ \A q \in P \ {p} : h[q] = g[q]
        BY <2>1
      <3> HIDE DEF g, h, P, p
      <3> QED
        BY <2>2, <3>1, <3>2, SumChange
    <2>4. SumFunction(h) = SumFunction(g) + 1
      <3> HIDE DEF g, h, P, p
      <3> QED
        BY <1>4, <2>1, <2>2, <2>3
    <2> QED
      BY <1>4, <1>5, <2>4 DEF CountedOf, TotalOf
  <1>6. CASE l # LoginOf[s]
    <2>1. h = g
      BY <1>1, <1>2, <1>3, <1>6
    <2> QED
      BY <1>4, <1>6, <2>1 DEF CountedOf, TotalOf
  <1> QED
    BY <1>5, <1>6

LEMMA InRoundsType == ASSUME RoundsTyped, NEW l \in Logins PROVE InRounds(l) \in Nat
  <1> DEFINE f == [k \in RoundKeys |-> rounds[k][l]]
  <1>1. f \in [RoundKeys -> Nat]
    BY DEF RoundsTyped
  <1> HIDE DEF f
  <1>2. SumFunction(f) \in Nat
    BY <1>1, SumsFinite, SumNat
  <1> QED
    BY <1>2 DEF InRounds, TotalOf, f

\* A round that is closed takes over what it is given.
LEMMA ClosingAdds ==
    ASSUME RoundsTyped, NEW b \in Blocks, rounds[RoundKey(b)] = NoShares,
           NEW shares \in [Logins -> Nat], CloseRound(b, shares), NEW l \in Logins
    PROVE  InRounds(l)' = InRounds(l) + shares[l]
  <1> DEFINE f == [k \in RoundKeys |-> rounds[k][l]]
             g == [k \in RoundKeys |-> rounds'[k][l]]
             key == RoundKey(b)
  <1>1. key \in RoundKeys
    BY DEF RoundKeys
  <1>2. f \in [RoundKeys -> Int] /\ f[key] = 0 /\ shares[l] \in Int
    BY <1>1 DEF RoundsTyped, NoShares
  <1>3. g \in [RoundKeys -> Int] /\ g[key] = shares[l] /\ \A k \in RoundKeys \ {key} : g[k] = f[k]
    BY <1>1 DEF RoundsTyped, CloseRound
  <1>4. SumFunction(g) = SumFunction(f) - f[key] + g[key] /\ SumFunction(f) \in Int
    <2> HIDE DEF f, g, key
    <2> QED
      BY <1>1, <1>2, <1>3, SumsFinite, SumChange, SumInt
  <1>5. SumFunction(g) = SumFunction(f) + shares[l]
    <2> HIDE DEF f, g, key
    <2> QED
      BY <1>2, <1>3, <1>4
  <1> QED
    BY <1>5 DEF InRounds, TotalOf

\* A share more on both sides.
LEMMA ShareConserved ==
    ASSUME RoundsTyped, Seated, NEW s \in Sessions, at[s] = "exec", Credit(s),
           NEW l \in Logins, Conserved(l)
    PROVE  WithShare(s)[l] + InRounds(l) = ShareDiff * CountedOf(l)'
  <1>1. ShareDiff \in Nat /\ roundCurrent[l] \in Nat /\ InRounds(l) \in Nat
    BY InRoundsType DEF RoundsTyped
  <1>2. CountedOf(l) \in Nat /\ CountedOf(l)' = CountedOf(l) + (IF l = LoginOf[s] THEN 1 ELSE 0)
    BY CreditCounts
  <1>3. WithShare(s)[l] = roundCurrent[l] + (IF l = LoginOf[s] THEN ShareDiff ELSE 0)
    <2>1. roundCurrent \in [Logins -> Nat]
      BY DEF RoundsTyped
    <2> QED
      BY <1>1, <2>1, ShareAdded
  <1>4. ShareDiff * (CountedOf(l) + 1) = ShareDiff * CountedOf(l) + ShareDiff
        /\ ShareDiff * (CountedOf(l) + 0) = ShareDiff * CountedOf(l)
        /\ ShareDiff * CountedOf(l) \in Nat
    BY <1>1, <1>2
  <1> DEFINE n == ShareDiff * CountedOf(l)
  <1>5. roundCurrent[l] + InRounds(l) = n /\ n \in Nat
    BY <1>4 DEF Conserved
  <1>6. CASE l = LoginOf[s]
    <2>1. ShareDiff * CountedOf(l)' = n + ShareDiff
      BY <1>2, <1>4, <1>6
    <2> HIDE DEF n
    <2> QED
      BY <1>1, <1>3, <1>5, <1>6, <2>1
  <1>7. CASE l # LoginOf[s]
    <2>1. ShareDiff * CountedOf(l)' = n
      BY <1>2, <1>4, <1>7
    <2> HIDE DEF n
    <2> QED
      BY <1>1, <1>3, <1>5, <1>7, <2>1
  <1> QED
    BY <1>6, <1>7

LEMMA ConservedNext ==
    ASSUME KeysApart, Seated, RoundsTyped, RoundsEmptyFirst,
           [IntakeNext]_<<chainVars, roundVars, intakeVars>>,
           NEW l \in Logins, Conserved(l)
    PROVE  Conserved(l)'
  <1>1. ASSUME UNCHANGED <<roundCurrent, rounds, credited>> PROVE Conserved(l)'
    BY <1>1 DEF Conserved, InRounds, CountedOf
  <1>2. ASSUME NEW s \in Sessions, WriteShare(s) PROVE Conserved(l)'
    <2>1. CASE UNCHANGED <<roundCurrent, credited>>
      BY <1>1, <1>2, <2>1 DEF WriteShare, roundVars
    <2>2. CASE roundCurrent' = WithShare(s) /\ Credit(s)
      <3>1. at[s] = "exec" /\ InRounds(l)' = InRounds(l)
        BY <1>2 DEF WriteShare, roundVars, InRounds
      <3> QED
        BY <2>2, <3>1, ShareConserved DEF Conserved
    <2> QED
      BY <1>2, <2>1, <2>2 DEF WriteShare
  <1>3. ASSUME NEW s \in Sessions, WriteBlock(s) PROVE Conserved(l)'
    <2> DEFINE p == proof[s]
               ws == WithShare(s)
    <2>1. at[s] = "exec" /\ p \in Blocks
      BY <1>3 DEF WriteBlock
    <2>2. rounds[RoundKey(p)] = NoShares
      BY <2>1, Handled DEF RoundsEmptyFirst, ToDo
    <2>3. CASE UNCHANGED <<roundVars, roundCurrent, credited>>
      BY <1>1, <2>3 DEF roundVars
    <2>4. CASE CloseRound(p, ws) /\ roundCurrent' = NoShares /\ Credit(s)
      <3>1. ws \in [Logins -> Nat]
        BY ShareAdded DEF RoundsTyped
      <3>2. InRounds(l)' = InRounds(l) + ws[l] /\ ws[l] \in Nat
        BY <2>1, <2>2, <2>4, <3>1, ClosingAdds
      <3>3. ws[l] + InRounds(l) = ShareDiff * CountedOf(l)'
        BY <2>1, <2>4, ShareConserved
      <3>4. roundCurrent'[l] = 0 /\ InRounds(l) \in Nat
        BY <2>4, InRoundsType DEF NoShares
      <3> HIDE DEF ws
      <3>5. roundCurrent'[l] + InRounds(l)' = ws[l] + InRounds(l)
        BY <3>2, <3>4
      <3> QED
        BY <3>3, <3>5 DEF Conserved
    <2> QED
      BY <1>3, <2>3, <2>4 DEF WriteBlock
  <1>4. ASSUME NEW s \in Sessions,
               \/ SubmitBlock(s) \/ FetchWork(s) \/ CheckPoWExist(s) \/ AddCandidate(s)
               \/ \E p \in Proofs : Submit(s, p)
        PROVE  Conserved(l)'
    BY <1>1, <1>4 DEF SubmitBlock, FetchWork, CheckPoWExist, AddCandidate, Record, Submit, roundVars
  <1>5. ASSUME NEW i \in Instances, Refresh(i) \/ Restart(i) PROVE Conserved(l)'
    BY <1>1, <1>5 DEF Refresh, Restart, roundVars
  <1>6. ASSUME NetworkStep \/ UNCHANGED <<chainVars, roundVars, intakeVars>> PROVE Conserved(l)'
    BY <1>1, <1>6 DEF NetworkStep, intakeVars, roundVars
  <1> QED
    BY <1>2, <1>3, <1>4, <1>5, <1>6 DEF IntakeNext, ProxyStep, Handle

\* Redis neither loses a share it has counted nor counts one in two rounds,
\* however the sessions' transactions and the renames of rounds interleave.
THEOREM SharesConservedCorrect ==
    ASSUME KeysApart PROVE IntakeSpec => []SharesConserved
  <1> DEFINE AllConserved == \A l \in Logins : Conserved(l)
  <1>1. AllConserved => SharesConserved
    BY DEF Conserved, InRounds, CountedOf, SharesConserved
  <1>2. IntakeSpecInit => RoundsEmptyFirst /\ AllConserved
    BY RoundsEmptyInit, ConservedInit
  <1>3. /\ Seated /\ IntakeTyped /\ RoundsEmptyFirst /\ AllConserved
        /\ [IntakeNext]_<<chainVars, roundVars, intakeVars>>
        => RoundsEmptyFirst' /\ AllConserved'
    BY RoundsEmptyNext, ConservedNext DEF IntakeTyped
  <1> QED
    BY <1>1, <1>2, <1>3, SeatedCorrect, IntakeTypedCorrect, PTL DEF IntakeSpec
=============================================================================
