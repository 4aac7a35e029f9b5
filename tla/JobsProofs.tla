----------------------------- MODULE JobsProofs -----------------------------
(***************************************************************************)
(* No session misses the current job, and an older job follows it only if  *)
(* it was under way when the current work was stored, for any number of    *)
(* connections, works and pushes at once.                                  *)
(*                                                                         *)
(* Neither property is inductive.  For the first it has to be said where   *)
(* the current job of each session is on its way: in the session's own     *)
(* goroutine, or in a broadcast that has yet to read the work, to lock the *)
(* table, to reach the session, or to write.  For the second, every older  *)
(* job that is under way at all has been so since the work was stored.     *)
(***************************************************************************)
EXTENDS Jobs, FiniteSetTheorems, TLAPS

Pushes == [to : Miners, job : Works]
BroadcastRecords == [at : {"none", "start", "lock", "spawn"}, job : {Nil} \cup Works,
                     left : SUBSET Miners, pushing : SUBSET Pushes]
SeatRecords == [at : {"idle", "read", "push", "remove", "dead", "flooded"},
                job : {Nil} \cup Works]

\* A broadcast exists only for a work that was stored.
Sound(r) ==
    /\ r \in BroadcastRecords
    /\ r.at # "spawn" => r.left = {}
    /\ r.at \in {"lock", "spawn"} <=> r.job # Nil
    /\ r.at = "start" => r.pushing = {}
Proper(b) == Sound(bcast[b]) /\ (b > work => bcast[b] = NoBroadcast)

Small(b) ==
    IsFiniteSet(bcast[b].pushing) /\ Cardinality(bcast[b].pushing) \in 0 .. Capacity

Typed ==
    /\ work \in {Nil} \cup Works
    /\ bcast \in [Broadcasts -> BroadcastRecords]
    /\ \A b \in Broadcasts : Proper(b)
    /\ sessions \subseteq Miners /\ removing \subseteq broken
    /\ seat \in [Miners -> SeatRecords]
    /\ \A m \in Miners : seat[m].at = "push" <=> seat[m].job # Nil
    /\ broken \subseteq Miners
    /\ served \subseteq Miners /\ stale \subseteq served /\ overlap \in BOOLEAN
    /\ fails \in 0 .. MaxFails

InSlots == \A b \in Broadcasts : Small(b)

\* The current job is on its way to m.
ByBroadcast(b, m) ==
    \/ bcast[b].at = "start"
    \/ bcast[b].at = "lock" /\ bcast[b].job = work
    \/ bcast[b].at = "spawn" /\ bcast[b].job = work /\ m \in bcast[b].left
    \/ [to |-> m, job |-> work] \in bcast[b].pushing
BySeat(m) == seat[m].at = "read" \/ (seat[m].at = "push" /\ seat[m].job = work)
Covered(m) == m \in served \/ BySeat(m) \/ \E b \in Broadcasts : ByBroadcast(b, m)
AllCovered == work # Nil => \A m \in sessions \ broken : Covered(m)

\* An older job is under way, or was written after the current one.
OlderBroadcast(b) ==
    \/ bcast[b].at \in {"lock", "spawn"} /\ bcast[b].job # work
    \/ \E p \in bcast[b].pushing : p.job # work
OlderSeat(m) == seat[m].at = "push" /\ seat[m].job # work
OldAccounted ==
    \/ overlap
    \/ /\ stale = {}
       /\ \A b \in Broadcasts : ~OlderBroadcast(b)
       /\ \A m \in Miners : ~OlderSeat(m)

JobsInv == Typed /\ InSlots /\ AllCovered /\ OldAccounted

USE JobsAssumption DEF Nil

LEMMA InvInit == Init => JobsInv
  <1> SUFFICES ASSUME Init PROVE JobsInv
    OBVIOUS
  <1>1. Typed
    <2>1. bcast \in [Broadcasts -> BroadcastRecords]
      BY DEF Init, NoBroadcast, BroadcastRecords
    <2>2. \A b \in Broadcasts : Proper(b)
      BY DEF Init, NoBroadcast, Proper, Sound, BroadcastRecords
    <2>3. seat \in [Miners -> SeatRecords]
      BY DEF Init, SeatRecords
    <2>4. \A m \in Miners : seat[m].at = "push" <=> seat[m].job # Nil
      BY SMT DEF Init
    <2>5. fails \in 0 .. MaxFails
      BY SMT DEF Init
    <2>6. work \in {Nil} \cup Works /\ sessions \subseteq Miners /\ removing \subseteq broken
      BY DEF Init
    <2>7. /\ broken \subseteq Miners /\ served \subseteq Miners
          /\ stale \subseteq served /\ overlap \in BOOLEAN
      BY DEF Init
    <2> QED
      BY <2>1, <2>2, <2>3, <2>4, <2>5, <2>6, <2>7 DEF Typed
  <1>2. InSlots
    <2>1. IsFiniteSet({}) /\ Cardinality({}) = 0
      BY FS_EmptySet
    <2>2. \A b \in Broadcasts : bcast[b].pushing = {}
      BY DEF Init, NoBroadcast
    <2> QED
      BY <2>1, <2>2, SMT DEF InSlots, Small
  <1>3. AllCovered
    BY DEF Init, AllCovered
  <1>4. OldAccounted
    BY DEF Init, OldAccounted, OlderBroadcast, OlderSeat, NoBroadcast
  <1> QED
    BY <1>1, <1>2, <1>3, <1>4 DEF JobsInv

\* What the actions on broadcasts have to keep of their types.
BroadcastsTyped ==
    bcast \in [Broadcasts -> BroadcastRecords] /\ \A b \in Broadcasts : Proper(b)

LEMMA NothingSound == Sound(NoBroadcast)
  BY DEF Sound, NoBroadcast, BroadcastRecords

\* Only b moves, to what is sound and, unless it is over, of a stored work.
LEMMA OneMoves ==
    ASSUME Typed, NEW b \in Broadcasts,
           bcast' \in [Broadcasts -> BroadcastRecords], Sound(bcast[b])',
           \A c \in Broadcasts \ {b} : bcast'[c] = bcast[c],
           work' = work \/ work' = work + 1,
           b <= work' \/ bcast'[b] = NoBroadcast
    PROVE  BroadcastsTyped'
  <1>1. ASSUME NEW c \in Broadcasts PROVE Proper(c)'
    <2>1. CASE c = b
      <3>1. c > work' => bcast'[c] = NoBroadcast
        BY <2>1, SMT DEF Typed, Broadcasts, Works
      <3> QED
        BY <2>1, <3>1 DEF Proper
    <2>2. CASE c # b
      <3>1. bcast'[c] = bcast[c]
        BY <2>2
      <3>2. Sound(bcast[c]) /\ (c > work => bcast[c] = NoBroadcast)
        BY DEF Typed, Proper
      <3>3. c > work' => c > work
        BY SMT DEF Typed, Broadcasts, Works
      <3> QED
        BY <3>1, <3>2, <3>3 DEF Proper, Sound
    <2> QED
      BY <2>1, <2>2
  <1> QED
    BY <1>1 DEF BroadcastsTyped

\* A broadcast that is somewhere is that of a work that was stored.
LEMMA Stored ==
    ASSUME Typed, NEW b \in Broadcasts,
           bcast[b].at # "none" \/ bcast[b].pushing # {}
    PROVE  b <= work /\ work \in Works
  <1>1. ~(b > work)
    BY DEF Typed, Proper, NoBroadcast
  <1> QED
    BY <1>1, SMT DEF Typed, Broadcasts, Works

\* The parts of a broadcast's record.
RecordOf(b) ==
    /\ bcast[b] \in BroadcastRecords
    /\ bcast[b].job \in {Nil} \cup Works
    /\ bcast[b].left \subseteq Miners /\ bcast[b].pushing \subseteq Pushes
    /\ bcast[b].at # "spawn" => bcast[b].left = {}
    /\ bcast[b].at \in {"lock", "spawn"} <=> bcast[b].job # Nil
    /\ bcast[b].at = "start" => bcast[b].pushing = {}

LEMMA Record == ASSUME Typed, NEW b \in Broadcasts PROVE RecordOf(b)
  BY DEF Typed, Proper, Sound, BroadcastRecords, RecordOf

\* What a step makes of the broadcast b.
Becomes(b, at, job, left, pushing) ==
    /\ \A c \in Broadcasts \ {b} : bcast'[c] = bcast[c]
    /\ bcast'[b] = [at |-> at, job |-> job, left |-> left, pushing |-> pushing]
    /\ bcast' \in [Broadcasts -> BroadcastRecords]

LEMMA StoreBecomes ==
    ASSUME Typed, Store
    PROVE  work + 1 \in Broadcasts /\ Becomes(work + 1, "start", Nil, {}, {})
  <1>1. /\ work + 1 \in Broadcasts /\ work \in Nat
        /\ bcast' = [bcast EXCEPT ![work + 1].at = "start"]
    BY DEF Store, Typed, Broadcasts, Works
  <1>2. bcast \in [Broadcasts -> BroadcastRecords]
    BY DEF Typed
  <1>3. bcast[work + 1] = NoBroadcast
    <2>1. work + 1 > work
      BY <1>1
    <2>2. \A b \in Broadcasts : b > work => bcast[b] = NoBroadcast
      BY DEF Typed, Proper
    <2> QED
      BY <1>1, <2>1, <2>2
  <1>4. bcast' \in [Broadcasts -> BroadcastRecords]
    BY <1>1, <1>2 DEF BroadcastRecords
  <1>5. bcast'[work + 1] = [at |-> "start", job |-> Nil, left |-> {}, pushing |-> {}]
    <2>1. bcast'[work + 1] = [NoBroadcast EXCEPT !.at = "start"]
      BY <1>1, <1>2, <1>3
    <2> QED
      BY <2>1 DEF NoBroadcast
  <1>6. \A c \in Broadcasts \ {work + 1} : bcast'[c] = bcast[c]
    BY <1>1, <1>2
  <1> QED
    BY <1>1, <1>4, <1>5, <1>6 DEF Becomes

LEMMA StartBecomes ==
    ASSUME Typed, NEW b \in Broadcasts, Start(b)
    PROVE  Becomes(b, "none", Nil, {}, {}) \/ Becomes(b, "lock", work, {}, {})
  <1>1. RecordOf(b) /\ work \in Works
    BY Record, Stored DEF Start
  <1>2. bcast \in [Broadcasts -> BroadcastRecords]
    BY DEF Typed
  <1>3. CASE bcast' = [bcast EXCEPT ![b] = NoBroadcast]
    <2>1. NoBroadcast \in BroadcastRecords
      BY NothingSound DEF Sound
    <2> QED
      BY <1>2, <1>3, <2>1 DEF Becomes, NoBroadcast
  <1>4. CASE bcast' = [bcast EXCEPT ![b].at = "lock", ![b].job = work]
    <2>1. bcast' \in [Broadcasts -> BroadcastRecords]
      BY <1>1, <1>2, <1>4 DEF BroadcastRecords
    <2>2. bcast[b].left = {} /\ bcast[b].pushing = {}
      BY <1>1 DEF RecordOf, Start
    <2>3. bcast'[b] = [at |-> "lock", job |-> work, left |-> {}, pushing |-> {}]
      BY <1>2, <1>4, <2>2 DEF BroadcastRecords
    <2>4. \A c \in Broadcasts \ {b} : bcast'[c] = bcast[c]
      BY <1>2, <1>4
    <2> QED
      BY <2>1, <2>3, <2>4 DEF Becomes
  <1> QED
    BY <1>3, <1>4 DEF Start

LEMMA LockBecomes ==
    ASSUME Typed, NEW b \in Broadcasts, Lock(b)
    PROVE  Becomes(b, "spawn", bcast[b].job, sessions, bcast[b].pushing)
  <1>1. bcast' = [bcast EXCEPT ![b].at = "spawn", ![b].left = sessions] /\ sessions \subseteq Miners
    BY DEF Lock, Typed
  <1>2. bcast \in [Broadcasts -> BroadcastRecords]
    BY DEF Typed
  <1>3. bcast' \in [Broadcasts -> BroadcastRecords]
    BY <1>1, <1>2 DEF BroadcastRecords
  <1>4. /\ bcast'[b] = [at |-> "spawn", job |-> bcast[b].job, left |-> sessions,
                        pushing |-> bcast[b].pushing]
        /\ \A c \in Broadcasts \ {b} : bcast'[c] = bcast[c]
    BY <1>1, <1>2 DEF BroadcastRecords
  <1> QED
    BY <1>3, <1>4 DEF Becomes

LEMMA UnlockBecomes ==
    ASSUME Typed, NEW b \in Broadcasts, Unlock(b)
    PROVE  Becomes(b, "none", Nil, {}, bcast[b].pushing)
  <1>1. bcast' = [bcast EXCEPT ![b].at = "none", ![b].job = Nil] /\ bcast[b].left = {}
    BY DEF Unlock
  <1>2. bcast \in [Broadcasts -> BroadcastRecords]
    BY DEF Typed
  <1>3. bcast' \in [Broadcasts -> BroadcastRecords]
    BY <1>1, <1>2 DEF BroadcastRecords
  <1>4. /\ bcast'[b] = [at |-> "none", job |-> Nil, left |-> {}, pushing |-> bcast[b].pushing]
        /\ \A c \in Broadcasts \ {b} : bcast'[c] = bcast[c]
    BY <1>1, <1>2 DEF BroadcastRecords
  <1> QED
    BY <1>3, <1>4 DEF Becomes

LEMMA SpawnBecomes ==
    ASSUME Typed, NEW b \in Broadcasts, NEW m \in Miners, Spawn(b, m)
    PROVE  /\ [to |-> m, job |-> bcast[b].job] \in Pushes
           /\ Becomes(b, "spawn", bcast[b].job, bcast[b].left \ {m},
                      bcast[b].pushing \cup {[to |-> m, job |-> bcast[b].job]})
  <1> DEFINE p == [to |-> m, job |-> bcast[b].job]
  <1>1. /\ bcast[b].at = "spawn"
        /\ bcast' = [bcast EXCEPT ![b].left = @ \ {m}, ![b].pushing = @ \cup {p}]
    BY DEF Spawn
  <1>2. bcast \in [Broadcasts -> BroadcastRecords]
    BY DEF Typed
  <1>3. p \in Pushes
    <2>1. RecordOf(b)
      BY Record
    <2> QED
      BY <1>1, <2>1 DEF RecordOf, Pushes
  <1> HIDE DEF p
  <1>4. bcast' \in [Broadcasts -> BroadcastRecords]
    BY <1>1, <1>2, <1>3 DEF BroadcastRecords
  <1>5. /\ bcast'[b] = [at |-> "spawn", job |-> bcast[b].job, left |-> bcast[b].left \ {m},
                        pushing |-> bcast[b].pushing \cup {p}]
        /\ \A c \in Broadcasts \ {b} : bcast'[c] = bcast[c]
    BY <1>1, <1>2 DEF BroadcastRecords
  <1> QED
    BY <1>3, <1>4, <1>5 DEF Becomes, p

LEMMA PushBecomes ==
    ASSUME Typed, NEW b \in Broadcasts, NEW p \in bcast[b].pushing, Push(b, p)
    PROVE  Becomes(b, bcast[b].at, bcast[b].job, bcast[b].left, bcast[b].pushing \ {p})
  <1>1. bcast' = [bcast EXCEPT ![b].pushing = @ \ {p}]
    BY DEF Push
  <1>2. bcast \in [Broadcasts -> BroadcastRecords]
    BY DEF Typed
  <1>3. bcast' \in [Broadcasts -> BroadcastRecords]
    BY <1>1, <1>2 DEF BroadcastRecords
  <1>4. /\ bcast'[b] = [at |-> bcast[b].at, job |-> bcast[b].job, left |-> bcast[b].left,
                        pushing |-> bcast[b].pushing \ {p}]
        /\ \A c \in Broadcasts \ {b} : bcast'[c] = bcast[c]
    BY <1>1, <1>2 DEF BroadcastRecords
  <1> QED
    BY <1>3, <1>4 DEF Becomes

\* Every step on a broadcast leaves all of them as they should be.
LEMMA MoveTyped ==
    ASSUME Typed, NEW b \in Broadcasts, NEW at, NEW job, NEW left, NEW pushing,
           Becomes(b, at, job, left, pushing),
           at # "spawn" => left = {},
           at \in {"lock", "spawn"} <=> job # Nil,
           at = "start" => pushing = {},
           work' = work \/ work' = work + 1,
           b <= work' \/ (at = "none" /\ job = Nil /\ left = {} /\ pushing = {})
    PROVE  BroadcastsTyped'
  <1>1. bcast' \in [Broadcasts -> BroadcastRecords]
    BY DEF Becomes
  <1>2. /\ bcast'[b].at = at /\ bcast'[b].job = job
        /\ bcast'[b].left = left /\ bcast'[b].pushing = pushing
    BY DEF Becomes
  <1>3. Sound(bcast[b])'
    BY <1>1, <1>2 DEF Sound
  <1>4. b <= work' \/ bcast'[b] = NoBroadcast
    BY DEF Becomes, NoBroadcast
  <1>5. \A c \in Broadcasts \ {b} : bcast'[c] = bcast[c]
    BY DEF Becomes
  <1> QED
    BY <1>1, <1>3, <1>4, <1>5, OneMoves

LEMMA BroadcastStepTyped ==
    ASSUME Typed, NEW b \in Broadcasts, BroadcastStep(b)
    PROVE  BroadcastsTyped' /\ work' = work
  <1>1. work' = work
    BY DEF BroadcastStep, Start, Lock, Unlock, Spawn
  <1>2. RecordOf(b)
    BY Record
  <1>3. b <= work /\ work # Nil
    <2>1. bcast[b].at # "none"
      BY DEF BroadcastStep, Start, Lock, Unlock, Spawn
    <2> QED
      BY <2>1, Stored DEF Works
  <1>4. CASE Start(b)
    <2>1. CASE Becomes(b, "none", Nil, {}, {})
      BY <1>1, <1>3, <2>1, MoveTyped
    <2>2. CASE Becomes(b, "lock", work, {}, {})
      BY <1>1, <1>3, <2>2, MoveTyped
    <2> QED
      BY <1>4, <2>1, <2>2, StartBecomes
  <1>5. CASE Lock(b)
    <2>1. Becomes(b, "spawn", bcast[b].job, sessions, bcast[b].pushing)
      BY <1>5, LockBecomes
    <2>2. bcast[b].job # Nil
      BY <1>2, <1>5 DEF Lock, RecordOf
    <2> QED
      BY <1>1, <1>3, <2>1, <2>2, MoveTyped
  <1>6. CASE Unlock(b)
    <2>1. Becomes(b, "none", Nil, {}, bcast[b].pushing)
      BY <1>6, UnlockBecomes
    <2> QED
      BY <1>1, <1>3, <2>1, MoveTyped
  <1>7. ASSUME NEW m \in Miners, Spawn(b, m) PROVE BroadcastsTyped'
    <2>1. Becomes(b, "spawn", bcast[b].job, bcast[b].left \ {m},
                  bcast[b].pushing \cup {[to |-> m, job |-> bcast[b].job]})
      BY <1>7, SpawnBecomes
    <2>2. bcast[b].job # Nil
      BY <1>2, <1>7 DEF Spawn, RecordOf
    <2> QED
      BY <1>1, <1>3, <2>1, <2>2, MoveTyped
  <1> QED
    BY <1>1, <1>4, <1>5, <1>6, <1>7 DEF BroadcastStep

LEMMA PushTyped ==
    ASSUME Typed, NEW b \in Broadcasts, NEW p \in bcast[b].pushing, Push(b, p)
    PROVE  BroadcastsTyped' /\ work' = work
  <1>1. work' = work
    BY DEF Push
  <1>2. Becomes(b, bcast[b].at, bcast[b].job, bcast[b].left, bcast[b].pushing \ {p})
    BY PushBecomes
  <1>3. /\ bcast[b].at # "spawn" => bcast[b].left = {}
        /\ bcast[b].at \in {"lock", "spawn"} <=> bcast[b].job # Nil
        /\ bcast[b].at = "start" => bcast[b].pushing \ {p} = {}
    BY Record DEF RecordOf
  <1>4. b <= work
    BY Stored
  <1> QED
    BY <1>1, <1>2, <1>3, <1>4, MoveTyped

LEMMA StoreTyped == ASSUME Typed, Store PROVE BroadcastsTyped'
  <1>1. work' = work + 1 /\ work + 1 <= work'
    BY DEF Store, Typed, Works
  <1>2. work + 1 \in Broadcasts /\ Becomes(work + 1, "start", Nil, {}, {})
    BY StoreBecomes
  <1> QED
    BY <1>1, <1>2, MoveTyped

\* The rest of the types.
SeatsTyped ==
    seat \in [Miners -> SeatRecords] /\ \A m \in Miners : seat[m].at = "push" <=> seat[m].job # Nil
SetsTyped ==
    /\ sessions \subseteq Miners /\ removing \subseteq broken /\ broken \subseteq Miners
    /\ served \subseteq Miners /\ stale \subseteq served /\ overlap \in BOOLEAN

LEMMA TypedParts ==
    Typed <=> /\ work \in {Nil} \cup Works /\ fails \in 0 .. MaxFails
              /\ BroadcastsTyped /\ SeatsTyped /\ SetsTyped
  BY DEF Typed, BroadcastsTyped, SeatsTyped, SetsTyped

LEMMA TypedAfter ==
    ASSUME work' \in {Nil} \cup Works, fails' \in 0 .. MaxFails,
           BroadcastsTyped', SeatsTyped', SetsTyped'
    PROVE  Typed'
  BY DEF Typed, BroadcastsTyped, SeatsTyped, SetsTyped

LEMMA SitTyped ==
    ASSUME SeatsTyped, NEW m \in Miners,
           NEW at \in {"idle", "read", "push", "remove", "dead", "flooded"},
           NEW job \in {Nil} \cup Works, Sit(m, at, job), at = "push" <=> job # Nil
    PROVE  SeatsTyped'
  <1> DEFINE r == [at |-> at, job |-> job]
  <1>1. r \in SeatRecords
    BY DEF SeatRecords
  <1>2. seat' = [seat EXCEPT ![m] = r] /\ seat \in [Miners -> SeatRecords]
    BY DEF Sit, SeatsTyped
  <1>3. r.at = "push" <=> r.job # Nil
    OBVIOUS
  <1> HIDE DEF r
  <1> QED
    BY <1>1, <1>2, <1>3 DEF SeatsTyped

LEMMA WrittenTyped ==
    ASSUME SetsTyped, NEW m \in Miners, NEW job, Written(m, job),
           sessions' \subseteq Miners, removing' \subseteq broken', broken' = broken
    PROVE  SetsTyped'
  BY DEF Written, SetsTyped

\* The steps of a session's own goroutine.
LEMMA SessionTyped ==
    ASSUME Typed, NEW m \in Miners, Register(m) \/ SessionStep(m) \/ Remove(m)
    PROVE  SeatsTyped' /\ SetsTyped' /\ UNCHANGED <<work, bcast, fails>>
  <1>1. SeatsTyped /\ SetsTyped /\ work \in {Nil} \cup Works
    BY TypedParts
  <1>2. UNCHANGED <<work, bcast, fails>>
    BY DEF Register, SessionStep, ReadWork, PushFirst, Hangup, Flood, Remove
  <1>3. SeatsTyped'
    <2>1. CASE \E at \in {"idle", "read", "remove", "dead", "flooded"} : Sit(m, at, Nil)
      BY <1>1, <2>1, SitTyped
    <2>2. CASE Sit(m, "push", work) /\ work # Nil
      BY <1>1, <2>2, SitTyped
    <2> QED
      BY <2>1, <2>2 DEF Register, SessionStep, ReadWork, PushFirst, Hangup, Flood, Remove
  <1>4. SetsTyped'
    <2>1. CASE ReadWork(m)
      BY <1>1, <2>1 DEF ReadWork, SetsTyped
    <2>2. CASE PushFirst(m)
      <3>1. CASE Written(m, seat[m].job)
        BY <1>1, <2>2, <3>1, WrittenTyped DEF PushFirst, SetsTyped
      <3>2. CASE UNCHANGED sentVars
        BY <1>1, <2>2, <3>2 DEF PushFirst, SetsTyped, sentVars
      <3> QED
        BY <2>2, <3>1, <3>2 DEF PushFirst
    <2>3. CASE Register(m) \/ Hangup(m) \/ Flood(m) \/ Remove(m)
      BY <1>1, <2>3 DEF Register, Hangup, Flood, Remove, SetsTyped, sentVars
    <2> QED
      BY <2>1, <2>2, <2>3 DEF SessionStep
  <1> QED
    BY <1>2, <1>3, <1>4

\* The steps of a broadcast or a push change sets and never a seat.
LEMMA BroadcastSetsTyped ==
    ASSUME Typed, NEW b \in Broadcasts,
           BroadcastStep(b) \/ \E p \in bcast[b].pushing : Push(b, p)
    PROVE  SetsTyped' /\ UNCHANGED <<seat, fails>>
  <1>1. SetsTyped
    BY TypedParts
  <1>2. CASE BroadcastStep(b)
    BY <1>1, <1>2 DEF BroadcastStep, Start, Lock, Unlock, Spawn, SetsTyped, sentVars
  <1>3. ASSUME NEW p \in bcast[b].pushing, Push(b, p) PROVE SetsTyped' /\ UNCHANGED <<seat, fails>>
    <2>1. p.to \in Miners
      BY Record DEF RecordOf, Pushes
    <2>2. UNCHANGED <<seat, fails, sessions, broken>>
      BY <1>3 DEF Push
    <2>3. CASE Written(p.to, p.job) /\ UNCHANGED removing
      BY <1>1, <2>1, <2>2, <2>3, WrittenTyped DEF SetsTyped
    <2>4. CASE p.to \in broken /\ removing' = removing \cup {p.to} /\ UNCHANGED sentVars
      BY <1>1, <2>2, <2>4 DEF SetsTyped, sentVars
    <2> QED
      BY <1>3, <2>2, <2>3, <2>4 DEF Push
  <1> QED
    BY <1>2, <1>3

LEMMA TypedKept == ASSUME Typed, [Next]_vars PROVE Typed'
  <1>1. /\ work \in {Nil} \cup Works /\ fails \in 0 .. MaxFails
        /\ BroadcastsTyped /\ SeatsTyped /\ SetsTyped
    BY TypedParts
  <1>2. CASE Store
    <2>1. work' \in Works
      BY <1>1, <1>2 DEF Store, Works
    <2>2. BroadcastsTyped'
      BY <1>2, StoreTyped
    <2>3. SetsTyped' /\ SeatsTyped' /\ fails' = fails
      BY <1>1, <1>2 DEF Store, SetsTyped, SeatsTyped, JobUnderWay
    <2> QED
      BY <1>1, <2>1, <2>2, <2>3, TypedAfter
  <1>3. CASE StateUpdate
    <2>1. fails' \in 0 .. MaxFails
      BY <1>1, <1>3 DEF StateUpdate
    <2>2. BroadcastsTyped' /\ SeatsTyped' /\ SetsTyped' /\ work' = work
      BY <1>1, <1>3 DEF StateUpdate, BroadcastsTyped, Proper, Sound, SeatsTyped, SetsTyped, sentVars
    <2> QED
      BY <1>1, <2>1, <2>2, TypedAfter
  <1>4. ASSUME NEW b \in Broadcasts, BroadcastStep(b) \/ \E p \in bcast[b].pushing : Push(b, p)
        PROVE  Typed'
    <2>1. BroadcastsTyped' /\ work' = work
      BY <1>4, BroadcastStepTyped, PushTyped
    <2>2. SetsTyped' /\ UNCHANGED <<seat, fails>>
      BY <1>4, BroadcastSetsTyped
    <2>3. SeatsTyped'
      BY <1>1, <2>2 DEF SeatsTyped
    <2> QED
      BY <1>1, <2>1, <2>2, <2>3, TypedAfter
  <1>5. ASSUME NEW m \in Miners, Register(m) \/ SessionStep(m) \/ Remove(m) PROVE Typed'
    <2>1. SeatsTyped' /\ SetsTyped' /\ UNCHANGED <<work, bcast, fails>>
      BY <1>5, SessionTyped
    <2>2. BroadcastsTyped'
      BY <1>1, <2>1 DEF BroadcastsTyped, Proper, Sound
    <2> QED
      BY <1>1, <2>1, <2>2, TypedAfter
  <1>6. ASSUME NEW m \in Miners, Drop(m) \/ Break(m) PROVE Typed'
    <2>1. UNCHANGED <<work, bcast, seat, sentVars, fails>>
      BY <1>6 DEF Drop, Break
    <2>2. SetsTyped'
      BY <1>1, <1>6, <2>1 DEF Drop, Break, SetsTyped, sentVars
    <2>3. BroadcastsTyped' /\ SeatsTyped'
      BY <1>1, <2>1 DEF BroadcastsTyped, Proper, Sound, SeatsTyped
    <2> QED
      BY <1>1, <2>1, <2>2, <2>3, TypedAfter
  <1>7. CASE UNCHANGED vars
    <2>1. BroadcastsTyped' /\ SeatsTyped' /\ SetsTyped' /\ UNCHANGED <<work, fails>>
      BY <1>1, <1>7 DEF vars, sentVars, BroadcastsTyped, Proper, Sound, SeatsTyped, SetsTyped
    <2> QED
      BY <1>1, <2>1, TypedAfter
  <1> QED
    BY <1>2, <1>3, <1>4, <1>5, <1>6, <1>7 DEF Next

(***************************************************************************)
(* The slots of the channel.                                               *)
(***************************************************************************)
LEMMA SlotsMove ==
    ASSUME InSlots, NEW b \in Broadcasts, NEW at, NEW job, NEW left, NEW pushing,
           Becomes(b, at, job, left, pushing),
           IsFiniteSet(pushing), Cardinality(pushing) \in 0 .. Capacity
    PROVE  InSlots'
  <1>1. ASSUME NEW c \in Broadcasts PROVE Small(c)'
    <2>1. CASE c = b
      BY <2>1 DEF Becomes, Small
    <2>2. CASE c # b
      BY <2>2 DEF Becomes, Small, InSlots
    <2> QED
      BY <2>1, <2>2
  <1> QED
    BY <1>1 DEF InSlots

LEMMA SlotsKept == ASSUME Typed, InSlots, [Next]_vars PROVE InSlots'
  <1>1. IsFiniteSet({}) /\ Cardinality({}) \in 0 .. Capacity
    BY FS_EmptySet
  <1>2. \A b \in Broadcasts : IsFiniteSet(bcast[b].pushing) /\ Cardinality(bcast[b].pushing) \in 0 .. Capacity
    BY DEF InSlots, Small
  <1>3. CASE Store
    BY <1>1, <1>3, StoreBecomes, SlotsMove
  <1>4. ASSUME NEW b \in Broadcasts, BroadcastStep(b) PROVE InSlots'
    <2>1. CASE Start(b)
      BY <1>1, <2>1, StartBecomes, SlotsMove
    <2>2. CASE Lock(b)
      BY <1>2, <2>2, LockBecomes, SlotsMove
    <2>3. CASE Unlock(b)
      BY <1>2, <2>3, UnlockBecomes, SlotsMove
    <2>4. ASSUME NEW m \in Miners, Spawn(b, m) PROVE InSlots'
      <3> DEFINE p == [to |-> m, job |-> bcast[b].job]
      <3>1. Becomes(b, "spawn", bcast[b].job, bcast[b].left \ {m}, bcast[b].pushing \cup {p})
        BY <2>4, SpawnBecomes
      <3>2. Cardinality(bcast[b].pushing) < Capacity
        BY <2>4 DEF Spawn
      <3> HIDE DEF p
      <3>3. /\ IsFiniteSet(bcast[b].pushing \cup {p})
            /\ Cardinality(bcast[b].pushing \cup {p})
                 \in {Cardinality(bcast[b].pushing), Cardinality(bcast[b].pushing) + 1}
        BY <1>2, FS_AddElement
      <3>4. Cardinality(bcast[b].pushing \cup {p}) \in 0 .. Capacity
        BY <1>2, <3>2, <3>3
      <3> QED
        BY <3>1, <3>3, <3>4, SlotsMove
    <2> QED
      BY <1>4, <2>1, <2>2, <2>3, <2>4 DEF BroadcastStep
  <1>5. ASSUME NEW b \in Broadcasts, NEW p \in bcast[b].pushing, Push(b, p) PROVE InSlots'
    <2>1. /\ IsFiniteSet(bcast[b].pushing \ {p})
          /\ Cardinality(bcast[b].pushing \ {p}) = Cardinality(bcast[b].pushing) - 1
      BY <1>2, FS_RemoveElement
    <2>2. Cardinality(bcast[b].pushing \ {p}) \in Nat
      BY <2>1, FS_CardinalityType
    <2>3. Cardinality(bcast[b].pushing \ {p}) \in 0 .. Capacity
      BY <1>2, <2>1, <2>2
    <2> QED
      BY <1>5, <2>1, <2>3, PushBecomes, SlotsMove
  <1>6. CASE UNCHANGED bcast
    BY <1>6 DEF InSlots, Small
  <1> QED
    BY <1>3, <1>4, <1>5, <1>6 DEF Next, vars, StateUpdate, Drop, Register, SessionStep, ReadWork,
       PushFirst, Hangup, Flood, Remove, Break

(***************************************************************************)
(* Where the current job of each session is.                               *)
(***************************************************************************)
\* What covers a session covers it still, unless something else does.
LEMMA CoverPassed ==
    ASSUME NEW m, Covered(m), served \subseteq served',
           BySeat(m) => Covered(m)',
           \A b \in Broadcasts : ByBroadcast(b, m) => Covered(m)'
    PROVE  Covered(m)'
  BY DEF Covered

LEMMA CoverStays ==
    ASSUME NEW m, Covered(m), served \subseteq served', UNCHANGED <<work, bcast, seat[m]>>
    PROVE  Covered(m)'
  BY DEF Covered, BySeat, ByBroadcast

LEMMA ServedGrows == ASSUME NEW m, NEW job, Written(m, job) PROVE served \subseteq served'
  BY DEF Written

\* A session's goroutine takes the job from the work, or hands it over.
LEMMA SessionCovers ==
    ASSUME Typed, work # Nil, NEW n \in Miners, Register(n) \/ SessionStep(n) \/ Remove(n),
           NEW m \in sessions' \ broken', m \in sessions => Covered(m)
    PROVE  Covered(m)'
  <1>1. UNCHANGED <<work, bcast, broken>> /\ seat \in [Miners -> SeatRecords] /\ sessions \subseteq Miners
    BY DEF Typed, Register, SessionStep, ReadWork, PushFirst, Hangup, Flood, Remove
  <1>2. served \subseteq served'
    BY ServedGrows DEF Register, SessionStep, ReadWork, PushFirst, Hangup, Flood, Remove, sentVars
  <1>3. CASE n # m
    <2>1. m \in sessions /\ m \in Miners
      BY <1>1, <1>3 DEF Register, SessionStep, ReadWork, PushFirst, Hangup, Flood, Remove
    <2>2. seat'[m] = seat[m]
      BY <1>1, <1>3, <2>1
         DEF Register, SessionStep, ReadWork, PushFirst, Hangup, Flood, Remove, Sit
    <2> QED
      BY <1>1, <1>2, <2>1, <2>2, CoverStays
  <1>4. CASE n = m
    <2>1. m \notin broken /\ m \in Miners
      BY <1>1, <1>4
    <2>2. CASE Register(m)
      <3>1. seat'[m].at = "read"
        BY <1>1, <2>1, <2>2 DEF Register, Sit
      <3> QED
        BY <3>1 DEF Covered, BySeat
    <2>3. CASE ReadWork(m)
      <3>1. CASE isSick /\ served' = served \cup {m}
        BY <3>1 DEF Covered
      <3>2. CASE Sit(m, "push", work)
        <4>1. seat'[m].at = "push" /\ seat'[m].job = work
          BY <1>1, <2>1, <3>2 DEF Sit
        <4> QED
          BY <1>1, <4>1 DEF Covered, BySeat
      <3> QED
        BY <2>3, <3>1, <3>2 DEF ReadWork
    <2>4. CASE PushFirst(m)
      <3>1. Written(m, seat[m].job) /\ seat[m].at = "push" /\ sessions' = sessions
        BY <2>1, <2>4 DEF PushFirst
      <3>2. BySeat(m) => m \in served'
        BY <3>1 DEF BySeat, Written
      <3>3. \A b \in Broadcasts : ByBroadcast(b, m) => ByBroadcast(b, m)'
        BY <1>1 DEF ByBroadcast
      <3> QED
        BY <1>2, <3>1, <3>2, <3>3 DEF Covered
    <2>5. ~(Hangup(m) \/ Flood(m) \/ Remove(m))
      BY <1>4, <2>1 DEF Hangup, Flood, Remove
    <2> QED
      BY <1>4, <2>2, <2>3, <2>4, <2>5 DEF SessionStep
  <1> QED
    BY <1>3, <1>4

\* A broadcast takes the job one stage further.
LEMMA BroadcastCovers ==
    ASSUME Typed, NEW b \in Broadcasts, BroadcastStep(b), NEW m \in sessions, Covered(m)
    PROVE  Covered(m)'
  <1>1. UNCHANGED <<work, seat>> /\ served \subseteq served'
    BY DEF BroadcastStep, Start, Lock, Unlock, Spawn, sentVars
  <1>2. BySeat(m) => Covered(m)'
    BY <1>1 DEF BySeat, Covered
  <1>3. ASSUME NEW at, NEW job, NEW left, NEW pushing, Becomes(b, at, job, left, pushing),
               ByBroadcast(b, m) => \/ at = "start"
                                    \/ at = "lock" /\ job = work
                                    \/ at = "spawn" /\ job = work /\ m \in left
                                    \/ [to |-> m, job |-> work] \in pushing
        PROVE  Covered(m)'
    <2>1. ByBroadcast(b, m) => ByBroadcast(b, m)'
      BY <1>1, <1>3 DEF Becomes, ByBroadcast
    <2>2. \A c \in Broadcasts \ {b} : ByBroadcast(c, m) => ByBroadcast(c, m)'
      BY <1>1, <1>3 DEF Becomes, ByBroadcast
    <2> QED
      BY <1>1, <1>2, <2>1, <2>2 DEF Covered
  <1>4. CASE Start(b)
    <2>1. CASE served' = served \cup sessions
      BY <2>1 DEF Covered
    <2>2. CASE Becomes(b, "lock", work, {}, {})
      BY <1>3, <2>2
    <2>3. served' = served \cup sessions \/ bcast'[b].at = "lock"
      <3>1. bcast \in [Broadcasts -> BroadcastRecords]
        BY DEF Typed
      <3>2. CASE bcast' = [bcast EXCEPT ![b].at = "lock", ![b].job = work]
        BY <3>1, <3>2 DEF BroadcastRecords
      <3> QED
        BY <1>4, <3>2 DEF Start
    <2>4. Becomes(b, "none", Nil, {}, {}) => bcast'[b].at # "lock"
      BY DEF Becomes
    <2> QED
      BY <1>4, <2>1, <2>2, <2>3, <2>4, StartBecomes
  <1>5. CASE Lock(b)
    <2>1. Becomes(b, "spawn", bcast[b].job, sessions, bcast[b].pushing)
      BY <1>5, LockBecomes
    <2>2. bcast[b].at = "lock"
      BY <1>5 DEF Lock
    <2> QED
      BY <1>3, <2>1, <2>2 DEF ByBroadcast
  <1>6. CASE Unlock(b)
    <2>1. Becomes(b, "none", Nil, {}, bcast[b].pushing)
      BY <1>6, UnlockBecomes
    <2>2. bcast[b].at = "spawn" /\ bcast[b].left = {}
      BY <1>6 DEF Unlock
    <2> QED
      BY <1>3, <2>1, <2>2 DEF ByBroadcast
  <1>7. ASSUME NEW n \in Miners, Spawn(b, n) PROVE Covered(m)'
    <2>1. Becomes(b, "spawn", bcast[b].job, bcast[b].left \ {n},
                  bcast[b].pushing \cup {[to |-> n, job |-> bcast[b].job]})
      BY <1>7, SpawnBecomes
    <2>2. bcast[b].at = "spawn"
      BY <1>7 DEF Spawn
    <2> QED
      BY <1>3, <2>1, <2>2 DEF ByBroadcast
  <1> QED
    BY <1>4, <1>5, <1>6, <1>7 DEF BroadcastStep

\* A push serves its session, unless the connection is broken.
LEMMA PushCovers ==
    ASSUME Typed, NEW b \in Broadcasts, NEW p \in bcast[b].pushing, Push(b, p),
           NEW m \in sessions \ broken, Covered(m)
    PROVE  Covered(m)'
  <1>1. UNCHANGED <<work, seat>> /\ served \subseteq served'
    BY ServedGrows DEF Push, sentVars
  <1>2. Becomes(b, bcast[b].at, bcast[b].job, bcast[b].left, bcast[b].pushing \ {p})
    BY PushBecomes
  <1>3. p = [to |-> m, job |-> work] => m \in served'
    BY <1>1 DEF Push, Written
  <1>4. ByBroadcast(b, m) => ByBroadcast(b, m)' \/ m \in served'
    BY <1>1, <1>2, <1>3 DEF Becomes, ByBroadcast
  <1>5. \A c \in Broadcasts \ {b} : ByBroadcast(c, m) => ByBroadcast(c, m)'
    BY <1>1, <1>2 DEF Becomes, ByBroadcast
  <1> QED
    BY <1>1, <1>4, <1>5 DEF Covered, BySeat

LEMMA CoveredKept == ASSUME Typed, AllCovered, [Next]_vars PROVE AllCovered'
  <1>1. CASE Store
    <2>1. work + 1 \in Broadcasts /\ bcast'[work + 1].at = "start"
      BY <1>1, StoreBecomes DEF Becomes
    <2> QED
      BY <2>1 DEF AllCovered, Covered, ByBroadcast
  <1>2. ASSUME work' = work, work # Nil, NEW m \in sessions' \ broken',
               m \in sessions \ broken => Covered(m),
               ~Store
        PROVE  Covered(m)'
    <2>1. ASSUME NEW b \in Broadcasts, BroadcastStep(b) PROVE Covered(m)'
      <3>1. UNCHANGED <<sessions, broken>>
        BY <2>1 DEF BroadcastStep, Start, Lock, Unlock, Spawn
      <3> QED
        BY <1>2, <2>1, <3>1, BroadcastCovers
    <2>2. ASSUME NEW b \in Broadcasts, NEW p \in bcast[b].pushing, Push(b, p) PROVE Covered(m)'
      <3>1. UNCHANGED <<sessions, broken>>
        BY <2>2 DEF Push
      <3> QED
        BY <1>2, <2>2, <3>1, PushCovers
    <2>3. ASSUME NEW n \in Miners, Register(n) \/ SessionStep(n) \/ Remove(n) PROVE Covered(m)'
      <3>1. UNCHANGED broken
        BY <2>3 DEF Register, SessionStep, ReadWork, PushFirst, Hangup, Flood, Remove
      <3> QED
        BY <1>2, <2>3, <3>1, SessionCovers
    <2>4. CASE UNCHANGED <<work, bcast, seat, served>> /\ sessions' \subseteq sessions /\ broken \subseteq broken'
      BY <1>2, <2>4, CoverStays
    <2> QED
      BY <1>2, <2>1, <2>2, <2>3, <2>4 DEF Next, vars, sentVars, StateUpdate, Drop, Break
  <1>3. Store \/ work' = work
    BY DEF Next, vars, StateUpdate, BroadcastStep, Start, Lock, Unlock, Spawn, Push, Drop,
       Register, SessionStep, ReadWork, PushFirst, Hangup, Flood, Remove, Break
  <1> QED
    BY <1>1, <1>2, <1>3 DEF AllCovered

(***************************************************************************)
(* Older jobs.                                                             *)
(***************************************************************************)
NoneOlder ==
    /\ stale = {}
    /\ \A b \in Broadcasts : ~OlderBroadcast(b)
    /\ \A m \in Miners : ~OlderSeat(m)

LEMMA StoreOld == ASSUME Typed, Store PROVE OldAccounted'
  <1>1. CASE JobUnderWay
    BY <1>1 DEF Store, OldAccounted
  <1>2. CASE ~JobUnderWay
    <2>1. stale' = {} /\ seat' = seat
      BY DEF Store
    <2>2. work + 1 \in Broadcasts /\ Becomes(work + 1, "start", Nil, {}, {})
      BY StoreBecomes
    <2>3. ASSUME NEW b \in Broadcasts PROVE ~OlderBroadcast(b)'
      <3>1. CASE b = work + 1
        BY <2>2, <3>1 DEF Becomes, OlderBroadcast
      <3>2. CASE b # work + 1
        BY <1>2, <2>2, <3>2 DEF Becomes, OlderBroadcast, JobUnderWay
      <3> QED
        BY <3>1, <3>2
    <2>4. \A m \in Miners : ~OlderSeat(m)'
      BY <1>2, <2>1 DEF OlderSeat, JobUnderWay
    <2> QED
      BY <2>1, <2>3, <2>4 DEF OldAccounted
  <1> QED
    BY <1>1, <1>2

\* A broadcast that has the current work, or no job, is not older.
LEMMA NotOlder ==
    ASSUME NoneOlder, NEW b \in Broadcasts, NEW at, NEW job, NEW left, NEW pushing,
           Becomes(b, at, job, left, pushing), work' = work,
           at \in {"lock", "spawn"} => job = work,
           \A p \in pushing : p \in bcast[b].pushing \/ p.job = work
    PROVE  \A c \in Broadcasts : ~OlderBroadcast(c)'
  <1>1. ASSUME NEW c \in Broadcasts PROVE ~OlderBroadcast(c)'
    <2>1. CASE c = b
      BY <2>1 DEF Becomes, OlderBroadcast, NoneOlder
    <2>2. CASE c # b
      BY <2>2 DEF Becomes, OlderBroadcast, NoneOlder
    <2> QED
      BY <2>1, <2>2
  <1> QED
    BY <1>1

LEMMA BroadcastOld ==
    ASSUME Typed, NoneOlder, NEW b \in Broadcasts, BroadcastStep(b)
    PROVE  NoneOlder'
  <1>1. UNCHANGED <<work, seat, stale>>
    BY DEF BroadcastStep, Start, Lock, Unlock, Spawn, sentVars
  <1>2. bcast[b].at \in {"lock", "spawn"} => bcast[b].job = work
    BY DEF NoneOlder, OlderBroadcast
  <1>3. \A c \in Broadcasts : ~OlderBroadcast(c)'
    <2>1. CASE Start(b)
      <3>1. CASE Becomes(b, "none", Nil, {}, {})
        BY <1>1, <3>1, NotOlder
      <3>2. CASE Becomes(b, "lock", work, {}, {})
        BY <1>1, <3>2, NotOlder
      <3> QED
        BY <2>1, <3>1, <3>2, StartBecomes
    <2>2. CASE Lock(b)
      <3>1. bcast[b].job = work
        BY <1>2, <2>2 DEF Lock
      <3> QED
        BY <1>1, <2>2, <3>1, LockBecomes, NotOlder
    <2>3. CASE Unlock(b)
      BY <1>1, <2>3, UnlockBecomes, NotOlder
    <2>4. ASSUME NEW m \in Miners, Spawn(b, m) PROVE \A c \in Broadcasts : ~OlderBroadcast(c)'
      <3> DEFINE p == [to |-> m, job |-> bcast[b].job]
      <3>1. bcast[b].job = work /\ p.job = work
        BY <1>2, <2>4 DEF Spawn
      <3>2. Becomes(b, "spawn", bcast[b].job, bcast[b].left \ {m}, bcast[b].pushing \cup {p})
        BY <2>4, SpawnBecomes
      <3> HIDE DEF p
      <3>3. \A q \in bcast[b].pushing \cup {p} : q \in bcast[b].pushing \/ q.job = work
        BY <3>1
      <3> QED
        BY <1>1, <3>1, <3>2, <3>3, NotOlder
    <2> QED
      BY <2>1, <2>2, <2>3, <2>4 DEF BroadcastStep
  <1> QED
    BY <1>1, <1>3 DEF NoneOlder, OlderSeat

LEMMA PushOld ==
    ASSUME Typed, NoneOlder, NEW b \in Broadcasts, NEW p \in bcast[b].pushing, Push(b, p)
    PROVE  NoneOlder'
  <1>1. UNCHANGED <<work, seat>> /\ p.job = work
    BY DEF Push, NoneOlder, OlderBroadcast
  <1>2. stale' = {}
    BY <1>1 DEF Push, Written, NoneOlder, sentVars
  <1>3. bcast[b].at \in {"lock", "spawn"} => bcast[b].job = work
    BY DEF NoneOlder, OlderBroadcast
  <1>4. \A c \in Broadcasts : ~OlderBroadcast(c)'
    BY <1>1, <1>3, PushBecomes, NotOlder
  <1> QED
    BY <1>1, <1>2, <1>4 DEF NoneOlder, OlderSeat

LEMMA SessionOld ==
    ASSUME Typed, NoneOlder, NEW m \in Miners, Register(m) \/ SessionStep(m) \/ Remove(m)
    PROVE  NoneOlder'
  <1>1. UNCHANGED <<work, bcast>> /\ seat \in [Miners -> SeatRecords]
    BY DEF Typed, Register, SessionStep, ReadWork, PushFirst, Hangup, Flood, Remove
  <1>2. stale' = {}
    BY DEF NoneOlder, OlderSeat, Written, Register, SessionStep, ReadWork, PushFirst, Hangup, Flood,
       Remove, sentVars
  <1>3. \A b \in Broadcasts : ~OlderBroadcast(b)'
    BY <1>1 DEF NoneOlder, OlderBroadcast
  <1>4. Sit(m, "push", work) \/ \E at : at # "push" /\ Sit(m, at, Nil)
    BY DEF Register, SessionStep, ReadWork, PushFirst, Hangup, Flood, Remove
  <1>5. ASSUME NEW n \in Miners PROVE ~OlderSeat(n)'
    <2>1. CASE n = m
      BY <1>1, <1>4, <2>1 DEF Sit, OlderSeat
    <2>2. CASE n # m
      <3>1. seat'[n] = seat[n]
        BY <1>1, <1>4, <2>2 DEF Sit
      <3> QED
        BY <1>1, <3>1 DEF NoneOlder, OlderSeat
    <2> QED
      BY <2>1, <2>2
  <1> QED
    BY <1>2, <1>3, <1>5 DEF NoneOlder

LEMMA OldKept == ASSUME Typed, OldAccounted, [Next]_vars PROVE OldAccounted'
  <1>1. CASE Store
    BY <1>1, StoreOld
  <1>2. CASE ~Store /\ overlap
    <2>1. overlap' = overlap
      BY <1>2 DEF Next, vars, sentVars, StateUpdate, BroadcastStep, Start, Lock, Unlock, Spawn, Push,
         Written, Drop, Register, SessionStep, ReadWork, PushFirst, Hangup, Flood, Remove, Break
    <2> QED
      BY <1>2, <2>1 DEF OldAccounted
  <1>3. CASE ~Store /\ NoneOlder
    <2>1. ASSUME NEW b \in Broadcasts, BroadcastStep(b) PROVE NoneOlder'
      BY <1>3, <2>1, BroadcastOld
    <2>2. ASSUME NEW b \in Broadcasts, NEW p \in bcast[b].pushing, Push(b, p) PROVE NoneOlder'
      BY <1>3, <2>2, PushOld
    <2>3. ASSUME NEW m \in Miners, Register(m) \/ SessionStep(m) \/ Remove(m) PROVE NoneOlder'
      BY <1>3, <2>3, SessionOld
    <2>4. ASSUME UNCHANGED <<work, bcast, seat, stale>> PROVE NoneOlder'
      BY <1>3, <2>4 DEF NoneOlder, OlderBroadcast, OlderSeat
    <2>5. NoneOlder'
      BY <1>3, <2>1, <2>2, <2>3, <2>4 DEF Next, vars, sentVars, StateUpdate, Drop, Break
    <2> QED
      BY <2>5 DEF NoneOlder, OldAccounted
  <1> QED
    BY <1>1, <1>2, <1>3 DEF OldAccounted, NoneOlder

-----------------------------------------------------------------------------
LEMMA InvNext == JobsInv /\ [Next]_vars => JobsInv'
  BY TypedKept, SlotsKept, CoveredKept, OldKept DEF JobsInv

LEMMA JobsInvariant == Spec => []JobsInv
  BY InvInit, InvNext, PTL DEF Spec

\* Every variable has its type, whatever the sessions and broadcasts do, and
\* no broadcast ever has more pushes under way than its channel has slots.
THEOREM JobsTypeCorrect == Spec => []JobsTypeOK
  <1>1. JobsInv => JobsTypeOK
    <2> SUFFICES ASSUME JobsInv PROVE JobsTypeOK
      OBVIOUS
    <2>1. Typed /\ InSlots
      BY DEF JobsInv
    <2>2. bcast \in [Broadcasts -> [at : {"none", "start", "lock", "spawn"}, job : {Nil} \cup Works,
                                    left : SUBSET Miners, pushing : SUBSET [to : Miners, job : Works]]]
      BY <2>1 DEF Typed, BroadcastRecords, Pushes
    <2>3. ASSUME NEW b \in Broadcasts
          PROVE  /\ bcast[b].at # "spawn" => bcast[b].left = {}
                 /\ bcast[b].at \in {"lock", "spawn"} <=> bcast[b].job # Nil
                 /\ Cardinality(bcast[b].pushing) <= Capacity
      <3>1. Cardinality(bcast[b].pushing) \in 0 .. Capacity
        BY <2>1 DEF InSlots, Small
      <3>2. Cardinality(bcast[b].pushing) <= Capacity
        BY <3>1
      <3>3. RecordOf(b)
        BY <2>1, Record
      <3> QED
        BY <3>2, <3>3 DEF RecordOf
    <2>4. SeatsTyped /\ SetsTyped /\ work \in {Nil} \cup Works /\ fails \in 0 .. MaxFails
      BY <2>1, TypedParts
    <2> QED
      BY <2>2, <2>3, <2>4 DEF SeatsTyped, SetsTyped, SeatRecords, JobsTypeOK
  <1> QED
    BY <1>1, JobsInvariant, PTL

\* No session falls between registration and broadcast.
THEOREM EveryoneHasJobCorrect == Spec => []EveryoneHasJob
  <1>1. JobsInv => EveryoneHasJob
    BY DEF JobsInv, AllCovered, Covered, BySeat, ByBroadcast, EveryoneHasJob, Resting
  <1> QED
    BY <1>1, JobsInvariant, PTL

\* An older job follows the current one only if it was under way when the
\* current work was stored.
THEOREM OldJobsNeedOverlapCorrect == Spec => []OldJobsNeedOverlap
  <1>1. JobsInv => OldJobsNeedOverlap
    BY DEF JobsInv, OldAccounted, OldJobsNeedOverlap
  <1> QED
    BY <1>1, JobsInvariant, PTL
=============================================================================
