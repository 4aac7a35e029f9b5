-------------------------------- MODULE Jobs --------------------------------
(***************************************************************************)
(* How a pool process hands jobs to its stratum sessions: proxy/stratum.go *)
(* and the health counter of proxy/proxy.go.  There is one goroutine per   *)
(* connection, one per broadcast, and one per push of a broadcast; they    *)
(* share the current work, the session table with its RWMutex, and the     *)
(* channel that limits the pushes of a broadcast.  How the work comes about *)
(* is in module Upstreams; here it is stored by Store.                     *)
(*                                                                         *)
(* Works are numbered as they are stored.  Writing one message under       *)
(* session.Lock is a step.                                                 *)
(***************************************************************************)
EXTENDS Integers, FiniteSets

CONSTANTS
    Miners,          \* stratum connections
    Capacity,        \* 1024: pushes of one broadcast that run at once
    HealthCheck,     \* config.Proxy.HealthCheck
    MaxFails,        \* config.Proxy.MaxFails
    MaxStores,       \* bound: works stored
    MaxBreaks        \* bound: connections that break

ASSUME JobsAssumption ==
    /\ IsFiniteSet(Miners)
    /\ Capacity \in Nat \ {0}
    /\ HealthCheck \in BOOLEAN /\ MaxFails \in Nat \ {0}
    /\ MaxStores \in Nat \ {0} /\ MaxBreaks \in Nat

Nil == 0                          \* no work yet
Works == 1 .. MaxStores
Broadcasts == Works               \* one for each work stored

VARIABLES
    work,            \* currentWork
    bcast,           \* broadcast -> [at, job, left, pushing]
    removing,        \* sessions that a failed push is about to take out
    sessions,        \* the session table
    seat,            \* miner -> [at, job]: its goroutine
    broken,          \* connections that are dead underneath
    served,          \* history: miners sent the current work, or denied it
                     \* because the pool was sick
    stale,           \* history: miners sent an older job after that
    overlap,         \* history: an older job was under way when the current
                     \* work was stored
    fails            \* failsCount

sentVars == <<served, stale, overlap>>
vars == <<work, bcast, removing, sessions, seat, broken, sentVars, fails>>

NoBroadcast == [at |-> "none", job |-> Nil, left |-> {}, pushing |-> {}]

Init ==
    /\ work = Nil
    /\ bcast = [b \in Broadcasts |-> NoBroadcast]
    /\ removing = {}
    /\ sessions = {}
    /\ seat = [m \in Miners |-> [at |-> "idle", job |-> Nil]]
    /\ broken = {}
    /\ served = {} /\ stale = {} /\ overlap = FALSE
    /\ fails = 0

isSick == HealthCheck /\ fails >= MaxFails

\* A job has been read from the current work and is still to be written.
JobUnderWay ==
    \/ \E b \in Broadcasts : bcast[b].at \in {"lock", "spawn"} \/ bcast[b].pushing # {}
    \/ \E m \in Miners : seat[m].at = "push"

\* The end of fetchWork: the new work is stored and go broadcastNewJobs.
Store ==
    /\ work < MaxStores
    /\ work' = work + 1
    /\ bcast' = [bcast EXCEPT ![work + 1].at = "start"]
    /\ served' = {} /\ stale' = {} /\ overlap' = JobUnderWay
    /\ UNCHANGED <<removing, sessions, seat, broken, fails>>

(***************************************************************************)
(* broadcastNewJobs.  sessionsMu is read-locked while a broadcast spawns   *)
(* its pushes; who needs it for writing waits until no broadcast does.     *)
(***************************************************************************)
ReadLocked == \E b \in Broadcasts : bcast[b].at = "spawn"

\* Mutant of Start: the job is that of the fetch that started the broadcast.
StartOwnJob(b) ==
    /\ bcast[b].at = "start"
    /\ \/ /\ isSick
          /\ bcast' = [bcast EXCEPT ![b] = NoBroadcast]
          /\ served' = served \cup sessions
       \/ /\ ~isSick
          /\ bcast' = [bcast EXCEPT ![b].at = "lock", ![b].job = b]
          /\ UNCHANGED served
    /\ UNCHANGED <<work, removing, sessions, seat, broken, stale, overlap, fails>>

Start(b) ==
    /\ bcast[b].at = "start"
    /\ \/ /\ isSick
          /\ bcast' = [bcast EXCEPT ![b] = NoBroadcast]
          /\ served' = served \cup sessions
       \/ /\ ~isSick
          /\ bcast' = [bcast EXCEPT ![b].at = "lock", ![b].job = work]
          /\ UNCHANGED served
    /\ UNCHANGED <<work, removing, sessions, seat, broken, stale, overlap, fails>>

Lock(b) ==
    /\ bcast[b].at = "lock"
    /\ bcast' = [bcast EXCEPT ![b].at = "spawn", ![b].left = sessions]
    /\ UNCHANGED <<work, removing, sessions, seat, broken, sentVars, fails>>

\* Mutant of Spawn: the channel does not block.
SpawnUnlimited(b, m) ==
    /\ bcast[b].at = "spawn" /\ m \in bcast[b].left
    /\ bcast' = [bcast EXCEPT ![b].left = @ \ {m},
                              ![b].pushing = @ \cup {[to |-> m, job |-> bcast[b].job]}]
    /\ UNCHANGED <<work, removing, sessions, seat, broken, sentVars, fails>>

\* One iteration: a slot of the channel is taken, then the push is started.
Spawn(b, m) ==
    /\ bcast[b].at = "spawn" /\ m \in bcast[b].left
    /\ Cardinality(bcast[b].pushing) < Capacity
    /\ bcast' = [bcast EXCEPT ![b].left = @ \ {m},
                              ![b].pushing = @ \cup {[to |-> m, job |-> bcast[b].job]}]
    /\ UNCHANGED <<work, removing, sessions, seat, broken, sentVars, fails>>

\* The function returns; its pushes may still be under way.
Unlock(b) ==
    /\ bcast[b].at = "spawn" /\ bcast[b].left = {}
    /\ bcast' = [bcast EXCEPT ![b].at = "none", ![b].job = Nil]
    /\ UNCHANGED <<work, removing, sessions, seat, broken, sentVars, fails>>

Written(m, job) ==
    /\ served' = IF job = work THEN served \cup {m} ELSE served
    /\ stale' = IF job = work THEN stale \ {m}
                ELSE IF m \in served THEN stale \cup {m} ELSE stale
    /\ UNCHANGED overlap

\* Mutant of Push: the slot of the channel is freed after the removal.
PushFreesLate(b, p) ==
    /\ bcast' = [bcast EXCEPT ![b].pushing = @ \ {p}]
    /\ \/ p.to \notin broken /\ Written(p.to, p.job) /\ UNCHANGED sessions
       \/ p.to \in broken /\ ~ReadLocked /\ sessions' = sessions \ {p.to} /\ UNCHANGED sentVars
    /\ UNCHANGED <<work, removing, seat, broken, fails>>

\* The goroutine of one push: the message is written, or the connection is
\* found broken; either way the slot of the channel is free again.
Push(b, p) ==
    /\ bcast' = [bcast EXCEPT ![b].pushing = @ \ {p}]
    /\ \/ Written(p.to, p.job) /\ UNCHANGED removing
       \/ p.to \in broken /\ removing' = removing \cup {p.to} /\ UNCHANGED sentVars
    /\ UNCHANGED <<work, sessions, seat, broken, fails>>

\* After a failed push the session is taken out of the table.
Drop(m) ==
    /\ m \in removing /\ ~ReadLocked
    /\ sessions' = sessions \ {m} /\ removing' = removing \ {m}
    /\ UNCHANGED <<work, bcast, seat, broken, sentVars, fails>>

(***************************************************************************)
(* The goroutine of a connection: handleTCPClient, handleTCPMessage.       *)
(***************************************************************************)
Sit(m, at, job) == seat' = [seat EXCEPT ![m] = [at |-> at, job |-> job]]

\* Mutant of Register: the work is read before the session is in the table.
RegisterLate(m) ==
    \/ /\ seat[m].at = "idle" /\ m \notin broken /\ work # Nil
       /\ Sit(m, "read", work)
       /\ UNCHANGED <<work, bcast, removing, sessions, broken, sentVars, fails>>
    \/ /\ seat[m].at = "read" /\ seat[m].job # Nil /\ ~ReadLocked
       /\ sessions' = sessions \cup {m}
       /\ Sit(m, "push", seat[m].job)
       /\ UNCHANGED <<work, bcast, removing, broken, sentVars, fails>>

\* mining.authorize with a valid login, the first or another one.
Register(m) ==
    /\ seat[m].at = "idle" /\ m \notin broken
    /\ ~ReadLocked
    /\ sessions' = sessions \cup {m}
    /\ Sit(m, "read", Nil)
    /\ UNCHANGED <<work, bcast, removing, broken, sentVars, fails>>

\* Without work, or while the pool is sick, the miner gets its result and no
\* job.
ReadWork(m) ==
    /\ seat[m].at = "read"
    /\ \/ /\ work = Nil \/ isSick
          /\ Sit(m, "idle", Nil)
          /\ served' = IF isSick THEN served \cup {m} ELSE served
       \/ /\ work # Nil /\ ~isSick
          /\ Sit(m, "push", work)
          /\ UNCHANGED served
    /\ UNCHANGED <<work, bcast, removing, sessions, broken, stale, overlap, fails>>

PushFirst(m) ==
    /\ seat[m].at = "push"
    /\ \/ Written(m, seat[m].job) /\ Sit(m, "idle", Nil)
       \/ m \in broken /\ Sit(m, "remove", Nil) /\ UNCHANGED sentVars
    /\ UNCHANGED <<work, bcast, removing, sessions, broken, fails>>

\* Mutant of Hangup: the goroutine ends without taking its session out.
HangupKeepsSession(m) ==
    /\ seat[m].at = "idle" /\ m \in broken
    /\ Sit(m, "dead", Nil)
    /\ UNCHANGED <<work, bcast, removing, sessions, broken, sentVars, fails>>

\* End of file, a timeout, a malformed line: the session is removed.
Hangup(m) ==
    /\ seat[m].at = "idle" /\ m \in broken
    /\ Sit(m, "remove", Nil)
    /\ UNCHANGED <<work, bcast, removing, sessions, broken, sentVars, fails>>

\* An oversized line: ReadLine's err is nil, so the goroutine returns without
\* an error and nobody removes the session or closes the connection.
Flood(m) ==
    /\ seat[m].at = "idle" /\ m \in broken
    /\ Sit(m, "flooded", Nil)
    /\ UNCHANGED <<work, bcast, removing, sessions, broken, sentVars, fails>>

Remove(m) ==
    /\ seat[m].at = "remove" /\ ~ReadLocked
    /\ sessions' = sessions \ {m}
    /\ Sit(m, "dead", Nil)
    /\ UNCHANGED <<work, bcast, removing, broken, sentVars, fails>>

\* The miner goes wrong or away; what it has sent is still to be read.
Break(m) ==
    /\ m \notin broken /\ Cardinality(broken) < MaxBreaks
    /\ broken' = broken \cup {m}
    /\ UNCHANGED <<work, bcast, removing, sessions, seat, sentVars, fails>>

(***************************************************************************)
(* The state timer: WriteNodeState fails (markSick) or succeeds (markOk).  *)
(***************************************************************************)
StateUpdate ==
    /\ work # Nil
    /\ fails' \in {0, IF fails < MaxFails THEN fails + 1 ELSE fails}
    /\ UNCHANGED <<work, bcast, removing, sessions, seat, broken, sentVars>>

BroadcastStep(b) ==
    Start(b) \/ Lock(b) \/ Unlock(b) \/ \E m \in Miners : Spawn(b, m)
SessionStep(m) == ReadWork(m) \/ PushFirst(m) \/ Hangup(m) \/ Flood(m)

Next ==
    \/ Store \/ StateUpdate
    \/ \E b \in Broadcasts : BroadcastStep(b) \/ \E p \in bcast[b].pushing : Push(b, p)
    \/ \E m \in Miners : Drop(m) \/ Register(m) \/ SessionStep(m) \/ Remove(m) \/ Break(m)

Spec == Init /\ [][Next]_vars

\* Every goroutine that has begun something goes on.  A writer that waits for
\* sessionsMu is let in before new readers, so a removal is not overtaken
\* forever.
Fairness ==
    /\ \A b \in Broadcasts :
          WF_vars(BroadcastStep(b)) /\ WF_vars(\E p \in bcast[b].pushing : Push(b, p))
    /\ \A m \in Miners : WF_vars(SessionStep(m)) /\ SF_vars(Remove(m)) /\ SF_vars(Drop(m))

FairSpec == Spec /\ Fairness

-----------------------------------------------------------------------------
\* Every variable has its type; a broadcast holds sessions only while it
\* spawns, and never more pushes than the channel has slots.
JobsTypeOK ==
    /\ work \in {Nil} \cup Works
    /\ bcast \in [Broadcasts -> [at : {"none", "start", "lock", "spawn"},
                                 job : {Nil} \cup Works, left : SUBSET Miners,
                                 pushing : SUBSET [to : Miners, job : Works]]]
    /\ \A b \in Broadcasts :
          /\ bcast[b].at # "spawn" => bcast[b].left = {}
          /\ bcast[b].at \in {"lock", "spawn"} <=> bcast[b].job # Nil
          /\ Cardinality(bcast[b].pushing) <= Capacity
    /\ sessions \subseteq Miners /\ removing \subseteq broken
    /\ seat \in [Miners -> [at : {"idle", "read", "push", "remove", "dead", "flooded"},
                            job : {Nil} \cup Works]]
    /\ \A m \in Miners : seat[m].at = "push" <=> seat[m].job # Nil
    /\ broken \subseteq Miners
    /\ served \subseteq Miners /\ stale \subseteq served /\ overlap \in BOOLEAN
    /\ fails \in 0 .. MaxFails

Resting(b) == bcast[b].at = "none" /\ bcast[b].pushing = {}

\* When no broadcast is under way, every live session in the table that has
\* finished its authorization has been sent the current work, unless the pool
\* was sick: no session falls between handleTCPMessage, which registers first
\* and reads the work then, and broadcastNewJobs.
EveryoneHasJob ==
    work # Nil /\ (\A b \in Broadcasts : Resting(b)) =>
        \A m \in sessions \ broken : seat[m].at = "idle" => m \in served

\* A miner is sent an older job after the current one only if that job had
\* been read already when the current work was stored: each goroutine reads
\* the work when it begins to send, and not before (broadcastNewJobs,
\* handleTCPMessage).
OldJobsNeedOverlap == stale # {} => overlap

\* Every broadcast ends, even if more sessions are broken than may be pushed
\* to at once: a push frees its slot before it waits for sessionsMu, which
\* the broadcast holds (broadcastNewJobs).
BroadcastsFinish ==
    \A b \in Broadcasts : bcast[b].at = "start" ~> bcast[b].at = "none"

\* A connection that has gone is taken out of the table in the end.  If an
\* oversized line ended its goroutine it stays until a push to it fails, but
\* not after that (handleTCPClient, broadcastNewJobs).
GoneSessionsLeave ==
    \A m \in Miners :
        m \in broken /\ m \in sessions
            ~> \/ m \notin sessions
               \/ seat[m].at = "flooded" /\ m \notin removing
=============================================================================
