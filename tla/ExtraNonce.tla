----------------------------- MODULE ExtraNonce -----------------------------
(***************************************************************************)
(* The first part of the nonce, which keeps the miners' search spaces      *)
(* apart: each instance of the pool counts up from its InstanceId shifted  *)
(* left by 27 bits (util.CreateExtraNonceCounter), in a 32-bit word that   *)
(* the goroutines of its sessions use without a lock (nextExtraNonce1).    *)
(***************************************************************************)
EXTENDS Integers, FiniteSets

CONSTANTS
    Instances,           \* the InstanceId of every instance
    Sessions,            \* sessions of an instance
    NonceRange, Word,    \* 2^27 and 2^32
    MaxSubscriptions     \* bound: subscriptions to one instance

ASSUME ExtraNonceAssumption ==
    /\ NonceRange \in Nat \ {0} /\ Word \in Nat \ {0}
    /\ Instances \subseteq Nat
    /\ \A i \in Instances : (i + 1) * NonceRange <= Word
    /\ MaxSubscriptions \in 0 .. NonceRange - 1
    /\ IsFiniteSet(Sessions)

VARIABLES
    counter,             \* instance -> extraNonceCounter
    subscriber,          \* instance -> session -> [at, loaded]
    subscribed,          \* instance -> subscriptions so far
    issued,              \* instance -> the nonces given out
    repeated, overlapped \* history: instance -> whether a nonce was given out
                         \* twice; whether two subscriptions overlapped
nonceVars == <<counter, subscriber, subscribed, issued, repeated, overlapped>>

\* Mutant of CreateExtraNonceCounter: one bit less.
ShiftTooLittle(seed) == (seed * (NonceRange \div 2)) % Word

CreateExtraNonceCounter(seed) == (seed * NonceRange) % Word

NonceInit ==
    /\ counter = [i \in Instances |-> CreateExtraNonceCounter(i)]
    /\ subscriber = [i \in Instances |-> [s \in Sessions |-> [at |-> "idle", loaded |-> 0]]]
    /\ subscribed = [i \in Instances |-> 0]
    /\ issued = [i \in Instances |-> {}]
    /\ repeated = [i \in Instances |-> FALSE]
    /\ overlapped = [i \in Instances |-> FALSE]

Busy(i) == {s \in Sessions : subscriber[i][s].at # "idle"}

\* PutUint32: the counter is read for the reply.
Read(i, s) ==
    /\ subscriber[i][s].at = "idle"
    /\ subscribed[i] < MaxSubscriptions
    /\ subscribed' = [subscribed EXCEPT ![i] = @ + 1]
    /\ subscriber' = [subscriber EXCEPT ![i][s] = [at |-> "read", loaded |-> 0]]
    /\ issued' = [issued EXCEPT ![i] = @ \cup {counter[i]}]
    /\ repeated' = [repeated EXCEPT ![i] = @ \/ counter[i] \in issued[i]]
    /\ overlapped' = [overlapped EXCEPT ![i] = @ \/ Busy(i) # {}]
    /\ UNCHANGED counter

\* counter += 1: a load,
Load(i, s) ==
    /\ subscriber[i][s].at = "read"
    /\ subscriber' = [subscriber EXCEPT ![i][s] = [at |-> "loaded", loaded |-> counter[i]]]
    /\ UNCHANGED <<counter, subscribed, issued, repeated, overlapped>>

\* Mutant of Write: the increment is left out.
WriteBack(i, s) ==
    /\ subscriber[i][s].at = "loaded"
    /\ counter' = [counter EXCEPT ![i] = subscriber[i][s].loaded]
    /\ subscriber' = [subscriber EXCEPT ![i][s] = [at |-> "idle", loaded |-> 0]]
    /\ UNCHANGED <<subscribed, issued, repeated, overlapped>>

\* and a store.
Write(i, s) ==
    /\ subscriber[i][s].at = "loaded"
    /\ counter' = [counter EXCEPT ![i] = (subscriber[i][s].loaded + 1) % Word]
    /\ subscriber' = [subscriber EXCEPT ![i][s] = [at |-> "idle", loaded |-> 0]]
    /\ UNCHANGED <<subscribed, issued, repeated, overlapped>>

NonceNext == \E i \in Instances, s \in Sessions : Read(i, s) \/ Load(i, s) \/ Write(i, s)
NonceSpec == NonceInit /\ [][NonceNext]_nonceVars

-----------------------------------------------------------------------------
\* Instances never give out the same nonce, even while the goroutines of one
\* tear its counter back and forth, as long as none has given out all of its
\* range (CreateExtraNonceCounter).
InstancesApart ==
    \A i, j \in Instances : i # j => issued[i] \cap issued[j] = {}

\* One instance repeats a nonce only if two of its sessions have subscribed
\* at the same time (nextExtraNonce1).
RepeatsNeedOverlap == \A i \in Instances : repeated[i] => overlapped[i]
=============================================================================
