--------------------------- MODULE UpstreamsProofs ---------------------------
(***************************************************************************)
(* What module Upstreams says of the health of the upstream nodes, for any *)
(* number of nodes and sessions, any threshold and any bounds.  A client   *)
(* counts no more successes than there were quiet checks, however checks   *)
(* and failing calls interleave.                                           *)
(***************************************************************************)
EXTENDS Upstreams, TLAPS

USE UpstreamsAssumption

\* The extrema that the model speaks of exist.
LEMMA MinOfTwo ==
    ASSUME NEW a \in Int, NEW b \in Int
    PROVE  Min({a, b}) = IF a <= b THEN a ELSE b
  <1>1. \E x \in {a, b} : \A y \in {a, b} : x <= y
    OBVIOUS
  <1>2. Min({a, b}) \in {a, b} /\ \A y \in {a, b} : Min({a, b}) <= y
    BY <1>1 DEF Min
  <1> QED
    BY <1>2

\* One node is ahead of the others or level with them.
Leader == \E n \in Nodes : \A m \in Nodes : tip[m] <= tip[n]

LEMMA BestIsATip ==
    ASSUME tip \in [Nodes -> Tips], Leader
    PROVE  Best \in Tips /\ \A m \in Nodes : tip[m] <= Best
  <1> DEFINE heights == {tip[n] : n \in Nodes}
  <1>1. \A n \in Nodes : tip[n] \in Int
    BY DEF Tips
  <1>2. \E x \in heights : \A y \in heights : x >= y
    <2>1. PICK n \in Nodes : \A m \in Nodes : tip[m] <= tip[n]
      BY DEF Leader
    <2> WITNESS tip[n] \in heights
    <2> QED
      BY <1>1, <2>1
  <1>3. Max(heights) \in heights /\ \A y \in heights : Max(heights) >= y
    BY <1>2 DEF Max
  <1>4. Best = Max(heights)
    BY DEF Best
  <1> HIDE DEF heights
  <1>5. Best \in heights /\ \A y \in heights : Best >= y
    BY <1>3, <1>4
  <1> QED
    BY <1>1, <1>5 DEF heights

Quietly == \A n \in Nodes : successRate[n] <= quiet[n]

HealthInv == UpstreamsTypeOK /\ Leader /\ Quietly

\* What markSick and markAlive may read and write.
HealthTyped ==
    /\ sickRate \in [Nodes -> 0 .. Threshold] /\ quiet \in [Nodes -> 0 .. Threshold]
    /\ successRate \in [Nodes -> 0 .. Threshold - 1]
    /\ sick \in [Nodes -> BOOLEAN]
    /\ \A n \in Nodes : sick[n] <=> sickRate[n] = Threshold
FetchersTyped ==
    fetcher \in [Fetchers -> [at : {"idle", "ask", "store"}, via : Nodes,
                              seen : {Nil} \cup Tips, got : {Nil} \cup Tips]]
CheckerTyped ==
    /\ checker \in [i : 0 .. N, marked : BOOLEAN, candidate : Nodes, backup : BOOLEAN]
    /\ checker.marked => checker.i < N
NodesTyped == tip \in [Nodes -> Tips] /\ up \in [Nodes -> BOOLEAN] /\ outages \in 0 .. MaxOutages
UseTyped == upstream \in Nodes /\ work \in {Nil} \cup Tips

LEMMA Parts ==
    /\ UpstreamsTypeOK <=> NodesTyped /\ HealthTyped /\ UseTyped /\ CheckerTyped /\ FetchersTyped
    /\ UpstreamsTypeOK' <=>
          (NodesTyped /\ HealthTyped /\ UseTyped /\ CheckerTyped /\ FetchersTyped)'
  BY DEF UpstreamsTypeOK, NodesTyped, HealthTyped, UseTyped, CheckerTyped, FetchersTyped

LEMMA InitHealth == Init => HealthInv
  <1> SUFFICES ASSUME Init PROVE HealthInv
    OBVIOUS
  <1>1. 1 \in Nodes /\ 0 \in Tips /\ Nodes \subseteq Nat
    BY DEF Nodes, Tips
  <1>2. NodesTyped /\ UseTyped
    BY <1>1 DEF Init, NodesTyped, UseTyped
  <1>3. CheckerTyped /\ FetchersTyped
    BY <1>1 DEF Init, CheckerTyped, FetchersTyped, NotChecking, NotFetching
  <1>4. HealthTyped
    <2>1. /\ quiet = [n \in Nodes |-> 0] /\ successRate = [n \in Nodes |-> 0]
          /\ \/ /\ sickRate = [n \in Nodes |-> 0] /\ sick = [n \in Nodes |-> FALSE]
             \/ /\ sickRate = [n \in Nodes |-> IF n = 1 THEN 1 ELSE 0]
                /\ sick = [n \in Nodes |-> n = 1 /\ Threshold = 1]
      BY DEF Init
    <2>2. 0 \in 0 .. Threshold /\ 1 \in 0 .. Threshold /\ 0 \in 0 .. Threshold - 1
      OBVIOUS
    <2>3. quiet \in [Nodes -> 0 .. Threshold] /\ successRate \in [Nodes -> 0 .. Threshold - 1]
      BY <2>1, <2>2
    <2>4. sickRate \in [Nodes -> 0 .. Threshold] /\ sick \in [Nodes -> BOOLEAN]
      BY <2>1, <2>2
    <2>5. \A n \in Nodes : sick[n] <=> sickRate[n] = Threshold
      BY <2>1
    <2> QED
      BY <2>3, <2>4, <2>5 DEF HealthTyped
  <1>5. Leader /\ Quietly
    BY <1>1 DEF Init, Leader, Quietly
  <1> QED
    BY <1>2, <1>3, <1>4, <1>5, Parts DEF HealthInv

(***************************************************************************)
(* The two writes of the counters.                                         *)
(***************************************************************************)
LEMMA SickStep ==
    ASSUME HealthTyped, Quietly, NEW n \in Nodes, markSick(n)
    PROVE  HealthTyped' /\ Quietly' /\ \A m \in Nodes : sick[m] => sick'[m]
  <1>1. /\ sickRate[n] \in 0 .. Threshold
        /\ Min({sickRate[n] + 1, Threshold})
              = IF sickRate[n] + 1 <= Threshold THEN sickRate[n] + 1 ELSE Threshold
    BY MinOfTwo DEF HealthTyped
  <1>2. /\ sickRate' = [sickRate EXCEPT ![n] =
              IF sickRate[n] + 1 <= Threshold THEN sickRate[n] + 1 ELSE Threshold]
        /\ successRate' = [successRate EXCEPT ![n] = 0]
        /\ sick' = [sick EXCEPT ![n] = sick[n] \/ sickRate[n] + 1 >= Threshold]
        /\ quiet' = [quiet EXCEPT ![n] = 0]
    BY <1>1 DEF markSick
  <1>3. Quietly'
    BY <1>2 DEF HealthTyped, Quietly
  <1>4. /\ sickRate' \in [Nodes -> 0 .. Threshold] /\ quiet' \in [Nodes -> 0 .. Threshold]
        /\ successRate' \in [Nodes -> 0 .. Threshold - 1] /\ sick' \in [Nodes -> BOOLEAN]
    BY <1>1, <1>2 DEF HealthTyped
  <1>5. ASSUME NEW m \in Nodes
        PROVE  /\ sick'[m] <=> sickRate'[m] = Threshold
               /\ sick[m] => sick'[m]
    <2>1. CASE m = n
      <3>1. sick'[n] <=> sick[n] \/ sickRate[n] + 1 >= Threshold
        BY <1>2 DEF HealthTyped
      <3>2. sickRate'[n] = IF sickRate[n] + 1 <= Threshold THEN sickRate[n] + 1 ELSE Threshold
        BY <1>2 DEF HealthTyped
      <3>3. sick[n] <=> sickRate[n] = Threshold
        BY DEF HealthTyped
      <3>4. sickRate'[n] = Threshold <=> sickRate[n] = Threshold \/ sickRate[n] + 1 >= Threshold
        BY <1>1, <3>2
      <3> QED
        BY <2>1, <3>1, <3>3, <3>4
    <2>2. CASE m # n
      BY <1>2, <2>2 DEF HealthTyped
    <2> QED
      BY <2>1, <2>2
  <1> QED
    BY <1>3, <1>4, <1>5 DEF HealthTyped

LEMMA FailedStep ==
    ASSUME HealthTyped, Quietly, NodesTyped, NEW n \in Nodes, Failed(n)
    PROVE  /\ HealthTyped' /\ Quietly' /\ \A m \in Nodes : sick[m] => sick'[m]
           /\ outages' \in 0 .. MaxOutages
  <1>1. outages' \in 0 .. MaxOutages
    BY DEF Failed, NodesTyped
  <1> QED
    BY <1>1, SickStep DEF Failed

LEMMA AliveStep ==
    ASSUME HealthTyped, Quietly, NEW n \in Nodes, markAlive(n)
    PROVE  /\ HealthTyped' /\ Quietly'
           /\ \A m \in Nodes : sick[m] /\ ~sick'[m] => quiet'[m] >= Threshold
  <1> DEFINE recovers == successRate[n] + 1 >= Threshold
  <1>1. /\ quiet[n] \in 0 .. Threshold /\ successRate[n] \in 0 .. Threshold - 1
        /\ successRate[n] <= quiet[n]
        /\ Min({quiet[n] + 1, Threshold})
              = IF quiet[n] + 1 <= Threshold THEN quiet[n] + 1 ELSE Threshold
    BY MinOfTwo DEF HealthTyped, Quietly
  <1>2. /\ successRate' = [successRate EXCEPT ![n] =
              IF recovers THEN 0 ELSE successRate[n] + 1]
        /\ sick' = [sick EXCEPT ![n] = sick[n] /\ ~recovers]
        /\ sickRate' = [sickRate EXCEPT ![n] = IF recovers THEN 0 ELSE sickRate[n]]
        /\ quiet' = [quiet EXCEPT ![n] =
              IF quiet[n] + 1 <= Threshold THEN quiet[n] + 1 ELSE Threshold]
    BY <1>1 DEF markAlive
  <1>3. Quietly'
    BY <1>1, <1>2 DEF HealthTyped, Quietly
  <1>4. /\ sickRate' \in [Nodes -> 0 .. Threshold] /\ quiet' \in [Nodes -> 0 .. Threshold]
        /\ successRate' \in [Nodes -> 0 .. Threshold - 1] /\ sick' \in [Nodes -> BOOLEAN]
    BY <1>1, <1>2 DEF HealthTyped
  <1>5. ASSUME NEW m \in Nodes
        PROVE  /\ sick'[m] <=> sickRate'[m] = Threshold
               /\ sick[m] /\ ~sick'[m] => quiet'[m] >= Threshold
    <2>1. CASE m = n
      <3>1. (sick'[n] <=> sick[n] /\ ~recovers) /\ (sick[n] <=> sickRate[n] = Threshold)
        BY <1>2 DEF HealthTyped
      <3>2. sickRate'[n] = IF recovers THEN 0 ELSE sickRate[n]
        BY <1>2 DEF HealthTyped
      <3>3. recovers => quiet'[n] >= Threshold
        BY <1>1, <1>2 DEF HealthTyped
      <3> HIDE DEF recovers
      <3> QED
        BY <2>1, <3>1, <3>2, <3>3
    <2>2. CASE m # n
      BY <1>2, <2>2 DEF HealthTyped
    <2> QED
      BY <2>1, <2>2
  <1> QED
    BY <1>3, <1>4, <1>5 DEF HealthTyped

\* A step that does not touch the counters takes no node back.
LEMMA HealthUntouched ==
    ASSUME HealthTyped, Quietly, UNCHANGED healthVars
    PROVE  /\ HealthTyped' /\ Quietly'
           /\ \A m \in Nodes : sick[m] /\ ~sick'[m] => quiet'[m] >= Threshold
  BY DEF healthVars, HealthTyped, Quietly

-----------------------------------------------------------------------------
(***************************************************************************)
(* Every step preserves the invariant and is quiet about recoveries.       *)
(***************************************************************************)
Recovering == \A n \in Nodes : sick[n] /\ ~sick'[n] => quiet'[n] >= Threshold
Kept == HealthInv' /\ Recovering

\* The nodes' own steps leave the pool alone.
LEMMA NodeKeeps ==
    ASSUME HealthInv, NodeStep PROVE Kept
  <1>1. NodesTyped /\ HealthTyped /\ UseTyped /\ CheckerTyped /\ FetchersTyped /\ Leader /\ Quietly
    BY Parts DEF HealthInv
  <1>2. UNCHANGED <<healthVars, upstream, checker, work, fetcher>>
    BY DEF NodeStep, NewBlock, Sync, Outage, Return
  <1>3. HealthTyped' /\ Quietly' /\ Recovering
    BY <1>1, <1>2, HealthUntouched DEF Recovering
  <1>4. UseTyped' /\ CheckerTyped' /\ FetchersTyped'
    BY <1>1, <1>2 DEF UseTyped, CheckerTyped, FetchersTyped
  <1>5. Best \in Tips /\ \A m \in Nodes : tip[m] <= Best
    BY <1>1, BestIsATip DEF NodesTyped
  <1>6. NodesTyped' /\ Leader'
    <2>1. ASSUME NEW n \in Nodes, NewBlock(n) PROVE NodesTyped' /\ Leader'
      <3>1. /\ tip' = [tip EXCEPT ![n] = Best + 1] /\ Best + 1 \in Tips
            /\ UNCHANGED <<up, outages>>
        BY <1>5, <2>1 DEF NewBlock, Tips
      <3>2. \A m \in Nodes : tip'[m] <= tip'[n]
        BY <1>1, <1>5, <3>1 DEF NodesTyped, Tips
      <3> QED
        BY <1>1, <3>1, <3>2 DEF NodesTyped, Leader
    <2>2. ASSUME NEW n \in Nodes, Sync(n) PROVE NodesTyped' /\ Leader'
      <3>1. tip' = [tip EXCEPT ![n] = Best] /\ UNCHANGED <<up, outages>>
        BY <2>2 DEF Sync
      <3>2. \A m \in Nodes : tip'[m] <= tip'[n]
        BY <1>1, <1>5, <3>1 DEF NodesTyped, Tips
      <3> QED
        BY <1>1, <1>5, <3>1, <3>2 DEF NodesTyped, Leader
    <2>3. ASSUME NEW n \in Nodes, Outage(n) \/ Return(n) PROVE NodesTyped' /\ Leader'
      <3>1. tip' = tip /\ outages' \in 0 .. MaxOutages
        BY <1>1, <2>3 DEF Outage, Return, NodesTyped
      <3>2. up' \in [Nodes -> BOOLEAN]
        BY <1>1, <2>3 DEF Outage, Return, NodesTyped
      <3> QED
        BY <1>1, <3>1, <3>2 DEF NodesTyped, Leader
    <2> QED
      BY <2>1, <2>2, <2>3 DEF NodeStep
  <1> QED
    BY <1>3, <1>4, <1>6, Parts DEF Kept, HealthInv

\* A goroutine enters fetchWork.
LEMMA EnteredTyped ==
    ASSUME FetchersTyped, UseTyped, NEW f \in Fetchers, Entered(f) PROVE FetchersTyped'
  BY DEF FetchersTyped, UseTyped, Entered

LEMMA LeavesTyped ==
    ASSUME FetchersTyped, NEW f \in Fetchers, Leaves(f) PROVE FetchersTyped'
  BY DEF FetchersTyped, Leaves, NotFetching, Nodes

LEMMA RefreshKeeps ==
    ASSUME HealthInv, Refresh PROVE Kept
  <1>1. NodesTyped /\ HealthTyped /\ UseTyped /\ CheckerTyped /\ FetchersTyped /\ Leader /\ Quietly
    BY Parts DEF HealthInv
  <1>2. Entered("timer") /\ UNCHANGED <<nodeVars, healthVars, upstream, checker, work>>
    BY DEF Refresh
  <1>3. HealthTyped' /\ Quietly' /\ Recovering
    BY <1>1, <1>2, HealthUntouched DEF Recovering
  <1>4. FetchersTyped'
    BY <1>1, <1>2, EnteredTyped DEF Fetchers
  <1>5. NodesTyped' /\ UseTyped' /\ CheckerTyped' /\ Leader'
    BY <1>1, <1>2 DEF nodeVars, NodesTyped, UseTyped, CheckerTyped, Leader
  <1> QED
    BY <1>3, <1>4, <1>5, Parts DEF Kept, HealthInv

LEMMA SubmitKeeps ==
    ASSUME HealthInv, NEW s \in Sessions, SubmitBlock(s) PROVE Kept
  <1>1. NodesTyped /\ HealthTyped /\ UseTyped /\ CheckerTyped /\ FetchersTyped /\ Leader /\ Quietly
    BY Parts DEF HealthInv
  <1>2. upstream \in Nodes /\ s \in Fetchers /\ UNCHANGED <<up, upstream, checker, work>>
    BY <1>1 DEF SubmitBlock, UseTyped, Fetchers
  <1>3. UseTyped' /\ CheckerTyped'
    BY <1>1, <1>2 DEF UseTyped, CheckerTyped
  <1>4. CASE /\ tip[upstream] < MaxTip /\ tip' = [tip EXCEPT ![upstream] = @ + 1]
             /\ Entered(s) /\ UNCHANGED <<outages, healthVars>>
    <2>1. HealthTyped' /\ Quietly' /\ Recovering /\ FetchersTyped'
      BY <1>1, <1>2, <1>4, HealthUntouched, EnteredTyped DEF Recovering
    <2>2. NodesTyped'
      BY <1>1, <1>2, <1>4 DEF NodesTyped, Tips
    <2>3. Leader'
      <3>1. PICK n \in Nodes : \A m \in Nodes : tip[m] <= tip[n]
        BY <1>1 DEF Leader
      <3>2. \A m \in Nodes : tip[m] \in Nat
        BY <1>1 DEF NodesTyped, Tips
      <3>3. /\ tip'[upstream] = tip[upstream] + 1
            /\ \A m \in Nodes : m # upstream => tip'[m] = tip[m]
        BY <1>1, <1>2, <1>4 DEF NodesTyped
      <3>4. CASE tip'[n] >= tip'[upstream]
        <4>1. \A m \in Nodes : tip'[m] <= tip'[n]
          BY <1>2, <3>1, <3>2, <3>3, <3>4
        <4> QED
          BY <4>1 DEF Leader
      <3>5. CASE ~(tip'[n] >= tip'[upstream])
        <4>1. \A m \in Nodes : tip'[m] <= tip'[upstream]
          BY <1>2, <3>1, <3>2, <3>3, <3>5
        <4> QED
          BY <1>2, <4>1 DEF Leader
      <3> QED
        BY <3>4, <3>5
    <2> QED
      BY <1>3, <2>1, <2>2, <2>3, Parts DEF Kept, HealthInv
  <1>5. CASE Failed(upstream) /\ UNCHANGED <<tip, fetcher>>
    <2>1. HealthTyped' /\ Quietly' /\ Recovering /\ outages' \in 0 .. MaxOutages
      BY <1>1, <1>2, <1>5, FailedStep DEF Recovering
    <2>2. NodesTyped' /\ FetchersTyped' /\ Leader'
      BY <1>1, <1>2, <1>5, <2>1 DEF NodesTyped, FetchersTyped, Leader
    <2> QED
      BY <1>3, <2>1, <2>2, Parts DEF Kept, HealthInv
  <1> QED
    BY <1>4, <1>5 DEF SubmitBlock

LEMMA GetBlockTemplateKeeps ==
    ASSUME HealthInv, NEW f \in Fetchers, GetBlockTemplate(f) PROVE Kept
  <1>1. NodesTyped /\ HealthTyped /\ UseTyped /\ CheckerTyped /\ FetchersTyped /\ Leader /\ Quietly
    BY Parts DEF HealthInv
  <1>2. fetcher[f].via \in Nodes /\ tip[fetcher[f].via] \in Tips
    BY <1>1 DEF FetchersTyped, NodesTyped
  <1>3. /\ UNCHANGED <<tip, up>> /\ UseTyped' /\ CheckerTyped' /\ Leader'
        /\ outages' \in 0 .. MaxOutages => NodesTyped'
    BY <1>1 DEF GetBlockTemplate, NodesTyped, UseTyped, CheckerTyped, Leader
  <1>4. CASE UNCHANGED <<outages, healthVars>>
    <2>0. NodesTyped'
      BY <1>1, <1>3, <1>4 DEF NodesTyped
    <2>1. HealthTyped' /\ Quietly' /\ Recovering
      BY <1>1, <1>4, HealthUntouched DEF Recovering
    <2>2. CASE Leaves(f)
      BY <1>1, <1>3, <2>0, <2>1, <2>2, LeavesTyped, Parts DEF Kept, HealthInv
    <2>3. CASE fetcher' = [fetcher EXCEPT ![f].at = "store", ![f].got = tip[fetcher[f].via]]
      <3>1. FetchersTyped'
        BY <1>1, <1>2, <2>3 DEF FetchersTyped
      <3> QED
        BY <1>3, <2>0, <2>1, <3>1, Parts DEF Kept, HealthInv
    <2> QED
      BY <2>2, <2>3 DEF GetBlockTemplate
  <1>5. CASE Failed(fetcher[f].via) /\ Leaves(f)
    <2>1. /\ HealthTyped' /\ Quietly' /\ Recovering /\ FetchersTyped'
          /\ outages' \in 0 .. MaxOutages
      BY <1>1, <1>2, <1>5, FailedStep, LeavesTyped DEF Recovering
    <2> QED
      BY <1>3, <2>1, Parts DEF Kept, HealthInv
  <1> QED
    BY <1>4, <1>5 DEF GetBlockTemplate

LEMMA StoreWorkKeeps ==
    ASSUME HealthInv, NEW f \in Fetchers, StoreWork(f) PROVE Kept
  <1>1. NodesTyped /\ HealthTyped /\ UseTyped /\ CheckerTyped /\ FetchersTyped /\ Leader /\ Quietly
    BY Parts DEF HealthInv
  <1>2. work' = fetcher[f].got /\ Leaves(f) /\ UNCHANGED <<nodeVars, healthVars, upstream, checker>>
    BY DEF StoreWork
  <1>3. HealthTyped' /\ Quietly' /\ Recovering /\ FetchersTyped'
    BY <1>1, <1>2, HealthUntouched, LeavesTyped DEF Recovering
  <1>4. NodesTyped' /\ CheckerTyped' /\ Leader'
    BY <1>1, <1>2 DEF nodeVars, NodesTyped, CheckerTyped, Leader
  <1>5. UseTyped'
    BY <1>1, <1>2 DEF UseTyped, FetchersTyped
  <1> QED
    BY <1>3, <1>4, <1>5, Parts DEF Kept, HealthInv

LEMMA CheckAliveKeeps ==
    ASSUME HealthInv, CheckAlive PROVE Kept
  <1>1. NodesTyped /\ HealthTyped /\ UseTyped /\ CheckerTyped /\ FetchersTyped /\ Leader /\ Quietly
    BY Parts DEF HealthInv
  <1>2. checker.i + 1 \in Nodes /\ UNCHANGED <<nodeVars, upstream, work, fetcher>>
    BY <1>1 DEF CheckAlive, CheckerTyped, Nodes
  <1>3. HealthTyped' /\ Quietly' /\ Recovering
    BY <1>1, <1>2, AliveStep DEF CheckAlive, Recovering
  <1>4. CheckerTyped'
    BY <1>1 DEF CheckAlive, CheckerTyped
  <1>5. NodesTyped' /\ UseTyped' /\ FetchersTyped' /\ Leader'
    BY <1>1, <1>2 DEF nodeVars, NodesTyped, UseTyped, FetchersTyped, Leader
  <1> QED
    BY <1>3, <1>4, <1>5, Parts DEF Kept, HealthInv

LEMMA CheckSickKeeps ==
    ASSUME HealthInv, CheckSick PROVE Kept
  <1>1. NodesTyped /\ HealthTyped /\ UseTyped /\ CheckerTyped /\ FetchersTyped /\ Leader /\ Quietly
    BY Parts DEF HealthInv
  <1>2. UNCHANGED <<nodeVars, healthVars, upstream, work, fetcher>>
    BY DEF CheckSick
  <1>3. HealthTyped' /\ Quietly' /\ Recovering
    BY <1>1, <1>2, HealthUntouched DEF Recovering
  <1>4. CheckerTyped'
    <2>1. checker.i + 1 \in Nodes /\ checker.i + 1 \in 0 .. N
      BY <1>1 DEF CheckSick, CheckerTyped, Nodes
    <2>2. sick[checker.i + 1] \in BOOLEAN
      BY <1>1, <2>1 DEF HealthTyped
    <2> QED
      BY <1>1, <2>1, <2>2 DEF CheckSick, CheckerTyped
  <1>5. NodesTyped' /\ UseTyped' /\ FetchersTyped' /\ Leader'
    BY <1>1, <1>2 DEF nodeVars, NodesTyped, UseTyped, FetchersTyped, Leader
  <1> QED
    BY <1>3, <1>4, <1>5, Parts DEF Kept, HealthInv

LEMMA SwitchKeeps ==
    ASSUME HealthInv, Switch PROVE Kept
  <1>1. NodesTyped /\ HealthTyped /\ UseTyped /\ CheckerTyped /\ FetchersTyped /\ Leader /\ Quietly
    BY Parts DEF HealthInv
  <1>2. upstream' = checker.candidate /\ checker' = NotChecking
        /\ UNCHANGED <<nodeVars, healthVars, work, fetcher>>
    BY DEF Switch
  <1>3. HealthTyped' /\ Quietly' /\ Recovering
    BY <1>1, <1>2, HealthUntouched DEF Recovering
  <1>4. UseTyped' /\ CheckerTyped'
    BY <1>1, <1>2 DEF UseTyped, CheckerTyped, NotChecking, Nodes
  <1>5. NodesTyped' /\ FetchersTyped' /\ Leader'
    BY <1>1, <1>2 DEF nodeVars, NodesTyped, FetchersTyped, Leader
  <1> QED
    BY <1>3, <1>4, <1>5, Parts DEF Kept, HealthInv

LEMMA StutterKeeps ==
    ASSUME HealthInv, UNCHANGED vars PROVE Kept
  <1>1. HealthTyped /\ Quietly /\ UNCHANGED healthVars
    BY Parts DEF HealthInv, vars
  <1>2. Recovering
    BY <1>1, HealthUntouched DEF Recovering
  <1>3. HealthInv'
    BY DEF HealthInv, UpstreamsTypeOK, Leader, Quietly, vars, nodeVars, healthVars
  <1> QED
    BY <1>2, <1>3 DEF Kept

LEMMA StepKeeps == HealthInv /\ [Next]_vars => Kept
  <1> SUFFICES ASSUME HealthInv, [Next]_vars PROVE Kept
    OBVIOUS
  <1>1. CASE NodeStep
    BY <1>1, NodeKeeps
  <1>2. CASE Refresh \/ Check \/ Switch
    BY <1>2, RefreshKeeps, CheckAliveKeeps, CheckSickKeeps, SwitchKeeps DEF Check
  <1>3. CASE \E s \in Sessions : SubmitBlock(s)
    BY <1>3, SubmitKeeps
  <1>4. CASE \E f \in Fetchers : FetchStep(f)
    BY <1>4, GetBlockTemplateKeeps, StoreWorkKeeps DEF FetchStep
  <1>5. CASE UNCHANGED vars
    BY <1>5, StutterKeeps
  <1> QED
    BY <1>1, <1>2, <1>3, <1>4, <1>5 DEF Next

-----------------------------------------------------------------------------
\* The counters of every client stay within their bounds, and its flag says
\* what they say, whoever calls the node and whenever it is checked (rpc.go,
\* proxy.go and blocks.go).
THEOREM UpstreamsTypeCorrect == Spec => []UpstreamsTypeOK
  <1>1. HealthInv /\ [Next]_vars => HealthInv'
    BY StepKeeps DEF Kept
  <1>2. HealthInv => UpstreamsTypeOK
    BY DEF HealthInv
  <1> QED
    BY InitHealth, <1>1, <1>2, PTL DEF Spec

\* A sick node is taken back only after as many checks as the threshold says
\* without a failed call to it in between (markSick, markAlive).
THEOREM RecoversQuietlyCorrect == Spec => RecoversQuietly
  <1>1. HealthInv /\ [Next]_vars => HealthInv'
    BY StepKeeps DEF Kept
  <1>2. HealthInv /\ [Next]_vars => [Recovering]_vars
    BY StepKeeps DEF Kept
  <1>3. Spec => [][Recovering]_vars
    BY InitHealth, <1>1, <1>2, PTL DEF Spec
  <1> QED
    BY <1>3 DEF RecoversQuietly, Recovering
=============================================================================
