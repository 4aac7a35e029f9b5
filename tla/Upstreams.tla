----------------------------- MODULE Upstreams -----------------------------
(***************************************************************************)
(* How a pool process gets its work: the upstream nodes with their health  *)
(* counters (rpc/rpc.go), checkUpstreams and the choice of the upstream    *)
(* (proxy/proxy.go), and fetchWork (proxy/blocks.go), which the refresh    *)
(* timer and every session that has found a block run at once.             *)
(*                                                                         *)
(* A template is told by its previous block, and that by its height: 0, 1, *)
(* and so on.  A call to a node is one step: the node answers, or it does  *)
(* not, or it answers with an error.                                       *)
(***************************************************************************)
EXTENDS Integers, FiniteSets, FiniteSetsExt

CONSTANTS
    N,               \* number of upstreams, in the order of the configuration
    Sessions,        \* goroutines of sessions that find blocks
    Threshold,       \* 5: failures to become sick, quiet checks to recover
    MaxTip,          \* bound: height of the chain
    MaxOutages       \* bound: nodes that stop answering, and calls refused, all together

ASSUME UpstreamsAssumption ==
    /\ N \in Nat \ {0}
    /\ "timer" \notin Sessions
    /\ Threshold \in Nat \ {0}
    /\ MaxTip \in Nat /\ MaxOutages \in Nat

Nodes == 1 .. N
Fetchers == Sessions \cup {"timer"}
Nil == -1                         \* no work yet
Tips == 0 .. MaxTip

VARIABLES
    tip,             \* node -> height of its best block
    up,              \* node -> whether it answers its calls
    outages,         \* outages and refused calls so far
    sickRate, successRate, sick,    \* the fields of the RPCClient of a node
    quiet,           \* history: node -> checks since its last failed call
    upstream,        \* the node in use
    checker,         \* checkUpstreams: [i, marked, candidate, backup]
    work,            \* previous block of currentWork
    fetcher          \* goroutine -> [at, via, seen, got], in fetchWork

nodeVars == <<tip, up, outages>>
healthVars == <<sickRate, successRate, sick, quiet>>
vars == <<nodeVars, healthVars, upstream, checker, work, fetcher>>

NotFetching == [at |-> "idle", via |-> 1, seen |-> Nil, got |-> Nil]
NotChecking == [i |-> 0, marked |-> FALSE, candidate |-> 1, backup |-> FALSE]

\* The health of an RPCClient: markSick and markAlive.  sickRate goes on
\* growing in the code; at Threshold it makes no difference any more.
markSick(n) ==
    /\ sickRate' = [sickRate EXCEPT ![n] = Min({@ + 1, Threshold})]
    /\ successRate' = [successRate EXCEPT ![n] = 0]
    /\ sick' = [sick EXCEPT ![n] = @ \/ sickRate[n] + 1 >= Threshold]
    /\ quiet' = [quiet EXCEPT ![n] = 0]

\* Mutant of markAlive: recovery at the first check.
markAliveAtOnce(n) ==
    /\ sick' = [sick EXCEPT ![n] = FALSE]
    /\ sickRate' = [sickRate EXCEPT ![n] = 0]
    /\ quiet' = [quiet EXCEPT ![n] = Min({@ + 1, Threshold})]
    /\ UNCHANGED successRate

\* Mutant of markAlive: sickRate is left as it is.
markAliveKeepsRate(n) ==
    LET recovers == successRate[n] + 1 >= Threshold IN
    /\ successRate' = [successRate EXCEPT ![n] = IF recovers THEN 0 ELSE @ + 1]
    /\ sick' = [sick EXCEPT ![n] = @ /\ ~recovers]
    /\ quiet' = [quiet EXCEPT ![n] = Min({@ + 1, Threshold})]
    /\ UNCHANGED sickRate

markAlive(n) ==
    LET recovers == successRate[n] + 1 >= Threshold IN
    /\ successRate' = [successRate EXCEPT ![n] = IF recovers THEN 0 ELSE @ + 1]
    /\ sick' = [sick EXCEPT ![n] = @ /\ ~recovers]
    /\ sickRate' = [sickRate EXCEPT ![n] = IF recovers THEN 0 ELSE @]
    /\ quiet' = [quiet EXCEPT ![n] = Min({@ + 1, Threshold})]

\* NewProxy has fetched once, from the first node, before the timers start.
Init ==
    /\ tip = [n \in Nodes |-> 0]
    /\ outages = 0
    /\ successRate = [n \in Nodes |-> 0] /\ quiet = [n \in Nodes |-> 0]
    /\ up = [n \in Nodes |-> TRUE]
    /\ \/ /\ work = 0
          /\ sickRate = [n \in Nodes |-> 0]
          /\ sick = [n \in Nodes |-> FALSE]
       \/ /\ work = Nil
          /\ sickRate = [n \in Nodes |-> IF n = 1 THEN 1 ELSE 0]
          /\ sick = [n \in Nodes |-> n = 1 /\ Threshold = 1]
    /\ upstream = 1
    /\ checker = NotChecking
    /\ fetcher = [f \in Fetchers |-> NotFetching]

(***************************************************************************)
(* The nodes.                                                              *)
(***************************************************************************)
Best == Max({tip[n] : n \in Nodes})

NewBlock(n) ==
    /\ tip[n] = Best /\ Best < MaxTip
    /\ tip' = [tip EXCEPT ![n] = @ + 1]
    /\ UNCHANGED <<up, outages, healthVars, upstream, checker, work, fetcher>>

Sync(n) ==
    /\ tip[n] < Best
    /\ tip' = [tip EXCEPT ![n] = Best]
    /\ UNCHANGED <<up, outages, healthVars, upstream, checker, work, fetcher>>

Outage(n) ==
    /\ up[n] /\ outages < MaxOutages
    /\ up' = [up EXCEPT ![n] = FALSE] /\ outages' = outages + 1
    /\ UNCHANGED <<tip, healthVars, upstream, checker, work, fetcher>>

Return(n) ==
    /\ ~up[n]
    /\ up' = [up EXCEPT ![n] = TRUE]
    /\ UNCHANGED <<tip, outages, healthVars, upstream, checker, work, fetcher>>

(***************************************************************************)
(* fetchWork: the upstream and the current work are read; the node is      *)
(* asked; a template with another previous block than the work read is     *)
(* stored, whatever has been stored in between.                            *)
(***************************************************************************)
Entered(f) == fetcher' = [fetcher EXCEPT ![f] =
    [at |-> "ask", via |-> upstream, seen |-> work, got |-> Nil]]

Refresh ==
    /\ fetcher["timer"].at = "idle"
    /\ Entered("timer")
    /\ UNCHANGED <<nodeVars, healthVars, upstream, checker, work>>

\* A call fails: the node is down, or it is up and answers with an error.
Failed(n) ==
    /\ markSick(n)
    /\ \/ ~up[n] /\ UNCHANGED outages
       \/ up[n] /\ outages < MaxOutages /\ outages' = outages + 1

\* submitblock by a session: taken, and fetchWork is run, or failed.  The node
\* that takes it is then ahead.
SubmitBlock(s) ==
    /\ fetcher[s].at = "idle" /\ work # Nil
    /\ \/ /\ up[upstream] /\ work = tip[upstream] /\ tip[upstream] < MaxTip
          /\ tip' = [tip EXCEPT ![upstream] = @ + 1]
          /\ Entered(s)
          /\ UNCHANGED <<outages, healthVars>>
       \/ Failed(upstream) /\ UNCHANGED <<tip, fetcher>>
    /\ UNCHANGED <<up, upstream, checker, work>>

Leaves(f) == fetcher' = [fetcher EXCEPT ![f] = NotFetching]

\* Mutant of GetBlockTemplate: any work is taken as fresh.
AskOnce(f) ==
    LET n == fetcher[f].via IN
    /\ fetcher[f].at = "ask"
    /\ \/ up[n] /\ fetcher[f].seen # Nil /\ Leaves(f) /\ UNCHANGED <<outages, healthVars>>
       \/ /\ up[n] /\ fetcher[f].seen = Nil
          /\ fetcher' = [fetcher EXCEPT ![f].at = "store", ![f].got = tip[n]]
          /\ UNCHANGED <<outages, healthVars>>
       \/ Failed(n) /\ Leaves(f)
    /\ UNCHANGED <<tip, up, upstream, checker, work>>

GetBlockTemplate(f) ==
    LET n == fetcher[f].via IN
    /\ fetcher[f].at = "ask"
    /\ \/ up[n] /\ fetcher[f].seen = tip[n] /\ Leaves(f) /\ UNCHANGED <<outages, healthVars>>
       \/ /\ up[n] /\ fetcher[f].seen # tip[n]
          /\ fetcher' = [fetcher EXCEPT ![f].at = "store", ![f].got = tip[n]]
          /\ UNCHANGED <<outages, healthVars>>
       \/ Failed(n) /\ Leaves(f)
    /\ UNCHANGED <<tip, up, upstream, checker, work>>

StoreWork(f) ==
    /\ fetcher[f].at = "store"
    /\ work' = fetcher[f].got
    /\ Leaves(f)
    /\ UNCHANGED <<nodeVars, healthVars, upstream, checker>>

(***************************************************************************)
(* checkUpstreams: every client is checked in turn, and the first that is  *)
(* not sick is the candidate.  Check counts a success and then looks, each *)
(* under the client's lock; calls of others fail in between.               *)
(***************************************************************************)
\* Mutant of CheckAlive: the loop checks no more once it has a candidate.
CheckAliveUntilFound ==
    /\ checker.i < N /\ ~checker.marked
    /\ IF checker.backup THEN UNCHANGED healthVars ELSE markAlive(checker.i + 1)
    /\ checker' = [checker EXCEPT !.marked = TRUE]
    /\ UNCHANGED <<nodeVars, upstream, work, fetcher>>

CheckAlive ==
    /\ checker.i < N /\ ~checker.marked
    /\ markAlive(checker.i + 1)
    /\ checker' = [checker EXCEPT !.marked = TRUE]
    /\ UNCHANGED <<nodeVars, upstream, work, fetcher>>

CheckSick ==
    LET n == checker.i + 1
        alive == ~sick[n] IN
    /\ checker.marked
    /\ checker' = [i |-> n, marked |-> FALSE, backup |-> checker.backup \/ alive,
                   candidate |-> IF alive /\ ~checker.backup THEN n ELSE checker.candidate]
    /\ UNCHANGED <<nodeVars, healthVars, upstream, work, fetcher>>

Check == CheckAlive \/ CheckSick

Switch ==
    /\ checker.i = N
    /\ upstream' = checker.candidate
    /\ checker' = NotChecking
    /\ UNCHANGED <<nodeVars, healthVars, work, fetcher>>

NodeStep == \E n \in Nodes : NewBlock(n) \/ Sync(n) \/ Outage(n) \/ Return(n)
FetchStep(f) == GetBlockTemplate(f) \/ StoreWork(f)

Next ==
    \/ NodeStep \/ Refresh \/ Check \/ Switch
    \/ \E s \in Sessions : SubmitBlock(s)
    \/ \E f \in Fetchers : FetchStep(f)

Spec == Init /\ [][Next]_vars

\* The timers are re-armed after every run, and a goroutine in fetchWork goes
\* on: a call ends at the latest with its time-out.
Fairness ==
    /\ WF_vars(Refresh) /\ WF_vars(Check \/ Switch)
    /\ \A f \in Fetchers : WF_vars(FetchStep(f))

FairSpec == Spec /\ Fairness

-----------------------------------------------------------------------------
\* Every variable has its type, and the flag says of each client what its
\* counters say (markSick, markAlive).
UpstreamsTypeOK ==
    /\ tip \in [Nodes -> Tips] /\ up \in [Nodes -> BOOLEAN] /\ outages \in 0 .. MaxOutages
    /\ sickRate \in [Nodes -> 0 .. Threshold] /\ quiet \in [Nodes -> 0 .. Threshold]
    /\ successRate \in [Nodes -> 0 .. Threshold - 1]
    /\ sick \in [Nodes -> BOOLEAN]
    /\ \A n \in Nodes : sick[n] <=> sickRate[n] = Threshold
    /\ upstream \in Nodes
    /\ checker \in [i : 0 .. N, marked : BOOLEAN, candidate : Nodes, backup : BOOLEAN]
    /\ checker.marked => checker.i < N
    /\ work \in {Nil} \cup Tips
    /\ fetcher \in [Fetchers -> [at : {"idle", "ask", "store"}, via : Nodes,
                                 seen : {Nil} \cup Tips, got : {Nil} \cup Tips]]

\* A sick node is taken back only after Threshold checks without a failed call
\* to it, however checks and the calls of several goroutines interleave
\* (markSick, markAlive).
RecoversQuietly ==
    [][\A n \in Nodes : sick[n] /\ ~sick'[n] => quiet'[n] >= Threshold]_vars

\* When every node answers from some time on, none stays sick and the pool
\* returns to the first one for good, although calls fail between the two
\* halves of a check (checkUpstreams).
ReturnsToFirst ==
    <>[](\A n \in Nodes : up[n]) => <>[](upstream = 1 /\ \A n \in Nodes : ~sick[n])

\* When the nodes answer and agree from some time on, the pool's work becomes
\* theirs and stays it, although a fetch that was overtaken may have stored an
\* older one over it (fetchWork).
Settled == \A n \in Nodes : up[n] /\ tip[n] = Best
WorkCatchesUp == <>[]Settled => <>[](work = Best)

\* README.md: the pool tries to get work from the first alive upstream and
\* checks in background for failed to back up.  What it says: a sick node is
\* taken back when it answers.
ReturnsWhenAlive ==
    [][\A n \in Nodes : sick[n] /\ ~sick'[n] => up[n]]_vars
=============================================================================
