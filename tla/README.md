# open-zcash-pool: a TLA+ model

Specifications of the mining pool in `src/`, the TLC runs that check them on
small instances, and TLAPS proofs of the theorems that hold for every instance.
File and line references below are relative to `src/`.

## 1. The system

One process (`main.go`) starts up to three parts, each from its own section of
the configuration: the stratum *proxy*, the *API* and the *block unlocker*.
Several proxies may run as separate processes over the same Redis, told apart by
`instanceId`. All lasting state is in Redis and in the zcash node; the parts
never call each other.

| Component | Code | State | Operations |
|---|---|---|---|
| share intake | `proxy/miner.go`, `storage/redis.go` (`WriteShare`, `WriteBlock`, `checkPoWExist`) | Redis: `shares:roundCurrent`, `pow`, `stats`, rounds, `blocks:candidates` | `processShare` and the calls it makes |
| block unlocker | `payouts/unlocker.go` | `halt`, `lastFail` in memory | `unlockPendingBlocks`, `unlockAndCreditMiners` on a timer |
| money in Redis | `storage/redis.go` (`Write*Block`, `WriteOrphan`, `GetBlockFees`) | `blocks:*`, `credits:*`, `miners:*`, `finances` | four transactions and the lists |
| stratum sessions, broadcasts | `proxy/stratum.go`, `proxy/handlers.go` | session table with its RWMutex, the channel of places `accept`, `failsCount` | accept, subscribe, authorize, submit, broadcast, removal |
| upstream nodes and work | `rpc/rpc.go`, `proxy/proxy.go`, `proxy/blocks.go` | health counters of each client, `upstream`, `work` | `fetchWork`, `checkUpstreams`, every RPC |
| extra nonces | `proxy/proxy.go`, `util/util.go` | `extraNonceCounter` | `nextExtraNonce1` |
| formats | `merkleTree/`, `transaction/`, `util/`, `equihash/` | none | Merkle root, coinbase, targets, Equihash verifier |
| statistics | `storage/redis.go` (`Collect*`, `FlushStaleStats`) | `hashrate` sets in Redis | collection, purge, luck |
| API | `api/server.go` | last statistics, cache of accounts and its mutex | HTTP handlers, two timers |
| frontend | `www/` | none of the pool's | displays what the API returns |

How they interact:

- Sessions are goroutines that share the work (an atomic pointer), the session
  table and the nonce counter. Broadcasts are goroutines too, with up to 1024
  pushes each.
- Intake writes rounds and candidates into Redis; the unlocker reads and removes
  them. Nothing orders the two. Redis serialises transactions; what is computed
  between two of them may be stale.
- The node is asked by `fetchWork`, `SubmitBlock` and the unlocker. Its chain may
  reorganise between any two calls.

What is hard: interleavings of several instances with the unlocker over Redis;
a call that takes effect and whose answer is lost; restarts between two
transactions, since `halt` makes a restart the normal way to go on; chain
reorganisations between a check and the write that relies on it; two pool blocks
at one height; fetches of work that overtake each other; sessions that come and
go during a broadcast; boundaries of the formats.

What makes each component right:

- *Intake*: every counted share is in exactly one round and counted once; a
  block the node took becomes a candidate with its own round, or a call failed.
- *Unlocker and ledger*: a block is never in two stages, lost, paid wrongly or
  twice; the amounts in Redis always balance; what is paid is what was announced;
  every block is settled in the end.
- *Sessions*: no miner is left without the current job; broadcasts end; sessions
  that are gone leave the table.
- *Connections*: each is served in the end, and gives its place back however it
  ends.
- *API*: what is shown is no older than promised and in order, "not found" is true,
  and no failed call stops the timers or keeps the lock.
- *Upstreams*: the pool does not stay on old work, sick nodes are taken back and
  the first one is preferred again.
- *Formats*: what the pool computes is what a node or a miner computes.

## 2. Modules

In the order in which they were written; each uses those above it.

| Module | Models | State and actions |
|---|---|---|
| `Chain` | the node's chain (external) | `Extend`, `Accept`, `Reorg` down to `ReorgDepth` |
| `Shares` | share vectors | helper |
| `Rounds` | `shares:round<height>:<nonce>`, `blocks:candidates` | `CloseRound` (the Rename), `Record` (the ZADD) |
| `Rewards` | `calculateRewards`, `GetConstReward`, fees, rounding | operators, amounts in hundredths |
| `Ledger` | blocks and money in Redis | one action per transaction |
| `Unlocker` | the unlocker's goroutine | one action per remote call: `GetMiningInfo`, `ListBlocks`, `CheckBlock`, `LoadRound`, `PendingOrphans`, `Orphan`, `Immature`, `Mature`; `Fail`, `Suspended`, `Crash` |
| `Payout` | the promise: stages of a block and a balanced book | abstract specification |
| `UnlockerProofs` | stages and finality: theorems about `Unlocker` | |
| `Sums` | lemmas on sums over finite sets, for the proofs | |
| `MoneyProofs` | amounts: theorems about `Unlocker`, and that it implements `Payout` | |
| `Intake` | `processShare` on several instances | `Submit`, `SubmitBlock`, `FetchWork`, `CheckPoWExist`, `WriteShare`, `WriteBlock`, `AddCandidate`; `Refresh`, `Restart` |
| `IntakeProofs` | theorems about `Intake` | |
| `Pool` | intake and unlocker over one Redis and one chain | extends `Unlocker` and `Intake`, whose variables `chain`, `rounds` and `candidates` are one |
| `PoolProofs` | `Pool` implements `Unlocker`; theorems about `Pool` | |
| `Jobs` | sessions and broadcasts | `Store`, `Start`/`Lock`/`Spawn`/`Unlock`/`Push`/`Drop` of a broadcast, `Register`/`ReadWork`/`PushFirst`/`Hangup`/`Flood`/`Remove` of a session, `StateUpdate` |
| `JobsProofs` | theorems about `Jobs` | |
| `Listener` | `ListenTCP` and how connections end | `Connect`, `AcceptTCP`, `TakePlace`, `registerSession`, `Leave`, `Close`, `GivePlace`, `PushFails` |
| `Upstreams` | `fetchWork` and upstream health | `Refresh`, `SubmitBlock`, `GetBlockTemplate`, `StoreWork`, `CheckAlive` and `CheckSick` of a check, `Switch` and the nodes |
| `UpstreamsProofs` | theorems about `Upstreams` | |
| `ExtraNonce` | the unsynchronised counter | `Read`, `Load`, `Write` |
| `Api` | the API server: its goroutine of two timers and its handlers | `PurgeTimer`, `StatsTimer`, `purgeStale`, `collectTotals`, `collectLuck`; `Request`, `Lock`, `IsMinerExists`, `GetMinerStats`, `GetWorkers`, `WritePage` of `AccountIndex` |
| `Bits` | shifts: the powers of two | a recursive function |
| `Merkle`, `Coinbase`, `Equihash`, `Statistics` | pure algorithms | operators with reference definitions; loops and the recursion of `verifyrec` are recursive functions |
| `Target` | targets and the share check | operators |
| `Formats` | the parts that stand alone, side by side: the algorithms on the inputs in `Inputs`, nonces, the API server, the accept loop | `input`, which no step changes |
| `FormatsProofs` | theorems about `Formats` and the modules it extends | |
| `MC*` | instances for TLC | constants only; `MCFormats` has the bounded inputs |

How state maps to the code:

- Redis keys are variables: `candidates`, `immature`, `matured` are the sorted
  sets `blocks:*`; `rounds` maps the round key (height and `params[0]`) to the
  hash of shares; `creditLog`, `paidLog`, `minerImmature`, `minerBalance` and
  `finances` are the credit logs and counters. A MULTI/EXEC is one step, a read
  outside of it a step of its own.
- Goroutines have a program counter (`pc`, `at`, `seat[m].at`, `fetcher[f].at`,
  `checker.i`), whose value names the remote call or lock the goroutine is about
  to take; the code around the call belongs to the step. `unlockCandidates` asks
  the node for up to 2*`minDepth` heights for one block; these lookups are one
  step, `CheckBlock`, after which the chain may move before anything is written.
- A call that fails has two outcomes: nothing happened, or it took effect and the
  reply was lost. `Fail` and the `Replied` part of the writes are these two.
- Blocks are numbers: their hash is abstracted to identity, and `HeightOf`,
  `FeesOf` and `WorkerOf` are functions of it. `params[0]` is the worker name the
  miner sent, which the code calls *nonce*.
- `Work` is told by the height of its previous block (`Upstreams`) or counted in
  the order it is stored (`Jobs`).
- What Redis holds is, for the API server, a revision number that the other parts
  raise; what is computed from it is in `Statistics`. `Api` tells the two reads of a
  page and the two transactions of a collection apart by the revisions they saw.
- Amounts: `Rewards` computes with integers in hundredths of a zatoshi, since the
  pool's rational numbers have the fee's percent as denominator, and rounds half
  away from zero at the same places as `FloatString(0)`.

A definition whose comment begins *Mutant of* is not part of the model: it is the
definition below it with a plausible mistake, kept to show that each property can
fail.

## 3. Runs

| Run | Shows | Instance |
|---|---|---|
| `unlocker_rivals` | types, stages, credit logs, balance, finality, nothing forgotten, and that `Unlocker` implements `Payout` | two blocks at one height, reorganisations of depth 2, two faults and two restarts |
| `unlocker_apart` | rewards: exact, split up to rounding, the miners paid as announced and the pool without the fees; every block settled | blocks on both sides of the halving; the smallest depths the code accepts (3, 6, 3) |
| `intake_shares` | shares counted once and kept; losses only by faults, a lost answer of the node among them | two instances over one Redis, a fault, a restart, a template overtaken by one height, PoW backlog of 1 |
| `pool` | intake is an environment the unlocker tolerates; from the node's answer to balances | both components, one restart of the unlocker |
| `jobs` | current job for everyone, an older one after it only if broadcasts overlap, broadcasts end, sessions leave, a flooded one once a push to it has failed | two miners, two broadcasts at once, `Capacity` 1, one broken connection, sickness |
| `upstreams` | recovery, return to the first upstream, work catches up | two nodes, two outages or refused calls, two blocks, timer and one session |
| `formats` | the algorithms against their references; nonces apart; the API server answers, and answers truly; every connection is served | the inputs `BoundedInputs` of `MCFormats`; two handlers, one account, three ticks, two revisions, a fault; three connections for two places |
| `rival_same_worker` | violation | two blocks at one height by one worker name |
| `returned_orphan` | violation | block leaves and re-enters the chain |
| `blind_read` | violation | a failed HGETALL in `WriteMaturedBlock` or `WriteOrphan` |
| `equihash_rounds` | violation | bits not checked by the verifier |
| `upstream_dead` | violation | a dead node called alive |

### Bounds, and why they are enough

- *Two blocks* give every relation blocks have in this code: same height or not,
  same worker or not, either side of the halving, one settled while the other is
  not. The transactions touch one block, except `WritePendingOrphans`, which takes
  a list; two make a list.
- *Depths*: `unlocker_rivals` scales `minDepth`, `depth`, `immatureDepth` to 1, 2
  and 1, with reorganisations as deep as `depth`, the deepest for which a settled
  block can be final. `unlocker_apart` uses the real minimum. Both let the chain
  grow past maturity of every block.
- *Faults and restarts*: two of each reach a fault after the restart that a first
  fault made necessary. A halted unlocker does nothing, so a longer chain of
  faults repeats this pattern.
- *Rounds* are closed with one of two vectors: one miner alone, and a division
  that does not come out even; fees and pool fee make the halves round both ways.
- *Intake*: two sessions of two instances interleave in all orders; four proofs
  are two blocks and two shares, one of them two heights ahead, with a backlog of
  1 for the code's 8: inside and outside the backlog occur.
- *Jobs*: a channel with one slot blocks already for two sessions; two broadcasts
  overlap, also with both miners registering. The code's 1024 differs only in how
  many sessions it needs.
- *Upstreams*: threshold 2 for the code's 5: one failure that counts but does not
  suffice, and one that does. Two outages allow a second failure of the recovered
  node or one of each. A call that a running node refuses counts as one of the two
  (`Failed`).
- *API*: two handlers are one that waits for the lock and one that holds it; an
  interval of one tick in three ticks has a page that is fresh, one at the edge and
  one too old; one fault can meet any call, and what follows it is free of faults.
- *Connections*: with three for two places the loop waits for a place; each of
  them may end in each of the three ways.
- *Formats*: trees of up to nine leaves are full and odd at every level; heights
  lie around every power of two where the script changes its length or sign, and
  around every founders' interval; transaction counts run past 252; Equihash has
  bytes of 3 bits and digits of 4, so that, as in the code, digits do not end with
  bytes. The statistics have windows of 4 and 8 seconds and a log that expires 5 seconds
  after its last share (`Expiration`), so that it is gone both before and after its
  shares leave the windows.

`CHECK_DEADLOCK FALSE` is set where the bounds, and not the code, stop the system:
in `intake_shares` and `pool` all proofs may be used up and the chain full grown,
in `formats` and `equihash_rounds` an input is a state without a step, and the nonces,
the clock and the connections of `formats` are used up.

### Fairness

Only what the code's scheduling gives is assumed; faults, restarts, reorganisations
and what miners do are never fair. A call to a node ends at the latest with the
time-out of its client (`rpc/rpc.go:54`). That a call to Redis ends is an assumption
about Redis: its client is given no time-out for reads (`storage/redis.go:77-82`), so a
Redis that accepts a call and never answers stops whoever waits for it. Where fairness
of a goroutine is assumed below, this is part of it.

- `Unlocker`: weak fairness of the goroutine, which its timer wakes again after
  every pass (`Start`, unlocker.go:58-79), and of the network extending the chain.
  None of faults, restarts or reorganisations. `EverySettles` excepts `halt`,
  since a halted unlocker waits for a restart nobody is bound to make.
- `Pool`: in addition each session's goroutine goes on with what it is handling.
  `ConfirmedSettles` excepts halt, failed calls and restarts of intake, all of
  which can lose a block.
- `Jobs`: weak fairness of each goroutine. Strong fairness of the two waits for
  the write lock: `sync.RWMutex` lets a waiting writer in before new readers.
- `Upstreams`: weak fairness of the timers and of a fetch, since calls have a
  time-out. The nodes are not fair; `ReturnsToFirst` and `WorkCatchesUp` are about
  runs in which they answer, or agree, from some time on.
- `Api`: weak fairness of the goroutine of the timers and of a handler's calls to Redis
  (`RedisStep`). Strong fairness of the statistics' timer, because `select` picks among
  due timers at random, and of the lock, because `sync.Mutex` hands over to a waiter that
  is starved. None of `WritePage`: the page is written to the client with `minersMu` held,
  and the server has no deadline for it (api/server.go:109, 231-232, 270-271).
  `RequestsAnswered` is about runs in which clients read their pages (`ClientsRead`).
- `Listener`: weak fairness of the loop and of the end of a connection's goroutine.
  `ConnectionsServed` is about runs in which no miner stays for ever: with all places
  taken by miners who stay, the next one waits, as configured.

## 4. Proofs

| Theorem | For every | From |
|---|---|---|
| `TypeCorrect` | set of logins and blocks, depths, fees, bounds | `Inv1` |
| `OneStageCorrect` | the same | `Inv1` and a case split by stage |
| `CreditsFollowStageCorrect` | the same | the same, and `OneStage` |
| `NeverForgottenCorrect` | the same | an action property, from `Inv1` |
| `PaidIsFinalCorrect` | the same, with `ReorgDepth <= Depth` | `Judged`, below |
| `LedgerBalancedCorrect` | the same, with `BlindReads = FALSE` | `Books` |
| `ImplementsPayoutCorrect` | the same | `Promised`: `Books` and the stages |
| `TakesBackAnnouncedCorrect` | the same | an action property, from `Promised` |
| `RoundIntactCorrect` | the first, with `KeysApart` | `RoundsRight` |
| `PaidWithinRoundingCorrect` | the same, and `OwnAddresses` | `RoundsInv` and the rounding of one amount |
| `FeesAddedCorrect` | the first, with `ReorgDepth <= ImmatureDepth` | `Valued` |
| `RewardExactCorrect` | the same, and `HeightsApart` | `Valued` |
| `PaidAsAnnouncedCorrect` | the same, and `OwnAddresses` | an action property, from `Valued` and `RoundsInv` |
| `InstancesApartCorrect` | instance ids, range, word, number of sessions | `NonceInv` |
| `RepeatsNeedOverlapCorrect` | the same | `RaceInv`, with `NonceInv` |
| `CreditedOnceCorrect` | set of instances, sessions, proofs, backlog, faults | `CountedOnce` and `Seated` |
| `EntryMatchesRoundCorrect` | the same, if no two blocks share a round key | every entry on its way to Redis carries its round |
| `LossesNeedFaultsCorrect` | the same, without that condition | a count of losses by session and fault |
| `IntakeTypeOKCorrect` | the same | `IntakeTyped` |
| `SharesConservedCorrect` | the same, with `KeysApart` | `Conserved`, with the round of a block empty until it is closed |
| `PoolImplementsUnlocker` | both components' constants, with `AnyRound` | `PoolInv` |
| `PoolPaysRightly` | the same, with `ReorgDepth <= Depth` | `PoolImplementsUnlocker` and the unlocker's theorems |
| `UnsettledRoundsIntactCorrect` | both components' constants, with `AnyRound` and `KeysApart` | `PoolInv` and the step lemma of `EntryMatchesRound` |
| `PoolBooksBalance` | both components' constants, with `AnyRound` and `BlindReads = FALSE` | `PoolImplementsUnlocker` and `MoneyProofs` |
| `OnlyWorkIsPaidCorrect` | both components' constants, with `AnyRound` and `OwnAddresses` | `OnlyWorkers` |
| `JobsTypeCorrect` | set of miners, works, slots, threshold | `Typed`, `InSlots` |
| `EveryoneHasJobCorrect` | the same | `JobsInv` |
| `OldJobsNeedOverlapCorrect` | the same | `JobsInv` |
| `UpstreamsTypeCorrect` | set of nodes and fetchers, threshold | `HealthInv` |
| `RecoversQuietlyCorrect` | the same | an action property, from `HealthInv` |
| `ApiTypeCorrect` | set of handlers and accounts, interval, options | `ApiInv` |
| `AnswersTrueCorrect` | the same | `ApiInv` |
| `PlacesRightCorrect` | set of connections, number of places | `ListenerInv` |
| `RootsCorrect`, `CoinbaseCorrect`, `ToldAreCheckedCorrect`, `VerifierCorrect`, `StatisticsCorrect` | set of inputs within `InputsAssumption`, and the constants of the algorithms | `InputInv`, and the theorems below |
| `RootIsTrueCorrect` | coinbase, sequence of transactions | `NodesAreRows`: the loop's rows are the nodes of each height |
| `PathsLeadToRootCorrect` | sequence of leaves | `PathStep`: an element and its sibling make the one above |
| `HeightReadableCorrect` | height above 16 whose double is an int64 | `PushIs` and `ValueOfBytes` |
| `FounderExistsCorrect`, `TxCountReadableCorrect` | height; number of transactions | `FoundersAssumption`; `SerialIs` |
| `AcceptsExactly`, `ValidIsAcceptedCorrect` | sizes, hashes, index list | `HashOfGroup`: the call for a group has the xor of its members |
| `IndicesAreBitsCorrect` | widths, solution of the right length | `ReaderIs` and `BitsOfSum` |
| `ToldIsCheckedCorrect` | limit, base, width, difficulty, hash | `TargetIsQuotient`: the bytes are digits, and their sum the number |
| `BlocksAreShares` | limit, difficulty, hash and target | a lemma on division, `LeQuotient` |
| `PurgesInvisible` | finite log, windows, expiration, times | a later purge subsumes an earlier one; `LastBeatIs` |
| `OfflineAgreement` | finite log, windows, time, expiration longer than half the small window | `LastBeatBefore` |
| `LuckOfNewest` | lists of blocks, ascending windows | `ReadEnough`, and the first window that is not filled |

The assumptions are the named `ASSUME`s of the modules (finite sets, depths as
`NewBlockUnlocker` enforces them, ids whose range fits into the word; an expiration
longer than the half window after which a miner is offline; the set of proofs is
finite because a submission has a bounded length) and the hypotheses named in the
table. These are conditions under which the code is right, and nearly each has a run
that shows what happens without it:

- `KeysApart`, no two blocks share height and worker name: `rival_same_worker`.
- `ReorgDepth <= ImmatureDepth`, a block that is taken for an orphan while it is
  immature does not return: `returned_orphan`.
- `BlindReads = FALSE`, an error of HGETALL is not taken for an empty log: `blind_read`.
- `HeightsApart`, no two blocks at one height: `GetBlockFees` takes the first entry of
  a height, so the fees of one could be paid for the other (section 5).
- `ReorgDepth <= Depth`: nothing looks at a matured block again.
- `OwnAddresses`, the addresses of pool fee and donation are no miners': their credits
  are added to a miner's if they are.
- `AnyRound`, of the composition: `RoundChoices` stands for what intake may write.

All but `AnyRound`, which needs infinitely many rounds, hold together in the constants
of `unlocker_apart`, so no theorem is about no instance.

*Unlocker.* `TypeOK` alone is not inductive: an entry that the goroutine carries
from one call to the next must still be in the list it was read from when the
transaction removes it. That is part of `TypeOK` (`todo`, `lost`, `live` are
subsets of the stage), and it stays true only if no entry is carried twice;
`ListsApart` says so, and `Inv1 == TypeOK /\ ListsApart` is inductive. For the
other theorems, `EveryStepIsAMove` reduces the actions to the few things that can
happen to a stage: recording, announcing, doubting, paying, voiding or
nothing; each property is then proved over these moves and not over the actions.

*Finality.* `PaidIsFinal` is about the chain at all later times. Its invariant says
in addition what each carried entry was judged to be: a block in `live` during the
immature pass is in the chain at a depth at which no reorganisation reaches it, one
in `lost` will not return. `DeepIsFinal` shows that a reorganisation of at most
`ReorgDepth` leaves a block `Depth` below the tip alone, and that is where the
assumption is used: without it the theorem is false, because nothing looks at a
matured block again.

*Sums.* The sums of the community modules are recursive functions on the subsets of a
set, and the library's induction cannot be instantiated here. `LeastNatural` takes its
place: a set of naturals that is not empty has a least element, so what holds of the
empty set and passes from `T \ {x}` to `T` holds of all subsets (`SubsetInduction`, with
the property as a set and not as an operator). From it follow that the recursive
function exists (`SumsExist`), that the sum does not depend on the order in which
`CHOOSE` takes the elements (`AddsSums`), and the facts the other modules cite: a sum
changes by what one term changes (`SumUpdate`, `SumChange`), adds up (`SumPlus`,
`SumTimes`), grows with its terms (`SumMonotone`).

*Money.* `Books` is the balance of the books with the types of the amounts; it is
inductive with the stages, since a transaction moves a log's amounts only if the log it
takes back is the one the block's announcement wrote (`TakesBackAnnounced`). With the
stages it is `Promised`, from which each transaction is shown to be one step of
`Payout` and every other step a stutter. `RoundsRight` says that the round of a block
that is not settled adds up to what it was closed with, and that the block's entries
carry that number. `PaidWithinRounding` then is
arithmetic: each amount is rounded once, and the shares add up to the divisor
(`SumTimes`). `Valued` says what each carried and stored entry is worth; an announced
one has at least its subsidy, exactly its worth if heights are apart, and a doubted one,
whose reward is 0, is at a depth where no reorganisation brings it back.

*Extra nonces.* The counter is read, loaded and written in three steps without a
lock, so two sessions can give out one nonce and the counter can move backwards.
That all values stay in the instance's part needs `Room`: the counter, and every
value a session is about to store, is so far below the end as there are sessions
under way. For `RepeatsNeedOverlap`, `RaceInv` says that as long as no two
subscriptions have overlapped the counter is ahead of all that was given out, or the
one session under way is about to move it there.

*Intake.* `CreditedOnce` follows a proof along `processShare`: it is in the hands of
its own session only (`Seated`), and from `checkPoWExist` on it is in `pow`, where a
second submission finds it, and not counted before its transaction (`CountedOnce`).
The sweep of `checkPoWExist` removes by height, which is why an instance more than
`Backlog` heights ahead is excepted. `EntryMatchesRound` assumes
that round keys are distinct (`KeysApart`; `rival_same_worker` shows that it is
needed). `LossesNeedFaults` counts with a set of lost blocks: a step adds at most one
block to it, or one per session that dies, and raises the count of faults by as many. An
answer of the node that is lost is such a step: the block is in the chain, and its session
takes it for refused.
`SharesConserved` moves the running round into an empty one when a block is closed; that
it is empty is where `KeysApart` is needed. `IntakeTypeOK` needs in addition what a
session holds in each state (`Hand`), and that a candidate has closed its round.

*Pool.* The unlocker is proved against an environment that closes rounds and records
candidates at will (`UnlockerAssumptionHolds` in `Pool`). `EveryStepAllowed` shows that
intake is such an environment: the candidate a session is about to record is not yet
recorded and its round is closed (`Waiting`, `ClosedFirst`, `Current`). The assumption
`AnyRound` says that `RoundChoices`, from which the unlocker's environment takes the
shares of a round, leaves no vector out but zero. From there the theorems of
`UnlockerProofs` and `MoneyProofs` hold of the pool without being proved again.
`OnlyWorkers` follows a miner's amounts from the other end: a login without a counted
share has none in any round, loaded round, credit log or counter.

*Sessions.* `EveryoneHasJob` speaks of the moments without a broadcast; its invariant
`AllCovered` says for any moment where the current job of each session is: sent, in
the hands of a push, in the list of a broadcast that has the lock, in one that will
still take it, or with the session itself, which has yet to read the work.
`OldAccounted` says that without an overlap no older job is under way at all.

*Upstreams.* `RecoversQuietly` follows from `Quietly`: a client's `successRate` is never
more than the number of checks since its last failed call, which is also true between the
two halves of a check. For the types, some node is
always ahead of the others or level with them (`Leader`), so that the highest tip,
which a node extends or catches up with, exists.

*API.* The theorems rest on an order of revisions (`PageOf`, `HasRead`): the second read
of a page is not older than its first, the first not older than the time the page is
dated, and what was in Redis at a time only grows (`Past`). `Mutex` says that exactly
the handler between Lock and Unlock holds `minersMu`, so that no other handler replaces
the page between this one's test of its age and its answer.

*Accept loop.* `PlacesRight`, which only the proof states, says that the places taken are as
many as the connections that are served or on their way out. It needs to be known that the
loop starts no connection twice: what the loop holds and what the backlog holds is waiting,
and no connection is there twice (`WaitsOnce`). The number of connections need not be finite.
That every connection is served in the end (`ConnectionsServed`) stays with TLC.

*Formats.* An algorithm reads one input, which no step changes (`InputInv`), so the
invariants of `Formats` follow from theorems about operators. `InputsAssumption` says what
inputs the code has: leaves, as a tree is only built with a coinbase; heights whose double
is an int64, since the code shifts them for the sign, and above 16 (section 5);
difficulties above 0; solutions of the length that `Verify` asks for; finite logs, a purge
that is not in the future, and luck windows in ascending order.

Every loop is a recursive function over a bounded range, and induction over data is
not at hand; that such a function exists, and what holds of all its values, is shown by the
least argument at which it would not (`UptoInduction`). A lemma with the step as a
parameter cannot be instantiated, so each recursion has its three lemmas (`Is...`,
`...Exist`, `...Are`).

- *Targets*: `TargetValue` adds the bytes up; its partial sums are the quotient by the
  powers of the base, and the bytes that `big.Int.Bytes` leaves out are 0.
- *Trees*: the reference definition gives a node for 2^d leaves, some of which may be
  missing. `NodesAreRows` shows row by row that the code's nodes are these, the last of an
  odd row being the one whose right half is missing as a whole; `OneNode` and `TreeIs`
  that the loop ends, and with the first height that covers all leaves.
- *Coinbase*: the height's length in hexadecimal digits, rounded up to bytes, and its
  announced length, from the binary digits of the shifted height, differ by 0 or 1
  (`RoomForSign`): the zero byte that always follows is pushed exactly if the sign bit
  would be set without it. So the padding by `lengthDiff` is never used, and the single
  decimal digit of the length suffices.
- *Equihash*: `GroupAcceptedIff` goes up the levels of `verifyrec` once; a group is
  accepted exactly if both halves are, in order, and its members cancel out on the whole
  bytes. `AcceptsExactly` puts this together with `duped` and says all that the verifier
  checks. The xor of a group is the parity of its members' bits (`XorOfHalves`).
- *Statistics*: a purge followed by a later one leaves what the later one leaves; it keeps
  the last beat unless it purges all, so the log expires when it would have. A last beat is
  late exactly if every beat is, and a log that has expired is of a miner who is offline.
  The blocks that are read show in every window what all would.

Only model-checked: all liveness, since the prover has no `ENABLED`. All invariants and
action properties of the passing runs are proved.

## 5. Where code and documentation disagree

The five violation runs, in the order of their weight:

1. `rival_same_worker`: `WriteBlock` names a round by height and `params[0]`, the
   worker name, and not by a nonce. Two blocks at one height found under one worker
   name share a key; the second Rename overwrites the first round.
2. `returned_orphan`: an entry written by `WritePendingOrphans` has reward 0, and
   `GetBlockFees` takes the fees of an immature entry as reward minus subsidy. If
   the block is in the chain again at maturity, it is paid subsidy - subsidy = 0.
3. `blind_read`: `WriteMaturedBlock` and `WriteOrphan` use the result of HGETALL
   without a look at its error; on an error the announcement stays in the immature
   amounts forever.
   The other runs leave this reply intact (`BlindReads`), so as to check the rest.
4. `equihash_rounds`: the test of the bits that do not fill a byte stands inside the
   loop over whole bytes, where it never fires, and the last round checks 180 of the
   200 bits (176 of them in whole bytes). The model scales this to 12 bits; the
   accepted lists are ordered, distinct and cancel out on whole bytes
   (`AcceptedIsOrdered`), but need not be solutions; `AcceptsExactly` says for all
   parameters what they are.
5. `upstream_dead`: `Check` makes no call. Five checks without another call's failure
   make a dead node count as alive.

Found while modelling, and not shown by a run:

- With two blocks at one height `GetBlockFees` reads the first entry of that height.
  `RewardExact` is therefore checked and proved for blocks of different heights only
  (`HeightsApart`); nothing is claimed of two at one height.
- The transaction fees are announced to the pool's account and never paid to it: an
  immature entry has no `ExtraReward` when it is read back. With `keepTxFees` off they
  are announced to the pool *and*, within the reward, to the miners, and paid to the
  latter; with it on nobody is paid them. The runs use `keepTxFees` off;
  `PaidAsAnnounced` states the difference for the pool.
- Blocks of more than 252 transactions would need a CompactSize prefix, which
  `processShare` does not write; `TxCountReadable` ends there.
- A node expects `OP_1` to `OP_16` for the heights 1 to 16 and an empty push for 0, where
  the code pushes a byte (transaction.go:33-39). This matters only at the start of a new
  chain; `HeightReadable` asks for heights above 16.
- `AccountIndex` holds `minersMu` while it writes to the client, without a deadline. A
  client that stops reading a page larger than the buffers keeps all account pages
  waiting. `RequestsAnswered` excepts runs in which one does so for ever.
- The configuration does not relate `hashrateExpiration` to the windows. If a login's log
  expires before its miner counts as offline (`StatisticsAssumption`), the list of miners
  and the account page disagree.
- `SubmitBlock` takes every answer but null for an error. A block that the node calls
  *inconclusive* is not recorded, and if a reorganisation brings it into the chain later it
  is never paid. `LossesNeedFaults` is about blocks the node has taken at once.
- An oversized line ends a session's goroutine without removing the session
  (`Flood`) or closing the connection, which stays open with nobody to read it until a
  push to it fails (`PushFails`); its place is given back. `GoneSessionsLeave`
  speaks of it only from that push on; before, its session stays and is pushed to.
- Pushes of two broadcasts are not ordered: a miner may be left on the older job
  until the next block, but only if the two overlapped (`OldJobsNeedOverlap`).
- `AccountIndex` looks at the result of `IsMinerExists` before its error, so a failed
  call is answered "not found" (`NotFoundNeedsFault` excepts it).
- A miner that authorizes while the pool is sick gets neither a job nor the error of
  README.md:160.

## 6. Not modelled, and why

- *Deadlines and malformed requests*: a session that ends for such a reason is a
  failed connection in `Listener` and a broken one in `Jobs`. The counter of bad
  requests and the set of a session's logins steer nothing else.
- *A submission before there is work* (miner.go:16): the nil work ends the process. To
  what outlives the process this is `Restart`, which may happen at any moment. The code
  does not prevent it, and no property claims that the process stays up.
- *Fees of a fraction of a per cent*: `chargeFee` takes `SetFloat64(fee / 100)`, the exact
  value of a binary fraction. `Rewards` has whole per cents, and divides by 100.
- *Pages of the API other than an account's*: they copy the last statistics and
  change nothing.
- *Serialisation* of header, coinbase and scripts: a fixed layout without state.
- *BLAKE2b, SHA-256*: vendored or library code; injective constructors or tables.
- *Frontend*: keeps no state of the pool.
- *Configuration*: values are CONSTANTS; `Fatalf` on bad values are the ASSUMEs.
- Statistics nothing reads back (`credits:all`, `lastCreditHeight`), node states and
  the lists of payments: written or read as they are.

## 7. Plan

Done: the payout path (`Chain` to `Pool`), sessions, connections, upstreams, the API
server, formats, the theorems above, and the refinements `Unlocker` of `Payout` and
`Pool` of `Unlocker`. What remains:

1. *Model*: `subscribe`, `authorize` and `submit` in one module with `Jobs`, so that a
   session's state and its nonce are checked together; `Jobs` and `Upstreams` composed
   over one `work`.
2. *Refinement*: an abstract specification of intake (every proof counted at most
   once, rounds as a partition of the counted proofs) that `Intake` implements, and
   one of "the current job" for `Jobs` with `Upstreams`.
