--------------------------------- MODULE Api ---------------------------------
(***************************************************************************)
(* The API server, api/server.go: the goroutine that purges and collects   *)
(* the statistics on its two timers, and the handlers of the HTTP          *)
(* requests.  They share the last statistics (an atomic value) and, under  *)
(* minersMu, the cache of account pages, which is held over the calls to   *)
(* Redis.                                                                  *)
(*                                                                         *)
(* What Redis holds is told by its revision, which the other parts of the  *)
(* pool raise; what is computed from it is in module Statistics.  A call   *)
(* to Redis, or a transaction, is a step.                                  *)
(***************************************************************************)
EXTENDS Integers

CONSTANTS
    Handlers,        \* goroutines of HTTP requests
    Accounts,        \* logins that pages are asked for
    StatsIntv,       \* statsIntv, in ticks of the clock
    HasLuck,         \* config.LuckWindow is not empty
    PurgeOnly,       \* config.PurgeOnly
    MaxTime, MaxRevision, MaxApiFaults    \* bounds

ASSUME ApiAssumption ==
    /\ StatsIntv \in Nat /\ HasLuck \in BOOLEAN /\ PurgeOnly \in BOOLEAN
    /\ MaxTime \in Nat /\ MaxRevision \in Nat /\ MaxApiFaults \in Nat
    /\ "nobody" \notin Handlers /\ "none" \notin Accounts

VARIABLES
    clock,           \* time
    revision,        \* of what is in Redis
    known,           \* accounts that have a key miners:<login>
    revisionAt,      \* history: time -> the revision when it began
    collector,       \* the goroutine of the timers: [at, got, starting]
    stats,           \* the last statistics: [totals, luck], their revisions
    miners,          \* the cache: account -> [stats, workers, updatedAt]
    holder,          \* who holds minersMu
    handler,         \* goroutine -> [at, login, now, stats, failed, knew]
    apiFaults        \* calls that failed so far

redisVars == <<clock, revision, known, revisionAt>>
apiVars == <<redisVars, collector, stats, miners, holder, handler, apiFaults>>

NoRevision == -1
Revisions == 0 .. MaxRevision
Times == 0 .. MaxTime

NoStats == [totals |-> NoRevision, luck |-> NoRevision]
NoPage == [stats |-> NoRevision, workers |-> NoRevision, updatedAt |-> 0]
Idle == [at |-> "idle", login |-> "none", now |-> 0, stats |-> NoRevision,
         failed |-> FALSE, knew |-> FALSE]

\* If it is enabled, Start purges and collects once before the timers run and
\* it listens.  Redis has accounts from earlier runs.
ApiInit ==
    /\ clock = 0 /\ revision = 0 /\ known \in SUBSET Accounts
    /\ revisionAt = [t \in Times |-> 0]
    /\ collector \in [at : {"off", "purge"}, got : {NoRevision}, starting : {TRUE}]
    /\ stats = NoStats
    /\ miners = [l \in Accounts |-> NoPage]
    /\ holder = "nobody"
    /\ handler = [h \in Handlers |-> Idle]
    /\ apiFaults = 0

CallFails == apiFaults < MaxApiFaults /\ apiFaults' = apiFaults + 1
CallWorks == UNCHANGED apiFaults

(***************************************************************************)
(* The clock, and intake and payouts, which write to Redis.  An account's  *)
(* key is never deleted.                                                   *)
(***************************************************************************)
Tick ==
    /\ clock < MaxTime
    /\ clock' = clock + 1
    /\ revisionAt' = [revisionAt EXCEPT ![clock + 1] = revision]
    /\ UNCHANGED <<revision, known, collector, stats, miners, holder, handler, apiFaults>>

Update ==
    /\ revision < MaxRevision
    /\ revision' = revision + 1
    /\ \/ UNCHANGED known
       \/ \E l \in Accounts : known' = known \cup {l}
    /\ UNCHANGED <<clock, revisionAt, collector, stats, miners, holder, handler, apiFaults>>

(***************************************************************************)
(* Start and its goroutine: one of the two timers at a time.               *)
(***************************************************************************)
listening == ~collector.starting /\ ~PurgeOnly

Go(at, got) == collector' = [collector EXCEPT !.at = at, !.got = got]
Rearm == collector' = [at |-> "timers", got |-> NoRevision, starting |-> FALSE]

StatsTimer ==
    /\ collector.at = "timers"
    /\ IF PurgeOnly THEN Rearm ELSE Go("collect", NoRevision)
    /\ UNCHANGED <<redisVars, stats, miners, holder, handler, apiFaults>>

PurgeTimer ==
    /\ collector.at = "timers"
    /\ Go("purge", NoRevision)
    /\ UNCHANGED <<redisVars, stats, miners, holder, handler, apiFaults>>

\* FlushStaleStats; an error is only logged.
purgeStale ==
    /\ collector.at = "purge"
    /\ CallWorks \/ CallFails
    /\ IF collector.starting /\ ~PurgeOnly THEN Go("collect", NoRevision) ELSE Rearm
    /\ UNCHANGED <<redisVars, stats, miners, holder, handler>>

\* collectStats, with a transaction for the totals and one for the luck of
\* the blocks.  If either fails the last statistics stay.
collectTotals ==
    /\ collector.at = "collect"
    /\ \/ /\ CallWorks
          /\ IF HasLuck
             THEN Go("luck", revision) /\ UNCHANGED stats
             ELSE Rearm /\ stats' = [totals |-> revision, luck |-> NoRevision]
       \/ CallFails /\ Rearm /\ UNCHANGED stats
    /\ UNCHANGED <<redisVars, miners, holder, handler>>

\* Mutant of collectLuck: an error ends the goroutine of the timers.
collectLuckOrDie ==
    /\ collector.at = "luck"
    /\ \/ CallWorks /\ Rearm /\ stats' = [totals |-> collector.got, luck |-> revision]
       \/ CallFails /\ collector' = [collector EXCEPT !.at = "dead"] /\ UNCHANGED stats
    /\ UNCHANGED <<redisVars, miners, holder, handler>>

collectLuck ==
    /\ collector.at = "luck"
    /\ \/ CallWorks /\ Rearm /\ stats' = [totals |-> collector.got, luck |-> revision]
       \/ CallFails /\ Rearm /\ UNCHANGED stats
    /\ UNCHANGED <<redisVars, miners, holder, handler>>

(***************************************************************************)
(* AccountIndex.  The pages of the pool, StatsIndex, MinersIndex and       *)
(* BlocksIndex, copy `stats' without a lock and change nothing.            *)
(***************************************************************************)
Step(h, at) == handler' = [handler EXCEPT ![h].at = at]

\* The answer, from here on only the client's.
Answer(h, answer, failed) ==
    handler' = [handler EXCEPT ![h] =
        [Idle EXCEPT !.at = answer, !.failed = failed, !.knew = handler[h].knew]]

\* Mutant of Return: where a call has failed the mutex is not unlocked.
ReturnLocked(h, answer, failed) ==
    Answer(h, answer, failed) /\ (IF failed THEN UNCHANGED holder ELSE holder' = "nobody")

\* The deferred Unlock.
Return(h, answer, failed) == Answer(h, answer, failed) /\ holder' = "nobody"

\* A call to Redis has failed: internal server error.
Refuse(h) == CallFails /\ Return(h, "error", TRUE) /\ UNCHANGED miners

Request(h, l) ==
    /\ listening /\ handler[h].at = "idle"
    /\ handler' = [handler EXCEPT ![h] =
                     [Idle EXCEPT !.at = "lock", !.login = l, !.knew = l \in known]]
    /\ UNCHANGED <<redisVars, collector, stats, miners, holder, apiFaults>>

isFresh(l) == miners[l] # NoPage /\ miners[l].updatedAt >= clock - StatsIntv

Lock(h) ==
    /\ handler[h].at = "lock" /\ holder = "nobody"
    /\ holder' = h
    /\ handler' = [handler EXCEPT ![h].now = clock,
                     ![h].at = IF isFresh(handler[h].login) THEN "write" ELSE "exists"]
    /\ UNCHANGED <<redisVars, collector, stats, miners, apiFaults>>

\* A failed call reads as "does not exist".
IsMinerExists(h) ==
    /\ handler[h].at = "exists"
    /\ \/ /\ CallWorks
          /\ IF handler[h].login \in known THEN Step(h, "stats") /\ UNCHANGED holder
             ELSE Return(h, "notFound", FALSE)
       \/ CallFails /\ Return(h, "notFound", TRUE)
    /\ UNCHANGED <<redisVars, collector, stats, miners>>

GetMinerStats(h) ==
    /\ handler[h].at = "stats"
    /\ \/ /\ CallWorks
          /\ handler' = [handler EXCEPT ![h].at = "workers", ![h].stats = revision]
          /\ UNCHANGED <<miners, holder>>
       \/ Refuse(h)
    /\ UNCHANGED <<redisVars, collector, stats>>

\* Mutant of Cached: the entry is as old as its last read, not its first.
CachedLate(h) ==
    [stats |-> handler[h].stats, workers |-> revision, updatedAt |-> clock]

\* The cache entry is dated before the reads.
Cached(h) ==
    [stats |-> handler[h].stats, workers |-> revision, updatedAt |-> handler[h].now]

GetWorkers(h) ==
    /\ handler[h].at = "workers"
    /\ \/ /\ CallWorks
          /\ miners' = [miners EXCEPT ![handler[h].login] = Cached(h)]
          /\ handler' = [handler EXCEPT ![h].at = "write", ![h].stats = NoRevision]
          /\ UNCHANGED holder
       \/ Refuse(h)
    /\ UNCHANGED <<redisVars, collector, stats>>

\* The page is written to the client with the lock held and without a
\* deadline: when that ends is up to the client.
WritePage(h) ==
    /\ handler[h].at = "write"
    /\ Return(h, "page", FALSE)
    /\ UNCHANGED <<redisVars, collector, stats, miners, apiFaults>>

Answers == {"page", "notFound", "error"}

Done(h) ==
    /\ handler[h].at \in Answers
    /\ handler' = [handler EXCEPT ![h] = Idle]
    /\ UNCHANGED <<redisVars, collector, stats, miners, holder, apiFaults>>

CollectorStep == purgeStale \/ collectTotals \/ collectLuck \/ PurgeTimer
RedisStep(h) == IsMinerExists(h) \/ GetMinerStats(h) \/ GetWorkers(h)
AccountStep(h) == RedisStep(h) \/ WritePage(h) \/ Done(h)

ApiNext ==
    \/ Tick \/ Update \/ CollectorStep \/ StatsTimer
    \/ \E h \in Handlers :
          Lock(h) \/ AccountStep(h) \/ \E l \in Accounts : Request(h, l)

ApiSpec == ApiInit /\ [][ApiNext]_apiVars

\* That calls to Redis end is assumed of Redis: the client sets no time-out
\* for reads.  Timers that are due are served in any order, and the mutex lets
\* its waiters in in turn, so neither is passed over for ever.  Nothing is
\* assumed of the clients, which need not take their pages.
ApiFairness ==
    /\ WF_apiVars(CollectorStep) /\ SF_apiVars(StatsTimer)
    /\ \A h \in Handlers : WF_apiVars(RedisStep(h)) /\ SF_apiVars(Lock(h))

-----------------------------------------------------------------------------
Holding == {"exists", "stats", "workers", "write"}

\* Every variable has its type, and who is between Lock and Unlock, and
\* nobody else, holds minersMu (AccountIndex).
ApiTypeOK ==
    /\ clock \in Times /\ revision \in Revisions /\ known \subseteq Accounts
    /\ revisionAt \in [Times -> Revisions]
    /\ collector \in [at : {"off", "timers", "purge", "collect", "luck"},
                      got : Revisions \cup {NoRevision}, starting : BOOLEAN]
    /\ stats \in [totals : Revisions \cup {NoRevision}, luck : Revisions \cup {NoRevision}]
    /\ miners \in [Accounts -> [stats : Revisions \cup {NoRevision},
                                workers : Revisions \cup {NoRevision}, updatedAt : Times]]
    /\ handler \in [Handlers ->
          [at : {"idle", "lock"} \cup Holding \cup Answers, login : Accounts \cup {"none"},
           now : Times, stats : Revisions \cup {NoRevision},
           failed : BOOLEAN, knew : BOOLEAN]]
    /\ holder \in Handlers \cup {"nobody"}
    /\ \A h \in Handlers : handler[h].at \in Holding <=> holder = h
    /\ apiFaults \in 0 .. MaxApiFaults

\* What was in Redis when the interval before time t began.
Due(t) == IF t >= StatsIntv THEN revisionAt[t - StatsIntv] ELSE revisionAt[0]

\* An account page shows everything that was in Redis an interval before the
\* request got the lock, although its two parts are read one after the other,
\* the cache is dated by neither, and others write in between (AccountIndex).
PagesFresh ==
    \A h \in Handlers : handler[h].at = "write" =>
        LET page == miners[handler[h].login] IN
        page.stats >= Due(handler[h].now) /\ page.workers >= page.stats

\* A miner who was known when asking is told "not found" only if a call has
\* failed (AccountIndex looks at the result before the error).
NotFoundNeedsFault ==
    \A h \in Handlers :
        handler[h].at = "notFound" /\ handler[h].knew => handler[h].failed

\* The answers of AccountIndex are true: pages are fresh, and "not found"
\* says so unless a call has failed.
AnswersTrue == PagesFresh /\ NotFoundNeedsFault

\* No client stops reading its page for ever.
ClientsRead == \A h \in Handlers : []<>(handler[h].at # "write")

\* Every request for an account page is answered, by whichever of its returns
\* and however the requests queue for the lock, as long as clients read what
\* they are sent: the lock is held while a page is written (AccountIndex).
RequestsAnswered ==
    ClientsRead => \A h \in Handlers : handler[h].at = "lock" ~> handler[h].at \in Answers

\* What is in Redis is in the statistics in the end, although a collection
\* takes two transactions and is dropped if either fails (collectStats).
StatisticsCatchUp ==
    \A r \in Revisions :
        collector.at # "off" /\ ~PurgeOnly /\ revision >= r ~>
            stats.totals >= r /\ (HasLuck => stats.luck >= r)
=============================================================================
