----------------------------- MODULE Statistics -----------------------------
(***************************************************************************)
(* What the API computes from the share log and the blocks                 *)
(* (storage/redis.go): hashrates and who is offline, for the list of all   *)
(* miners and for one account, and the luck of the last blocks.            *)
(*                                                                         *)
(* A share of the log is [login, worker, hr, at]; hr is the member's       *)
(* "diff*35" and at its score.  There are two copies of the log, one for   *)
(* all miners and one for each login; each is a set, as in Redis.  Times   *)
(* are whole seconds.                                                      *)
(***************************************************************************)
EXTENDS Integers, Sequences, FiniteSetsExt

CONSTANTS
    SmallWindow,     \* hashrateWindow
    LargeWindow,     \* hashrateLargeWindow
    Expiration,      \* hashrateExpiration
    MinOnline        \* 600 seconds

\* The windows and the expiration are configured: 30m, 3h and 3h.  The code
\* does not check that a login's log outlives the time after which its miner
\* counts as offline.
ASSUME StatisticsAssumption ==
    /\ MinOnline \in Nat \ {0}
    /\ SmallWindow \in Nat /\ LargeWindow \in Nat /\ Expiration \in Nat
    /\ MinOnline <= SmallWindow /\ SmallWindow <= LargeWindow
    /\ SmallWindow \div 2 < Expiration

Least(a, b) == IF a <= b THEN a ELSE b
Most(a, b) == IF a >= b THEN a ELSE b

\* ZREMRANGEBYSCORE -inf (time, and what it leaves.
From(shares, time) == {s \in shares : s.at >= time}

\* Mutant of FlushStaleStats: the windows are swapped.
FlushSwapped(pool, login, now) ==
    [pool |-> From(pool, now - LargeWindow), login |-> From(login, now - SmallWindow)]

FlushStaleStats(pool, login, now) ==
    [pool |-> From(pool, now - SmallWindow), login |-> From(login, now - LargeWindow)]

SumHR(shares) == MapThenSumSet(LAMBDA s : s.hr, shares)
StartedAt(shares) == Min({s.at : s \in shares})

LastBeat(shares) == Max({s.at : s \in shares})

\* What is left at that time of the log of a login: the Expire that follows
\* every share deletes the key, as a whole, an Expiration after the last of
\* them; in the second it falls into the key may be there or not (writeShare).
Expiry(login) == LastBeat(login) + Expiration
LoginLogs(login, now) ==
    IF login = {} THEN {{}}
    ELSE {log \in {login, {}} : IF log = {} THEN now >= Expiry(login) ELSE now <= Expiry(login)}

\* The time a sum of shares is divided by.
Boundary(shares, window, now) == Least(Most(now - StartedAt(shares), MinOnline), window)

Offline(shares, now) == LastBeat(shares) < now - SmallWindow \div 2

\* CollectStats, convertMinersStats: login -> [HR, Offline].
CollectStats(pool, now) ==
    LET live == From(pool, now - SmallWindow) IN
    [l \in {s.login : s \in live} |->
        LET mine == {s \in live : s.login = l} IN
        [HR |-> SumHR(mine) \div Boundary(mine, SmallWindow, now),
         Offline |-> Offline(mine, now)]]

\* CollectWorkersStats, convertWorkersStats: worker -> [HR, TotalHR, Offline],
\* for the shares of one login.
CollectWorkersStats(login, now) ==
    LET live == From(login, now - LargeWindow) IN
    [w \in {s.worker : s \in live} |->
        LET mine == {s \in live : s.worker = w} IN
        [HR |-> SumHR(From(mine, now - SmallWindow)) \div Boundary(mine, SmallWindow, now),
         TotalHR |-> SumHR(mine) \div Boundary(mine, LargeWindow, now),
         Offline |-> Offline(mine, now)]]

\* CollectLuckStats: a row for each window, named by the number of blocks it
\* has; luck and orphanRate are averages over these.  windows is ascending.
LuckRow(blocks, window) == SubSeq(blocks, 1, Least(window, Len(blocks)))

CollectLuckStats(immature, matured, windows) ==
    LET max == windows[Len(windows)]
        blocks == immature \o SubSeq(matured, 1, Least(max, Len(matured)))
        \* a window that is not filled is the last
        computed == {i \in 1 .. Len(windows) :
                        \A k \in 1 .. i - 1 : Len(blocks) >= windows[k]}
    IN {LuckRow(blocks, windows[i]) : i \in computed}

-----------------------------------------------------------------------------
\* What an account page may show.
AccountPages(login, now) == {CollectWorkersStats(log, now) : log \in LoginLogs(login, now)}

\* Purging the share logs never changes what is collected at that time or
\* later, whether or not the log has expired by then (FlushStaleStats and the
\* purges of the two collections).
PurgeIsInvisible(shares, then, now) ==
    LET flushed == FlushStaleStats(shares, shares, then) IN
    /\ CollectStats(flushed.pool, now) = CollectStats(shares, now)
    /\ AccountPages(flushed.login, now) = AccountPages(shares, now)

\* The list of miners and the account page agree: a miner in the list is
\* offline if and only if all its workers are, although the account's log may
\* have expired (convertMinersStats, CollectWorkersStats).
OfflineAgrees(shares, now) ==
    LET pool == CollectStats(shares, now) IN
    \A l \in DOMAIN pool :
        \A workers \in AccountPages({s \in shares : s.login = l}, now) :
            pool[l].Offline <=> \A w \in DOMAIN workers : workers[w].Offline

\* Every luck window that there are blocks for has a row with just the newest
\* of them, although not all matured blocks are read; if there are too few, a
\* row with all of them takes its place (CollectLuckStats).
LuckIsOfNewest(immature, matured, windows) ==
    CollectLuckStats(immature, matured, windows) =
        {LuckRow(immature \o matured, windows[i]) : i \in 1 .. Len(windows)}
=============================================================================
