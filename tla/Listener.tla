------------------------------ MODULE Listener ------------------------------
(***************************************************************************)
(* How stratum connections come and go: ListenTCP of proxy/stratum.go and  *)
(* the ends of handleTCPClient.  The loop takes connections in the order   *)
(* the kernel queues them, and waits for a place in the channel `accept'   *)
(* before it starts a connection's goroutine; the goroutine gives the      *)
(* place back.  What is said on a connection is in module Jobs.            *)
(***************************************************************************)
EXTENDS Naturals, Sequences

CONSTANTS
    Conns,           \* connections, each of which comes once
    MaxConn          \* config.Proxy.Stratum.MaxConn

ASSUME ListenerAssumption == MaxConn \in Nat \ {0}

VARIABLES
    backlog,         \* connections the kernel has for AcceptTCP
    accepted,        \* what the loop holds while it waits for a place
    places,          \* places taken in the channel `accept'
    conn,            \* connection -> how far it is
    table            \* connections in the session table

listenerVars == <<backlog, accepted, places, conn, table>>

ListenerInit ==
    /\ backlog = <<>> /\ accepted = <<>> /\ places = 0
    /\ conn = [c \in Conns |-> "away"]
    /\ table = {}

Becomes(c, at) == conn' = [conn EXCEPT ![c] = at]

Connect(c) ==
    /\ conn[c] = "away"
    /\ Becomes(c, "waiting") /\ backlog' = Append(backlog, c)
    /\ UNCHANGED <<accepted, places, table>>

AcceptTCP ==
    /\ backlog # <<>> /\ accepted = <<>>
    /\ accepted' = <<Head(backlog)>> /\ backlog' = Tail(backlog)
    /\ UNCHANGED <<places, conn, table>>

\* accept <- n blocks while all places are taken.
TakePlace ==
    /\ accepted # <<>> /\ places < MaxConn
    /\ places' = places + 1
    /\ Becomes(Head(accepted), "served") /\ accepted' = <<>>
    /\ UNCHANGED <<backlog, table>>

\* mining.authorize.
registerSession(c) ==
    /\ conn[c] = "served"
    /\ table' = table \cup {c}
    /\ UNCHANGED <<backlog, accepted, places, conn>>

\* handleTCPClient returns: at the end of file, with the session removed and
\* no error; with an error for a bad line or a time-out; or for an oversized
\* line with err, which is nil.
Leave(c) ==
    /\ conn[c] = "served"
    /\ \/ Becomes(c, "left") /\ table' = table \ {c}
       \/ Becomes(c, "failed") /\ UNCHANGED table
       \/ Becomes(c, "flooded") /\ UNCHANGED table
    /\ UNCHANGED <<backlog, accepted, places>>

\* The goroutine of the connection after handleTCPClient.
Close(c) ==
    /\ conn[c] = "failed"
    /\ Becomes(c, "closed") /\ table' = table \ {c}
    /\ UNCHANGED <<backlog, accepted, places>>

Gone == {"closed", "left", "flooded"}

\* Mutant of GivePlace: the place is given back with the error only.
GivePlaceOnError(c) ==
    /\ conn[c] \in Gone
    /\ places' = IF conn[c] = "closed" THEN places - 1 ELSE places
    /\ Becomes(c, IF conn[c] = "flooded" THEN "unread" ELSE "over")
    /\ UNCHANGED <<backlog, accepted, table>>

\* <-accept; an oversized line leaves the connection open, with nobody to
\* read it.
GivePlace(c) ==
    /\ conn[c] \in Gone
    /\ places' = places - 1
    /\ Becomes(c, IF conn[c] = "flooded" THEN "unread" ELSE "over")
    /\ UNCHANGED <<backlog, accepted, table>>

\* A push to a connection that nobody reads fails once the miner has gone or
\* does not take what it is sent (broadcastNewJobs).
PushFails(c) ==
    /\ conn[c] = "unread" /\ c \in table
    /\ table' = table \ {c}
    /\ UNCHANGED <<backlog, accepted, places, conn>>

LoopStep == AcceptTCP \/ TakePlace
ConnStep(c) == Close(c) \/ GivePlace(c)
ListenerNext ==
    \/ LoopStep
    \/ \E c \in Conns :
          Connect(c) \/ registerSession(c) \/ Leave(c) \/ ConnStep(c) \/ PushFails(c)

ListenerSpec == ListenerInit /\ [][ListenerNext]_listenerVars

\* The loop and the goroutines go on; miners leave when they like.
ListenerFairness ==
    WF_listenerVars(LoopStep) /\ \A c \in Conns : WF_listenerVars(ConnStep(c))

-----------------------------------------------------------------------------
\* As long as no miner stays for ever, every connection is served in the end,
\* however the ones before it were ended: by the miner, a time-out, a bad or
\* an oversized line (ListenTCP gives back the place after all of them).
ConnectionsServed ==
    (\A c \in Conns : []<>(conn[c] # "served")) =>
        \A c \in Conns : conn[c] = "waiting" ~> conn[c] = "served"
=============================================================================
