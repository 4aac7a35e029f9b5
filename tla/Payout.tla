------------------------------- MODULE Payout -------------------------------
(***************************************************************************)
(* What payouts promise, without the unlocker's control, its calls to the  *)
(* node and to Redis, and its failures.  Every block goes through           *)
(*                                                                         *)
(*     unknown -> candidate -> announced | doubted -> paid | void          *)
(*                                                                         *)
(* one stage at a time.  An account's immature amount is, at any time, the *)
(* sum of what is announced to it, its balance the sum of what it was      *)
(* paid; a block that becomes void takes its announcement back.            *)
(***************************************************************************)
EXTENDS Integers, FiniteSets, Functions

CONSTANTS Blocks, Accounts      \* finite sets

VARIABLES
    stage,        \* of every block
    announced,    \* block -> account -> amount shown as immature
    paid,         \* block -> account -> amount added to the balance
    held,         \* account -> immature amount
    balance       \* account -> balance

vars == <<stage, announced, paid, held, balance>>

Nothing == [a \in Accounts |-> 0]
Amounts(log) == [a \in Accounts |-> SumFunction([b \in Blocks |-> log[b][a]])]

Init ==
    /\ stage = [b \in Blocks |-> "unknown"]
    /\ announced = [b \in Blocks |-> Nothing]
    /\ paid = [b \in Blocks |-> Nothing]
    /\ held = Nothing
    /\ balance = Nothing

\* The books are always the sums of the logs.
Book == held' = Amounts(announced') /\ balance' = Amounts(paid')

Move(b, from, to) == stage[b] \in from /\ stage' = [stage EXCEPT ![b] = to]

Find(b) ==
    /\ Move(b, {"unknown"}, "candidate")
    /\ UNCHANGED <<announced, paid, held, balance>>

\* The credits are whatever the step wrote for block b, and only for b.
Announce(b) ==
    /\ Move(b, {"candidate"}, "announced")
    /\ announced' = [announced EXCEPT ![b] = announced'[b]]
    /\ UNCHANGED paid
    /\ Book

Doubt(S) ==
    /\ \A b \in S : stage[b] = "candidate"
    /\ stage' = [b \in Blocks |-> IF b \in S THEN "doubted" ELSE stage[b]]
    /\ UNCHANGED <<announced, paid, held, balance>>

Pay(b) ==
    /\ Move(b, {"announced", "doubted"}, "paid")
    /\ announced' = [announced EXCEPT ![b] = Nothing]
    /\ paid' = [paid EXCEPT ![b] = paid'[b]]
    /\ Book

Void(b) ==
    /\ Move(b, {"announced", "doubted"}, "void")
    /\ announced' = [announced EXCEPT ![b] = Nothing]
    /\ UNCHANGED paid
    /\ Book

Next ==
    \/ \E b \in Blocks : Find(b) \/ Announce(b) \/ Pay(b) \/ Void(b)
    \/ \E S \in SUBSET Blocks : Doubt(S)

Spec == Init /\ [][Next]_vars

-----------------------------------------------------------------------------
\* The promise itself: the books balance, only an announced block is held,
\* only a paid one counts in a balance.
Promise ==
    /\ held = Amounts(announced) /\ balance = Amounts(paid)
    /\ \A b \in Blocks : announced[b] # Nothing => stage[b] = "announced"
    /\ \A b \in Blocks : paid[b] # Nothing => stage[b] = "paid"
=============================================================================
