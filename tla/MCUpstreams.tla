---------------------------- MODULE MCUpstreams ----------------------------
(***************************************************************************)
(* An instance of Upstreams for TLC: a main and a backup node, one session *)
(* that finds blocks beside the timer.  The threshold is 2 for the code's  *)
(* 5: a failure that counts but does not suffice, and one that does.       *)
(***************************************************************************)
EXTENDS Upstreams
=============================================================================
