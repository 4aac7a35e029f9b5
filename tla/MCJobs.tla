------------------------------- MODULE MCJobs -------------------------------
(***************************************************************************)
(* An instance of Jobs for TLC.  Capacity 1 for the code's 1024, so that   *)
(* two sessions are more than the channel holds.                           *)
(***************************************************************************)
EXTENDS Jobs
=============================================================================
