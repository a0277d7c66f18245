---------------------------- MODULE MCMembership ----------------------------
(***************************************************************************)
(* Instances of Membership for TLC.  The servers other than First play the *)
(* same part, so that one of them stands for those that a single write may *)
(* be sent to.                                                             *)
(***************************************************************************)
EXTENDS Membership
=============================================================================
