------------------------------- MODULE MCInbox --------------------------------
(***************************************************************************)
(* Instances of Inbox for TLC.                                             *)
(***************************************************************************)
EXTENDS Inbox, TLC

MCSchedule == << 1 >>

Symmetry == Permutations(Session) \cup Permutations(Content)
=============================================================================
