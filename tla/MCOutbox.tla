------------------------------- MODULE MCOutbox -------------------------------
(***************************************************************************)
(* An instance of Outbox for TLC.                                          *)
(***************************************************************************)
EXTENDS Outbox, TLC

MCSchedule == << 1, 5 >>

MCRetryAfters == {NoTime, 1, 9}
=============================================================================
