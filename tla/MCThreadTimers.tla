---------------------------- MODULE MCThreadTimers ----------------------------
(* Small instances of ThreadTimers for TLC.                                  *)
EXTENDS ThreadTimers, TLC

CONSTANTS t1, t2

=============================================================================
