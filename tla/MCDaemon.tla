------------------------------- MODULE MCDaemon -------------------------------
(***************************************************************************)
(* The daemon and its POSTs: one attempt, several, none; a first backoff   *)
(* below and above the maximum.                                            *)
(***************************************************************************)
EXTENDS Daemon

Retry(attempts, initial, maximum, respect) ==
  [max_attempts |-> attempts, initial_backoff_ms |-> initial,
   max_backoff_ms |-> maximum, respect_429 |-> respect]

Configs == {Retry(0, 1, 1, TRUE), Retry(1, 2, 1, FALSE), Retry(3, 1, 3, TRUE)}
=============================================================================
