------------------------- MODULE MCExecutorStartup -------------------------
(* ExecutorStartup with startup_warmup_max_wait_secs negative (time.After  *)
(* fires at once), zero (no wait) and two seconds.                         *)
EXTENDS ExecutorStartup

MCWaitSecs == {-1, 0, 2}
=============================================================================
