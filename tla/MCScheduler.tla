---------------------------- MODULE MCScheduler ----------------------------
(* Small sets of tasks and administrators on which Scheduler is checked.    *)
EXTENDS Scheduler

CONSTANTS pull, feed

\* The timer of each task; a pull is due more often than a feed.
Timers == [t \in Task |-> IF t = pull THEN 2 ELSE 3]
=============================================================================
