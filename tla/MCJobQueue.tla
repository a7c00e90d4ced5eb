----------------------------- MODULE MCJobQueue -----------------------------
(* Small sets of workers and jobs on which JobQueue is checked.             *)
EXTENDS JobQueue, TLC

CONSTANTS prio, w1, w2, j1, j2

\* Two workers on one queue.
BothPrio == [w \in {w1, w2} |-> prio]
AllPrio  == [j \in Job |-> prio]

\* Workers of one queue and jobs for one queue may be exchanged.
Interchangeable == Permutations({w1, w2}) \cup Permutations({j1, j2})
=============================================================================
