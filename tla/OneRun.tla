------------------------------- MODULE OneRun -------------------------------
(***************************************************************************)
(* What the background job queue promises for a job: it is accepted, it is *)
(* started at most once or lost, and a job reported as completed has       *)
(* really ended well.  JobQueue implements it.                             *)
(***************************************************************************)
CONSTANT Job

VARIABLES phase,    \* how far each job has come
          report    \* what is told about it

promise == <<phase, report>>

Report == {"none", "waiting", "running", "failed", "completed"}

PromiseOK == /\ phase \in [Job -> {"new", "waiting", "lost", "running", "ok", "error"}]
             /\ report \in [Job -> Report]

Start == /\ phase = [j \in Job |-> "new"]
         /\ report = [j \in Job |-> "none"]

Become(j, from, to) ==
    phase[j] \in from /\ \E p \in to : phase' = [phase EXCEPT ![j] = p]

\* What is told of a job is free, except that it has completed.
Tell(j) == \E r \in Report : /\ r = "completed" => phase[j] = "ok"
                             /\ report' = [report EXCEPT ![j] = r]

Move(j) == /\ \/ Become(j, {"new"}, {"waiting"})
              \/ Become(j, {"waiting"}, {"running"})
              \/ Become(j, {"running"}, {"ok", "error"})
           /\ report' = report \/ Tell(j)

\* Clearing a queue, or stopping workers, loses jobs that wait, never a started one.
Lose == /\ \E lost \in SUBSET {j \in Job : phase[j] = "waiting"} :
             phase' = [j \in Job |-> IF j \in lost THEN "lost" ELSE phase[j]]
        /\ UNCHANGED report

Progress == \/ \E j \in Job : Move(j) \/ (Tell(j) /\ UNCHANGED phase)
            \/ Lose

Promise == Start /\ [][Progress]_promise
=============================================================================
