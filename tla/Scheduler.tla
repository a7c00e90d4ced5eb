----------------------------- MODULE Scheduler -----------------------------
(***************************************************************************)
(* The scheduled tasks of one instance.                                    *)
(*                                                                         *)
(* The scheduler process fetches the tasks that are due, and for each sets *)
(* its next execution time, resets its last job, creates a job, enqueues   *)
(* it and notes it in the task's row, by a database or Redis command each. *)
(* Administrators add, edit, toggle, force and delete tasks meanwhile;     *)
(* they read a whole row and later save it whole.                          *)
(*                                                                         *)
(* Sources: app/Console/Command/SchedulerWorkerShell.php,                  *)
(* app/Controller/TasksController.php, app/Model/Task.php,                 *)
(* app/Controller/Component/CRUDComponent.php.                             *)
(***************************************************************************)
EXTENDS Integers, Sequences

CONSTANTS
    Task,      \* the tasks
    Interval,  \* the timer of each task
    Admin,     \* the administrators, each with one request under way
    None,      \* no row, no request, no task
    MaxTime,   \* bound on the clock
    MaxAsks,   \* bound on the requests of administrators
    MaxFaults  \* bound on failing commands and crashes

ASSUME IntervalAssumption == Interval \in [Task -> Nat \ {0}]

VARIABLES
    now,     \* time()
    row,     \* the task's row in scheduled_tasks
    due,     \* what the scheduler has fetched and not processed yet
    at,      \* how far it is with the task at hand
    cur,     \* that task, as fetched
    open,    \* how many jobs of each task the job queue has to end yet
    ask,     \* the request of each administrator
    picked,  \* history: the last three times the scheduler set out to run the task
    astray,  \* history: the tasks whose schedule was not left to the scheduler
    forced,  \* history: the tasks with a forced run that has not been answered
    asks, faults

scheduler == <<due, at, cur>>
history   == <<picked, astray, forced>>

vars == <<now, row, scheduler, open, ask, history, asks, faults>>

\* last: last_job_id names a job.
Row  == [on: BOOLEAN, next: Nat, last: BOOLEAN]
Due  == [task: Task, next: Nat, last: BOOLEAN]
Step == {"idle", "picked", "reset", "made", "pushed"}

ASSUME NoneAssumption == None \notin Row \cup Due

Request == [kind: {"toggle", "force", "edit"}, task: Task, row: Row]

Has(t)   == row[t] # None
IsDue(t) == Has(t) /\ row[t].on /\ row[t].next <= now

Init ==
    /\ now = 1
    /\ row    = [t \in Task |-> None]
    /\ due = {} /\ at = "idle" /\ cur = None
    /\ open = [t \in Task |-> 0]
    /\ ask    = [a \in Admin |-> None]
    /\ picked = [t \in Task |-> << >>] /\ astray = {} /\ forced = {}
    /\ asks = 0 /\ faults = 0

Tick == /\ now < MaxTime
        /\ now' = now + 1
        /\ UNCHANGED <<row, scheduler, open, ask, history, asks, faults>>

------------------------------------------------------------------------------
\* The scheduler: SchedulerWorkerShell::main and processTask.

Fetched(t) == [task |-> t, next |-> row[t].next, last |-> row[t].last]

\* Fault: next_execution_time must be now.
FetchOnTime ==
    /\ at = "idle" /\ due = {} /\ \E t \in Task : IsDue(t)
    /\ due' = {Fetched(t) : t \in {u \in Task : IsDue(u) /\ row[u].next = now}}
    /\ UNCHANGED <<now, row, at, cur, open, ask, history, asks, faults>>

\* The enabled tasks whose time has come.
Fetch ==
    /\ at = "idle" /\ due = {} /\ \E t \in Task : IsDue(t)
    /\ due' = {Fetched(t) : t \in {u \in Task : IsDue(u)}}
    /\ UNCHANGED <<now, row, at, cur, open, ask, history, asks, faults>>

\* Fault: the missed slots are rounded down.
NextTimeRoundedDown(previous, interval, time) ==
    LET missed == (time - previous) \div interval IN
    previous + (IF missed > 1 THEN missed ELSE 1) * interval

\* max(1, ceil(..)): the first slot of the task's grid that is not over.
NextTime(previous, interval, time) ==
    LET missed == (time - previous + interval - 1) \div interval IN
    previous + (IF missed > 1 THEN missed ELSE 1) * interval

Take(d) == /\ at = "idle" /\ d \in due /\ Has(d.task)
           /\ at' = "picked" /\ cur' = d /\ due' = due \ {d}

\* The last three of s and x.
Window(s, x) == IF Len(s) < 3 THEN Append(s, x) ELSE Append(Tail(s), x)

\* The run is remembered while the schedule is the scheduler's own.
Remember(t) ==
    IF t \in astray THEN picked ELSE [picked EXCEPT ![t] = Window(picked[t], now)]

\* From now on the schedule is not.
LeadAstray(t) == /\ astray' = astray \cup {t}
                 /\ picked' = [picked EXCEPT ![t] = << >>]

\* Task::saveField.
SaveNext(t, time) == row' = [row EXCEPT ![t] = [row[t] EXCEPT !.next = time]]
SaveLast(t, has)  == row' = [row EXCEPT ![t] = [row[t] EXCEPT !.last = has]]

\* setNextExecutionTime, from the time that was fetched.
Pick(d) ==
    /\ Take(d)
    /\ SaveNext(d.task, NextTime(d.next, Interval[d.task], now))
    /\ picked' = Remember(d.task) /\ forced' = forced \ {d.task}
    /\ UNCHANGED <<now, open, ask, astray, asks, faults>>

\* The save fails: logged, and the task is run all the same.
PickUnsaved(d) ==
    /\ Take(d) /\ faults < MaxFaults /\ faults' = faults + 1
    /\ LeadAstray(d.task) /\ forced' = forced \ {d.task}
    /\ UNCHANGED <<now, row, open, ask, asks>>

Go(from, to) == at = from /\ at' = to /\ UNCHANGED <<due, cur>>

\* Fault: the task at hand is kept.
LeaveAtHand == at' = "idle" /\ UNCHANGED <<cur, due>>

\* The task at hand is done with.
Leave == at' = "idle" /\ cur' = None /\ UNCHANGED due

Reset ==
    /\ Go("picked", "reset") /\ (cur.last => Has(cur.task))
    /\ IF cur.last THEN SaveLast(cur.task, FALSE) ELSE UNCHANGED row
    /\ UNCHANGED <<now, open, ask, history, asks, faults>>

\* Parameters or user are no good by now: an error is logged.
Refuse ==
    /\ at = "reset" /\ Has(cur.task) /\ Leave
    /\ UNCHANGED <<now, row, open, ask, history, asks, faults>>

\* createJob: the row in the jobs table.
CreateJob ==
    /\ Go("reset", "made")
    /\ UNCHANGED <<now, row, open, ask, history, asks, faults>>

Enqueue ==
    /\ Go("made", "pushed")
    /\ open' = [open EXCEPT ![cur.task] = @ + 1]
    /\ UNCHANGED <<now, row, ask, history, asks, faults>>

\* Of a server whose technique it does not know, enqueueServerPullById only logs
\* an error.
EnqueueNothing ==
    /\ Go("made", "pushed") /\ Has(cur.task)
    /\ UNCHANGED <<now, row, open, ask, history, asks, faults>>

\* Fault: the next execution time is saved again with the rest.
NoteReschedules ==
    /\ at = "pushed" /\ Has(cur.task) /\ Leave
    /\ row' = [row EXCEPT ![cur.task] = [row[cur.task] EXCEPT !.last = TRUE,
                   !.next = NextTime(cur.next, Interval[cur.task], now)]]
    /\ UNCHANGED <<now, open, ask, history, asks, faults>>

\* Task::save of last_job_id, message and last_run_at only.
Note ==
    /\ at = "pushed" /\ Has(cur.task) /\ Leave
    /\ SaveLast(cur.task, TRUE)
    /\ UNCHANGED <<now, open, ask, history, asks, faults>>

\* An exception of processTask: caught and logged, on to the next task.
Throw ==
    /\ at # "idle" /\ Has(cur.task) /\ faults < MaxFaults
    /\ Leave /\ faults' = faults + 1
    /\ UNCHANGED <<now, row, open, ask, history, asks>>

\* Supervisor starts the scheduler anew.
Restart == /\ at' = "idle" /\ cur' = None /\ due' = {}
           /\ UNCHANGED <<now, row, open, ask, history, asks>>

Crash == (at # "idle" \/ due # {}) /\ faults < MaxFaults /\ faults' = faults + 1 /\ Restart

\* The row has been deleted: a save would insert one without its mandatory columns,
\* and fails; so does logging that, which ends the process.
Saves == \/ at = "picked" /\ cur.last
         \/ at \in {"reset", "made", "pushed"}

Gone == /\ \/ at = "idle" /\ \E d \in due : ~Has(d.task)
           \/ Saves /\ ~Has(cur.task)
        /\ Restart /\ UNCHANGED faults

\* A worker of the job queue runs the job to its end, if it does.
JobEnds(t) ==
    /\ open[t] > 0
    /\ open' = [open EXCEPT ![t] = @ - 1]
    /\ UNCHANGED <<now, row, scheduler, ask, history, asks, faults>>

------------------------------------------------------------------------------
\* Administrators: TasksController.

Asking == asks < MaxAsks /\ asks' = asks + 1

\* A blank date means one second ago.  Every task is added once: ids are not reused.
Add(t, time) ==
    /\ ~Has(t) /\ t \notin astray
    /\ row' = [row EXCEPT ![t] = [on |-> TRUE, next |-> time, last |-> FALSE]]
    /\ UNCHANGED <<now, scheduler, open, ask, history, asks, faults>>

\* The row is read; a disabled task is not forced.
Read(a, kind, t) ==
    /\ Asking /\ ask[a] = None /\ Has(t) /\ (kind = "force" => row[t].on)
    /\ ask' = [ask EXCEPT ![a] = [kind |-> kind, task |-> t, row |-> row[t]]]
    /\ UNCHANGED <<now, row, scheduler, open, history, faults>>

\* A request has saved the row r, by which the schedule is its own.
Saved(a, r) ==
    LET t == ask[a].task IN
    /\ row' = [row EXCEPT ![t] = r]
    /\ ask' = [ask EXCEPT ![a] = None]
    /\ LeadAstray(t)
    /\ forced' = IF ask[a].kind = "force" THEN forced \cup {t} ELSE forced \ {t}
    /\ UNCHANGED <<now, scheduler, open, asks, faults>>

\* The whole row as it was read; a deleted one is inserted again.
Toggle(a) == /\ ask[a] # None /\ ask[a].kind = "toggle"
             /\ Saved(a, [ask[a].row EXCEPT !.on = ~@])

ForceRun(a) == /\ ask[a] # None /\ ask[a].kind = "force"
               /\ Saved(a, [ask[a].row EXCEPT !.next = now - 1, !.last = FALSE])

\* The form shows the row as it was; what it has no field for is read again.
Edit(a) ==
    /\ ask[a] # None /\ ask[a].kind = "edit" /\ Has(ask[a].task)
    /\ \E time \in {ask[a].row.next, now - 1} :
         Saved(a, [row[ask[a].task] EXCEPT !.on = ask[a].row.on, !.next = time])

\* The row is gone when the form is sent.
NotFound(a) ==
    /\ ask[a] # None /\ ask[a].kind = "edit" /\ ~Has(ask[a].task)
    /\ ask' = [ask EXCEPT ![a] = None]
    /\ UNCHANGED <<now, row, scheduler, open, history, asks, faults>>

Delete(t) ==
    /\ Asking /\ Has(t)
    /\ row' = [row EXCEPT ![t] = None]
    /\ LeadAstray(t) /\ forced' = forced \ {t}
    /\ UNCHANGED <<now, scheduler, open, ask, faults>>

------------------------------------------------------------------------------
SchedulerStep == \/ Fetch \/ Reset \/ Refuse \/ CreateJob \/ Enqueue
                 \/ EnqueueNothing \/ Note \/ Gone
                 \/ \E d \in due : Pick(d)

AdminStep(a) == \/ Toggle(a) \/ ForceRun(a) \/ Edit(a) \/ NotFound(a)
                \/ \E t \in Task, kind \in {"toggle", "force", "edit"} : Read(a, kind, t)

Next == \/ Tick \/ SchedulerStep \/ Throw \/ Crash
        \/ \E d \in due : PickUnsaved(d)
        \/ \E a \in Admin : AdminStep(a)
        \/ \E t \in Task : \/ Delete(t) \/ JobEnds(t)
                           \/ \E time \in {now - 1, now + 1} : Add(t, time)

Spec == Init /\ [][Next]_vars

\* The scheduler's loop goes on, and Supervisor restarts it.  The clock,
\* administrators and jobs owe nothing.
FairSpec == Spec /\ WF_vars(SchedulerStep)

------------------------------------------------------------------------------
\* Properties.

\* Every variable keeps its shape.
TypeOK ==
    /\ now \in Nat \ {0} /\ {asks, faults} \subseteq Nat
    /\ row \in [Task -> Row \cup {None}]
    /\ due \subseteq Due /\ at \in Step /\ cur \in Due \cup {None}
    /\ (at = "idle") <=> (cur = None)
    /\ open \in [Task -> Nat]
    /\ ask \in [Admin -> Request \cup {None}]
    /\ picked \in [Task -> Seq(Nat)]
    /\ astray \subseteq Task /\ forced \subseteq Task

\* However late the scheduler is, and wherever it dies, a task that nobody touches
\* is not run in bursts: any three runs in a row span an interval (setNextExecutionTime).
Spaced == \A t \in Task : Len(picked[t]) = 3 => picked[t][3] >= picked[t][1] + Interval[t]

\* No task stays due for ever, whatever fails and whoever is processed before it
\* (SchedulerWorkerShell::main).
NoneStaysDue == \A t \in Task : []<>(~IsDue(t))

\* A forced run happens, also when the scheduler is at work on the task by then,
\* unless the task is disabled, deleted or saved again (TasksController::forceRun).
ForceHonoured == \A t \in Task : t \in forced ~> t \notin forced
------------------------------------------------------------------------------
\* What a message of the code says of it; refuted by a run.

\* app/Console/Command/SchedulerWorkerShell.php:76: "job is already running for
\* this task".  A task has one job at a time.
NoOverlap == \A t \in Task : open[t] <= 1
==============================================================================
