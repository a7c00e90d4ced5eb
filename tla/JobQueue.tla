------------------------------ MODULE JobQueue ------------------------------
(***************************************************************************)
(* The background jobs of one instance.                                    *)
(*                                                                         *)
(* A request creates a row for the job in the database, pushes the job on  *)
(* a Redis list, writes its record and links the row to it.  A worker pops *)
(* the job, reports it as running, starts it as a child process, watches   *)
(* the child and reports how it ended.  The child works on the row.        *)
(* Administrators stop workers, clear queues and purge rows; records and   *)
(* running keys expire.  Each of these is a separate step.                 *)
(*                                                                         *)
(* Sources: app/Lib/Tools/BackgroundJobsTool.php,                          *)
(* app/Lib/Tools/BackgroundJobs/BackgroundJob.php,                         *)
(* app/Console/Command/StartWorkerShell.php, app/Model/Job.php,            *)
(* app/Controller/JobsController.php, app/Console/Command/EventShell.php.  *)
(***************************************************************************)
EXTENDS Naturals, Sequences, FiniteSets

CONSTANTS
    Queue,      \* the queues: default, email, cache, prio, update, scheduler
    Worker,     \* the worker processes
    Serves,     \* the queue of each worker
    Job,        \* the jobs
    Goes,       \* the queue of each job
    Pipelined,  \* TRUE: Redis executes the two commands of enqueue together
    None,       \* no job, no worker, no exit code
    MaxStops,   \* bound on the processes that are stopped or crash
    MaxClears   \* bound on the cleared queues, the purges and the expired records

ASSUME QueueAssumption == /\ Serves \in [Worker -> Queue] /\ Goes \in [Job -> Queue]
                          /\ None \notin Job \cup Worker \cup {"ok", "error", "lost"}
                          /\ Pipelined \in BOOLEAN
                          /\ MaxStops \in Nat /\ MaxClears \in Nat

VARIABLES
    request,   \* how far the request that creates the job has come
    row,       \* the job's row in the jobs table
    linked,    \* the row names the job: process_id is set
    list,      \* the Redis list of each queue
    record,    \* the job's record in Redis, job_status:<id>
    key,       \* the worker in the job's key running:<queue>:<id>
    worker,    \* what each worker does
    child,     \* the child process of the job
    seen,      \* process_id as the child has read it
    starts,    \* how often the job has been started
    stops, clears

db      == <<row, linked>>
redis   == <<list, record, key>>
process == <<child, seen, starts>>
bounds  == <<stops, clears>>

vars == <<request, db, redis, worker, process, bounds>>

Request == {"new", "created", "pushed", "recorded", "ended", "killed"}
Record  == {"none", "waiting", "running", "failed", "completed"}
Child   == {"none", "started", "working", "ok", "skipped", "error"}
Code    == {None, "ok", "error", "lost"}

\* A worker that holds no job is down or polls its queue.
WorkerState == [at: {"down", "poll", "popped", "marked", "launched", "watching",
                     "reaped", "told"},
                job: Job \cup {None}, code: Code]
Down    == [at |-> "down", job |-> None, code |-> None]
Polling == [at |-> "poll", job |-> None, code |-> None]

Exit(j)  == IF child[j] = "error" THEN "error" ELSE "ok"
Ended(j) == child[j] \in {"ok", "skipped", "error"}
Alive(j) == child[j] \in {"started", "working"}

Init ==
    /\ request = [j \in Job |-> "new"]
    /\ row     = [j \in Job |-> "none"]
    /\ linked  = [j \in Job |-> FALSE]
    /\ list    = [q \in Queue |-> << >>]
    /\ record  = [j \in Job |-> "none"]
    /\ key     = [j \in Job |-> None]
    /\ worker  = [w \in Worker |-> Polling]
    /\ child   = [j \in Job |-> "none"]
    /\ seen    = [j \in Job |-> FALSE]
    /\ starts  = [j \in Job |-> 0]
    /\ stops = 0 /\ clears = 0

------------------------------------------------------------------------------
\* The request.

Advance(j, from, to) == request[j] = from /\ request' = [request EXCEPT ![j] = to]

\* createJob.
CreateJob(j) ==
    /\ Advance(j, "new", "created")
    /\ row' = [row EXCEPT ![j] = "open"]
    /\ UNCHANGED <<linked, redis, worker, process, bounds>>

\* Fault: the record is written by a command of its own.
EnqueueApart(j) ==
    /\ Advance(j, "created", "pushed")
    /\ list' = [list EXCEPT ![Goes[j]] = Append(@, j)]
    /\ UNCHANGED <<db, record, key, worker, process, bounds>>

\* RPUSH, and with it SETEX when Redis takes the pipeline in one go.
Enqueue(j) ==
    /\ Advance(j, "created", IF Pipelined THEN "recorded" ELSE "pushed")
    /\ list'   = [list EXCEPT ![Goes[j]] = Append(@, j)]
    /\ record' = IF Pipelined THEN [record EXCEPT ![j] = "waiting"] ELSE record
    /\ UNCHANGED <<db, key, worker, process, bounds>>

EnqueueRecord(j) ==
    /\ Advance(j, "pushed", "recorded")
    /\ record' = [record EXCEPT ![j] = "waiting"]
    /\ UNCHANGED <<db, list, key, worker, process, bounds>>

\* updateJobProcessId; a row that has been purged is not linked.
UpdateJobProcessId(j) ==
    /\ Advance(j, "recorded", "ended")
    /\ linked' = [linked EXCEPT ![j] = row[j] # "none"]
    /\ UNCHANGED <<row, redis, worker, process, bounds>>

\* The request dies before it has done all this.
Kill(j) ==
    /\ request[j] \in {"created", "pushed", "recorded"} /\ stops < MaxStops
    /\ request' = [request EXCEPT ![j] = IF @ = "created" THEN "killed" ELSE "ended"]
    /\ stops' = stops + 1
    /\ UNCHANGED <<db, redis, worker, process, clears>>

------------------------------------------------------------------------------
\* The worker: StartWorkerShell::main and runJob.

Become(w, at, job, code) ==
    worker' = [worker EXCEPT ![w] = [at |-> at, job |-> job, code |-> code]]

Go(w, from, to) == worker[w].at = from /\ Become(w, to, worker[w].job, worker[w].code)

\* Fault: the job is read and stays in the list.
DequeuePeek(w) ==
    /\ worker[w].at = "poll" /\ list[Serves[w]] # << >>
    /\ Become(w, "popped", Head(list[Serves[w]]), None)
    /\ UNCHANGED <<request, db, redis, process, bounds>>

\* BLPOP: the job is in the worker's hands only.
Dequeue(w) ==
    /\ worker[w].at = "poll" /\ list[Serves[w]] # << >>
    /\ Become(w, "popped", Head(list[Serves[w]]), None)
    /\ list'   = [list EXCEPT ![Serves[w]] = Tail(@)]
    /\ UNCHANGED <<request, db, record, key, process, bounds>>

\* The record says running before the job is started.
MarkRunning(w) ==
    /\ Go(w, "popped", "marked")
    /\ record' = [record EXCEPT ![worker[w].job] = "running"]
    /\ UNCHANGED <<request, db, list, key, process, bounds>>

\* proc_open.
Launch(w) ==
    /\ Go(w, "marked", "launched")
    /\ child'  = [child EXCEPT ![worker[w].job] = "started"]
    /\ starts' = [starts EXCEPT ![worker[w].job] = @ + 1]
    /\ UNCHANGED <<request, db, redis, seen, bounds>>

\* The first proc_get_status and markAsRunning; when the child has already ended
\* this call takes its exit code (before PHP 8.3) and throws it away.
FirstLook(w) ==
    LET j == worker[w].job IN
    /\ worker[w].at = "launched"
    /\ \E code \in IF Ended(j) THEN {None, "lost"} ELSE {None} :
         Become(w, "watching", j, code)
    /\ key' = [key EXCEPT ![j] = w]
    /\ UNCHANGED <<request, db, list, record, process, bounds>>

\* Fault: the child is not waited for.
ReapEarly(w) ==
    LET j == worker[w].job IN
    /\ worker[w].at = "watching"
    /\ Become(w, "reaped", j, IF worker[w].code = None THEN "ok" ELSE worker[w].code)
    /\ key' = [key EXCEPT ![j] = w]
    /\ UNCHANGED <<request, db, list, record, process, bounds>>

\* The loop of BackgroundJob::pool ends with the child.
Reap(w) ==
    LET j == worker[w].job IN
    /\ worker[w].at = "watching" /\ Ended(j)
    /\ Become(w, "reaped", j, IF worker[w].code = None THEN Exit(j) ELSE worker[w].code)
    /\ key' = [key EXCEPT ![j] = w]
    /\ UNCHANGED <<request, db, list, record, process, bounds>>

\* Fault: the exit code is stored as the status.
TellCode(w) ==
    /\ Go(w, "reaped", "told")
    /\ record' = [record EXCEPT ![worker[w].job] = worker[w].code]
    /\ UNCHANGED <<request, db, list, key, process, bounds>>

\* Fault: an unknown exit code is taken for success.
TellUnlessError(w) ==
    /\ Go(w, "reaped", "told")
    /\ record' = [record EXCEPT ![worker[w].job] =
                    IF worker[w].code # "error" THEN "completed" ELSE "failed"]
    /\ UNCHANGED <<request, db, list, key, process, bounds>>

\* The status follows from the exit code.
Tell(w) ==
    /\ Go(w, "reaped", "told")
    /\ record' = [record EXCEPT ![worker[w].job] =
                    IF worker[w].code = "ok" THEN "completed" ELSE "failed"]
    /\ UNCHANGED <<request, db, list, key, process, bounds>>

RemoveFromRunning(w) ==
    /\ worker[w].at = "told"
    /\ worker' = [worker EXCEPT ![w] = Polling]
    /\ key'    = [key EXCEPT ![worker[w].job] = None]
    /\ UNCHANGED <<request, db, list, record, process, bounds>>

\* Fault: the age is checked after the job has been taken.
RetireHolding(w) ==
    /\ worker[w].at \in {"poll", "popped"}
    /\ worker' = [worker EXCEPT ![w] = Down]
    /\ UNCHANGED <<request, db, redis, process, bounds>>

\* checkMaxExecutionTime: a worker that is old enough leaves between two jobs.
Retire(w) ==
    /\ worker[w].at = "poll"
    /\ worker' = [worker EXCEPT ![w] = Down]
    /\ UNCHANGED <<request, db, redis, process, bounds>>

\* stopWorker, restartWorkers or a crash: only the worker's own process ends.
Stop(w) ==
    /\ worker[w].at # "down" /\ stops < MaxStops
    /\ worker' = [worker EXCEPT ![w] = Down] /\ stops' = stops + 1
    /\ UNCHANGED <<request, db, redis, process, clears>>

\* Supervisor starts it again, by itself or when asked.
StartWorker(w) ==
    /\ Go(w, "down", "poll")
    /\ UNCHANGED <<request, db, redis, process, bounds>>

------------------------------------------------------------------------------
\* The child, a shell such as EventShell::publish.

\* It reads its row; without one it does nothing and returns successfully.
ChildRead(j) ==
    /\ child[j] = "started"
    /\ child' = [child EXCEPT ![j] = IF row[j] = "none" THEN "skipped" ELSE "working"]
    /\ seen'  = [seen EXCEPT ![j] = linked[j]]
    /\ UNCHANGED <<request, db, redis, worker, starts, bounds>>

\* It has done its work and saves the whole row as it has read it.  A row that
\* has been purged in the meantime may be inserted again.
ChildSave(j) ==
    /\ child[j] = "working"
    /\ child' = [child EXCEPT ![j] = "ok"]
    /\ \/ /\ row'    = [row EXCEPT ![j] = "done"]
          /\ linked' = [linked EXCEPT ![j] = seen[j]]
       \/ row[j] = "none" /\ UNCHANGED <<db>>
    /\ UNCHANGED <<request, redis, worker, seen, starts, bounds>>

\* It ends with an exception or a fatal error.
ChildFail(j) ==
    /\ Alive(j)
    /\ child' = [child EXCEPT ![j] = "error"]
    /\ UNCHANGED <<request, db, redis, worker, seen, starts, bounds>>

------------------------------------------------------------------------------
\* Time and administrators.

Watched(j) == \E w \in Worker : worker[w].job = j /\ worker[w].at \in {"watching", "reaped"}

\* Fault: the key is kept until it is removed.
KeyExpiresNever(j) == FALSE /\ UNCHANGED vars

\* The key lives 60 seconds and is set again every 5 seconds while the child is
\* watched.
KeyExpires(j) ==
    /\ key[j] # None /\ ~Watched(j)
    /\ key' = [key EXCEPT ![j] = None]
    /\ UNCHANGED <<request, db, list, record, worker, process, bounds>>

Clearing == clears < MaxClears /\ clears' = clears + 1

\* max_job_history_ttl.
RecordExpires(j) ==
    /\ record[j] # "none" /\ Clearing
    /\ record' = [record EXCEPT ![j] = "none"]
    /\ UNCHANGED <<request, db, list, key, worker, process, stops>>

ClearQueue(q) ==
    /\ list[q] # << >> /\ Clearing
    /\ list' = [list EXCEPT ![q] = << >>]
    /\ UNCHANGED <<request, db, record, key, worker, process, stops>>

\* clearJobs: all rows, or those whose progress is 100.
ClearJobs ==
    /\ Clearing
    /\ \E which \in {{"open", "done"}, {"done"}} :
         row' = [j \in Job |-> IF row[j] \in which THEN "none" ELSE row[j]]
    /\ linked' = [j \in Job |-> linked[j] /\ row'[j] # "none"]
    /\ UNCHANGED <<request, redis, worker, process, stops>>

------------------------------------------------------------------------------
RequestStep(j) == CreateJob(j) \/ Enqueue(j) \/ EnqueueRecord(j) \/ UpdateJobProcessId(j)

WorkerStep(w) == \/ Dequeue(w) \/ MarkRunning(w) \/ Launch(w) \/ FirstLook(w)
                 \/ Reap(w) \/ Tell(w) \/ RemoveFromRunning(w) \/ StartWorker(w)

ChildStep(j) == ChildRead(j) \/ ChildSave(j) \/ ChildFail(j)

Next == \/ \E j \in Job : RequestStep(j) \/ Kill(j) \/ ChildStep(j)
                          \/ KeyExpires(j) \/ RecordExpires(j)
        \/ \E w \in Worker : WorkerStep(w) \/ Retire(w) \/ Stop(w)
        \/ \E q \in Queue : ClearQueue(q)
        \/ ClearJobs

Spec == Init /\ [][Next]_vars

\* Requests, workers and children run, Supervisor restarts workers, Redis
\* expires keys.  Nobody has to create a job, stop a worker or clear a queue.
\* A worker may retire whenever it polls, so to pop a job it needs strong fairness.
Fairness == /\ \A j \in Job : /\ WF_vars(RequestStep(j) /\ request[j] # "new")
                              /\ WF_vars(ChildStep(j)) /\ WF_vars(KeyExpires(j))
            /\ \A w \in Worker : WF_vars(WorkerStep(w)) /\ SF_vars(Dequeue(w))

FairSpec == Spec /\ Fairness

------------------------------------------------------------------------------
\* Properties.

\* Every variable keeps its shape.
TypeOK ==
    /\ request \in [Job -> Request] /\ row \in [Job -> {"none", "open", "done"}]
    /\ linked \in [Job -> BOOLEAN] /\ seen \in [Job -> BOOLEAN]
    /\ list \in [Queue -> Seq(Job)]
    /\ record \in [Job -> Record] /\ key \in [Job -> Worker \cup {None}]
    /\ worker \in [Worker -> WorkerState]
    /\ child \in [Job -> Child] /\ starts \in [Job -> Nat]
    /\ stops \in Nat /\ clears \in Nat

\* However many workers serve a queue, and wherever they are stopped and
\* restarted, no job is started twice (dequeue, StartWorkerShell::main).
RunOnce == \A j \in Job : starts[j] <= 1

Holds(w, j) == worker[w].job = j /\ worker[w].at \in {"popped", "marked"}

Waits(j) == \/ \E i \in DOMAIN list[Goes[j]] : list[Goes[j]][i] = j
            \/ \E w \in Worker : Holds(w, j)

Phase(j) ==
    CASE starts[j] > 1                                      -> "twice"
      [] starts[j] = 1 /\ Alive(j)                          -> "running"
      [] starts[j] = 1 /\ ~Alive(j)                         -> Exit(j)
      [] starts[j] = 0 /\ Waits(j)                          -> "waiting"
      [] starts[j] = 0 /\ ~Waits(j)
           /\ request[j] \in {"new", "created", "killed"}   -> "new"
      [] OTHER                                              -> "lost"

Abstract == INSTANCE OneRun WITH phase <- [j \in Job |-> Phase(j)], report <- record

\* The queue keeps its promise: a job is started at most once or lost, and what
\* is told as completed has ended well, also when requests and workers die,
\* queues are cleared, records expire and reports overtake each other.
KeepsPromise == Abstract!Promise

Lost == {j \in Job : Phase(j) = "lost"}

\* Unless somebody clears something, jobs are lost only with a process that is stopped or
\* dies, and no more than one with each (StartWorkerShell::main).
LostWithHolder == clears = 0 => IsFiniteSet(Lost) /\ Cardinality(Lost) <= stops

\* The key of a job nobody watches any more does not stay: showQueues never lists
\* a job as running for ever (markAsRunning).
KeysGo == \A j \in Job : key[j] # None ~> key[j] = None

HasParent(j) ==
    \E w \in Worker : worker[w].job = j /\ worker[w].at \in {"launched", "watching"}

\* As long as no process is stopped, a child runs only under the eyes of the worker
\* that started it, so that a queue never runs more jobs than it has workers,
\* however often workers retire and are started again (StartWorkerShell::main).
NoneUnwatched == stops = 0 => \A j \in Job : Alive(j) => HasParent(j)

Idle == /\ \A q \in Queue : list[q] = << >>
        /\ \A w \in Worker : worker[w] \in {Down, Polling}
        /\ \A j \in Job : request[j] \in {"new", "ended"} /\ ~Alive(j)

\* When everything has come to rest and no process was stopped, nothing is listed or
\* recorded as running; and where Redis takes the pipeline of enqueue in one go and
\* nothing was cleared or expired, the record of every job tells its end: no late write
\* hides how a job ended (enqueue, update).
Settled ==
    Idle /\ stops = 0 =>
      \A j \in Job :
         /\ key[j] = None /\ record[j] # "running"
         /\ Pipelined /\ clears = 0 /\ request[j] = "ended"
              => record[j] \in {"completed", "failed"}

\* Every job that was requested is run to its end, whatever becomes of the jobs
\* before it and of their workers, unless it was lost with the one process that
\* held it (StartWorkerShell::main).
EveryJobEnds ==
    \A j \in Job : request[j] = "created"
                     ~> \/ Ended(j) \/ request[j] = "killed"
                        \/ stops > 0 /\ Phase(j) = "lost"
==============================================================================
