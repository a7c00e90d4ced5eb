-------------------------- MODULE DatabaseUpdates --------------------------
(***************************************************************************)
(* The updates of the database schema.                                     *)
(*                                                                         *)
(* Every page a user opens makes runUpdates compare the recorded version   *)
(* with the updates the code brings.  With background jobs it only queues  *)
(* a job; without, or when no update worker is alive, it runs the updates  *)
(* on the spot.  A lock with an age limit and a counter of failures are    *)
(* to keep runs apart, but neither is read and set in one step, a worker   *)
(* or the shell removes the lock before it starts, and a run that ends     *)
(* frees it whoever holds it.                                              *)
(*                                                                         *)
(* Left out: the cleaning of the cache files, the sessions, the Job row.   *)
(*                                                                         *)
(* Sources: app/Model/AppModel.php, app/Console/Command/AdminShell.php,    *)
(* app/Controller/ServersController.php.                                   *)
(***************************************************************************)
EXTENDS Integers, FiniteSets

CONSTANTS
    Web,        \* requests that may be at work at once
    Worker,     \* processes of AdminShell runUpdates: update workers, or an operator's shell
    Last,       \* the number of updates, 1..Last: DB_CHANGES
    Steps,      \* statements of an update
    Failing,    \* updates that may end without success
    FailLimit,  \* more failures in a row lock the updates
    Background, \* MISP.background_jobs
    MaxJobs,    \* bound on the queued jobs
    MaxMishaps  \* bound on crashes, shells and released locks

Runner == Web \cup Worker

ASSUME UpdatesAssumption ==
    /\ Web \cap Worker = {}
    /\ Last \in Nat \ {0} /\ Steps \in Nat \ {0} /\ FailLimit \in Nat
    /\ Failing \subseteq 1..Last /\ Background \in BOOLEAN
    /\ MaxJobs \in Nat /\ MaxMishaps \in Nat

VARIABLES
    version,   \* db_version
    lock,      \* update_locked: "free", "held" or "old", older than updateTimeThreshold
    fails,     \* update_fail_number
    progress,  \* update_progress: the update it is about, the one whose statements it lists, the current one
    jobs,      \* jobs in the update queue
    pc,        \* where each process is in runUpdates
    from,      \* the version it has read
    update,    \* the update it is at
    at,        \* the statement of the update it is at, from 0
    counted,   \* the number of failures it has read
    attempted, \* history: the updates that were run to their end
    mishaps

run  == <<pc, from, update, at, counted>>
vars == <<version, lock, fails, progress, jobs, run, attempted, mishaps>>

NoProgress == [toward |-> 0, listed |-> 0, current |-> 0]

Init ==
    /\ version = 0 /\ lock = "free" /\ fails = 0 /\ progress = NoProgress /\ jobs = 0
    /\ pc = [r \in Runner |-> "idle"] /\ from = [r \in Runner |-> 0]
    /\ update = [r \in Runner |-> 0] /\ at = [r \in Runner |-> 0] /\ counted = [r \in Runner |-> 0]
    /\ attempted = {} /\ mishaps = 0

Goto(r, place) == pc' = [pc EXCEPT ![r] = place]

Mishap == mishaps < MaxMishaps /\ mishaps' = mishaps + 1

-----------------------------------------------------------------------------
\* Fault: a lock has no age.
LockedForGood == lock # "free" \/ fails > FailLimit

Locked == lock = "held" \/ fails > FailLimit

\* Fault: the updates to come begin one too late.
ReadPast(r) ==
    /\ version < Last
    /\ Goto(r, "read") /\ from' = [from EXCEPT ![r] = version + 1]
    /\ UNCHANGED <<version, fails, progress, update, at, counted, attempted>>

\* runUpdates reads the version; without updates to come there is nothing to do.
Read(r) ==
    /\ version < Last
    /\ Goto(r, "read") /\ from' = [from EXCEPT ![r] = version]
    /\ UNCHANGED <<version, fails, progress, update, at, counted, attempted>>

\* A request of a user.
Request(r) == pc[r] = "idle" /\ Read(r) /\ UNCHANGED <<lock, jobs, mishaps>>

\* A worker takes a job, or an operator calls the shell: the lock goes before anything is read.
DropLock(w) ==
    /\ pc[w] = "idle" /\ Goto(w, "unlocked") /\ lock' = "free"
    /\ UNCHANGED <<version, fails, progress, from, update, at, counted, attempted>>
TakeJob(w) == jobs > 0 /\ jobs' = jobs - 1 /\ DropLock(w) /\ UNCHANGED mishaps
Shell(w)   == Mishap /\ DropLock(w) /\ UNCHANGED jobs

Begin(w) == pc[w] = "unlocked" /\ Read(w) /\ UNCHANGED <<lock, jobs, mishaps>>
UpToDate(w) ==
    /\ pc[w] = "unlocked" /\ version >= Last /\ Goto(w, "idle")
    /\ UNCHANGED <<version, lock, fails, progress, jobs, from, update, at, counted, attempted, mishaps>>

Rest(r) == UNCHANGED <<version, lock, fails, progress, from, update, at, counted, attempted, mishaps>>

GiveUp(r) == pc[r] = "read" /\ Locked /\ Goto(r, "idle") /\ UNCHANGED jobs /\ Rest(r)

\* A request leaves the updates to a worker.
Queue(r) ==
    /\ pc[r] = "read" /\ ~Locked /\ Background /\ r \in Web
    /\ jobs < MaxJobs /\ jobs' = jobs + 1
    /\ Goto(r, "idle") /\ Rest(r)

\* The process does them: a worker, or a request that finds no worker alive.
Inline(r) == pc[r] = "read" /\ ~Locked /\ Goto(r, "clear") /\ UNCHANGED jobs /\ Rest(r)

\* The lock is taken some time after it was found free.
Lock(r) ==
    /\ pc[r] = "clear" /\ Goto(r, "next")
    /\ lock' = "held" /\ progress' = NoProgress /\ update' = [update EXCEPT ![r] = from[r]]
    /\ UNCHANGED <<version, fails, jobs, from, at, counted, attempted, mishaps>>

Quiet == UNCHANGED <<lock, jobs, from, mishaps>>

\* The next update: the progress says which, and lists its statements only then.
NextUpdate(r) ==
    /\ pc[r] = "next" /\ update[r] < Last /\ Goto(r, "list")
    /\ update' = [update EXCEPT ![r] = @ + 1]
    /\ progress' = [progress EXCEPT !.toward = update[r] + 1, !.current = 0]
    /\ UNCHANGED <<version, fails, at, counted, attempted>> /\ Quiet

List(r) ==
    /\ pc[r] = "list" /\ Goto(r, "run") /\ at' = [at EXCEPT ![r] = 0]
    /\ progress' = [progress EXCEPT !.listed = update[r]]
    /\ UNCHANGED <<version, fails, update, counted, attempted>> /\ Quiet

\* Fault: one statement too many.
StatementPast(r) ==
    /\ pc[r] = "run" /\ at[r] <= Steps + 1 /\ at' = [at EXCEPT ![r] = @ + 1]
    /\ progress' = [progress EXCEPT !.current = at[r]]
    /\ UNCHANGED <<version, fails, pc, update, counted, attempted>> /\ Quiet

\* A statement is noted and executed; an error is noted too, and the next one is executed.
\* After the last the progress stands at their number.
Statement(r) ==
    /\ pc[r] = "run" /\ at[r] <= Steps /\ at' = [at EXCEPT ![r] = @ + 1]
    /\ progress' = [progress EXCEPT !.current = at[r]]
    /\ UNCHANGED <<version, fails, pc, update, counted, attempted>> /\ Quiet

Ran(r) == /\ pc[r] = "run" /\ at[r] > Steps
          /\ attempted' = attempted \cup {update[r]}
          /\ UNCHANGED <<progress, update, at>> /\ Quiet

\* Fault: the version is recorded when an update begins.
SucceedEarly(r) ==
    /\ pc[r] = "run"
    /\ IF at[r] > Steps
       THEN Ran(r) /\ Goto(r, "next") /\ UNCHANGED <<version, fails, counted>>
       ELSE /\ version' = update[r] /\ fails' = 0 /\ version # update[r]
            /\ UNCHANGED <<pc, attempted, progress, update, at, counted>> /\ Quiet

\* The update has run: its number becomes the version, up or down.
Succeed(r) == /\ Ran(r) /\ Goto(r, "next")
              /\ version' = update[r] /\ fails' = 0 /\ UNCHANGED counted

\* It has run without saying that it succeeded: the failures are read,
Fail(r) == /\ Ran(r) /\ update[r] \in Failing /\ Goto(r, "failed")
           /\ counted' = [counted EXCEPT ![r] = fails]
           /\ UNCHANGED <<version, fails>>

\* and written; the run goes on with the next update.
Count(r) ==
    /\ pc[r] = "failed" /\ Goto(r, "next") /\ fails' = counted[r] + 1
    /\ UNCHANGED <<version, progress, update, at, counted, attempted>> /\ Quiet

\* The end of a run frees the lock, its own or not.
End(r) ==
    /\ pc[r] = "next" /\ update[r] >= Last /\ Goto(r, "idle") /\ lock' = "free"
    /\ UNCHANGED <<version, fails, progress, jobs, from, update, at, counted, attempted, mishaps>>

\* A process dies in the middle.
Crash(r) ==
    /\ Mishap /\ pc[r] # "idle" /\ Goto(r, "idle")
    /\ UNCHANGED <<version, lock, fails, progress, jobs, from, update, at, counted, attempted>>

\* updateTimeThreshold has passed, though the run may still be at work.
Expire ==
    /\ lock = "held" /\ lock' = "old"
    /\ UNCHANGED <<version, fails, progress, jobs, run, attempted, mishaps>>

\* The administrator releases the lock.
Release ==
    /\ Mishap /\ lock' = "free" /\ fails' = 0
    /\ UNCHANGED <<version, progress, jobs, run, attempted>>

Proceed(r) ==
    \/ GiveUp(r) \/ Queue(r) \/ Inline(r) \/ Lock(r)
    \/ NextUpdate(r) \/ List(r) \/ Statement(r) \/ Succeed(r) \/ Fail(r) \/ Count(r) \/ End(r)

Next ==
    \/ \E r \in Runner : Proceed(r) \/ Crash(r)
    \/ \E r \in Web : Request(r)
    \/ \E w \in Worker : TakeJob(w) \/ Shell(w) \/ Begin(w) \/ UpToDate(w)
    \/ Expire \/ Release

\* Users go on opening pages, Supervisor keeps the workers, time passes; nothing makes a
\* process die or an administrator act.
Fairness ==
    /\ \A r \in Runner : WF_vars(Proceed(r))
    /\ \A r \in Web : WF_vars(Request(r))
    /\ \A w \in Worker : WF_vars(TakeJob(w)) /\ WF_vars(Begin(w) \/ UpToDate(w))
    /\ WF_vars(Expire)

Spec == Init /\ [][Next]_vars /\ Fairness

-----------------------------------------------------------------------------
\* Properties.

Place == {"idle", "unlocked", "read", "clear", "next", "list", "run", "failed"}

\* Every variable holds values of its kind.
TypeOK ==
    /\ version \in 0..Last /\ lock \in {"free", "held", "old"} /\ fails \in Nat
    /\ progress \in [toward : 0..Last, listed : 0..Last, current : 0..Steps]
    /\ jobs \in 0..MaxJobs /\ pc \in [Runner -> Place] /\ from \in [Runner -> 0..Last]
    /\ update \in [Runner -> 0..Last] /\ at \in [Runner -> 0..(Steps + 1)]
    /\ counted \in [Runner -> Nat] /\ attempted \subseteq 1..Last /\ mishaps \in 0..MaxMishaps

\* The version never tells of an update that was not run to its end, whichever processes died,
\* ran beside each other or set the version back.
NoneSkipped == \A u \in 1..version : u \in attempted

\* Updates meet the schema they were written for: none is begun before every older one has run.
InOrder == \A r \in Runner : pc[r] \in {"list", "run", "failed"} =>
               \A u \in 1..(update[r] - 1) : u \in attempted

\* In the end the updates are done for good, or locked because they failed again and again:
\* after deaths with the lock held, lost jobs and versions set back by a slower run.
Settles == <>[](version = Last \/ fails > FailLimit)
=============================================================================
