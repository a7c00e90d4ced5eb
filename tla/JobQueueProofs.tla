--------------------------- MODULE JobQueueProofs ---------------------------
(* Theorems about JobQueue, for every number of queues, workers and jobs.   *)
EXTENDS JobQueue, FiniteSetTheorems, TLAPS

------------------------------------------------------------------------------
\* Type correctness.

LEMMA HeadTail ==
    ASSUME NEW S, NEW s \in Seq(S), s # << >>
    PROVE  /\ Head(s) \in S /\ Tail(s) \in Seq(S)
           /\ Head(s) = s[1] /\ 1 \in DOMAIN s
           /\ \A i \in DOMAIN Tail(s) : i + 1 \in DOMAIN s /\ Tail(s)[i] = s[i + 1]
  OBVIOUS

At == {"down", "poll", "popped", "marked", "launched", "watching", "reaped", "told"}

LEMMA BecomeType ==
    ASSUME NEW w \in Worker, worker \in [Worker -> WorkerState],
           NEW at \in At, NEW job \in Job \cup {None}, NEW code \in Code,
           Become(w, at, job, code)
    PROVE  worker' \in [Worker -> WorkerState]
  BY DEF Become, WorkerState, At

LEMMA CountType ==
    ASSUME NEW f \in [Job -> Nat], NEW x
    PROVE  [f EXCEPT ![x] = f[x] + 1] \in [Job -> Nat]
  <1>1. CASE x \in Job
    BY <1>1
  <1>2. CASE x \notin Job
    BY <1>2
  <1> QED
    BY <1>1, <1>2

LEMMA GoType ==
    ASSUME NEW w \in Worker, NEW from, NEW to \in At, worker \in [Worker -> WorkerState],
           Go(w, from, to)
    PROVE  worker' \in [Worker -> WorkerState]
  BY BecomeType DEF Go, WorkerState

LEMMA HeldType ==
    ASSUME NEW w \in Worker, worker \in [Worker -> WorkerState],
           worker[w].job # None
    PROVE  worker[w].job \in Job
  BY DEF WorkerState

LEMMA InitType == Init => TypeOK
  BY QueueAssumption DEF Init, TypeOK, Request, Record, Child, Code, WorkerState, Polling

LEMMA RequestType ==
    ASSUME TypeOK, NEW j \in Job, RequestStep(j) \/ Kill(j)
    PROVE  TypeOK'
  <1> USE QueueAssumption DEF TypeOK, db, redis, process, bounds, Advance, Request, Record
  <1>1. CASE CreateJob(j)
    BY <1>1 DEF CreateJob
  <1>2. CASE Enqueue(j)
    <2>1. Append(list[Goes[j]], j) \in Seq(Job)
      OBVIOUS
    <2> QED
      BY <1>2, <2>1 DEF Enqueue
  <1>3. CASE EnqueueRecord(j)
    BY <1>3 DEF EnqueueRecord
  <1>4. CASE UpdateJobProcessId(j)
    BY <1>4 DEF UpdateJobProcessId
  <1>5. CASE Kill(j)
    BY <1>5 DEF Kill
  <1> QED
    BY <1>1, <1>2, <1>3, <1>4, <1>5 DEF RequestStep

\* The actions of worker w that change what the worker does and one more thing.
LEMMA WorkerType ==
    ASSUME TypeOK, NEW w \in Worker, WorkerStep(w) \/ Retire(w) \/ Stop(w)
    PROVE  TypeOK'
  <1> USE QueueAssumption DEF TypeOK, db, redis, process, bounds, Code
  <1>1. CASE Dequeue(w)
    <2>1. list[Serves[w]] \in Seq(Job) /\ list[Serves[w]] # << >>
      BY <1>1 DEF Dequeue
    <2>2. Head(list[Serves[w]]) \in Job /\ Tail(list[Serves[w]]) \in Seq(Job)
      BY <2>1, HeadTail
    <2>3. worker' \in [Worker -> WorkerState]
      BY <1>1, <2>2, BecomeType DEF Dequeue, At
    <2> QED
      BY <1>1, <2>2, <2>3 DEF Dequeue
  <1>2. CASE MarkRunning(w)
    BY <1>2, GoType DEF MarkRunning, Record, At
  <1>3. CASE Launch(w)
    <2>1. worker' \in [Worker -> WorkerState]
      BY <1>3, GoType DEF Launch, At
    <2>2. starts' \in [Job -> Nat]
      BY <1>3, CountType DEF Launch
    <2> QED
      BY <1>3, <2>1, <2>2 DEF Launch, Child
  <1>4. CASE FirstLook(w)
    <2>1. worker[w].job \in Job \cup {None}
      BY DEF WorkerState
    <2>2. PICK code \in Code : Become(w, "watching", worker[w].job, code)
      BY <1>4 DEF FirstLook
    <2> HIDE DEF Code
    <2>3. worker' \in [Worker -> WorkerState]
      BY <2>1, <2>2, BecomeType DEF At
    <2> QED
      BY <1>4, <2>3 DEF FirstLook
  <1>5. CASE Reap(w)
    <2>1. worker[w].job \in Job \cup {None} /\ worker[w].code \in Code
      BY DEF WorkerState
    <2> DEFINE code == IF worker[w].code = None THEN Exit(worker[w].job) ELSE worker[w].code
    <2>2. code \in Code /\ Become(w, "reaped", worker[w].job, code)
      BY <1>5, <2>1 DEF Exit, Reap
    <2> HIDE DEF code, Code
    <2>3. worker' \in [Worker -> WorkerState]
      BY <2>1, <2>2, BecomeType DEF At
    <2> QED
      BY <1>5, <2>3 DEF Reap
  <1>6. CASE Tell(w)
    BY <1>6, GoType DEF Tell, Record, At
  <1>7. CASE RemoveFromRunning(w)
    BY <1>7 DEF RemoveFromRunning, WorkerState, Polling
  <1>8. CASE StartWorker(w)
    BY <1>8, GoType DEF StartWorker, At
  <1>9. CASE Retire(w)
    BY <1>9 DEF Retire, WorkerState, Down
  <1>10. CASE Stop(w)
    BY <1>10 DEF Stop, WorkerState, Down
  <1> QED
    BY <1>1, <1>2, <1>3, <1>4, <1>5, <1>6, <1>7, <1>8, <1>9, <1>10 DEF WorkerStep

LEMMA RestType ==
    ASSUME TypeOK, \/ \E j \in Job : ChildStep(j) \/ KeyExpires(j) \/ RecordExpires(j)
                   \/ \E q \in Queue : ClearQueue(q)
                   \/ ClearJobs
    PROVE  TypeOK'
  <1> USE DEF TypeOK, db, redis, process, bounds, Clearing
  <1>1. ASSUME NEW j \in Job, ChildStep(j) PROVE TypeOK'
    BY <1>1 DEF ChildStep, ChildRead, ChildSave, ChildFail, Child
  <1>2. ASSUME NEW j \in Job, KeyExpires(j) PROVE TypeOK'
    BY <1>2 DEF KeyExpires
  <1>3. ASSUME NEW j \in Job, RecordExpires(j) PROVE TypeOK'
    BY <1>3 DEF RecordExpires, Record
  <1>4. ASSUME NEW q \in Queue, ClearQueue(q) PROVE TypeOK'
    BY <1>4 DEF ClearQueue
  <1>5. ASSUME ClearJobs PROVE TypeOK'
    BY <1>5 DEF ClearJobs
  <1> QED
    BY <1>1, <1>2, <1>3, <1>4, <1>5

\* Every variable keeps its shape under every step of requests, workers,
\* children, administrators and time.
THEOREM TypeCorrect == Spec => []TypeOK
  <1>1. TypeOK /\ [Next]_vars => TypeOK'
    <2> SUFFICES ASSUME TypeOK, [Next]_vars PROVE TypeOK'
      OBVIOUS
    <2>1. CASE UNCHANGED vars
      BY <2>1 DEF vars, db, redis, process, bounds, TypeOK
    <2> QED
      BY <2>1, RequestType, WorkerType, RestType DEF Next
  <1> QED
    BY InitType, <1>1, PTL DEF Spec

------------------------------------------------------------------------------
\* Where a job is.  RunOnce is not inductive: it holds because a job is in one
\* list once or in the hands of one worker, and is started only from there.

Pushed(j) == request[j] \in {"pushed", "recorded", "ended"}

\* Every list holds each job at most once, jobs of its queue that have been
\* pushed and not been started, and that no worker holds.
Listed(q, i) ==
    /\ Goes[list[q][i]] = q
    /\ starts[list[q][i]] = 0 /\ Pushed(list[q][i])
    /\ \A k \in DOMAIN list[q] : list[q][i] = list[q][k] => i = k
    /\ \A w \in Worker : worker[w].job # list[q][i]

InLists == \A q \in Queue : \A i \in DOMAIN list[q] : Listed(q, i)

\* A worker holds a job from when it pops it until it is done with it.
InHands ==
    \A w \in Worker :
      /\ worker[w].job = None <=> worker[w].at \in {"down", "poll"}
      /\ worker[w].job # None =>
           /\ Pushed(worker[w].job)
           /\ starts[worker[w].job] = IF worker[w].at \in {"popped", "marked"} THEN 0 ELSE 1
           /\ \A v \in Worker : worker[v].job = worker[w].job => v = w

Started ==
    \A j \in Job : /\ starts[j] \in {0, 1}
                   /\ starts[j] = 0 <=> child[j] = "none"
                   /\ starts[j] = 1 => Pushed(j)

Fine(j) == child[j] \in {"ok", "skipped"}

\* What is told of a job, and what its worker is about to tell.
Told ==
    /\ \A j \in Job : record[j] = "completed" => Fine(j)
    /\ \A w \in Worker : worker[w].code = "ok" =>
         worker[w].at \in {"reaped", "told"} /\ Fine(worker[w].job)

Inv == TypeOK /\ InLists /\ InHands /\ Started /\ Told

LEMMA InitInv == Init => Inv
  <1> SUFFICES ASSUME Init PROVE Inv
    OBVIOUS
  <1>1. TypeOK
    BY InitType
  <1>2. InLists
    BY DEF Init, InLists, Listed
  <1>3. InHands
    BY QueueAssumption DEF Init, InHands, Polling
  <1>4. Started
    BY DEF Init, Started
  <1>5. Told
    BY QueueAssumption DEF Init, Told, Polling
  <1> QED
    BY <1>1, <1>2, <1>3, <1>4, <1>5 DEF Inv

\* The steps of a request after which the job has come further, and is where it was.
LEMMA RequestInv ==
    ASSUME Inv, TypeOK', NEW j \in Job,
           \/ CreateJob(j) \/ EnqueueRecord(j) \/ UpdateJobProcessId(j) \/ Kill(j)
    PROVE  Inv'
  <1> USE DEF Inv, db, redis, process, bounds
  <1>1. /\ UNCHANGED <<list, worker, starts, child>>
        /\ \A k \in Job : Pushed(k) => Pushed(k)'
        /\ \A k \in Job : record'[k] = "completed" => record[k] = "completed"
    BY DEF CreateJob, EnqueueRecord, UpdateJobProcessId, Kill, Advance, Pushed, TypeOK,
           Request
  <1>2. InLists'
    <2> SUFFICES ASSUME NEW q \in Queue, NEW i \in DOMAIN list[q]
                 PROVE  Listed(q, i)'
      BY <1>1 DEF InLists
    <2>1. Listed(q, i) /\ list[q][i] \in Job
      BY DEF InLists, TypeOK
    <2> QED
      BY <1>1, <2>1 DEF Listed
  <1>3. InHands'
    BY <1>1, HeldType DEF InHands, TypeOK
  <1>4. Started'
    BY <1>1 DEF Started
  <1>5. Told'
    BY <1>1 DEF Told, Fine
  <1> QED
    BY <1>2, <1>3, <1>4, <1>5

LEMMA EnqueueInv ==
    ASSUME Inv, TypeOK', NEW j \in Job, Enqueue(j)
    PROVE  Inv'
  <1> USE DEF Inv, db, redis, process, bounds
  <1> DEFINE q == Goes[j]
  <1>1. /\ UNCHANGED <<worker, starts, child>>
        /\ \A k \in Job : Pushed(k) => Pushed(k)'
        /\ ~Pushed(j) /\ Pushed(j)'
        /\ \A k \in Job : record'[k] = "completed" => record[k] = "completed"
    BY DEF Enqueue, Advance, Pushed, TypeOK, Request
  <1>2. /\ q \in Queue /\ list[q] \in Seq(Job)
        /\ list' = [list EXCEPT ![q] = Append(list[q], j)]
    BY QueueAssumption DEF Enqueue, TypeOK
  <1>3. starts[j] = 0 /\ \A w \in Worker : worker[w].job # j
    BY <1>1, QueueAssumption DEF Started, InHands
  <1>4. InLists'
    <2> SUFFICES ASSUME NEW p \in Queue, NEW i \in DOMAIN list'[p]
                 PROVE  Listed(p, i)'
      BY DEF InLists
    <2>1. CASE p # q
      <3>1. list'[p] = list[p]
        BY <1>2, <2>1 DEF TypeOK
      <3>2. list[p][i] \in Job
        BY <3>1 DEF TypeOK
      <3> QED
        BY <1>1, <3>1, <3>2 DEF InLists, Listed
    <2>2. CASE p = q
      <3>1. list'[p] = Append(list[q], j)
        BY <1>2, <2>2 DEF TypeOK
      <3>2. ASSUME NEW k \in DOMAIN list[q]
            PROVE  list[q][k] \in Job /\ list[q][k] # j
        BY <1>1, <1>2, <3>2 DEF InLists, Listed
      <3>3. /\ DOMAIN list'[p] = DOMAIN list[q] \cup {Len(list[q]) + 1}
            /\ Len(list[q]) + 1 \notin DOMAIN list[q]
            /\ \A k \in DOMAIN list[q] : list'[p][k] = list[q][k]
            /\ list'[p][Len(list[q]) + 1] = j
        BY <1>2, <3>1
      <3>4. CASE i \in DOMAIN list[q]
        <4>1. Listed(q, i)
          BY <1>2, <3>4 DEF InLists
        <4>2. /\ list'[p][i] = list[q][i] /\ list[q][i] \in Job /\ list[q][i] # j
          BY <3>2, <3>3, <3>4
        <4>3. \A k \in DOMAIN list'[p] : list'[p][i] = list'[p][k] => i = k
          BY <3>3, <4>1, <4>2 DEF Listed
        <4> QED
          BY <1>1, <2>2, <4>1, <4>2, <4>3 DEF Listed
      <3>5. CASE i = Len(list[q]) + 1
        BY <1>1, <1>3, <2>2, <3>2, <3>3, <3>5 DEF Listed
      <3> QED
        BY <3>3, <3>4, <3>5
    <2> QED
      BY <2>1, <2>2
  <1>5. InHands'
    BY <1>1, HeldType DEF InHands, TypeOK
  <1>6. Started'
    BY <1>1 DEF Started
  <1>7. Told'
    BY <1>1 DEF Told, Fine
  <1> QED
    BY <1>4, <1>5, <1>6, <1>7

\* Nothing moves: requests, lists and starts are as they were, and every worker
\* holds the job it held.
LEMMA ListsKept ==
    ASSUME InLists, UNCHANGED <<request, list, starts>>,
           \A w \in Worker : worker'[w].job \in {worker[w].job, None},
           \A q \in Queue : \A i \in DOMAIN list[q] : list[q][i] # None
    PROVE  InLists'
  <1> SUFFICES ASSUME NEW q \in Queue, NEW i \in DOMAIN list[q]
               PROVE  Listed(q, i)'
    BY DEF InLists
  <1>1. Listed(q, i) /\ list[q][i] # None
    BY DEF InLists
  <1> QED
    BY <1>1 DEF Listed, Pushed

LEMMA NoneListed ==
    ASSUME TypeOK
    PROVE  \A q \in Queue : \A i \in DOMAIN list[q] : list[q][i] \in Job /\ list[q][i] # None
  BY QueueAssumption DEF TypeOK

LEMMA DequeueInv ==
    ASSUME Inv, TypeOK', NEW w \in Worker, Dequeue(w)
    PROVE  Inv'
  <1> USE DEF Inv, db, redis, process, bounds
  <1> DEFINE q == Serves[w]  j == Head(list[q])
  <1>1. /\ q \in Queue /\ list[q] \in Seq(Job) /\ list[q] # << >>
        /\ list' = [list EXCEPT ![q] = Tail(list[q])]
        /\ worker[w].at = "poll"
        /\ worker' = [worker EXCEPT ![w] = [at |-> "popped", job |-> j, code |-> None]]
        /\ UNCHANGED <<request, starts, child, record>>
    BY QueueAssumption DEF Dequeue, Become, TypeOK
  <1>2. /\ j \in Job /\ j = list[q][1] /\ 1 \in DOMAIN list[q]
        /\ \A i \in DOMAIN Tail(list[q]) :
             i + 1 \in DOMAIN list[q] /\ i + 1 # 1 /\ Tail(list[q])[i] = list[q][i + 1]
    <2> HIDE DEF q
    <2> QED
      BY <1>1, HeadTail
  <1> HIDE DEF j
  <1>3. Listed(q, 1) /\ worker[w].job = None
    BY <1>1, <1>2 DEF InLists, InHands
  <1>4. /\ worker'[w].job = j /\ worker'[w].at = "popped" /\ worker'[w].code = None
        /\ \A v \in Worker \ {w} : worker'[v] = worker[v] /\ worker[v].job # j
    BY <1>1, <1>2, <1>3 DEF Listed, TypeOK
  <1>5. InLists'
    <2> SUFFICES ASSUME NEW p \in Queue, NEW i \in DOMAIN list'[p]
                 PROVE  Listed(p, i)'
      BY DEF InLists
    <2>1. CASE p # q
      <3>1. list'[p] = list[p]
        BY <1>1, <2>1 DEF TypeOK
      <3>2. Listed(p, i) /\ list[p][i] # j
        BY <1>2, <1>3, <2>1, <3>1 DEF InLists, Listed
      <3> QED
        BY <1>1, <1>4, <3>1, <3>2 DEF Listed, Pushed
    <2>2. CASE p = q
      <3>1. list'[p] = Tail(list[q])
        BY <1>1, <2>2 DEF TypeOK
      <3>2. Listed(q, i + 1) /\ list'[p][i] = list[q][i + 1] /\ list[q][i + 1] # j
        BY <1>2, <1>3, <2>2, <3>1 DEF InLists, Listed
      <3>3. ASSUME NEW k \in DOMAIN list'[p], list'[p][i] = list'[p][k] PROVE i = k
        <4>1. Tail(list[q])[k] = list[q][k + 1] /\ k + 1 \in DOMAIN list[q]
          BY <1>2, <3>1
        <4>2. i \in Nat /\ k \in Nat
          <5>1. list'[p] \in Seq(Job)
            BY DEF TypeOK
          <5> QED
            BY <5>1, <3>3
        <4>3. i + 1 = k + 1
          BY <3>1, <3>2, <3>3, <4>1 DEF Listed
        <4> QED
          BY <4>2, <4>3
      <3> QED
        BY <1>1, <1>4, <2>2, <3>2, <3>3 DEF Listed, Pushed
    <2> QED
      BY <2>1, <2>2
  <1>6. InHands'
    <2> SUFFICES ASSUME NEW v \in Worker
                 PROVE  /\ worker'[v].job = None <=> worker'[v].at \in {"down", "poll"}
                        /\ worker'[v].job # None =>
                             /\ Pushed(worker'[v].job)
                             /\ starts[worker'[v].job] =
                                  IF worker'[v].at \in {"popped", "marked"} THEN 0 ELSE 1
                             /\ \A u \in Worker : worker'[u].job = worker'[v].job => u = v
      BY <1>1 DEF InHands, Pushed
    <2>1. CASE v = w
      BY <1>2, <1>3, <1>4, <2>1, QueueAssumption DEF Listed
    <2>2. CASE v # w
      BY <1>4, <2>2 DEF InHands
    <2> QED
      BY <2>1, <2>2
  <1>7. Started'
    BY <1>1 DEF Started, Pushed
  <1>8. Told'
    BY <1>1, <1>4, QueueAssumption DEF Told, Fine
  <1> QED
    BY <1>5, <1>6, <1>7, <1>8

\* A worker goes on with its job, on the same side of its start.
LEMMA HandsKept ==
    ASSUME Inv, NEW w \in Worker, NEW at \in At, NEW code \in Code,
           Become(w, at, worker[w].job, code), UNCHANGED <<request, starts>>,
           worker[w].at \notin {"down", "poll"}, at \notin {"down", "poll"},
           worker[w].at \in {"popped", "marked"} <=> at \in {"popped", "marked"}
    PROVE  InHands'
  <1> USE DEF Inv
  <1>1. /\ worker'[w] = [at |-> at, job |-> worker[w].job, code |-> code]
        /\ \A v \in Worker \ {w} : worker'[v] = worker[v]
        /\ \A v \in Worker : worker'[v].job = worker[v].job
    BY DEF Become, TypeOK
  <1> QED
    BY <1>1 DEF InHands, Pushed

\* A worker that lets its job go, and so does not wait to tell of one.
LEMMA ReleaseInv ==
    ASSUME Inv, TypeOK', NEW w \in Worker, NEW at \in {"down", "poll"},
           worker' = [worker EXCEPT ![w] = [at |-> at, job |-> None, code |-> None]],
           UNCHANGED <<request, list, starts, child, record>>
    PROVE  Inv'
  <1> USE DEF Inv
  <1>1. /\ worker'[w] = [at |-> at, job |-> None, code |-> None]
        /\ \A v \in Worker \ {w} : worker'[v] = worker[v]
    BY DEF TypeOK
  <1>2. InLists'
    BY <1>1, ListsKept, NoneListed
  <1>3. InHands'
    BY <1>1 DEF InHands, Pushed
  <1>4. Started'
    BY DEF Started, Pushed
  <1>5. Told'
    BY <1>1, QueueAssumption DEF Told, Fine
  <1> QED
    BY <1>2, <1>3, <1>4, <1>5

LEMMA GoKeeps ==
    ASSUME TypeOK, NEW w \in Worker, NEW from, NEW to, Go(w, from, to)
    PROVE  /\ worker[w].at = from
           /\ worker[w].job \in Job \cup {None} /\ worker[w].code \in Code
           /\ Become(w, to, worker[w].job, worker[w].code)
           /\ worker'[w] = [at |-> to, job |-> worker[w].job, code |-> worker[w].code]
           /\ \A v \in Worker \ {w} : worker'[v] = worker[v]
           /\ \A v \in Worker : worker'[v].job = worker[v].job
  BY DEF Go, Become, TypeOK, WorkerState

LEMMA WorkInv ==
    ASSUME Inv, TypeOK', NEW w \in Worker,
           MarkRunning(w) \/ FirstLook(w) \/ Reap(w) \/ Tell(w)
    PROVE  Inv'
  <1> USE DEF Inv, db, redis, process, bounds
  <1> DEFINE j == worker[w].job
  <1>1. UNCHANGED <<request, list, starts, child>>
    BY DEF MarkRunning, FirstLook, Reap, Tell
  <1>2. Started'
    BY <1>1 DEF Started, Pushed
  <1>3. CASE MarkRunning(w)
    <2>1. /\ worker[w].at = "popped" /\ worker[w].code \in Code
          /\ Become(w, "marked", j, worker[w].code)
          /\ worker'[w] = [at |-> "marked", job |-> j, code |-> worker[w].code]
          /\ \A v \in Worker \ {w} : worker'[v] = worker[v]
      BY <1>3, GoKeeps DEF MarkRunning
    <2>2. InHands'
      BY <1>1, <2>1, HandsKept DEF At
    <2>3. InLists'
      BY <1>1, <2>1, ListsKept, NoneListed
    <2>4. \A k \in Job : record'[k] = "completed" => Fine(k)
      BY <1>3, <2>1 DEF MarkRunning, Told, TypeOK
    <2>5. Told'
      BY <1>1, <2>1, <2>4 DEF Told, Fine
    <2> QED
      BY <1>2, <2>2, <2>3, <2>5
  <1>4. CASE FirstLook(w)
    <2>1. PICK code \in {None, "lost"} : Become(w, "watching", j, code)
      BY <1>4 DEF FirstLook
    <2>2. /\ worker[w].at = "launched" /\ record' = record
          /\ worker'[w] = [at |-> "watching", job |-> j, code |-> code]
          /\ \A v \in Worker \ {w} : worker'[v] = worker[v]
      BY <1>4, <2>1 DEF FirstLook, Become, TypeOK
    <2>3. InHands'
      BY <1>1, <2>1, <2>2, HandsKept DEF At, Code
    <2>4. InLists'
      BY <1>1, <2>2, ListsKept, NoneListed
    <2>5. Told'
      BY <1>1, <2>2, QueueAssumption DEF Told, Fine
    <2> QED
      BY <1>2, <2>3, <2>4, <2>5
  <1>5. CASE Reap(w)
    <2> DEFINE code == IF worker[w].code = None THEN Exit(j) ELSE worker[w].code
    <2>1. Become(w, "reaped", j, code) /\ code \in Code
      BY <1>5 DEF Reap, Exit, Code, TypeOK, WorkerState
    <2>2. /\ worker[w].at = "watching" /\ record' = record /\ Ended(j)
          /\ worker'[w] = [at |-> "reaped", job |-> j, code |-> code]
          /\ \A v \in Worker \ {w} : worker'[v] = worker[v]
      BY <1>5, <2>1 DEF Reap, Become, TypeOK
    <2>3. code = "ok" => Fine(j)
      BY <2>2 DEF Told, Fine, Ended, Exit
    <2> HIDE DEF code
    <2>4. InHands'
      BY <1>1, <2>1, <2>2, HandsKept DEF At
    <2>5. InLists'
      BY <1>1, <2>2, ListsKept, NoneListed
    <2>6. Told'
      BY <1>1, <2>2, <2>3 DEF Told, Fine
    <2> QED
      BY <1>2, <2>4, <2>5, <2>6
  <1>6. CASE Tell(w)
    <2>1. /\ worker[w].at = "reaped" /\ worker[w].code \in Code
          /\ Become(w, "told", j, worker[w].code)
          /\ worker'[w] = [at |-> "told", job |-> j, code |-> worker[w].code]
          /\ \A v \in Worker \ {w} : worker'[v] = worker[v]
      BY <1>6, GoKeeps DEF Tell
    <2>2. InHands'
      BY <1>1, <2>1, HandsKept DEF At
    <2>3. InLists'
      BY <1>1, <2>1, ListsKept, NoneListed
    <2>4. \A k \in Job : record'[k] = "completed" => Fine(k)
      BY <1>6, <2>1 DEF Tell, Told, TypeOK
    <2>5. Told'
      BY <1>1, <2>1, <2>4 DEF Told, Fine
    <2> QED
      BY <1>2, <2>2, <2>3, <2>5
  <1> QED
    BY <1>3, <1>4, <1>5, <1>6

\* A job that is started is in no list and in no other hands.
LEMMA LaunchInv ==
    ASSUME Inv, TypeOK', NEW w \in Worker, Launch(w)
    PROVE  Inv'
  <1> USE DEF Inv, db, redis, process, bounds
  <1> DEFINE j == worker[w].job
  <1>1. /\ Go(w, "marked", "launched") /\ UNCHANGED <<request, list, record>>
        /\ child' = [child EXCEPT ![j] = "started"]
        /\ starts' = [starts EXCEPT ![j] = starts[j] + 1]
    BY DEF Launch
  <1>2. /\ worker[w].at = "marked"
        /\ worker'[w] = [at |-> "launched", job |-> j, code |-> worker[w].code]
        /\ \A v \in Worker \ {w} : worker'[v] = worker[v]
        /\ \A v \in Worker : worker'[v].job = worker[v].job
    BY <1>1, GoKeeps
  <1>3. /\ j \in Job /\ starts[j] = 0 /\ Pushed(j) /\ child[j] = "none"
        /\ \A v \in Worker \ {w} : worker[v].job # j
    BY <1>2, HeldType DEF InHands, Started, TypeOK
  <1>4. /\ starts'[j] = 1 /\ child'[j] = "started"
        /\ \A k \in Job \ {j} : starts'[k] = starts[k] /\ child'[k] = child[k]
    BY <1>1, <1>3 DEF TypeOK
  <1> HIDE DEF j
  <1>5. InLists'
    <2> SUFFICES ASSUME NEW q \in Queue, NEW i \in DOMAIN list[q]
                 PROVE  Listed(q, i)'
      BY <1>1 DEF InLists
    <2>1. Listed(q, i) /\ list[q][i] \in Job
      BY DEF InLists, TypeOK
    <2>2. list[q][i] # j
      BY <2>1 DEF Listed, j
    <2> QED
      BY <1>1, <1>2, <1>4, <2>1, <2>2 DEF Listed, Pushed
  <1>6. InHands'
    <2> SUFFICES ASSUME NEW v \in Worker
                 PROVE  /\ worker'[v].job = None <=> worker'[v].at \in {"down", "poll"}
                        /\ worker'[v].job # None =>
                             /\ Pushed(worker'[v].job)
                             /\ starts'[worker'[v].job] =
                                  IF worker'[v].at \in {"popped", "marked"} THEN 0 ELSE 1
                             /\ \A u \in Worker : worker'[u].job = worker'[v].job => u = v
      BY <1>1 DEF InHands, Pushed
    <2>1. CASE v = w
      BY <1>2, <1>3, <1>4, <2>1, QueueAssumption
    <2>2. CASE v # w
      <3>1. worker[v].job # None => worker[v].job \in Job \ {j}
        BY <1>3, <2>2, HeldType DEF TypeOK
      <3> QED
        BY <1>2, <1>4, <2>2, <3>1 DEF InHands
    <2> QED
      BY <2>1, <2>2
  <1>7. Started'
    BY <1>1, <1>3, <1>4 DEF Started, Pushed
  <1>8. Told'
    <2>1. ASSUME NEW k \in Job, record[k] = "completed" PROVE Fine(k)'
      BY <1>3, <1>4, <2>1 DEF Told, Fine
    <2>2. ASSUME NEW v \in Worker, worker'[v].code = "ok"
          PROVE  worker'[v].at \in {"reaped", "told"} /\ Fine(worker[v].job)'
      <3>1. v # w /\ worker[v].at \in {"reaped", "told"} /\ Fine(worker[v].job)
        BY <1>2, <2>2 DEF Told
      <3>2. worker[v].job \in Job \ {j}
        BY <1>3, <3>1, HeldType DEF InHands, TypeOK
      <3> QED
        BY <1>2, <1>4, <3>1, <3>2 DEF Fine
    <2> QED
      BY <1>1, <2>1, <2>2 DEF Told
  <1> QED
    BY <1>5, <1>6, <1>7, <1>8

LEMMA WorkerInv ==
    ASSUME Inv, TypeOK', NEW w \in Worker, WorkerStep(w) \/ Retire(w) \/ Stop(w)
    PROVE  Inv'
  <1> USE DEF db, redis, process, bounds
  <1>1. CASE RemoveFromRunning(w)
    BY <1>1, ReleaseInv DEF RemoveFromRunning, Polling
  <1>2. CASE StartWorker(w)
    <2>1. /\ Go(w, "down", "poll") /\ worker[w].job = None /\ TypeOK
          /\ UNCHANGED <<request, list, starts, child, record>>
      <3>1. Go(w, "down", "poll") /\ UNCHANGED <<request, list, starts, child, record>>
        BY <1>2 DEF StartWorker
      <3> QED
        BY <3>1 DEF Go, Inv, InHands
    <2>2. worker[w].code # "ok"
      <3>1. worker[w].at = "down"
        BY <2>1 DEF Go
      <3> QED
        BY <3>1 DEF Inv, Told
    <2>3. /\ worker'[w] = [at |-> "poll", job |-> None, code |-> worker[w].code]
          /\ \A v \in Worker \ {w} : worker'[v] = worker[v]
      BY <2>1, GoKeeps
    <2>4. InLists'
      BY <2>1, <2>3, ListsKept, NoneListed DEF Inv
    <2>5. InHands'
      BY <2>1, <2>3 DEF Inv, InHands, Pushed
    <2>6. Started'
      BY <2>1 DEF Inv, Started, Pushed
    <2>7. Told'
      BY <2>1, <2>2, <2>3 DEF Inv, Told, Fine
    <2> QED
      BY <2>4, <2>5, <2>6, <2>7 DEF Inv
  <1>3. CASE Retire(w)
    BY <1>3, ReleaseInv DEF Retire, Down
  <1>4. CASE Stop(w)
    BY <1>4, ReleaseInv DEF Stop, Down
  <1> QED
    BY <1>1, <1>2, <1>3, <1>4, DequeueInv, WorkInv, LaunchInv DEF WorkerStep

LEMMA ChildInv ==
    ASSUME Inv, TypeOK', NEW j \in Job, ChildStep(j)
    PROVE  Inv'
  <1> USE DEF db, redis, process, bounds
  <1>1. /\ UNCHANGED <<request, list, record, worker, starts>>
        /\ \A k \in Job : /\ Fine(k) => Fine(k)'
                          /\ child[k] = "none" <=> child'[k] = "none"
    BY DEF Inv, ChildStep, ChildRead, ChildSave, ChildFail, Alive, Fine, TypeOK
  <1>2. InLists' /\ InHands'
    BY <1>1, ListsKept, NoneListed DEF Inv, InHands, Pushed
  <1>3. Started'
    BY <1>1 DEF Inv, Started, Pushed
  <1>4. Told'
    <2>1. ASSUME NEW w \in Worker, worker[w].code = "ok"
          PROVE  worker[w].at \in {"reaped", "told"} /\ Fine(worker[w].job)'
      <3>1. worker[w].at \in {"reaped", "told"} /\ Fine(worker[w].job)
        BY <2>1 DEF Inv, Told
      <3>2. worker[w].job \in Job
        BY <3>1, HeldType DEF Inv, InHands, TypeOK
      <3> QED
        BY <1>1, <3>1, <3>2
    <2>2. \A k \in Job : record'[k] = "completed" => Fine(k)'
      BY <1>1 DEF Inv, Told
    <2> QED
      BY <1>1, <2>1, <2>2 DEF Told
  <1> QED
    BY <1>2, <1>3, <1>4 DEF Inv

LEMMA RestInv ==
    ASSUME Inv, TypeOK', \/ \E j \in Job : KeyExpires(j) \/ RecordExpires(j)
                         \/ \E q \in Queue : ClearQueue(q)
                         \/ ClearJobs
                         \/ UNCHANGED vars
    PROVE  Inv'
  <1> USE DEF db, redis, process, bounds
  <1>1. /\ UNCHANGED <<request, worker, starts, child>>
        /\ \A q \in Queue : list'[q] \in {list[q], << >>}
        /\ \A j \in Job : record'[j] = "completed" => record[j] = "completed"
    BY DEF Inv, KeyExpires, RecordExpires, ClearQueue, ClearJobs, vars, TypeOK
  <1>2. InLists'
    <2> SUFFICES ASSUME NEW q \in Queue, NEW i \in DOMAIN list'[q]
                 PROVE  Listed(q, i)'
      BY DEF InLists
    <2>1. list'[q] = list[q] /\ Listed(q, i)
      BY <1>1 DEF Inv, InLists
    <2> QED
      BY <1>1, <2>1 DEF Listed, Pushed
  <1>3. InHands' /\ Started'
    BY <1>1 DEF Inv, InHands, Started, Pushed
  <1>4. Told'
    BY <1>1 DEF Inv, Told, Fine
  <1> QED
    BY <1>2, <1>3, <1>4 DEF Inv

LEMMA Inductive == Inv /\ [Next]_vars => Inv'
  <1> SUFFICES ASSUME Inv, [Next]_vars PROVE Inv'
    OBVIOUS
  <1>1. TypeOK'
    BY RequestType, WorkerType, RestType
       DEF Inv, Next, vars, db, redis, process, bounds, TypeOK
  <1> QED
    BY <1>1, RequestInv, EnqueueInv, WorkerInv, ChildInv, RestInv DEF Next, RequestStep

LEMMA Always == Spec => []Inv
  BY InitInv, Inductive, PTL DEF Spec

\* However many workers, jobs and queues there are, and whatever is stopped,
\* cleared or expires, no job is started twice.
THEOREM StartedOnce == Spec => []RunOnce
  <1>1. Inv => RunOnce
    BY DEF Inv, Started, RunOnce
  <1> QED
    BY Always, <1>1, PTL

------------------------------------------------------------------------------
\* The queue implements OneRun.

Unpushed(j) == request[j] \in {"new", "created", "killed"}

LEMMA PhaseIs ==
    ASSUME NEW j \in Job, starts[j] \in {0, 1}
    PROVE  /\ starts[j] = 1 /\ Alive(j) => Phase(j) = "running"
           /\ starts[j] = 1 /\ ~Alive(j) => Phase(j) = Exit(j)
           /\ starts[j] = 0 /\ Waits(j) => Phase(j) = "waiting"
           /\ starts[j] = 0 /\ ~Waits(j) /\ Unpushed(j) => Phase(j) = "new"
           /\ starts[j] = 0 /\ ~Waits(j) /\ ~Unpushed(j) => Phase(j) = "lost"
  <1> USE DEF Unpushed
  <1>1. starts[j] = 1 => Phase(j) = IF Alive(j) THEN "running" ELSE Exit(j)
    BY DEF Phase
  <1>2. starts[j] = 0 => Phase(j) = IF Waits(j) THEN "waiting"
                                    ELSE IF Unpushed(j) THEN "new" ELSE "lost"
    BY DEF Phase
  <1> QED
    BY <1>1, <1>2

LEMMA PhaseIsNext ==
    ASSUME NEW j \in Job, starts'[j] \in {0, 1}
    PROVE  /\ starts'[j] = 1 /\ Alive(j)' => Phase(j)' = "running"
           /\ starts'[j] = 1 /\ ~Alive(j)' => Phase(j)' = Exit(j)'
           /\ starts'[j] = 0 /\ Waits(j)' => Phase(j)' = "waiting"
           /\ starts'[j] = 0 /\ ~Waits(j)' /\ Unpushed(j)' => Phase(j)' = "new"
           /\ starts'[j] = 0 /\ ~Waits(j)' /\ ~Unpushed(j)' => Phase(j)' = "lost"
  <1> USE DEF Unpushed
  <1>1. starts'[j] = 1 => Phase(j)' = IF Alive(j)' THEN "running" ELSE Exit(j)'
    BY DEF Phase
  <1>2. starts'[j] = 0 => Phase(j)' = IF Waits(j)' THEN "waiting"
                                      ELSE IF Unpushed(j)' THEN "new" ELSE "lost"
    BY DEF Phase
  <1> QED
    BY <1>1, <1>2

\* A job that waits has been pushed and not been started.
LEMMA WaitsPushed ==
    ASSUME Inv, NEW j \in Job, Waits(j)
    PROVE  starts[j] = 0 /\ Pushed(j) /\ ~Unpushed(j)
  <1>1. starts[j] = 0 /\ Pushed(j)
    <2>1. CASE \E i \in DOMAIN list[Goes[j]] : list[Goes[j]][i] = j
      BY <2>1, QueueAssumption DEF Inv, InLists, Listed
    <2>2. CASE \E w \in Worker : Holds(w, j)
      BY <2>2, QueueAssumption DEF Inv, InHands, Holds
    <2> QED
      BY <2>1, <2>2 DEF Waits
  <1> QED
    BY <1>1 DEF Pushed, Unpushed

\* A step that starts nothing, pushes nothing and tells nothing loses jobs at most.
LEMMA LoseStep ==
    ASSUME Inv, UNCHANGED <<starts, child, record>>,
           \A j \in Job : Waits(j)' => Waits(j),
           \A j \in Job : Unpushed(j)' <=> Unpushed(j)
    PROVE  Abstract!Lose
  <1>1. ASSUME NEW j \in Job
        PROVE  Phase(j)' = IF Phase(j) = "waiting" /\ ~Waits(j)' THEN "lost" ELSE Phase(j)
    <2>1. starts[j] \in {0, 1} /\ starts'[j] \in {0, 1}
      BY DEF Inv, Started
    <2>2. (Alive(j)' <=> Alive(j)) /\ Exit(j)' = Exit(j)
      BY DEF Alive, Exit
    <2>3. Waits(j) => starts[j] = 0 /\ ~Unpushed(j)
      BY WaitsPushed
    <2>4. Exit(j) # "waiting"
      BY DEF Exit
    <2> QED
      BY <2>1, <2>2, <2>3, <2>4, PhaseIs, PhaseIsNext
  <1> DEFINE gone == {j \in Job : Phase(j) = "waiting" /\ ~Waits(j)'}
  <1>2. gone \in SUBSET {j \in Job : [k \in Job |-> Phase(k)][j] = "waiting"}
    OBVIOUS
  <1>3. [j \in Job |-> Phase(j)]' =
          [j \in Job |-> IF j \in gone THEN "lost" ELSE [k \in Job |-> Phase(k)][j]]
    BY <1>1
  <1> QED
    BY <1>2, <1>3 DEF Abstract!Lose

\* A step that only tells of a job.
LEMMA TellStep ==
    ASSUME Inv, NEW j \in Job, NEW r \in Record, record' = [record EXCEPT ![j] = r],
           r = "completed" => Phase(j) = "ok",
           UNCHANGED <<starts, child>>, \A k \in Job : Waits(k)' <=> Waits(k),
           \A k \in Job : Unpushed(k)' <=> Unpushed(k)
    PROVE  Abstract!Tell(j) /\ UNCHANGED [k \in Job |-> Phase(k)]
  <1>1. ASSUME NEW k \in Job PROVE Phase(k)' = Phase(k)
    <2>1. starts[k] \in {0, 1} /\ starts'[k] \in {0, 1}
      BY DEF Inv, Started
    <2>2. (Alive(k)' <=> Alive(k)) /\ Exit(k)' = Exit(k)
      BY DEF Alive, Exit
    <2> QED
      BY <2>1, <2>2, PhaseIs, PhaseIsNext
  <1>2. UNCHANGED [k \in Job |-> Phase(k)]
    BY <1>1
  <1>3. Abstract!Tell(j)
    BY DEF Abstract!Tell, Abstract!Report, Record
  <1> QED
    BY <1>2, <1>3

\* The phase of one job changes.
LEMMA MoveStep ==
    ASSUME NEW j \in Job, \A k \in Job \ {j} : Phase(k)' = Phase(k),
           record' = record \/ \E r \in Record \ {"completed"} :
                                 record' = [record EXCEPT ![j] = r],
           \/ Phase(j) = "new" /\ Phase(j)' = "waiting"
           \/ Phase(j) = "waiting" /\ Phase(j)' = "running"
           \/ Phase(j) = "running" /\ Phase(j)' \in {"ok", "error"}
    PROVE  Abstract!Move(j)
  <1>1. [k \in Job |-> Phase(k)]' = [[k \in Job |-> Phase(k)] EXCEPT ![j] = Phase(j)']
    OBVIOUS
  <1>2. record' = record \/ Abstract!Tell(j)
    BY DEF Abstract!Tell, Abstract!Report, Record
  <1>3. [k \in Job |-> Phase(k)][j] = Phase(j)
    OBVIOUS
  <1> QED
    BY <1>1, <1>2, <1>3 DEF Abstract!Move, Abstract!Become

\* A job waits as before when it is still in its list and still in the same hands.
LEMMA WaitsKept ==
    ASSUME list' = list,
           \A w \in Worker : \A j \in Job : Holds(w, j)' <=> Holds(w, j)
    PROVE  \A j \in Job : Waits(j)' <=> Waits(j)
  BY DEF Waits

LEMMA KeptByRequest ==
    ASSUME Inv, Inv', NEW j \in Job, RequestStep(j) \/ Kill(j)
    PROVE  Abstract!Progress
  <1> USE DEF db, redis, process, bounds
  <1>1. UNCHANGED <<worker, starts, child>>
    BY DEF RequestStep, CreateJob, Enqueue, EnqueueRecord, UpdateJobProcessId, Kill
  <1>2. list' = list => \A k \in Job : Waits(k)' <=> Waits(k)
    BY <1>1, WaitsKept DEF Holds
  <1>3. CASE CreateJob(j) \/ UpdateJobProcessId(j) \/ Kill(j)
    <2>1. UNCHANGED <<list, record>> /\ \A k \in Job : Unpushed(k)' <=> Unpushed(k)
      BY <1>3 DEF CreateJob, UpdateJobProcessId, Kill, Advance, Unpushed, Inv, TypeOK, Request
    <2> QED
      BY <1>1, <1>2, <2>1, LoseStep DEF Abstract!Progress
  <1>4. CASE EnqueueRecord(j)
    <2>1. /\ list' = list /\ record' = [record EXCEPT ![j] = "waiting"]
          /\ \A k \in Job : Unpushed(k)' <=> Unpushed(k)
      BY <1>4 DEF EnqueueRecord, Advance, Unpushed, Inv, TypeOK, Request
    <2>2. Abstract!Tell(j) /\ UNCHANGED [k \in Job |-> Phase(k)]
      BY <1>1, <1>2, <2>1, TellStep DEF Record
    <2> QED
      BY <2>2 DEF Abstract!Progress
  <1>5. CASE Enqueue(j)
    <2>1. /\ Goes[j] \in Queue /\ list[Goes[j]] \in Seq(Job)
          /\ list' = [list EXCEPT ![Goes[j]] = Append(list[Goes[j]], j)]
          /\ Unpushed(j) /\ ~Pushed(j)
          /\ \A k \in Job \ {j} : Unpushed(k)' <=> Unpushed(k)
      BY <1>5, QueueAssumption
         DEF Enqueue, Advance, Unpushed, Pushed, Inv, TypeOK, Request
    <2>2. starts[j] = 0 /\ ~Waits(j)
      BY <2>1, WaitsPushed DEF Inv, Started
    <2>3. Phase(j) = "new"
      BY <2>1, <2>2, PhaseIs
    <2>4. Waits(j)'
      <3>1. /\ list'[Goes[j]] = Append(list[Goes[j]], j)
            /\ Len(list[Goes[j]]) + 1 \in DOMAIN list'[Goes[j]]
            /\ list'[Goes[j]][Len(list[Goes[j]]) + 1] = j
        BY <2>1 DEF Inv, TypeOK
      <3> QED
        BY <3>1 DEF Waits
    <2>5. Phase(j)' = "waiting"
      BY <1>1, <2>2, <2>4, PhaseIsNext
    <2>6. ASSUME NEW k \in Job \ {j} PROVE Phase(k)' = Phase(k)
      <3>1. Waits(k)' <=> Waits(k)
        <4>1. (\E i \in DOMAIN list'[Goes[k]] : list'[Goes[k]][i] = k)
                <=> \E i \in DOMAIN list[Goes[k]] : list[Goes[k]][i] = k
          <5>1. CASE Goes[k] = Goes[j]
            <6>1. list'[Goes[k]] = Append(list[Goes[j]], j)
              BY <2>1, <5>1 DEF Inv, TypeOK
            <6>2. /\ DOMAIN list'[Goes[k]] = DOMAIN list[Goes[j]] \cup {Len(list[Goes[j]]) + 1}
                  /\ \A i \in DOMAIN list[Goes[j]] : list'[Goes[k]][i] = list[Goes[j]][i]
                  /\ list'[Goes[k]][Len(list[Goes[j]]) + 1] = j
              BY <2>1, <6>1
            <6> QED
              BY <2>6, <5>1, <6>2
          <5>2. CASE Goes[k] # Goes[j]
            <6>1. list'[Goes[k]] = list[Goes[k]]
              BY <2>1, <5>2, QueueAssumption DEF Inv, TypeOK
            <6> QED
              BY <6>1
          <5> QED
            BY <5>1, <5>2
        <4>2. \A w \in Worker : Holds(w, k)' <=> Holds(w, k)
          BY <1>1 DEF Holds
        <4> QED
          BY <4>1, <4>2 DEF Waits
      <3>2. starts[k] \in {0, 1} /\ starts'[k] = starts[k]
        BY <1>1 DEF Inv, Started
      <3>3. (Alive(k)' <=> Alive(k)) /\ Exit(k)' = Exit(k)
        BY <1>1 DEF Alive, Exit
      <3>4. Unpushed(k)' <=> Unpushed(k)
        BY <2>1
      <3> QED
        BY <3>1, <3>2, <3>3, <3>4, PhaseIs, PhaseIsNext
    <2>7. record' = record \/ record' = [record EXCEPT ![j] = "waiting"]
      BY <1>5 DEF Enqueue
    <2>8. "waiting" \in Record \ {"completed"}
      BY DEF Record
    <2> QED
      BY <2>3, <2>5, <2>6, <2>7, <2>8, MoveStep DEF Abstract!Progress
  <1> QED
    BY <1>3, <1>4, <1>5 DEF RequestStep

LEMMA KeptByChild ==
    ASSUME Inv, Inv', NEW j \in Job, ChildStep(j)
    PROVE  \/ Abstract!Progress
           \/ UNCHANGED <<[k \in Job |-> Phase(k)], record>>
  <1> USE DEF db, redis, process, bounds
  <1>1. /\ UNCHANGED <<request, list, record, worker, starts>>
        /\ Alive(j) /\ child'[j] \in {"working", "skipped", "ok", "error"}
        /\ \A k \in Job \ {j} : child'[k] = child[k]
    BY DEF ChildStep, ChildRead, ChildSave, ChildFail, Alive, Inv, TypeOK
  <1>2. starts[j] = 1
    BY <1>1 DEF Inv, Started, Alive
  <1>3. ASSUME NEW k \in Job \ {j} PROVE Phase(k)' = Phase(k)
    <2>1. starts[k] \in {0, 1} /\ starts'[k] = starts[k]
      BY <1>1 DEF Inv, Started
    <2>2. (Alive(k)' <=> Alive(k)) /\ Exit(k)' = Exit(k)
      BY <1>1 DEF Alive, Exit
    <2>3. (Waits(k)' <=> Waits(k)) /\ (Unpushed(k)' <=> Unpushed(k))
      BY <1>1, WaitsKept DEF Holds, Unpushed
    <2> QED
      BY <2>1, <2>2, <2>3, PhaseIs, PhaseIsNext
  <1>4. Phase(j) = "running"
    BY <1>1, <1>2, PhaseIs
  <1>5. CASE child'[j] = "working"
    <2>1. Phase(j)' = "running"
      BY <1>1, <1>2, <1>5, PhaseIsNext DEF Alive
    <2> QED
      BY <1>1, <1>3, <1>4, <2>1
  <1>6. CASE child'[j] # "working"
    <2>1. ~Alive(j)' /\ Exit(j)' \in {"ok", "error"}
      BY <1>1, <1>6 DEF Alive, Exit
    <2>2. Phase(j)' \in {"ok", "error"}
      BY <1>1, <1>2, <2>1, PhaseIsNext
    <2> QED
      BY <1>1, <1>3, <1>4, <2>2, MoveStep DEF Abstract!Progress
  <1> QED
    BY <1>5, <1>6

LEMMA KeptByWorker ==
    ASSUME Inv, Inv', NEW w \in Worker, WorkerStep(w) \/ Retire(w) \/ Stop(w)
    PROVE  Abstract!Progress
  <1> USE DEF db, redis, process, bounds
  <1> DEFINE j == worker[w].job
  <1>1. request' = request /\ \A k \in Job : Unpushed(k)' <=> Unpushed(k)
    BY DEF WorkerStep, Dequeue, MarkRunning, Launch, FirstLook, Reap, Tell,
           RemoveFromRunning, StartWorker, Retire, Stop, Unpushed
  <1>2. ASSUME UNCHANGED <<list, starts, child, record>>,
               NEW v, worker' = [worker EXCEPT ![w] = v], v.at \notin {"popped", "marked"}
        PROVE  Abstract!Progress
    <2>1. \A k \in Job : \A u \in Worker : Holds(u, k)' => Holds(u, k)
      BY <1>2 DEF Holds, Inv, TypeOK
    <2>2. \A k \in Job : Waits(k)' => Waits(k)
      BY <1>2, <2>1 DEF Waits
    <2> QED
      BY <1>1, <1>2, <2>2, LoseStep DEF Abstract!Progress
  <1>3. CASE FirstLook(w)
    <2>1. PICK code : Become(w, "watching", j, code)
      BY <1>3 DEF FirstLook
    <2>2. UNCHANGED <<list, starts, child, record>>
      BY <1>3 DEF FirstLook
    <2> QED
      BY <1>2, <2>1, <2>2 DEF Become
  <1>4. CASE Reap(w)
    <2>1. \E code : Become(w, "reaped", j, code)
      BY <1>4 DEF Reap
    <2>2. UNCHANGED <<list, starts, child, record>>
      BY <1>4 DEF Reap
    <2> QED
      BY <1>2, <2>1, <2>2 DEF Become
  <1>5. CASE RemoveFromRunning(w) \/ Retire(w) \/ Stop(w)
    BY <1>2, <1>5 DEF RemoveFromRunning, Retire, Stop, Polling, Down
  <1>6. CASE StartWorker(w)
    BY <1>2, <1>6 DEF StartWorker, Go, Become
  <1>7. CASE Dequeue(w)
    <2> DEFINE q == Serves[w]  h == Head(list[q])
    <2>1. /\ q \in Queue /\ list[q] \in Seq(Job) /\ list[q] # << >>
          /\ list' = [list EXCEPT ![q] = Tail(list[q])]
          /\ worker' = [worker EXCEPT ![w] = [at |-> "popped", job |-> h, code |-> None]]
          /\ UNCHANGED <<starts, child, record>>
      BY <1>7, QueueAssumption DEF Dequeue, Become, Inv, TypeOK
    <2>2. /\ h = list[q][1] /\ 1 \in DOMAIN list[q]
          /\ \A i \in DOMAIN Tail(list[q]) :
               i + 1 \in DOMAIN list[q] /\ Tail(list[q])[i] = list[q][i + 1]
      <3> HIDE DEF q
      <3> QED
        BY <2>1, HeadTail
    <2>3. Goes[h] = q
      BY <2>1, <2>2 DEF Inv, InLists, Listed
    <2> HIDE DEF h
    <2>4. \A u \in Worker \ {w} : worker'[u] = worker[u]
      BY <2>1
    <2>5. worker'[w].job = h
      BY <2>1 DEF Inv, TypeOK
    <2>6. ASSUME NEW k \in Job, Waits(k)' PROVE Waits(k)
      <3>1. CASE k = h
        BY <2>2, <2>3, <3>1 DEF Waits
      <3>2. CASE k # h /\ \E u \in Worker : Holds(u, k)'
        BY <2>4, <2>5, <3>2 DEF Holds, Waits
      <3>3. CASE \E i \in DOMAIN list'[Goes[k]] : list'[Goes[k]][i] = k
        <4>1. CASE Goes[k] = q
          <5>1. list'[Goes[k]] = Tail(list[q])
            BY <2>1, <4>1 DEF Inv, TypeOK
          <5>2. PICK i \in DOMAIN Tail(list[q]) : Tail(list[q])[i] = k
            BY <3>3, <5>1
          <5>3. i + 1 \in DOMAIN list[q] /\ list[q][i + 1] = k
            BY <2>2, <5>2
          <5> QED
            BY <4>1, <5>3 DEF Waits
        <4>2. CASE Goes[k] # q
          <5>1. list'[Goes[k]] = list[Goes[k]]
            BY <2>1, <4>2, QueueAssumption DEF Inv, TypeOK
          <5> QED
            BY <3>3, <5>1 DEF Waits
        <4> QED
          BY <4>1, <4>2
      <3> QED
        BY <2>6, <3>1, <3>2, <3>3 DEF Waits
    <2> QED
      BY <1>1, <2>1, <2>6, LoseStep DEF Abstract!Progress
  <1>8. CASE MarkRunning(w)
    <2>1. Go(w, "popped", "marked")
      BY <1>8 DEF MarkRunning
    <2>2. /\ worker[w].at = "popped" /\ worker'[w].at = "marked"
          /\ \A v \in Worker \ {w} : worker'[v] = worker[v]
          /\ \A v \in Worker : worker'[v].job = worker[v].job
      <3>1. TypeOK
        BY DEF Inv
      <3>2. /\ worker[w].at = "popped"
            /\ worker'[w] = [at |-> "marked", job |-> worker[w].job, code |-> worker[w].code]
            /\ \A v \in Worker \ {w} : worker'[v] = worker[v]
            /\ \A v \in Worker : worker'[v].job = worker[v].job
        BY <2>1, <3>1, GoKeeps
      <3> QED
        BY <3>2
    <2>3. j \in Job
      BY <2>2, HeldType DEF Inv, InHands, TypeOK
    <2>4. /\ list' = list /\ UNCHANGED <<starts, child>>
          /\ record' = [record EXCEPT ![j] = "running"] /\ "running" \in Record
      BY <1>8 DEF MarkRunning, Record
    <2>5. \A k \in Job : Waits(k)' <=> Waits(k)
      BY <2>2, <2>4, WaitsKept DEF Holds
    <2>6. Abstract!Tell(j) /\ UNCHANGED [k \in Job |-> Phase(k)]
      BY <1>1, <2>3, <2>4, <2>5, TellStep
    <2> QED
      BY <2>3, <2>6 DEF Abstract!Progress
  <1>9. CASE Tell(w)
    <2> DEFINE r == IF worker[w].code = "ok" THEN "completed" ELSE "failed"
    <2>1. Go(w, "reaped", "told")
      BY <1>9 DEF Tell
    <2>2. /\ worker[w].at = "reaped" /\ worker'[w].at = "told"
          /\ \A v \in Worker \ {w} : worker'[v] = worker[v]
          /\ \A v \in Worker : worker'[v].job = worker[v].job
      <3>1. TypeOK
        BY DEF Inv
      <3>2. /\ worker[w].at = "reaped"
            /\ worker'[w] = [at |-> "told", job |-> worker[w].job, code |-> worker[w].code]
            /\ \A v \in Worker \ {w} : worker'[v] = worker[v]
            /\ \A v \in Worker : worker'[v].job = worker[v].job
        BY <2>1, <3>1, GoKeeps
      <3> QED
        BY <3>2
    <2>3. j \in Job /\ starts[j] = 1
      BY <2>2, HeldType DEF Inv, InHands, TypeOK
    <2>4. /\ list' = list /\ UNCHANGED <<starts, child>>
          /\ record' = [record EXCEPT ![j] = r] /\ r \in Record
      BY <1>9 DEF Tell, Record
    <2>5. r = "completed" => Phase(j) = "ok"
      <3>1. r = "completed" => Fine(j)
        BY DEF Inv, Told
      <3>2. Fine(j) => ~Alive(j) /\ Exit(j) = "ok"
        BY DEF Fine, Alive, Exit
      <3> QED
        BY <2>3, <3>1, <3>2, PhaseIs
    <2>6. \A k \in Job : Waits(k)' <=> Waits(k)
      BY <2>2, <2>4, WaitsKept DEF Holds
    <2> HIDE DEF r
    <2>7. Abstract!Tell(j) /\ UNCHANGED [k \in Job |-> Phase(k)]
      BY <1>1, <2>3, <2>4, <2>5, <2>6, TellStep
    <2> QED
      BY <2>3, <2>7 DEF Abstract!Progress
  <1>10. CASE Launch(w)
    <2>1. Go(w, "marked", "launched")
      BY <1>10 DEF Launch
    <2>2. /\ worker[w].at = "marked" /\ worker'[w].at = "launched"
          /\ \A v \in Worker \ {w} : worker'[v] = worker[v]
          /\ \A v \in Worker : worker'[v].job = worker[v].job
      <3>1. TypeOK
        BY DEF Inv
      <3>2. /\ worker[w].at = "marked"
            /\ worker'[w] = [at |-> "launched", job |-> worker[w].job, code |-> worker[w].code]
            /\ \A v \in Worker \ {w} : worker'[v] = worker[v]
            /\ \A v \in Worker : worker'[v].job = worker[v].job
        BY <2>1, <3>1, GoKeeps
      <3> QED
        BY <3>2
    <2>3. PICK x \in Job : x = worker[w].job /\ starts[x] = 0
      BY <2>2, HeldType DEF Inv, InHands, TypeOK
    <2>4. UNCHANGED <<list, record>>
      BY <1>10 DEF Launch
    <2>5. /\ child'[x] = "started" /\ starts'[x] = 1
          /\ \A k \in Job \ {x} : child'[k] = child[k] /\ starts'[k] = starts[k]
      BY <1>10, <2>3 DEF Launch, Inv, TypeOK
    <2>6. Phase(x) = "waiting"
      BY <2>2, <2>3, PhaseIs DEF Waits, Holds
    <2>7. Phase(x)' = "running"
      BY <2>3, <2>5, PhaseIsNext DEF Alive
    <2>8. ASSUME NEW k \in Job \ {x} PROVE Phase(k)' = Phase(k)
      <3>1. \A u \in Worker : Holds(u, k)' <=> Holds(u, k)
        BY <2>2, <2>3, <2>8 DEF Holds
      <3>2. Waits(k)' <=> Waits(k)
        BY <2>4, <3>1 DEF Waits
      <3>3. starts[k] \in {0, 1} /\ starts'[k] = starts[k]
        BY <2>5 DEF Inv, Started
      <3>4. (Alive(k)' <=> Alive(k)) /\ Exit(k)' = Exit(k)
        BY <2>5 DEF Alive, Exit
      <3> QED
        BY <1>1, <3>2, <3>3, <3>4, PhaseIs, PhaseIsNext
    <2> QED
      BY <2>3, <2>4, <2>6, <2>7, <2>8, MoveStep DEF Abstract!Progress
  <1> QED
    BY <1>3, <1>4, <1>5, <1>6, <1>7, <1>8, <1>9, <1>10 DEF WorkerStep

\* A job is started at most once or lost, and what is told as completed has ended
\* well, for all queues, workers and jobs: JobQueue implements OneRun.
THEOREM Kept == Spec => KeepsPromise
  <1>1. Init => Abstract!Start
    <2> SUFFICES ASSUME Init PROVE Abstract!Start
      OBVIOUS
    <2>1. ASSUME NEW j \in Job PROVE Phase(j) = "new"
      <3>1. starts[j] = 0 /\ Unpushed(j)
        BY DEF Init, Unpushed
      <3>2. ~Waits(j)
        BY QueueAssumption DEF Init, Waits, Holds, Polling
      <3> QED
        BY <3>1, <3>2, PhaseIs
    <2> QED
      BY <2>1 DEF Abstract!Start, Init
  <1>2. Inv /\ Inv' /\ [Next]_vars => [Abstract!Progress]_(Abstract!promise)
    <2> SUFFICES ASSUME Inv, Inv', [Next]_vars
                 PROVE  \/ Abstract!Progress
                        \/ UNCHANGED <<[k \in Job |-> Phase(k)], record>>
      BY DEF Abstract!promise
    <2>1. CASE UNCHANGED vars
      BY <2>1 DEF vars, db, redis, process, bounds, Phase, Alive, Exit, Waits, Holds
    <2>2. ASSUME NEW j \in Job, RecordExpires(j) PROVE Abstract!Progress
      <3>1. /\ UNCHANGED <<request, list, worker, starts, child>>
            /\ record' = [record EXCEPT ![j] = "none"]
        BY <2>2 DEF RecordExpires, process
      <3>2. Abstract!Tell(j) /\ UNCHANGED [k \in Job |-> Phase(k)]
        BY <3>1, WaitsKept, TellStep DEF Record, Holds, Unpushed
      <3> QED
        BY <3>2 DEF Abstract!Progress
    <2>3. ASSUME \/ \E j \in Job : KeyExpires(j)
                 \/ \E q \in Queue : ClearQueue(q)
                 \/ ClearJobs
          PROVE  Abstract!Progress
      <3>1. /\ UNCHANGED <<request, record, worker, starts, child>>
            /\ \A q \in Queue : list'[q] \in {list[q], << >>}
        BY <2>3 DEF KeyExpires, ClearQueue, ClearJobs, db, redis, process, bounds, Inv, TypeOK
      <3>2. \A k \in Job : Waits(k)' => Waits(k)
        BY <3>1, QueueAssumption DEF Waits, Holds
      <3> QED
        BY <3>1, <3>2, LoseStep DEF Unpushed, Abstract!Progress
    <2> QED
      BY <2>1, <2>2, <2>3, KeptByRequest, KeptByChild, KeptByWorker DEF Next
  <1> QED
    BY Always, <1>1, <1>2, PTL DEF Spec, KeepsPromise, Abstract!Promise

------------------------------------------------------------------------------
\* What is left when nobody was stopped: children with their workers, jobs that
\* are told.

\* Steps that are not a worker's.
Other == \/ \E j \in Job : RequestStep(j) \/ Kill(j) \/ ChildStep(j)
                           \/ KeyExpires(j) \/ RecordExpires(j)
         \/ \E q \in Queue : ClearQueue(q)
         \/ ClearJobs
         \/ UNCHANGED vars

LEMMA OtherKeeps ==
    ASSUME TypeOK, Other
    PROVE  /\ worker' = worker
           /\ stops' # 0 \/ stops' = stops
           /\ \A j \in Job : Alive(j)' => Alive(j)
  <1> USE DEF TypeOK, Alive, db, redis, process, bounds
  <1>1. ASSUME NEW j \in Job, RequestStep(j)
        PROVE  UNCHANGED <<worker, stops, child>>
    BY <1>1 DEF RequestStep, CreateJob, Enqueue, EnqueueRecord, UpdateJobProcessId
  <1>2. ASSUME NEW j \in Job, Kill(j)
        PROVE  UNCHANGED <<worker, child>> /\ stops' # 0
    BY <1>2 DEF Kill
  <1>3. ASSUME NEW j \in Job, ChildStep(j)
        PROVE  UNCHANGED <<worker, stops>> /\ \A k \in Job : Alive(k)' => Alive(k)
    BY <1>3 DEF ChildStep, ChildRead, ChildSave, ChildFail
  <1>4. ASSUME NEW j \in Job, KeyExpires(j) \/ RecordExpires(j)
        PROVE  UNCHANGED <<worker, stops, child>>
    BY <1>4 DEF KeyExpires, RecordExpires
  <1>5. ASSUME NEW q \in Queue, ClearQueue(q) PROVE UNCHANGED <<worker, stops, child>>
    BY <1>5 DEF ClearQueue
  <1>6. CASE ClearJobs
    BY <1>6 DEF ClearJobs
  <1>7. CASE UNCHANGED vars
    BY <1>7 DEF vars
  <1> QED
    BY <1>1, <1>2, <1>3, <1>4, <1>5, <1>6, <1>7 DEF Other

\* A worker leaves its job only when the child has ended.
LEMMA WatchedByWorker ==
    ASSUME Inv, NoneUnwatched, NEW w \in Worker, WorkerStep(w) \/ Retire(w) \/ Stop(w)
    PROVE  NoneUnwatched'
  <1> USE DEF db, redis, process, bounds
  <1> SUFFICES ASSUME stops' = 0, NEW j \in Job, Alive(j)' PROVE HasParent(j)'
    BY DEF NoneUnwatched
  <1>0. TypeOK
    BY DEF Inv
  <1>1. ASSUME child' = child, stops' = stops,
               HasParent(j) => HasParent(j)'
        PROVE  HasParent(j)'
    BY <1>1 DEF NoneUnwatched, Alive
  <1>2. ASSUME worker[w].at \notin {"launched", "watching"},
               \A v \in Worker \ {w} : worker'[v] = worker[v], HasParent(j)
        PROVE  HasParent(j)'
    BY <1>2 DEF HasParent
  <1>3. CASE Dequeue(w)
    BY <1>0, <1>1, <1>2, <1>3 DEF Dequeue, Become, TypeOK
  <1>4. CASE MarkRunning(w)
    BY <1>0, <1>1, <1>2, <1>4 DEF MarkRunning, Go, Become, TypeOK
  <1>5. CASE Launch(w)
    <2>1. /\ Go(w, "marked", "launched") /\ stops' = stops
          /\ child' = [child EXCEPT ![worker[w].job] = "started"]
      BY <1>5 DEF Launch
    <2>2. /\ worker'[w].at = "launched" /\ worker'[w].job = worker[w].job
          /\ worker[w].at = "marked" /\ \A v \in Worker \ {w} : worker'[v] = worker[v]
      BY <1>0, <2>1 DEF Go, Become, TypeOK
    <2>3. CASE worker[w].job = j
      BY <2>2, <2>3 DEF HasParent
    <2>4. CASE worker[w].job # j
      <3>1. Alive(j) /\ stops = 0
        BY <1>0, <2>1, <2>4 DEF Alive, TypeOK
      <3> QED
        BY <1>2, <2>2, <3>1 DEF NoneUnwatched
    <2> QED
      BY <2>3, <2>4
  <1>6. CASE FirstLook(w)
    <2>1. /\ worker'[w].at = "watching" /\ worker'[w].job = worker[w].job
          /\ \A v \in Worker \ {w} : worker'[v] = worker[v]
          /\ UNCHANGED <<child, stops>>
      BY <1>0, <1>6 DEF FirstLook, Become, TypeOK
    <2> QED
      BY <1>1, <2>1 DEF HasParent
  <1>7. CASE Reap(w)
    <2>1. /\ Ended(worker[w].job) /\ \A v \in Worker \ {w} : worker'[v] = worker[v]
          /\ UNCHANGED <<child, stops>>
      BY <1>0, <1>7 DEF Reap, Become, TypeOK
    <2>2. worker[w].job # j
      BY <2>1 DEF Ended, Alive
    <2> QED
      BY <1>1, <2>1, <2>2 DEF HasParent
  <1>8. CASE Tell(w)
    BY <1>0, <1>1, <1>2, <1>8 DEF Tell, Go, Become, TypeOK
  <1>9. CASE RemoveFromRunning(w)
    BY <1>0, <1>1, <1>2, <1>9 DEF RemoveFromRunning, TypeOK
  <1>10. CASE StartWorker(w)
    BY <1>0, <1>1, <1>2, <1>10 DEF StartWorker, Go, Become, TypeOK
  <1>11. CASE Retire(w)
    BY <1>0, <1>1, <1>2, <1>11 DEF Retire, TypeOK
  <1>12. CASE Stop(w)
    BY <1>0, <1>12 DEF Stop, TypeOK
  <1> QED
    BY <1>3, <1>4, <1>5, <1>6, <1>7, <1>8, <1>9, <1>10, <1>11, <1>12 DEF WorkerStep

\* As long as no process was stopped or died, a child runs only under the eyes of
\* the worker that started it: a queue never runs more jobs than it has workers,
\* however often they retire and are started again.
THEOREM ChildrenWatched == Spec => []NoneUnwatched
  <1>1. Init => NoneUnwatched
    BY DEF Init, NoneUnwatched, Alive
  <1>2. Inv /\ NoneUnwatched /\ [Next]_vars => NoneUnwatched'
    <2> SUFFICES ASSUME Inv, NoneUnwatched, [Next]_vars PROVE NoneUnwatched'
      OBVIOUS
    <2>1. CASE Other
      <3>1. /\ worker' = worker /\ (stops' # 0 \/ stops' = stops)
            /\ \A j \in Job : Alive(j)' => Alive(j)
        BY <2>1, OtherKeeps DEF Inv
      <3> QED
        BY <3>1 DEF NoneUnwatched, HasParent
    <2> QED
      BY <2>1, WatchedByWorker DEF Next, Other
  <1> QED
    BY <1>1, <1>2, Always, PTL DEF Spec

\* Where a job is when nothing was stopped: who is said to run is with a worker, and
\* a requested one is in a list, with a worker that has still to tell of it, or told.

Unserved(j) == \E q \in Queue : \E i \in DOMAIN list[q] : list[q][i] = j

With(w, j) == /\ worker[w].job = j
              /\ worker[w].at \in {"popped", "marked", "launched", "watching", "reaped"}

Keyed(w, j) == worker[w].job = j /\ worker[w].at \in {"watching", "reaped", "told"}

Final(j) == record[j] \in {"completed", "failed"}

Requested(j) ==
    /\ request[j] # "pushed"
    /\ request[j] \in {"recorded", "ended"} =>
          Unserved(j) \/ (\E w \in Worker : With(w, j)) \/ Final(j)

Accounted(j) ==
    /\ key[j] # None => \E w \in Worker : Keyed(w, j)
    /\ record[j] = "running" => \E w \in Worker : With(w, j)
    /\ Pipelined /\ clears = 0 => Requested(j)

AllAccounted == stops = 0 => \A j \in Job : Accounted(j)

LEMMA AccountedByOther ==
    ASSUME TypeOK, AllAccounted, Other
    PROVE  AllAccounted'
  <1> USE DEF db, redis, process, bounds
  <1> SUFFICES ASSUME stops' = 0, NEW k \in Job PROVE Accounted(k)'
    BY DEF AllAccounted
  <1>1. worker' = worker /\ stops = 0 /\ \A j \in Job : Accounted(j)
    BY OtherKeeps DEF AllAccounted
  <1>2. ASSUME request'[k] = request[k] \/ (request[k] = "recorded" /\ request'[k] = "ended")
                 \/ request'[k] = "created",
               UNCHANGED <<list, record, clears>>, key'[k] \in {key[k], None}
        PROVE  Accounted(k)'
    BY <1>1, <1>2 DEF Accounted, Requested, Unserved, With, Keyed, Final
  <1>3. ASSUME clears' # 0, record'[k] \in {record[k], "none"}, key' = key
        PROVE  Accounted(k)'
    BY <1>1, <1>3 DEF Accounted, With, Keyed
  <1>4. ASSUME NEW j \in Job, RequestStep(j) PROVE Accounted(k)'
    <2>1. CASE CreateJob(j)
      BY <1>2, <2>1 DEF CreateJob, Advance, TypeOK
    <2>2. CASE Enqueue(j)
      <3>1. /\ Goes[j] \in Queue /\ list[Goes[j]] \in Seq(Job)
            /\ list' = [list EXCEPT ![Goes[j]] = Append(list[Goes[j]], j)]
            /\ key' = key /\ clears' = clears
        BY <2>2, QueueAssumption DEF Enqueue, TypeOK
      <3>2. /\ record'[k] \in {record[k], "waiting"}
            /\ Pipelined => request' = [request EXCEPT ![j] = "recorded"]
            /\ k # j => request'[k] = request[k] /\ record'[k] = record[k]
        BY <2>2 DEF Enqueue, Advance, TypeOK
      <3>3. /\ key'[k] # None => \E w \in Worker : Keyed(w, k)'
            /\ record'[k] = "running" => \E w \in Worker : With(w, k)'
        BY <1>1, <3>1, <3>2 DEF Accounted, With, Keyed
      <3> SUFFICES ASSUME Pipelined, clears' = 0 PROVE Requested(k)'
        BY <3>3 DEF Accounted
      <3>4. CASE k = j
        <4>1. /\ Len(list[Goes[j]]) + 1 \in DOMAIN list'[Goes[j]]
              /\ list'[Goes[j]][Len(list[Goes[j]]) + 1] = j
          BY <3>1 DEF TypeOK
        <4>2. Unserved(k)'
          BY <3>1, <3>4, <4>1 DEF Unserved
        <4>3. request'[k] = "recorded"
          BY <3>2, <3>4 DEF TypeOK
        <4> QED
          BY <4>2, <4>3 DEF Requested
      <3>5. CASE k # j
        <4>1. Requested(k)
          BY <1>1, <3>1 DEF Accounted
        <4>2. ASSUME Unserved(k) PROVE Unserved(k)'
          <5>1. PICK q \in Queue : \E i \in DOMAIN list[q] : list[q][i] = k
            BY <4>2 DEF Unserved
          <5>2. PICK i \in DOMAIN list[q] : list[q][i] = k
            BY <5>1
          <5>3. i \in DOMAIN list'[q] /\ list'[q][i] = k
            BY <3>1, <5>2 DEF TypeOK
          <5> QED
            BY <5>3 DEF Unserved
        <4> QED
          BY <1>1, <3>2, <3>5, <4>1, <4>2 DEF Requested, With, Final
      <3> QED
        BY <3>4, <3>5
    <2>3. CASE EnqueueRecord(j)
      <3>1. /\ request[j] = "pushed" /\ record'[k] \in {record[k], "waiting"}
            /\ key' = key /\ clears' = clears
        BY <2>3 DEF EnqueueRecord, Advance, TypeOK
      <3>2. ~(Pipelined /\ clears' = 0)
        BY <1>1, <3>1 DEF Accounted, Requested
      <3> QED
        BY <1>1, <3>1, <3>2 DEF Accounted, With, Keyed
    <2>4. CASE UpdateJobProcessId(j)
      BY <1>2, <2>4 DEF UpdateJobProcessId, Advance, TypeOK
    <2> QED
      BY <1>4, <2>1, <2>2, <2>3, <2>4 DEF RequestStep
  <1>5. \A j \in Job : ~Kill(j)
    BY DEF Kill, TypeOK
  <1>6. ASSUME NEW j \in Job, ChildStep(j) \/ KeyExpires(j) PROVE Accounted(k)'
    BY <1>2, <1>6 DEF ChildStep, ChildRead, ChildSave, ChildFail, KeyExpires, TypeOK
  <1>7. CASE ClearJobs \/ (\E j \in Job : RecordExpires(j)) \/ (\E q \in Queue : ClearQueue(q))
    BY <1>3, <1>7 DEF RecordExpires, ClearQueue, ClearJobs, Clearing, TypeOK
  <1>8. CASE UNCHANGED vars
    BY <1>2, <1>8 DEF vars
  <1> QED
    BY <1>4, <1>5, <1>6, <1>7, <1>8 DEF Other

\* What a worker may change: it keeps the job or tells of it, and sets or removes its key.
LEMMA AccountedByOne ==
    ASSUME AllAccounted, NEW w \in Worker, UNCHANGED <<request, list, bounds>>,
           \A v \in Worker \ {w} : worker'[v] = worker[v],
           \A k \in Job :
              /\ record'[k] = record[k] \/ With(w, k)' \/ Final(k)'
              /\ With(w, k) => With(w, k)' \/ Final(k)'
              /\ key'[k] # None => (key[k] # None /\ ~Keyed(w, k)) \/ Keyed(w, k)'
    PROVE  AllAccounted'
  <1> USE DEF bounds
  <1> SUFFICES ASSUME stops = 0, NEW k \in Job PROVE Accounted(k)'
    BY DEF AllAccounted
  <1>1. Accounted(k)
    BY DEF AllAccounted
  <1>2. Unserved(k)' <=> Unserved(k)
    BY DEF Unserved
  <1>3. \A v \in Worker \ {w} : (With(v, k)' <=> With(v, k)) /\ (Keyed(v, k)' <=> Keyed(v, k))
    BY DEF With, Keyed
  <1>4. Final(k) => Final(k)' \/ With(w, k)'
    BY DEF Final
  <1>5. (\E v \in Worker : With(v, k)) => (\E v \in Worker : With(v, k)') \/ Final(k)'
    BY <1>3
  <1>6. key'[k] # None => \E v \in Worker : Keyed(v, k)'
    BY <1>1, <1>3 DEF Accounted
  <1>7. record'[k] = "running" => \E v \in Worker : With(v, k)'
    BY <1>1, <1>5 DEF Accounted, Final
  <1>8. Requested(k) => Requested(k)'
    BY <1>2, <1>4, <1>5 DEF Requested
  <1> QED
    BY <1>1, <1>6, <1>7, <1>8 DEF Accounted

LEMMA AccountedByWorker ==
    ASSUME Inv, AllAccounted, NEW w \in Worker, WorkerStep(w) \/ Retire(w) \/ Stop(w)
    PROVE  AllAccounted'
  <1> USE DEF db, redis, process, bounds
  <1>0. TypeOK /\ (worker[w].at \notin {"down", "poll"} => worker[w].job \in Job)
    <2>1. worker[w].at \notin {"down", "poll"} => worker[w].job # None
      BY DEF Inv, InHands
    <2> QED
      BY <2>1, HeldType DEF Inv, TypeOK
  <1>1. CASE Dequeue(w)
    <2> DEFINE q == Serves[w]
    <2>1. /\ q \in Queue /\ list[q] \in Seq(Job) /\ list[q] # << >>
          /\ list' = [list EXCEPT ![q] = Tail(list[q])]
          /\ worker[w].at = "poll"
          /\ worker'[w].at = "popped" /\ worker'[w].job = Head(list[q])
          /\ \A v \in Worker \ {w} : worker'[v] = worker[v]
          /\ UNCHANGED <<request, record, key, bounds>>
      BY <1>0, <1>1, QueueAssumption DEF Dequeue, Become, TypeOK
    <2> HIDE DEF q
    <2> SUFFICES ASSUME stops = 0, NEW k \in Job PROVE Accounted(k)'
      BY <2>1 DEF AllAccounted
    <2>2. Accounted(k)
      BY DEF AllAccounted
    <2>3. ASSUME Unserved(k) PROVE Unserved(k)' \/ With(w, k)'
      <3>0. PICK p \in Queue : \E i \in DOMAIN list[p] : list[p][i] = k
        BY <2>3 DEF Unserved
      <3>1. PICK i \in DOMAIN list[p] : list[p][i] = k
        BY <3>0
      <3>2. CASE p # q
        <4>1. i \in DOMAIN list'[p] /\ list'[p][i] = k
          BY <1>0, <2>1, <3>1, <3>2 DEF TypeOK
        <4> QED
          BY <4>1 DEF Unserved
      <3>3. CASE p = q /\ i = 1
        BY <2>1, <3>1, <3>3 DEF With
      <3>4. CASE p = q /\ i # 1
        <4>1. list'[q] = Tail(list[q])
          BY <1>0, <2>1 DEF TypeOK
        <4>2. i - 1 \in DOMAIN Tail(list[q]) /\ Tail(list[q])[i - 1] = k
          BY <2>1, <3>1, <3>4
        <4> QED
          BY <2>1, <4>1, <4>2 DEF Unserved
      <3> QED
        BY <3>2, <3>3, <3>4
    <2>4. \A v \in Worker : (With(v, k) => With(v, k)') /\ (Keyed(v, k) => Keyed(v, k)')
      BY <2>1 DEF With, Keyed
    <2> QED
      BY <2>1, <2>2, <2>3, <2>4 DEF Accounted, Requested, Final
  <1>2. CASE MarkRunning(w)
    <2>1. /\ worker'[w].at = "marked" /\ worker'[w].job = worker[w].job
          /\ worker[w].at = "popped" /\ \A v \in Worker \ {w} : worker'[v] = worker[v]
          /\ record' = [record EXCEPT ![worker[w].job] = "running"]
          /\ UNCHANGED <<request, list, key, bounds>>
      BY <1>0, <1>2 DEF MarkRunning, Go, Become, TypeOK
    <2>2. \A k \in Job : /\ record'[k] = record[k] \/ With(w, k)'
                         /\ With(w, k) => With(w, k)'
                         /\ ~Keyed(w, k)
      BY <1>0, <2>1 DEF With, Keyed, TypeOK
    <2> QED
      BY <2>1, <2>2, AccountedByOne
  <1>3. CASE Launch(w)
    <2>1. /\ worker'[w].at = "launched" /\ worker'[w].job = worker[w].job
          /\ worker[w].at = "marked" /\ \A v \in Worker \ {w} : worker'[v] = worker[v]
          /\ UNCHANGED <<request, list, record, key, bounds>>
      BY <1>0, <1>3 DEF Launch, Go, Become, TypeOK
    <2>2. \A k \in Job : (With(w, k) => With(w, k)') /\ ~Keyed(w, k)
      BY <2>1 DEF With, Keyed
    <2> QED
      BY <2>1, <2>2, AccountedByOne
  <1>4. CASE FirstLook(w) \/ Reap(w)
    <2>1. /\ worker'[w].at \in {"watching", "reaped"} /\ worker'[w].job = worker[w].job
          /\ worker[w].at \in {"launched", "watching"}
          /\ \A v \in Worker \ {w} : worker'[v] = worker[v]
          /\ key' = [key EXCEPT ![worker[w].job] = w]
          /\ UNCHANGED <<request, list, record, bounds>>
      BY <1>0, <1>4 DEF FirstLook, Reap, Become, TypeOK
    <2>2. \A k \in Job : /\ With(w, k) => With(w, k)'
                         /\ (key'[k] = key[k] /\ ~Keyed(w, k)) \/ Keyed(w, k)'
      BY <1>0, <2>1 DEF With, Keyed, TypeOK
    <2> QED
      BY <2>1, <2>2, AccountedByOne
  <1>5. CASE Tell(w)
    <2>1. /\ worker'[w].at = "told" /\ worker'[w].job = worker[w].job
          /\ worker[w].at = "reaped" /\ \A v \in Worker \ {w} : worker'[v] = worker[v]
          /\ record'[worker[w].job] \in {"completed", "failed"}
          /\ \A k \in Job : k # worker[w].job => record'[k] = record[k]
          /\ UNCHANGED <<request, list, key, bounds>>
      BY <1>0, <1>5 DEF Tell, Go, Become, TypeOK
    <2>2. \A k \in Job : /\ record'[k] = record[k] \/ Final(k)'
                         /\ With(w, k) => Final(k)'
                         /\ Keyed(w, k) => Keyed(w, k)'
      BY <2>1 DEF With, Keyed, Final
    <2> QED
      BY <2>1, <2>2, AccountedByOne
  <1>6. CASE RemoveFromRunning(w)
    <2>1. /\ worker[w].at = "told" /\ \A v \in Worker \ {w} : worker'[v] = worker[v]
          /\ key'[worker[w].job] = None
          /\ \A k \in Job : k # worker[w].job => key'[k] = key[k]
          /\ UNCHANGED <<request, list, record, bounds>>
      BY <1>0, <1>6 DEF RemoveFromRunning, TypeOK
    <2>2. \A k \in Job : ~With(w, k) /\ (key'[k] # None => key[k] # None /\ ~Keyed(w, k))
      BY <2>1 DEF With, Keyed
    <2> QED
      BY <2>1, <2>2, AccountedByOne
  <1>7. CASE StartWorker(w) \/ Retire(w)
    <2>1. /\ worker[w].at \in {"down", "poll"} /\ \A v \in Worker \ {w} : worker'[v] = worker[v]
          /\ UNCHANGED <<request, list, record, key, bounds>>
      BY <1>0, <1>7 DEF StartWorker, Retire, Go, Become, TypeOK
    <2>2. \A k \in Job : ~With(w, k) /\ ~Keyed(w, k)
      BY <2>1 DEF With, Keyed
    <2> QED
      BY <2>1, <2>2, AccountedByOne
  <1>8. CASE Stop(w)
    BY <1>0, <1>8 DEF Stop, TypeOK, AllAccounted
  <1> QED
    BY <1>1, <1>2, <1>3, <1>4, <1>5, <1>6, <1>7, <1>8 DEF WorkerStep

\* When all has come to rest and no process was stopped, no job is listed or recorded as
\* running; where Redis takes the pipeline in one go and nothing was cleared, its record tells
\* how it ended: whatever the order of reports and whichever workers retired.
THEOREM EndsTold == Spec => []Settled
  <1>1. Init => AllAccounted
    BY DEF Init, AllAccounted, Accounted, Requested
  <1>2. Inv /\ AllAccounted /\ [Next]_vars => AllAccounted'
    <2> SUFFICES ASSUME Inv, AllAccounted, [Next]_vars PROVE AllAccounted'
      OBVIOUS
    <2>1. CASE Other
      BY <2>1, AccountedByOther DEF Inv
    <2> QED
      BY <2>1, AccountedByWorker DEF Next, Other
  <1>3. AllAccounted => Settled
    <2> SUFFICES ASSUME AllAccounted, Idle, stops = 0, NEW j \in Job
                 PROVE  /\ key[j] = None /\ record[j] # "running"
                        /\ Pipelined /\ clears = 0 /\ request[j] = "ended" => Final(j)
      BY DEF Settled, Final
    <2>1. Accounted(j) /\ ~Unserved(j)
      BY DEF AllAccounted, Idle, Unserved
    <2>2. \A w \in Worker : worker[w].at \in {"down", "poll"}
      BY DEF Idle, Down, Polling
    <2>3. \A w \in Worker : ~With(w, j) /\ ~Keyed(w, j)
      BY <2>2 DEF With, Keyed
    <2> QED
      BY <2>1, <2>3 DEF Accounted, Requested
  <1> QED
    BY <1>1, <1>2, <1>3, Always, PTL DEF Spec

------------------------------------------------------------------------------
\* Who loses jobs.

\* A job that was pushed, has not been started and is nowhere any more.
Missing(j) == Pushed(j) /\ starts[j] = 0 /\ ~Waits(j)

LEMMA LostIs ==
    ASSUME Inv
    PROVE  Lost = {j \in Job : Missing(j)}
  <1>1. ASSUME NEW j \in Job PROVE Phase(j) = "lost" <=> Missing(j)
    <2>1. starts[j] \in {0, 1} /\ (Pushed(j) <=> ~Unpushed(j))
      BY DEF Inv, Started, Pushed, Unpushed, TypeOK, Request
    <2>2. Exit(j) # "lost"
      BY DEF Exit
    <2> QED
      BY <2>1, <2>2, PhaseIs DEF Missing
  <1> QED
    BY <1>1 DEF Lost

LEMMA LostIsNext ==
    ASSUME Inv'
    PROVE  Lost' = {j \in Job : Missing(j)'}
  <1>1. ASSUME NEW j \in Job PROVE Phase(j)' = "lost" <=> Missing(j)'
    <2>1. starts'[j] \in {0, 1} /\ (Pushed(j)' <=> ~Unpushed(j)')
      BY DEF Inv, Started, Pushed, Unpushed, TypeOK, Request
    <2>2. Exit(j)' # "lost"
      BY DEF Exit
    <2> QED
      BY <2>1, <2>2, PhaseIsNext DEF Missing
  <1> QED
    BY <1>1 DEF Lost

\* A step after which a job that waited waits or has been started, and a pushed one had been
\* pushed or waits, loses nothing.
LEMMA NotMissing ==
    ASSUME NEW k \in Job, Waits(k) => Waits(k)' \/ starts'[k] # 0,
           Pushed(k)' => Pushed(k) \/ Waits(k)', starts'[k] = 0 => starts[k] = 0
    PROVE  Missing(k)' => Missing(k)
  BY DEF Missing

LEMMA LostByOther ==
    ASSUME Inv, Other, clears' = 0, NEW k \in Job
    PROVE  Missing(k)' => Missing(k)
  <1> USE DEF db, redis, process, bounds
  <1>1. UNCHANGED <<list, worker>> => (Waits(k)' <=> Waits(k))
    BY WaitsKept DEF Holds
  <1>2. CASE UNCHANGED vars \/ \E j \in Job : ChildStep(j) \/ KeyExpires(j)
    <2>1. UNCHANGED <<request, list, worker, starts>>
      BY <1>2 DEF vars, ChildStep, ChildRead, ChildSave, ChildFail, KeyExpires
    <2> QED
      BY <1>1, <2>1, NotMissing DEF Pushed
  <1>3. ASSUME NEW j \in Job, CreateJob(j) \/ EnqueueRecord(j) \/ UpdateJobProcessId(j) \/ Kill(j)
        PROVE  Missing(k)' => Missing(k)
    <2>1. UNCHANGED <<list, worker, starts>>
      BY <1>3 DEF CreateJob, EnqueueRecord, UpdateJobProcessId, Kill
    <2>2. Pushed(k)' => Pushed(k)
      BY <1>3 DEF CreateJob, EnqueueRecord, UpdateJobProcessId, Kill, Advance, Pushed, Inv, TypeOK
    <2> QED
      BY <1>1, <2>1, <2>2, NotMissing
  <1>4. ASSUME NEW j \in Job, Enqueue(j) PROVE Missing(k)' => Missing(k)
    <2>1. /\ Goes[j] \in Queue /\ list[Goes[j]] \in Seq(Job)
          /\ list' = [list EXCEPT ![Goes[j]] = Append(list[Goes[j]], j)]
          /\ UNCHANGED <<worker, starts>>
          /\ k # j => request'[k] = request[k]
      BY <1>4, QueueAssumption DEF Enqueue, Advance, Inv, TypeOK
    <2>2. CASE k = j
      <3>1. /\ Len(list[Goes[j]]) + 1 \in DOMAIN list'[Goes[j]]
            /\ list'[Goes[j]][Len(list[Goes[j]]) + 1] = j
        BY <2>1 DEF Inv, TypeOK
      <3> QED
        BY <2>2, <3>1 DEF Missing, Waits
    <2>3. CASE k # j
      <3>1. \A i \in DOMAIN list[Goes[k]] : /\ i \in DOMAIN list'[Goes[k]]
                                            /\ list'[Goes[k]][i] = list[Goes[k]][i]
        BY <2>1, QueueAssumption DEF Inv, TypeOK
      <3>2. Waits(k) => Waits(k)'
        BY <2>1, <3>1 DEF Waits, Holds
      <3> QED
        BY <2>1, <2>3, <3>2, NotMissing DEF Pushed
    <2> QED
      BY <2>2, <2>3
  <1>5. ~Clearing
    BY DEF Clearing, Inv, TypeOK
  <1> QED
    BY <1>2, <1>3, <1>4, <1>5 DEF Other, RequestStep, RecordExpires, ClearQueue, ClearJobs

LEMMA LostByWorker ==
    ASSUME Inv, NEW w \in Worker, WorkerStep(w) \/ Retire(w) \/ Stop(w), NEW k \in Job
    PROVE  Missing(k)' => Missing(k) \/ (k = worker[w].job /\ Stop(w))
  <1> USE DEF db, redis, process, bounds
  <1>0. TypeOK
    BY DEF Inv
  <1>1. request' = request
    BY DEF WorkerStep, Dequeue, MarkRunning, Launch, FirstLook, Reap, Tell,
           RemoveFromRunning, StartWorker, Retire, Stop
  <1>2. ASSUME UNCHANGED <<list, starts>>, \A v \in Worker \ {w} : worker'[v] = worker[v],
               Holds(w, k) => Holds(w, k)'
        PROVE  Missing(k)' => Missing(k)
    <2>1. Waits(k) => Waits(k)'
      BY <1>2 DEF Waits, Holds
    <2> QED
      BY <1>1, <1>2, <2>1, NotMissing DEF Pushed
  <1>3. CASE Dequeue(w)
    <2> DEFINE q == Serves[w]
    <2>1. /\ q \in Queue /\ list[q] \in Seq(Job) /\ list[q] # << >>
          /\ list' = [list EXCEPT ![q] = Tail(list[q])] /\ list'[q] = Tail(list[q])
          /\ worker[w].at = "poll"
          /\ worker'[w].at = "popped" /\ worker'[w].job = Head(list[q])
          /\ \A v \in Worker \ {w} : worker'[v] = worker[v]
          /\ starts' = starts
      BY <1>0, <1>3, QueueAssumption DEF Dequeue, Become, TypeOK
    <2> HIDE DEF q
    <2>2. \A v \in Worker : Holds(v, k) => Holds(v, k)'
      BY <2>1 DEF Holds
    <2>3. ASSUME NEW i \in DOMAIN list[Goes[k]], list[Goes[k]][i] = k PROVE Waits(k)'
      <3>1. CASE Goes[k] # q
        <4>1. list'[Goes[k]] = list[Goes[k]]
          BY <1>0, <2>1, <3>1 DEF TypeOK
        <4> QED
          BY <2>3, <4>1 DEF Waits
      <3>2. CASE Goes[k] = q /\ i = 1
        <4>1. Holds(w, k)'
          BY <2>1, <2>3, <3>2 DEF Holds
        <4> QED
          BY <4>1 DEF Waits
      <3>3. CASE Goes[k] = q /\ i # 1
        <4>1. i - 1 \in DOMAIN Tail(list[q]) /\ Tail(list[q])[i - 1] = k
          BY <2>1, <2>3, <3>3
        <4> QED
          BY <2>1, <3>3, <4>1 DEF Waits
      <3> QED
        BY <3>1, <3>2, <3>3
    <2>4. Waits(k) => Waits(k)'
      BY <2>2, <2>3 DEF Waits
    <2> QED
      BY <1>1, <2>1, <2>4, NotMissing DEF Pushed
  <1>4. CASE MarkRunning(w)
    <2>1. /\ worker'[w].at = "marked" /\ worker'[w].job = worker[w].job
          /\ \A v \in Worker \ {w} : worker'[v] = worker[v] /\ UNCHANGED <<list, starts>>
      BY <1>0, <1>4 DEF MarkRunning, Go, Become, TypeOK
    <2> QED
      BY <1>2, <1>4, <2>1 DEF Holds, MarkRunning
  <1>5. CASE Launch(w)
    <2>1. /\ worker[w].at = "marked" /\ list' = list
          /\ \A v \in Worker \ {w} : worker'[v] = worker[v]
          /\ starts' = [starts EXCEPT ![worker[w].job] = @ + 1]
      BY <1>0, <1>5 DEF Launch, Go, Become, TypeOK
    <2>2. CASE k = worker[w].job
      <3>1. starts'[k] # 0
        BY <1>0, <2>1, <2>2 DEF TypeOK
      <3> QED
        BY <3>1 DEF Missing
    <2>3. CASE k # worker[w].job
      <3>1. starts'[k] = starts[k]
        BY <1>0, <2>1, <2>3 DEF TypeOK
      <3>2. Waits(k) => Waits(k)'
        BY <2>1, <2>3 DEF Waits, Holds
      <3> QED
        BY <1>1, <3>1, <3>2, NotMissing DEF Pushed
    <2> QED
      BY <2>2, <2>3
  <1>6. CASE FirstLook(w) \/ Reap(w) \/ Tell(w) \/ RemoveFromRunning(w) \/ StartWorker(w) \/ Retire(w)
    <2>1. /\ worker[w].at \notin {"popped", "marked"} /\ UNCHANGED <<list, starts>>
          /\ \A v \in Worker \ {w} : worker'[v] = worker[v]
      BY <1>0, <1>6 DEF FirstLook, Reap, Tell, RemoveFromRunning, StartWorker, Retire,
                        Go, Become, TypeOK
    <2> QED
      BY <1>2, <2>1 DEF Holds
  <1>7. CASE Stop(w)
    <2>1. UNCHANGED <<list, starts>> /\ \A v \in Worker \ {w} : worker'[v] = worker[v]
      BY <1>0, <1>7 DEF Stop, TypeOK
    <2>2. CASE k = worker[w].job
      BY <1>7, <2>2
    <2>3. CASE k # worker[w].job
      BY <1>2, <2>1, <2>3 DEF Holds
    <2> QED
      BY <2>2, <2>3
  <1> QED
    BY <1>3, <1>4, <1>5, <1>6, <1>7 DEF WorkerStep

LEMMA StepLoses ==
    ASSUME Inv, [Next]_vars, clears' = 0
    PROVE  /\ clears = 0
           /\ \/ stops' = stops /\ \A k \in Job : Missing(k)' => Missing(k)
              \/ /\ stops' = stops + 1
                 /\ \E x : \A k \in Job : Missing(k)' => Missing(k) \/ k = x
  <1> USE DEF db, redis, process, bounds
  <1>1. CASE Other
    <2>1. clears = 0 /\ stops' \in {stops, stops + 1}
      BY <1>1 DEF Other, RequestStep, CreateJob, Enqueue, EnqueueRecord, UpdateJobProcessId, Kill,
                  ChildStep, ChildRead, ChildSave, ChildFail, KeyExpires, RecordExpires,
                  ClearQueue, ClearJobs, Clearing, vars, Inv, TypeOK
    <2> QED
      BY <1>1, <2>1, LostByOther
  <1>2. ASSUME NEW w \in Worker, WorkerStep(w) \/ Retire(w)
        PROVE  clears = 0 /\ stops' = stops /\ \A k \in Job : Missing(k)' => Missing(k)
    <2>1. clears = 0 /\ stops' = stops
      BY <1>2 DEF WorkerStep, Dequeue, MarkRunning, Launch, FirstLook, Reap, Tell,
                  RemoveFromRunning, StartWorker, Retire
    <2>2. ~Stop(w)
      BY <2>1 DEF Stop, Inv, TypeOK
    <2> QED
      BY <1>2, <2>1, <2>2, LostByWorker
  <1>3. ASSUME NEW w \in Worker, Stop(w)
        PROVE  /\ clears = 0 /\ stops' = stops + 1
               /\ \A k \in Job : Missing(k)' => Missing(k) \/ k = worker[w].job
    <2>1. clears = 0 /\ stops' = stops + 1
      BY <1>3 DEF Stop
    <2> QED
      BY <1>3, <2>1, LostByWorker
  <1> QED
    BY <1>1, <1>2, <1>3 DEF Next, Other

\* Unless somebody clears something, jobs are lost only with a process that is stopped or
\* dies, and no more than one with each: what a worker does to one job, and what requests
\* and children do, never loses another.
THEOREM LostOnlyInHand == Spec => []LostWithHolder
  <1>1. Init => LostWithHolder
    <2> SUFFICES ASSUME Init PROVE LostWithHolder
      OBVIOUS
    <2>1. \A j \in Job : ~Missing(j)
      BY DEF Init, Missing, Pushed
    <2>2. Lost = {}
      BY <2>1, LostIs, InitInv
    <2>3. stops = 0
      BY DEF Init
    <2>4. IsFiniteSet({}) /\ Cardinality({}) = 0
      BY FS_EmptySet
    <2> QED
      BY <2>2, <2>3, <2>4 DEF LostWithHolder
  <1>2. Inv /\ Inv' /\ LostWithHolder /\ [Next]_vars => LostWithHolder'
    <2> SUFFICES ASSUME Inv, Inv', LostWithHolder, [Next]_vars, clears' = 0
                 PROVE  IsFiniteSet(Lost') /\ Cardinality(Lost') <= stops'
      BY DEF LostWithHolder
    <2>1. /\ Lost = {j \in Job : Missing(j)} /\ Lost' = {j \in Job : Missing(j)'}
      BY LostIs, LostIsNext
    <2>2. /\ IsFiniteSet(Lost) /\ Cardinality(Lost) <= stops
          /\ Cardinality(Lost) \in Nat /\ stops \in Nat
      BY StepLoses, FS_CardinalityType DEF LostWithHolder, Inv, TypeOK
    <2>3. CASE stops' = stops /\ \A k \in Job : Missing(k)' => Missing(k)
      <3>1. Lost' \in SUBSET Lost
        BY <2>1, <2>3
      <3>2. IsFiniteSet(Lost') /\ Cardinality(Lost') <= Cardinality(Lost)
        BY <2>2, <3>1, FS_Subset
      <3>3. Cardinality(Lost') \in Nat
        BY <3>2, FS_CardinalityType
      <3> QED
        BY <2>2, <2>3, <3>2, <3>3
    <2>4. ASSUME NEW x, stops' = stops + 1, \A k \in Job : Missing(k)' => Missing(k) \/ k = x
          PROVE  IsFiniteSet(Lost') /\ Cardinality(Lost') <= stops'
      <3>1. /\ IsFiniteSet(Lost \cup {x})
            /\ Cardinality(Lost \cup {x}) \in {Cardinality(Lost), Cardinality(Lost) + 1}
        BY <2>2, FS_AddElement
      <3>2. Lost' \in SUBSET (Lost \cup {x})
        BY <2>1, <2>4
      <3>3. IsFiniteSet(Lost') /\ Cardinality(Lost') <= Cardinality(Lost \cup {x})
        BY <3>1, <3>2, FS_Subset
      <3>4. Cardinality(Lost') \in Nat
        BY <3>3, FS_CardinalityType
      <3> QED
        BY <2>2, <2>4, <3>1, <3>3, <3>4
    <2> QED
      BY <2>3, <2>4, StepLoses
  <1> QED
    BY <1>1, <1>2, Always, PTL DEF Spec
=============================================================================
