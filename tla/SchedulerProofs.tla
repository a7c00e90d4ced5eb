-------------------------- MODULE SchedulerProofs --------------------------
(***************************************************************************)
(* Scheduler keeps its types and spaces the runs of a task out, for every  *)
(* set of tasks and administrators, every timer and however long it runs.  *)
(***************************************************************************)
EXTENDS Scheduler, SequenceTheorems, TLAPS

------------------------------------------------------------------------------
\* Operators.

\* The next execution time of setNextExecutionTime is a whole interval after the
\* previous one and not over yet.
LEMMA NextTimeLater ==
    ASSUME NEW previous \in Nat, NEW interval \in Nat \ {0}, NEW time \in Nat
    PROVE  /\ NextTime(previous, interval, time) \in Nat
           /\ NextTime(previous, interval, time) >= previous + interval
           /\ NextTime(previous, interval, time) >= time
<1> DEFINE missed == (time - previous + interval - 1) \div interval
           slots  == IF missed > 1 THEN missed ELSE 1
<1>1. missed \in Int
  OBVIOUS
<1>2. missed * interval >= time - previous
  OBVIOUS
<1>3. slots \in Nat /\ slots >= 1 /\ slots >= missed
  BY <1>1
<1>4. slots * interval \in Nat /\ slots * interval >= interval
  <2> HIDE DEF slots
  <2> QED BY <1>3
<1>5. slots * interval >= missed * interval
  <2> HIDE DEF slots, missed
  <2> QED BY <1>1, <1>3
<1>6. NextTime(previous, interval, time) = previous + slots * interval
  BY DEF NextTime
<1> HIDE DEF slots, missed
<1>7. missed * interval \in Int
  BY <1>1
<1> QED BY <1>2, <1>4, <1>5, <1>6, <1>7

\* What Window keeps of a sequence of at most three, and in which place.
LEMMA WindowSlides ==
    ASSUME NEW s \in Seq(Nat), NEW x \in Nat, Len(s) <= 3
    PROVE  LET r == Window(s, x)  n == Len(s) IN
           /\ r \in Seq(Nat) /\ Len(r) = IF n < 3 THEN n + 1 ELSE 3
           /\ r[Len(r)] = x
           /\ n >= 1 => r[Len(r) - 1] = s[n]
           /\ n >= 2 => r[Len(r) - 2] = s[n - 1]
<1> DEFINE n == Len(s)
           u == Tail(s)
<1>1. n \in Nat /\ n <= 3 /\ (s = << >> => n = 0)
  BY LenProperties, EmptySeq
<1>2. ASSUME NEW v \in Seq(Nat)
      PROVE  /\ Append(v, x) \in Seq(Nat) /\ Len(Append(v, x)) = Len(v) + 1
             /\ Append(v, x)[Len(v) + 1] = x
             /\ \A i \in 1..Len(v) : Append(v, x)[i] = v[i]
  BY AppendProperties
<1>3. s # << >> => /\ u \in Seq(Nat) /\ Len(u) = n - 1
                   /\ \A i \in 1..Len(u) : u[i] = s[i + 1]
  BY HeadTailProperties
<1>4. Window(s, x) = IF n < 3 THEN Append(s, x) ELSE Append(u, x)
  BY DEF Window
<1>5. CASE n < 3
  <2> DEFINE r == Append(s, x)
  <2>1. Window(s, x) = r
    BY <1>4, <1>5
  <2>2. /\ r \in Seq(Nat) /\ Len(r) = n + 1 /\ r[n + 1] = x
        /\ \A i \in 1..n : r[i] = s[i]
    BY <1>2
  <2> HIDE DEF r, n
  <2>3. /\ n >= 1 => r[Len(r) - 1] = s[n]
        /\ n >= 2 => r[Len(r) - 2] = s[n - 1]
    BY <1>1, <2>2
  <2> QED BY <1>1, <1>5, <2>1, <2>2, <2>3 DEF n
<1>6. CASE n = 3
  <2> DEFINE r == Append(u, x)
  <2>1. Window(s, x) = r
    BY <1>4, <1>6
  <2>2. u \in Seq(Nat) /\ Len(u) = n - 1 /\ \A i \in 1..Len(u) : u[i] = s[i + 1]
    BY <1>1, <1>3, <1>6
  <2>3. /\ r \in Seq(Nat) /\ Len(r) = Len(u) + 1 /\ r[Len(u) + 1] = x
        /\ \A i \in 1..Len(u) : r[i] = u[i]
    BY <1>2, <2>2
  <2> HIDE DEF r, n, u
  <2>4. Len(u) = 2 /\ Len(r) = 3
    BY <1>6, <2>2, <2>3
  <2>5. r[3] = x
    BY <2>3, <2>4
  <2>6. u[1] = s[2] /\ u[2] = s[3]
    <3>1. \A i \in 1..2 : u[i] = s[i + 1]
      BY <2>2, <2>4
    <3> QED BY <3>1
  <2>7. r[1] = u[1] /\ r[2] = u[2]
    <3>1. \A i \in 1..2 : r[i] = u[i]
      BY <2>3, <2>4
    <3> QED BY <3>1
  <2> QED BY <1>6, <2>1, <2>3, <2>4, <2>5, <2>6, <2>7 DEF n
<1> HIDE DEF n
<1> QED BY <1>1, <1>5, <1>6

------------------------------------------------------------------------------
\* Types.

USE IntervalAssumption, NoneAssumption

\* Rows are read and saved as rows.
LEMMA SavesARow ==
    ASSUME TypeOK, NEW t \in Task, Has(t)
    PROVE  /\ row[t] \in Row
           /\ \A time \in Nat : SaveNext(t, time) => row' \in [Task -> Row \cup {None}]
           /\ \A has \in BOOLEAN : SaveLast(t, has) => row' \in [Task -> Row \cup {None}]
<1>1. row[t] \in Row
  BY DEF TypeOK, Has
<1>2. \A time \in Nat : [row[t] EXCEPT !.next = time] \in Row
  BY <1>1 DEF Row
<1>3. \A has \in BOOLEAN : [row[t] EXCEPT !.last = has] \in Row
  BY <1>1 DEF Row
<1> QED BY <1>1, <1>2, <1>3 DEF SaveNext, SaveLast, TypeOK

\* The scheduler's own steps keep the types.
LEMMA SchedulerKeepsTypes ==
    ASSUME TypeOK,
           \/ SchedulerStep \/ Throw \/ Crash \/ \E d \in due : PickUnsaved(d)
    PROVE  TypeOK'
<1>1. now \in Nat /\ due \subseteq Due /\ cur \in Due \cup {None}
  BY DEF TypeOK
<1>2. cur # None => cur \in Due /\ cur.task \in Task /\ cur.last \in BOOLEAN
  BY <1>1 DEF Due
<1>3. CASE Fetch
  <2>1. \A t \in Task : IsDue(t) => Fetched(t) \in Due
    BY SavesARow DEF IsDue, Fetched, Due, Row
  <2> QED BY <1>3, <2>1 DEF Fetch, TypeOK, history
<1>4. ASSUME NEW d \in due, Pick(d) PROVE TypeOK'
  <2>1. d \in Due /\ d.task \in Task /\ d.next \in Nat
    BY <1>1 DEF Due
  <2>2. Interval[d.task] \in Nat \ {0}
    BY <2>1
  <2>3. NextTime(d.next, Interval[d.task], now) \in Nat
    BY <1>1, <2>1, <2>2, NextTimeLater
  <2>4. row' \in [Task -> Row \cup {None}]
    BY <1>4, <2>1, <2>3, SavesARow DEF Pick, Take
  <2>5. \A t \in Task : Window(picked[t], now) \in Seq(Nat)
    BY <1>1 DEF TypeOK, Window
  <2>6. picked' \in [Task -> Seq(Nat)]
    BY <1>4, <2>1, <2>5 DEF Pick, Remember, TypeOK
  <2>7. cur' \in Due /\ at' = "picked" /\ due' \subseteq Due /\ cur' # None
    BY <1>1, <1>4, <2>1 DEF Pick, Take
  <2> QED BY <1>4, <2>4, <2>6, <2>7 DEF Pick, TypeOK, Step
<1>5. ASSUME NEW d \in due, PickUnsaved(d) PROVE TypeOK'
  <2>1. d \in Due /\ d.task \in Task
    BY <1>1 DEF Due
  <2>2. cur' \in Due /\ at' = "picked" /\ due' \subseteq Due /\ cur' # None
    BY <1>1, <1>5, <2>1 DEF PickUnsaved, Take
  <2>3. picked' \in [Task -> Seq(Nat)]
    BY <1>5, <2>1 DEF PickUnsaved, LeadAstray, TypeOK
  <2> QED BY <1>5, <2>1, <2>2, <2>3 DEF PickUnsaved, LeadAstray, TypeOK, Step
<1>6. CASE Reset
  <2>1. cur # None
    BY <1>6 DEF Reset, Go, TypeOK
  <2>2. row' \in [Task -> Row \cup {None}]
    BY <1>2, <1>6, <2>1, SavesARow DEF Reset, TypeOK
  <2> QED BY <1>6, <2>1, <2>2 DEF Reset, Go, TypeOK, Step, history
<1>7. CASE CreateJob \/ EnqueueNothing
  BY <1>7 DEF CreateJob, EnqueueNothing, Go, TypeOK, Step, history
<1>8. CASE Enqueue
  <2>1. cur # None
    BY <1>8 DEF Enqueue, Go, TypeOK
  <2>2. open' \in [Task -> Nat]
    BY <1>2, <1>8, <2>1 DEF Enqueue, TypeOK
  <2> QED BY <1>8, <2>2 DEF Enqueue, Go, TypeOK, Step, history
<1>9. CASE Note
  <2>1. cur # None
    BY <1>9 DEF Note, TypeOK
  <2>2. row' \in [Task -> Row \cup {None}]
    BY <1>2, <1>9, <2>1, SavesARow DEF Note
  <2> QED BY <1>9, <2>2 DEF Note, Leave, TypeOK, Step, history
<1>10. CASE Refuse \/ Throw
  BY <1>10 DEF Refuse, Throw, Leave, TypeOK, Step, history
<1>11. CASE Gone \/ Crash
  BY <1>11 DEF Gone, Crash, Restart, TypeOK, Step, history
<1> QED
  BY <1>3, <1>4, <1>5, <1>6, <1>7, <1>8, <1>9, <1>10, <1>11 DEF SchedulerStep

\* A request of an administrator keeps them.
LEMMA SavedKeepsTypes ==
    ASSUME TypeOK, NEW a \in Admin, NEW r \in Row, ask[a] # None, Saved(a, r)
    PROVE  TypeOK'
<1>1. ask[a] \in Request /\ ask[a].task \in Task
  BY DEF TypeOK, Request
<1> DEFINE t == ask[a].task
<1>2. t \in Task
  BY <1>1
<1>3. row' = [row EXCEPT ![t] = r] /\ astray' = astray \cup {t}
      /\ picked' = [picked EXCEPT ![t] = << >>]
      /\ forced' \in {forced \cup {t}, forced \ {t}}
  BY DEF Saved, LeadAstray
<1> HIDE DEF t
<1>4. row' \in [Task -> Row \cup {None}] /\ picked' \in [Task -> Seq(Nat)]
  BY <1>2, <1>3 DEF TypeOK
<1>5. astray' \subseteq Task /\ forced' \subseteq Task
  BY <1>2, <1>3 DEF TypeOK
<1>6. ask' \in [Admin -> Request \cup {None}]
  BY DEF Saved, TypeOK
<1> QED BY <1>4, <1>5, <1>6 DEF Saved, TypeOK, scheduler

LEMMA AdministratorKeepsTypes ==
    ASSUME TypeOK,
           \/ \E a \in Admin : AdminStep(a)
           \/ \E t \in Task : Delete(t) \/ \E time \in {now - 1, now + 1} : Add(t, time)
    PROVE  TypeOK'
<1>1. now - 1 \in Nat /\ now + 1 \in Nat /\ asks + 1 \in Nat
  BY DEF TypeOK
<1>2. \A a \in Admin : ask[a] # None =>
        ask[a] \in Request /\ ask[a].task \in Task /\ ask[a].row \in Row
  BY DEF TypeOK, Request
<1>3. ASSUME NEW a \in Admin, Toggle(a) PROVE TypeOK'
  <2>1. [ask[a].row EXCEPT !.on = ~@] \in Row
    BY <1>2, <1>3 DEF Toggle, Row
  <2> QED BY <1>3, <2>1, SavedKeepsTypes DEF Toggle
<1>4. ASSUME NEW a \in Admin, ForceRun(a) PROVE TypeOK'
  <2>1. [ask[a].row EXCEPT !.next = now - 1, !.last = FALSE] \in Row
    BY <1>1, <1>2, <1>4 DEF ForceRun, Row
  <2> QED BY <1>4, <2>1, SavedKeepsTypes DEF ForceRun
<1>5. ASSUME NEW a \in Admin, Edit(a) PROVE TypeOK'
  <2>1. PICK time \in {ask[a].row.next, now - 1} :
          Saved(a, [row[ask[a].task] EXCEPT !.on = ask[a].row.on, !.next = time])
    BY <1>5 DEF Edit
  <2>2. ask[a] # None /\ row[ask[a].task] \in Row
    BY <1>2, <1>5, SavesARow DEF Edit
  <2>3. time \in Nat /\ ask[a].row.on \in BOOLEAN
    BY <1>1, <1>2, <2>2 DEF Row
  <2>4. [row[ask[a].task] EXCEPT !.on = ask[a].row.on, !.next = time] \in Row
    BY <2>2, <2>3 DEF Row
  <2> QED BY <2>1, <2>2, <2>4, SavedKeepsTypes
<1>6. ASSUME NEW a \in Admin, NotFound(a) PROVE TypeOK'
  BY <1>6 DEF NotFound, TypeOK, scheduler, history
<1>7. ASSUME NEW a \in Admin, NEW t \in Task, NEW kind \in {"toggle", "force", "edit"},
             Read(a, kind, t)
      PROVE  TypeOK'
  <2>1. [kind |-> kind, task |-> t, row |-> row[t]] \in Request
    BY <1>7, SavesARow DEF Read, Request
  <2>2. ask' \in [Admin -> Request \cup {None}]
    BY <1>7, <2>1 DEF Read, TypeOK
  <2> QED BY <1>1, <1>7, <2>2 DEF Read, Asking, TypeOK, scheduler, history
<1>8. ASSUME NEW t \in Task, Delete(t) PROVE TypeOK'
  BY <1>1, <1>8 DEF Delete, Asking, LeadAstray, TypeOK, scheduler
<1>9. ASSUME NEW t \in Task, NEW time \in {now - 1, now + 1}, Add(t, time) PROVE TypeOK'
  <2>1. [on |-> TRUE, next |-> time, last |-> FALSE] \in Row
    BY <1>1 DEF Row
  <2> QED BY <1>9, <2>1 DEF Add, TypeOK, scheduler, history
<1> QED BY <1>3, <1>4, <1>5, <1>6, <1>7, <1>8, <1>9 DEF AdminStep

\* Time and the end of a job keep them.
LEMMA OthersKeepTypes ==
    ASSUME TypeOK, Tick \/ \E t \in Task : JobEnds(t)
    PROVE  TypeOK'
<1>1. CASE Tick
  BY <1>1 DEF Tick, TypeOK, scheduler, history
<1>2. ASSUME NEW t \in Task, JobEnds(t) PROVE TypeOK'
  BY <1>2 DEF JobEnds, TypeOK, scheduler, history
<1> QED BY <1>1, <1>2

LEMMA TypesStutter == TypeOK /\ UNCHANGED vars => TypeOK'
BY DEF TypeOK, vars, scheduler, history

\* Every variable of Scheduler keeps its shape: what administrators and the
\* scheduler read and save back whole or by the field stays a row.
THEOREM TypeCorrect == Spec => []TypeOK
<1>1. Init => TypeOK
  BY DEF Init, TypeOK, Step
<1>2. TypeOK /\ [Next]_vars => TypeOK'
  BY SchedulerKeepsTypes, AdministratorKeepsTypes, OthersKeepTypes, TypesStutter DEF Next
<1> QED BY <1>1, <1>2, PTL DEF Spec

------------------------------------------------------------------------------
\* Spacing.

\* The last picks of a task against its next execution time: that time is never
\* before the last pick, and an interval after the one before.
OnGrid(t) ==
    LET n == Len(picked[t]) IN
    /\ n <= 3
    /\ n >= 1 => row[t].next >= picked[t][n]
    /\ n >= 2 => row[t].next >= picked[t][n - 1] + Interval[t]
    /\ n = 3  => picked[t][3] >= picked[t][1] + Interval[t]

\* What was fetched of a task left to the scheduler is what its row says.
Fresh(t) == \A d \in due : d.task = t => d.next = row[t].next /\ d.next <= now

Schedule(t) ==
    /\ t \in astray => picked[t] = << >>
    /\ t \notin astray /\ ~Has(t) => picked[t] = << >> /\ \A d \in due : d.task # t
    /\ t \notin astray /\ Has(t) => OnGrid(t) /\ Fresh(t)

OneEach == \A d, e \in due : d.task = e.task => d = e

Inv == TypeOK /\ OneEach /\ \A t \in Task : Schedule(t)

\* A step that leaves a task, its row's time and its picks alone keeps its schedule.
LEMMA Untouched ==
    ASSUME TypeOK, TypeOK', NEW t \in Task, Schedule(t),
           now' >= now, due' \subseteq due, picked'[t] = picked[t],
           t \in astray' <=> t \in astray,
           row'[t] = None <=> row[t] = None,
           Has(t) => row'[t].next = row[t].next
    PROVE  Schedule(t)'
<1>1. now \in Nat /\ now' \in Nat /\ due \subseteq Due
  BY DEF TypeOK
<1>2. \A d \in due : d.next \in Nat
  BY <1>1 DEF Due
<1>3. Has(t)' = Has(t)
  BY DEF Has
<1>4. CASE t \in astray
  BY <1>4 DEF Schedule
<1>5. CASE t \notin astray /\ ~Has(t)
  BY <1>3, <1>5 DEF Schedule
<1>6. CASE t \notin astray /\ Has(t)
  <2>1. OnGrid(t)'
    BY <1>6 DEF Schedule, OnGrid
  <2>2. Fresh(t)'
    BY <1>1, <1>2, <1>6 DEF Schedule, Fresh
  <2> QED BY <1>3, <1>6, <2>1, <2>2 DEF Schedule
<1> QED BY <1>4, <1>5, <1>6

\* A step that leaves all of them alone.
LEMMA AllUntouched ==
    ASSUME Inv, TypeOK', now' >= now, due' \subseteq due,
           UNCHANGED <<row, picked, astray>>
    PROVE  Inv'
<1>1. \A t \in Task : Schedule(t)'
  BY Untouched DEF Inv
<1> QED BY <1>1 DEF Inv, OneEach

\* A step that saves another column of one row.
LEMMA OtherColumn ==
    ASSUME Inv, TypeOK', NEW u \in Task, Has(u), NEW has \in BOOLEAN, SaveLast(u, has),
           UNCHANGED <<now, due, picked, astray>>
    PROVE  Inv'
<1>1. now' >= now
  BY DEF Inv, TypeOK
<1>2. [row[u] EXCEPT !.last = has] \in Row /\ row[u] \in Row
  BY SavesARow DEF Inv, Row
<1>3. \A t \in Task : /\ row'[t] = None <=> row[t] = None
                      /\ Has(t) => row'[t].next = row[t].next
  <2>1. row'[u] = [row[u] EXCEPT !.last = has]
    BY DEF SaveLast, Inv, TypeOK
  <2>2. row'[u] # None /\ row[u] # None /\ row'[u].next = row[u].next
    BY <1>2, <2>1 DEF Row
  <2>3. \A t \in Task : t # u => row'[t] = row[t]
    BY DEF SaveLast, Inv, TypeOK
  <2> QED BY <2>2, <2>3
<1>4. \A t \in Task : Schedule(t)'
  BY <1>1, <1>3, Untouched DEF Inv
<1> QED BY <1>4 DEF Inv, OneEach

\* A step by which the schedule of one task is no longer left to the scheduler.
LEMMA GoesAstray ==
    ASSUME Inv, TypeOK', NEW u \in Task, LeadAstray(u), now' = now, due' \subseteq due,
           \A t \in Task \ {u} : row'[t] = row[t]
    PROVE  Inv'
<1>1. now' >= now
  BY DEF Inv, TypeOK
<1>2. u \in astray' /\ picked'[u] = << >>
  BY DEF LeadAstray, Inv, TypeOK
<1>3. Schedule(u)'
  BY <1>2 DEF Schedule
<1>4. \A t \in Task \ {u} : picked'[t] = picked[t] /\ (t \in astray' <=> t \in astray)
  BY DEF LeadAstray, Inv, TypeOK
<1>5. \A t \in Task \ {u} : Schedule(t)'
  BY <1>1, <1>4, Untouched DEF Inv
<1> QED BY <1>3, <1>5 DEF Inv, OneEach

\* The enabled tasks whose time has come are fetched, each once, as they are.
LEMMA FetchKeeps ==
    ASSUME Inv, TypeOK', Fetch
    PROVE  Inv'
<1>1. UNCHANGED <<now, row, picked, astray>>
  BY DEF Fetch, history
<1>2. \A d \in due' : \E t \in Task : IsDue(t) /\ d = Fetched(t)
  BY DEF Fetch
<1>3. \A d \in due' : Has(d.task) /\ d.next = row[d.task].next /\ d.next <= now
                      /\ d = Fetched(d.task)
  BY <1>2 DEF Fetched, IsDue
<1>4. OneEach'
  BY <1>3 DEF OneEach
<1>5. \A t \in Task : Schedule(t)'
  <2> SUFFICES ASSUME NEW t \in Task PROVE Schedule(t)'
    OBVIOUS
  <2>1. Schedule(t) /\ Has(t)' = Has(t)
    BY <1>1 DEF Inv, Has
  <2>2. Fresh(t)'
    BY <1>1, <1>3 DEF Fresh
  <2>3. Has(t) /\ t \notin astray => OnGrid(t)'
    BY <1>1, <2>1 DEF Schedule, OnGrid
  <2>4. ~Has(t) => \A d \in due' : d.task # t
    BY <1>3
  <2> QED BY <1>1, <2>1, <2>2, <2>3, <2>4 DEF Schedule
<1> QED BY <1>4, <1>5 DEF Inv

\* The task that is picked: its next execution time moves on by an interval at
\* least, and not less than to now.
LEMMA PickKeeps ==
    ASSUME Inv, TypeOK', NEW d \in due, Pick(d)
    PROVE  Inv'
<1> DEFINE u == d.task
           s == picked[u]
           r == Window(s, now)
           n == Len(s)
           next == NextTime(d.next, Interval[u], now)
<1>1. d \in Due /\ u \in Task /\ d.next \in Nat /\ now \in Nat /\ Interval[u] \in Nat \ {0}
  BY DEF Inv, TypeOK, Due
<1>2. Has(u) /\ row[u] \in Row
  BY <1>1, SavesARow DEF Pick, Take, Inv
<1>3. next \in Nat /\ next >= d.next + Interval[u] /\ next >= now
  BY <1>1, NextTimeLater
<1>4. now' = now /\ astray' = astray /\ due' = due \ {d}
  BY DEF Pick, Take
<1>5. \A t \in Task \ {u} : row'[t] = row[t] /\ picked'[t] = picked[t]
  BY <1>1 DEF Pick, SaveNext, Remember, Inv, TypeOK
<1>6. row'[u] # None /\ row'[u].next = next
  <2>1. row'[u] = [row[u] EXCEPT !.next = next]
    BY <1>1 DEF Pick, SaveNext, Inv, TypeOK
  <2> HIDE DEF next
  <2>2. [row[u] EXCEPT !.next = next] \in Row
    BY <1>2, <1>3 DEF Row
  <2> QED BY <1>2, <2>1, <2>2 DEF Row
<1>7. \A t \in Task \ {u} : Schedule(t)'
  <2>1. now' >= now /\ due' \subseteq due
    BY <1>1, <1>4
  <2> QED BY <1>4, <1>5, <2>1, Untouched DEF Inv
<1>8. CASE u \in astray
  <2>1. Schedule(u)'
    BY <1>1, <1>4, <1>8 DEF Schedule, Pick, Remember, Inv
  <2> QED BY <1>4, <1>7, <2>1 DEF Inv, OneEach
<1>9. CASE u \notin astray
  <2>1. OnGrid(u) /\ d.next = row[u].next /\ d.next <= now
    BY <1>1, <1>2, <1>9 DEF Inv, Schedule, Fresh
  <2>2. s \in Seq(Nat) /\ n \in Nat /\ n <= 3
    BY <1>1, <2>1 DEF Inv, TypeOK, OnGrid
  <2>3. picked'[u] = r
    BY <1>1, <1>9 DEF Pick, Remember, Inv, TypeOK
  <2>4. /\ Len(r) = IF n < 3 THEN n + 1 ELSE 3
        /\ r[Len(r)] = now
        /\ n >= 1 => r[Len(r) - 1] = s[n]
        /\ n >= 2 => r[Len(r) - 2] = s[n - 1]
    BY <1>1, <2>2, WindowSlides
  <2>5. /\ n >= 1 => d.next >= s[n] /\ s[n] \in Nat
        /\ n >= 2 => d.next >= s[n - 1] + Interval[u] /\ s[n - 1] \in Nat
    BY <2>1, <2>2 DEF OnGrid
  <2> HIDE DEF r, next, n, s
  <2>6. Len(r) \in 1..3 /\ row'[u].next >= r[Len(r)]
    BY <1>3, <1>6, <2>2, <2>4
  <2>7. Len(r) >= 2 => row'[u].next >= r[Len(r) - 1] + Interval[u]
    BY <1>1, <1>3, <1>6, <2>2, <2>4, <2>5
  <2>8. Len(r) = 3 => r[3] >= r[1] + Interval[u]
    <3> SUFFICES ASSUME Len(r) = 3 PROVE r[3] >= r[1] + Interval[u]
      OBVIOUS
    <3>1. n >= 2
      <4>1. n \in Nat /\ Len(r) = IF n < 3 THEN n + 1 ELSE 3
        BY <2>2, <2>4
      <4> QED BY <4>1
    <3>2. r[3] = now /\ r[1] = s[n - 1]
      BY <2>4, <3>1
    <3> QED BY <1>1, <2>1, <2>5, <3>1, <3>2
  <2>9. OnGrid(u)'
    BY <2>3, <2>6, <2>7, <2>8 DEF OnGrid
  <2>10. \A e \in due' : e.task # u
    BY <1>4 DEF Inv, OneEach, u
  <2>11. Schedule(u)'
    BY <1>4, <1>6, <1>9, <2>9, <2>10 DEF Schedule, Fresh, Has
  <2> QED BY <1>4, <1>7, <2>11 DEF Inv, OneEach
<1> QED BY <1>8, <1>9

\* Every step keeps the invariant.
LEMMA StepKeeps == Inv /\ [Next]_vars => Inv'
<1> SUFFICES ASSUME Inv, [Next]_vars PROVE Inv'
  OBVIOUS
<1>1. TypeOK /\ TypeOK'
  BY SchedulerKeepsTypes, AdministratorKeepsTypes, OthersKeepTypes, TypesStutter
     DEF Next, Inv
<1>2. now \in Nat /\ now >= now /\ due \subseteq Due /\ cur \in Due \cup {None}
  BY <1>1 DEF TypeOK
<1>3. cur # None => cur.task \in Task /\ cur.last \in BOOLEAN
  BY <1>2 DEF Due
<1>4. \A a \in Admin : ask[a] # None => ask[a].task \in Task
  BY <1>1 DEF TypeOK, Request
<1>5. CASE UNCHANGED vars
  BY <1>1, <1>2, <1>5, AllUntouched DEF vars, scheduler, history
<1>6. CASE Tick
  <2>1. now' >= now
    BY <1>2, <1>6 DEF Tick
  <2> QED BY <1>1, <1>6, <2>1, AllUntouched DEF Tick, scheduler, history
<1>7. CASE Fetch
  BY <1>1, <1>7, FetchKeeps
<1>8. ASSUME NEW d \in due, Pick(d) PROVE Inv'
  BY <1>1, <1>8, PickKeeps
<1>9. ASSUME NEW d \in due, PickUnsaved(d) PROVE Inv'
  <2>1. d.task \in Task
    BY <1>2 DEF Due
  <2>2. now' = now /\ due' \subseteq due /\ UNCHANGED row /\ LeadAstray(d.task)
    BY <1>9 DEF PickUnsaved, Take
  <2> QED BY <1>1, <2>1, <2>2, GoesAstray
<1>10. CASE Reset
  <2>1. cur # None /\ UNCHANGED <<now, due, picked, astray>>
    BY <1>1, <1>10 DEF Reset, Go, TypeOK, history
  <2>2. CASE cur.last
    BY <1>1, <1>3, <1>10, <2>1, <2>2, OtherColumn DEF Reset
  <2>3. CASE ~cur.last
    BY <1>1, <1>2, <1>10, <2>1, <2>3, AllUntouched DEF Reset
  <2> QED BY <2>2, <2>3
<1>11. CASE Refuse \/ CreateJob \/ Enqueue \/ EnqueueNothing \/ Throw
  BY <1>1, <1>2, <1>11, AllUntouched
     DEF Refuse, CreateJob, Enqueue, EnqueueNothing, Throw, Go, Leave, history
<1>12. CASE Note
  <2>1. cur # None /\ UNCHANGED <<now, due, picked, astray>>
    BY <1>1, <1>12 DEF Note, Leave, TypeOK, history
  <2> QED BY <1>1, <1>3, <1>12, <2>1, OtherColumn DEF Note
<1>13. CASE Gone \/ Crash
  BY <1>1, <1>2, <1>13, AllUntouched DEF Gone, Crash, Restart, history
<1>14. ASSUME NEW t \in Task, JobEnds(t) PROVE Inv'
  BY <1>1, <1>2, <1>14, AllUntouched DEF JobEnds, scheduler, history
<1>15. ASSUME NEW a \in Admin, NEW r, ask[a] # None, Saved(a, r) PROVE Inv'
  <2> DEFINE u == ask[a].task
  <2>1. u \in Task
    BY <1>4, <1>15
  <2>2. now' = now /\ due' \subseteq due /\ LeadAstray(u)
    BY <1>15 DEF Saved, scheduler
  <2>3. \A t \in Task \ {u} : row'[t] = row[t]
    BY <1>1, <1>15 DEF Saved, TypeOK
  <2> HIDE DEF u
  <2> QED BY <1>1, <2>1, <2>2, <2>3, GoesAstray
<1>16. ASSUME NEW a \in Admin, Toggle(a) \/ ForceRun(a) \/ Edit(a) PROVE Inv'
  BY <1>15, <1>16 DEF Toggle, ForceRun, Edit
<1>17. ASSUME NEW a \in Admin, NotFound(a) PROVE Inv'
  BY <1>1, <1>2, <1>17, AllUntouched DEF NotFound, scheduler, history
<1>18. ASSUME NEW a \in Admin, NEW t \in Task, NEW kind \in {"toggle", "force", "edit"},
              Read(a, kind, t)
       PROVE  Inv'
  BY <1>1, <1>2, <1>18, AllUntouched DEF Read, Asking, scheduler, history
<1>19. ASSUME NEW t \in Task, Delete(t) PROVE Inv'
  <2>1. now' = now /\ due' \subseteq due /\ LeadAstray(t)
    BY <1>19 DEF Delete, scheduler
  <2>2. \A u \in Task \ {t} : row'[u] = row[u]
    BY <1>1, <1>19 DEF Delete, TypeOK
  <2> QED BY <1>1, <2>1, <2>2, GoesAstray
<1>20. ASSUME NEW t \in Task, NEW time \in {now - 1, now + 1}, Add(t, time) PROVE Inv'
  <2>1. UNCHANGED <<now, due, picked, astray>>
    BY <1>20 DEF Add, scheduler, history
  <2>2. picked[t] = << >> /\ \A d \in due : d.task # t
    BY <1>20 DEF Add, Inv, Schedule
  <2>3. Schedule(t)'
    BY <2>1, <2>2 DEF Schedule, OnGrid, Fresh
  <2>4. \A u \in Task \ {t} : row'[u] = row[u]
    BY <1>1, <1>20 DEF Add, TypeOK
  <2>5. \A u \in Task \ {t} : Schedule(u)'
    BY <1>1, <1>2, <2>1, <2>4, Untouched DEF Inv
  <2> QED BY <1>1, <2>1, <2>3, <2>5 DEF Inv, OneEach
<1> QED
  BY <1>5, <1>6, <1>7, <1>8, <1>9, <1>10, <1>11, <1>12, <1>13, <1>14, <1>16, <1>17,
     <1>18, <1>19, <1>20 DEF Next, SchedulerStep, AdminStep

LEMMA InvSpaced == Inv => Spaced
<1> SUFFICES ASSUME Inv, NEW t \in Task
             PROVE  Len(picked[t]) = 3 => picked[t][3] >= picked[t][1] + Interval[t]
  BY DEF Spaced
<1>1. CASE picked[t] = << >>
  BY <1>1, Len(<< >>) = 0
<1>2. CASE OnGrid(t)
  BY <1>2 DEF OnGrid
<1> QED BY <1>1, <1>2 DEF Inv, Schedule

\* A task nobody touches is never run in bursts: of any three runs in a row the
\* last is an interval after the first, however late the scheduler is, whatever
\* fails and wherever it dies (setNextExecutionTime).
THEOREM RunsSpaced == Spec => []Spaced
<1>1. Init => Inv
  <2>1. Init => TypeOK
    BY DEF Init, TypeOK, Step
  <2>2. Init => OneEach /\ \A t \in Task : Schedule(t)
    BY DEF Init, OneEach, Schedule, Has
  <2> QED BY <2>1, <2>2 DEF Inv
<1> QED BY <1>1, StepKeeps, InvSpaced, PTL DEF Spec
=============================================================================
