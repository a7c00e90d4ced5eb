----------------------- MODULE DatabaseUpdatesProofs -----------------------
(* The type invariant, NoneSkipped and InOrder of DatabaseUpdates, for any  *)
(* number of updates, statements and processes.                             *)
EXTENDS DatabaseUpdates, TLAPS

\* Every update up to the n-th was run to its end.
Done(n) == \A u \in 1..n : u \in attempted

\* What a process at each place may count on: the version it has read, the update it has
\* behind it, or all the updates before the one it is at.
Counts(r) ==
    /\ pc[r] \in {"read", "clear"} => Done(from[r])
    /\ pc[r] \in {"next", "failed"} => Done(update[r])
    /\ pc[r] \in {"list", "run", "failed"} => update[r] >= 1 /\ Done(update[r] - 1)

\* The updates run so far never shrink and hold all up to the version; every process counts on
\* them rightly.
IInv == TypeOK /\ Done(version) /\ \A r \in Runner : Counts(r)

USE UpdatesAssumption

LEMMA InitIInv == Init => IInv
  BY DEF Init, IInv, TypeOK, NoProgress, Place, Done, Counts

\* What was run stays run.
LEMMA DoneStays ==
    ASSUME attempted \subseteq attempted', NEW n, Done(n)
    PROVE  \A u \in 1..n : u \in attempted'
  BY DEF Done

\* A step of one process leaves what the others count on.
LEMMA OthersCount ==
    ASSUME IInv, NEW r \in Runner, attempted \subseteq attempted',
           \A s \in Runner \ {r} : pc'[s] = pc[s] /\ from'[s] = from[s] /\ update'[s] = update[s]
    PROVE  \A s \in Runner \ {r} : Counts(s)'
  BY DEF IInv, Counts, Done

\* The places of one process that keep the type and the counting, given its new ones.
LEMMA StepTogether ==
    ASSUME IInv, TypeOK', Done(version)', NEW r \in Runner, Counts(r)',
           attempted \subseteq attempted',
           \A s \in Runner \ {r} : pc'[s] = pc[s] /\ from'[s] = from[s] /\ update'[s] = update[s]
    PROVE  IInv'
<1>1. \A s \in Runner \ {r} : Counts(s)'  BY OthersCount
<1> QED  BY <1>1 DEF IInv

LEMMA ReadIInv ==
    ASSUME IInv, NEW r \in Runner, Request(r) \/ Begin(r)
    PROVE  IInv'
<1>1. /\ pc' = [pc EXCEPT ![r] = "read"] /\ from' = [from EXCEPT ![r] = version]
      /\ UNCHANGED <<version, fails, progress, update, at, counted, attempted, lock, jobs, mishaps>>
  BY DEF Request, Begin, Read, Goto
<1>2. TypeOK'
  BY <1>1 DEF IInv, TypeOK, Place
<1>3. Done(version)' /\ Counts(r)'
  BY <1>1 DEF IInv, TypeOK, Done, Counts
<1> QED  BY <1>1, <1>2, <1>3, StepTogether DEF IInv, TypeOK

\* A process that goes to a place where it counts on nothing.
LEMMA RestIInv ==
    ASSUME IInv, NEW r \in Runner, TypeOK',
           pc' = [pc EXCEPT ![r] = "idle"] \/ pc' = [pc EXCEPT ![r] = "unlocked"],
           UNCHANGED <<version, from, update, attempted>>
    PROVE  IInv'
<1>1. Done(version)' /\ Counts(r)'
  BY DEF IInv, TypeOK, Done, Counts
<1> QED  BY <1>1, StepTogether DEF IInv, TypeOK

LEMMA IdleIInv ==
    ASSUME IInv, NEW r \in Runner,
           \/ TakeJob(r) \/ Shell(r) \/ UpToDate(r) \/ GiveUp(r) \/ Queue(r)
           \/ End(r) \/ Crash(r)
    PROVE  IInv'
<1>1. /\ pc' = [pc EXCEPT ![r] = "idle"] \/ pc' = [pc EXCEPT ![r] = "unlocked"]
      /\ UNCHANGED <<version, from, update, attempted, fails, progress, at, counted>>
      /\ lock' \in {lock, "free"}
  BY DEF TakeJob, Shell, UpToDate, GiveUp, Queue, End, Crash, DropLock, Rest, Goto
<1>2. jobs' \in 0..MaxJobs /\ mishaps' \in 0..MaxMishaps
  BY DEF TakeJob, Shell, UpToDate, GiveUp, Queue, End, Crash, DropLock, Rest, Mishap, IInv, TypeOK
<1>3. TypeOK'
  BY <1>1, <1>2 DEF IInv, TypeOK, Place
<1> QED  BY <1>1, <1>3, RestIInv

LEMMA ClearIInv ==
    ASSUME IInv, NEW r \in Runner, Inline(r) \/ Lock(r)
    PROVE  IInv'
<1>1. CASE Inline(r)
  <2>1. TypeOK'
    BY <1>1 DEF Inline, Rest, Goto, IInv, TypeOK, Place
  <2>2. Done(version)' /\ Counts(r)'
    BY <1>1 DEF Inline, Rest, Goto, IInv, TypeOK, Done, Counts
  <2> QED  BY <1>1, <2>1, <2>2, StepTogether DEF Inline, Rest, Goto, IInv, TypeOK
<1>2. CASE Lock(r)
  <2>1. TypeOK'
    BY <1>2 DEF Lock, Goto, IInv, TypeOK, Place, NoProgress
  <2>2. Done(version)' /\ Counts(r)'
    BY <1>2 DEF Lock, Goto, IInv, TypeOK, Done, Counts
  <2> QED  BY <1>2, <2>1, <2>2, StepTogether DEF Lock, Goto, IInv, TypeOK
<1> QED  BY <1>1, <1>2

LEMMA UpdateIInv ==
    ASSUME IInv, NEW r \in Runner, NextUpdate(r) \/ List(r) \/ Statement(r)
    PROVE  IInv'
<1>1. CASE NextUpdate(r)
  <2>0. update[r] + 1 \in 0..Last /\ pc' \in [Runner -> Place]
    BY <1>1 DEF NextUpdate, Goto, IInv, TypeOK, Place
  <2>1. TypeOK'
    <3>1. progress' \in [toward : 0..Last, listed : 0..Last, current : 0..Steps]
      <4>1. progress \in [toward : 0..Last, listed : 0..Last, current : 0..Steps]
        BY DEF IInv, TypeOK
      <4>2. progress' = [progress EXCEPT !.toward = update[r] + 1, !.current = 0]
        BY <1>1 DEF NextUpdate
      <4>3. 0 \in 0..Steps  OBVIOUS
      <4> QED  BY <2>0, <4>1, <4>2, <4>3
    <3>2. update' \in [Runner -> 0..Last]
      BY <1>1, <2>0 DEF NextUpdate, IInv, TypeOK
    <3> QED
      BY <1>1, <2>0, <3>1, <3>2 DEF NextUpdate, Quiet, IInv, TypeOK
  <2>2. Done(version)' /\ Counts(r)'
    BY <1>1 DEF NextUpdate, Quiet, Goto, IInv, TypeOK, Done, Counts
  <2> QED  BY <1>1, <2>1, <2>2, StepTogether DEF NextUpdate, Quiet, Goto, IInv, TypeOK
<1>2. CASE List(r)
  <2>1. TypeOK'
    BY <1>2 DEF List, Quiet, Goto, IInv, TypeOK, Place
  <2>2. Done(version)' /\ Counts(r)'
    BY <1>2 DEF List, Quiet, Goto, IInv, TypeOK, Done, Counts
  <2> QED  BY <1>2, <2>1, <2>2, StepTogether DEF List, Quiet, Goto, IInv, TypeOK
<1>3. CASE Statement(r)
  <2>1. TypeOK'
    BY <1>3 DEF Statement, Quiet, IInv, TypeOK, Place
  <2>2. Done(version)' /\ Counts(r)'
    BY <1>3 DEF Statement, Quiet, IInv, TypeOK, Done, Counts
  <2> QED  BY <1>3, <2>1, <2>2, StepTogether DEF Statement, Quiet, IInv, TypeOK
<1> QED  BY <1>1, <1>2, <1>3

LEMMA RanIInv ==
    ASSUME IInv, NEW r \in Runner, Succeed(r) \/ Fail(r)
    PROVE  IInv'
<1>1. /\ pc[r] = "run" /\ attempted' = attempted \cup {update[r]}
      /\ UNCHANGED <<progress, update, at, lock, jobs, from, mishaps>>
      /\ pc' = [pc EXCEPT ![r] = "next"] \/ pc' = [pc EXCEPT ![r] = "failed"]
  BY DEF Succeed, Fail, Ran, Quiet, Goto
<1>2. update[r] \in 1..Last /\ Done(update[r] - 1)
  BY <1>1 DEF IInv, TypeOK, Counts
<1>3. Done(update[r])' /\ Done(update[r] - 1)'
  BY <1>1, <1>2 DEF Done
<1>4. version' \in {version, update[r]} /\ fails' \in {fails, 0} /\ counted' \in [Runner -> Nat]
  BY DEF Succeed, Fail, IInv, TypeOK
<1>5. TypeOK'
  <2>1. version' \in 0..Last /\ fails' \in Nat
    BY <1>2, <1>4 DEF IInv, TypeOK
  <2>2. pc' \in [Runner -> Place] /\ attempted' \subseteq 1..Last
    BY <1>1, <1>2 DEF IInv, TypeOK, Place
  <2> QED
    BY <1>1, <1>4, <2>1, <2>2 DEF IInv, TypeOK
<1>6. Done(version)'
  BY <1>1, <1>3, <1>4 DEF IInv, Done
<1>7. Counts(r)'
  BY <1>1, <1>2, <1>3 DEF Counts, IInv, TypeOK
<1> QED  BY <1>1, <1>5, <1>6, <1>7, StepTogether DEF IInv, TypeOK

LEMMA CountIInv ==
    ASSUME IInv, NEW r \in Runner, Count(r)
    PROVE  IInv'
<1>1. TypeOK'
  BY DEF Count, Quiet, Goto, IInv, TypeOK, Place
<1>2. Done(version)' /\ Counts(r)'
  BY DEF Count, Quiet, Goto, IInv, TypeOK, Done, Counts
<1> QED  BY <1>1, <1>2, StepTogether DEF Count, Quiet, Goto, IInv, TypeOK

LEMMA QuietIInv ==
    ASSUME IInv, Expire \/ Release \/ UNCHANGED vars
    PROVE  IInv'
<1>1. UNCHANGED <<version, progress, jobs, pc, from, update, at, counted, attempted>>
  BY DEF Expire, Release, vars, run
<1>2. lock' \in {lock, "free", "old"} /\ fails' \in {fails, 0} /\ mishaps' \in 0..MaxMishaps
  BY DEF Expire, Release, Mishap, vars, IInv, TypeOK
<1> QED  BY <1>1, <1>2 DEF IInv, TypeOK, Done, Counts

LEMMA NextIInv == IInv /\ [Next]_vars => IInv'
<1> SUFFICES ASSUME IInv, [Next]_vars PROVE IInv'  OBVIOUS
<1>1. CASE Expire \/ Release \/ UNCHANGED vars  BY <1>1, QuietIInv
<1>2. ASSUME NEW r \in Runner, Proceed(r) \/ Crash(r) PROVE IInv'
  BY <1>2, IdleIInv, ClearIInv, UpdateIInv, RanIInv, CountIInv DEF Proceed
<1>3. ASSUME NEW r \in Web, Request(r) PROVE IInv'
  BY <1>3, ReadIInv DEF Runner
<1>4. ASSUME NEW w \in Worker, TakeJob(w) \/ Shell(w) \/ Begin(w) \/ UpToDate(w) PROVE IInv'
  <2>1. w \in Runner  BY DEF Runner
  <2> QED  BY <1>4, <2>1, ReadIInv, IdleIInv
<1> QED  BY <1>1, <1>2, <1>3, <1>4 DEF Next

\* Every variable keeps its kind, for any number of updates, statements and processes.
THEOREM UpdatesTypeCorrect == Spec => []TypeOK
<1>1. IInv => TypeOK  BY DEF IInv
<1> QED  BY <1>1, InitIInv, NextIInv, PTL DEF Spec

\* The recorded version never tells of an update that was not run to its end
\* (AppModel::runUpdates), whichever processes run beside each other or die.
THEOREM VersionTells == Spec => []NoneSkipped
<1>1. IInv => NoneSkipped  BY DEF IInv, NoneSkipped, Done
<1> QED  BY <1>1, InitIInv, NextIInv, PTL DEF Spec

\* No process begins an update before every older one was run to its end.
THEOREM UpdatesInOrder == Spec => []InOrder
<1>1. IInv => InOrder  BY DEF IInv, InOrder, Counts, Done
<1> QED  BY <1>1, InitIInv, NextIInv, PTL DEF Spec
=============================================================================
