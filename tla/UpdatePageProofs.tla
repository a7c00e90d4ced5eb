-------------------------- MODULE UpdatePageProofs --------------------------
(* The type invariant, SwitchTells and StopsForAReason of UpdatePage, for    *)
(* any number of requests of the page that are on their way.                 *)
EXTENDS UpdatePage, DatabaseUpdatesProofs

USE UpdatesAssumption

Kind   == {"none", "poll", "polled", "reload", "reloaded"}
Record == [toward : 0..Last, listed : 0..Last, current : 0..Steps]
Slot   == [kind : Kind, answer : Record]

\* The page's part of the invariant: its type and the two properties, each of which is inductive
\* given the type.
PageInv == PageTypeOK /\ SwitchTells /\ StopsForAReason

FollowInv == IInv /\ PageInv

LEMMA ProgressTyped ==
    ASSUME TypeOK PROVE progress \in Record
  BY DEF TypeOK, Record

LEMMA CallTyped ==
    ASSUME PageTypeOK
    PROVE  call \in [Call -> Slot] /\ \A c \in Call : call[c] \in Slot /\ call[c].answer \in Record
  BY DEF PageTypeOK, Slot, Kind, Record

LEMMA NoProgressTyped == NoProgress \in Record
  BY DEF NoProgress, Record

LEMMA SentTyped == Idle \in Slot /\ Sent("poll") \in Slot /\ Sent("reload") \in Slot
  BY NoProgressTyped DEF Idle, Sent, Slot, Kind

\* A poll takes a free place: the requests on their way stay, of whatever kind they are.
LEMMA PollKeeps ==
    ASSUME NEW calls \in [Call -> Slot], NEW cancelled \in BOOLEAN, Poll(calls, cancelled)
    PROVE  /\ cancel' = FALSE /\ call' \in [Call -> Slot]
           /\ \A c \in Call : calls[c].kind # "none" => call'[c] = calls[c]
<1>1. CASE cancelled  BY <1>1 DEF Poll
<1>2. CASE ~cancelled
  <2>1. PICK c \in {k \in Call : calls[k].kind = "none"} : call' = [calls EXCEPT ![c] = Sent("poll")]
    BY <1>2 DEF Poll
  <2> QED  BY <2>1, SentTyped DEF Poll
<1> QED  BY <1>1, <1>2

\* What is drawn of a progress is of its kind.
LEMMA DrawTyped ==
    ASSUME NEW p \in Record, Draw(p)
    PROVE  table' \in 0..Last /\ rows' \in 0..Last /\ shown' \in 0..Steps
  BY DEF Draw, Record

LEMMA FollowInitInv == FollowInit => FollowInv
<1> SUFFICES ASSUME FollowInit PROVE FollowInv  OBVIOUS
<1>1. IInv  BY InitIInv DEF FollowInit
<1>2. call \in [Call -> Slot]  BY SentTyped DEF FollowInit, PageInit
<1>3. PageTypeOK
  <2>1. table \in 0..Last /\ rows \in 0..Last /\ shown \in 0..Steps
    BY DEF FollowInit, PageInit
  <2>2. /\ page \in {"closed", "live", "dead"} /\ running \in BOOLEAN /\ fast \in BOOLEAN
        /\ cancel \in BOOLEAN /\ switch \in {"on", "off", "none"}
        /\ off \in BOOLEAN /\ lost \in BOOLEAN
    BY DEF FollowInit, PageInit
  <2> QED  BY <1>2, <2>1, <2>2 DEF PageTypeOK, Slot, Kind, Record
<1>4. SwitchTells /\ StopsForAReason
  BY DEF FollowInit, PageInit, SwitchTells, StopsForAReason
<1> QED  BY <1>1, <1>3, <1>4 DEF FollowInv, PageInv

\* The updates leave the page alone.
LEMMA UpdatesFollowInv ==
    ASSUME FollowInv, [Next]_vars, UNCHANGED pageVars PROVE FollowInv'
<1>1. IInv'  BY NextIInv DEF FollowInv
<1>2. PageInv'
  BY DEF FollowInv, PageInv, PageTypeOK, SwitchTells, StopsForAReason, Reloading,
         pageVars, scheduler, drawn
<1> QED  BY <1>1, <1>2 DEF FollowInv

\* A step of the page that touches nothing of the updates.
LEMMA PageStep ==
    ASSUME FollowInv, UNCHANGED vars, PageTypeOK', SwitchTells', StopsForAReason' PROVE FollowInv'
<1>1. IInv'  BY NextIInv DEF FollowInv
<1> QED  BY <1>1 DEF FollowInv, PageInv

LEMMA OpenInv == ASSUME FollowInv, Open PROVE FollowInv'
<1>1. TypeOK /\ PageTypeOK /\ SwitchTells /\ StopsForAReason  BY DEF FollowInv, IInv, PageInv
<1>2. table' \in 0..Last /\ rows' \in 0..Last /\ shown' \in 0..Steps
  BY <1>1, ProgressTyped, DrawTyped DEF Open
<1>3. CASE progress.listed = 0
  <2>1. page' = "dead" /\ UNCHANGED <<vars, running, fast, cancel, switch, call, off, lost>>
    BY <1>3 DEF Open, scheduler
  <2>2. PageTypeOK'  BY <1>1, <1>2, <2>1 DEF PageTypeOK
  <2>3. SwitchTells' /\ StopsForAReason'
    BY <1>1, <2>1 DEF SwitchTells, StopsForAReason
  <2> QED  BY <2>1, <2>2, <2>3, PageStep
<1>4. CASE progress.listed # 0
  <2>1. /\ page' = "live" /\ running' = TRUE /\ switch' = "on" /\ Poll(call, FALSE)
        /\ UNCHANGED <<vars, fast, off, lost>>
    BY <1>4 DEF Open
  <2>2. call' \in [Call -> Slot] /\ cancel' = FALSE
    BY <1>1, <2>1, PollKeeps, CallTyped
  <2>3. PageTypeOK'  BY <1>1, <1>2, <2>1, <2>2 DEF PageTypeOK, Slot, Kind, Record
  <2>4. SwitchTells' /\ StopsForAReason'
    BY <2>1 DEF SwitchTells, StopsForAReason
  <2> QED  BY <2>1, <2>3, <2>4, PageStep
<1> QED  BY <1>3, <1>4

LEMMA TimerInv == ASSUME FollowInv, Tick \/ TurnOff \/ TurnOn PROVE FollowInv'
<1>1. PageTypeOK /\ SwitchTells /\ StopsForAReason /\ call \in [Call -> Slot] /\ cancel \in BOOLEAN
  BY CallTyped DEF FollowInv, PageInv, PageTypeOK
<1>2. CASE Tick
  <2>1. call' \in [Call -> Slot] /\ cancel' = FALSE /\ running
    BY <1>1, <1>2, PollKeeps DEF Tick
  <2>2. PageTypeOK' /\ SwitchTells' /\ StopsForAReason'
    BY <1>1, <1>2, <2>1
       DEF Tick, drawn, PageTypeOK, Slot, Kind, Record, SwitchTells, StopsForAReason
  <2> QED  BY <1>2, <2>2, PageStep DEF Tick
<1>3. CASE TurnOff
  <2>1. PageTypeOK' /\ SwitchTells' /\ StopsForAReason'
    BY <1>1, <1>3 DEF TurnOff, drawn, PageTypeOK, SwitchTells, StopsForAReason
  <2> QED  BY <1>3, <2>1, PageStep DEF TurnOff
<1>4. CASE TurnOn
  <2>1. call' \in [Call -> Slot] /\ cancel' \in BOOLEAN /\ running' = TRUE
    BY <1>1, <1>4, PollKeeps DEF TurnOn
  <2>2. PageTypeOK' /\ SwitchTells' /\ StopsForAReason'
    BY <1>1, <1>4, <2>1
       DEF TurnOn, drawn, PageTypeOK, Slot, Kind, Record, SwitchTells, StopsForAReason
  <2> QED  BY <1>4, <2>2, PageStep DEF TurnOn
<1> QED  BY <1>2, <1>3, <1>4

LEMMA ServeInv == ASSUME FollowInv, NEW c \in Call, Serve(c) PROVE FollowInv'
<1>1. PageTypeOK /\ SwitchTells /\ StopsForAReason /\ call \in [Call -> Slot] /\ progress \in Record
  BY CallTyped, ProgressTyped DEF FollowInv, PageInv, IInv
<1>2. /\ call[c].kind \in {"poll", "reload"}
      /\ call' = [call EXCEPT ![c] = [kind |-> Answered[call[c].kind], answer |-> progress]]
      /\ UNCHANGED <<vars, page, running, fast, cancel, switch, table, rows, shown, off, lost>>
  BY DEF Serve, scheduler, drawn
<1>3. /\ call[c].kind = "poll" => Answered[call[c].kind] = "polled"
      /\ call[c].kind = "reload" => Answered[call[c].kind] = "reloaded"
  BY DEF Answered
<1>4. [kind |-> Answered[call[c].kind], answer |-> progress] \in Slot
  BY <1>1, <1>2, <1>3 DEF Slot, Kind
<1>5. call' \in [Call -> Slot]  BY <1>1, <1>2, <1>4
<1>6. PageTypeOK' /\ SwitchTells'
  BY <1>1, <1>2, <1>5 DEF PageTypeOK, Slot, Kind, Record, SwitchTells
<1>7. Reloading => Reloading'
  BY <1>1, <1>2, <1>3 DEF Reloading
<1>8. StopsForAReason'
  BY <1>1, <1>2, <1>7 DEF StopsForAReason
<1> QED  BY <1>2, <1>6, <1>8, PageStep

LEMMA LoseInv == ASSUME FollowInv, NEW c \in Call, Lose(c) PROVE FollowInv'
<1>1. PageTypeOK /\ SwitchTells /\ StopsForAReason /\ call \in [Call -> Slot] /\ IInv
  BY CallTyped DEF FollowInv, PageInv
<1>2. /\ call' = [call EXCEPT ![c] = Idle]
      /\ lost' = (lost \/ call[c].kind \in {"reload", "reloaded"})
      /\ UNCHANGED <<page, running, fast, cancel, switch, table, rows, shown, off>>
      /\ UNCHANGED <<version, lock, fails, progress, jobs, pc, from, update, at, counted, attempted>>
      /\ mishaps' \in 0..MaxMishaps
  BY <1>1 DEF Lose, scheduler, drawn, run, Mishap, IInv, TypeOK
<1>3. IInv'
  BY <1>1, <1>2 DEF IInv, TypeOK, Done, Counts
<1>4. call' \in [Call -> Slot]  BY <1>1, <1>2, SentTyped
<1>5. lost' \in BOOLEAN  BY <1>1, <1>2 DEF PageTypeOK
<1>6. PageTypeOK' /\ SwitchTells'
  BY <1>1, <1>2, <1>4, <1>5 DEF PageTypeOK, Slot, Kind, Record, SwitchTells
<1>7. Reloading => Reloading' \/ lost'
  BY <1>1, <1>2 DEF Reloading
<1>8. StopsForAReason'
  BY <1>1, <1>2, <1>7 DEF StopsForAReason
<1> QED  BY <1>3, <1>6, <1>8 DEF FollowInv, PageInv

LEMMA PolledInv == ASSUME FollowInv, NEW c \in Call, Polled(c) PROVE FollowInv'
<1>1. PageTypeOK /\ SwitchTells /\ StopsForAReason /\ call \in [Call -> Slot]
      /\ call[c].answer \in Record
  BY CallTyped DEF FollowInv, PageInv
<1> DEFINE quick == call[c].answer.current + 1 < Steps
<1>2. /\ call[c].kind = "polled" /\ call' = [call EXCEPT ![c] = Idle]
      /\ shown' = call[c].answer.current /\ SetInterval(quick)
      /\ UNCHANGED <<vars, page, cancel, table, rows, off, lost>>
  BY DEF Polled
<1>3. quick \in BOOLEAN  OBVIOUS
<1> HIDE DEF quick
<1>4. /\ fast' \in BOOLEAN /\ running' \in BOOLEAN /\ switch' \in {"on", "off", "none"}
      /\ running => running'
      /\ switch' # "none" => (switch' = "on") = running'
  BY <1>1, <1>2, <1>3 DEF SetInterval, PageTypeOK, SwitchTells
<1>5. call' \in [Call -> Slot] /\ shown' \in 0..Steps
  BY <1>1, <1>2, SentTyped DEF Record
<1>6. PageTypeOK'
  BY <1>1, <1>2, <1>4, <1>5 DEF PageTypeOK, Slot, Kind, Record
<1>7. Reloading => Reloading'
  BY <1>1, <1>2 DEF Reloading
<1>8. SwitchTells' /\ StopsForAReason'
  BY <1>1, <1>2, <1>4, <1>7 DEF SwitchTells, StopsForAReason
<1> QED  BY <1>2, <1>6, <1>8, PageStep

LEMMA HardReloadInv == ASSUME FollowInv, NEW c \in Call, HardReload(c) PROVE FollowInv'
<1>1. PageTypeOK /\ SwitchTells /\ StopsForAReason /\ call \in [Call -> Slot]
  BY CallTyped DEF FollowInv, PageInv
<1>2. /\ call' = [call EXCEPT ![c] = Sent("reload")] /\ cancel' = TRUE /\ running' = FALSE
      /\ switch' = (IF running /\ switch = "on" THEN "off" ELSE switch)
      /\ UNCHANGED <<vars, page, fast, table, rows, shown, off, lost>>
  BY DEF HardReload, drawn
<1>3. call' \in [Call -> Slot]  BY <1>1, <1>2, SentTyped
<1>4. PageTypeOK' /\ SwitchTells'
  BY <1>1, <1>2, <1>3 DEF PageTypeOK, Slot, Kind, Record, SwitchTells
<1>5. Reloading'
  BY <1>1, <1>2 DEF Reloading, Sent
<1> QED  BY <1>2, <1>4, <1>5, PageStep DEF StopsForAReason

LEMMA ReloadedInv == ASSUME FollowInv, NEW c \in Call, Reloaded(c) PROVE FollowInv'
<1>1. PageTypeOK /\ call \in [Call -> Slot] /\ call[c].answer \in Record /\ cancel \in BOOLEAN
  BY CallTyped DEF FollowInv, PageInv, PageTypeOK
<1> DEFINE rest == [call EXCEPT ![c] = Idle]
<1>2. /\ Draw(call[c].answer) /\ running' = TRUE /\ fast' = TRUE
      /\ switch' = (IF call[c].answer.listed = 0 THEN "none" ELSE "on")
      /\ IF running THEN call' = rest /\ UNCHANGED cancel ELSE Poll(rest, cancel)
      /\ UNCHANGED <<vars, page, off, lost>>
  BY DEF Reloaded
<1>3. rest \in [Call -> Slot]  BY <1>1, SentTyped
<1> HIDE DEF rest
<1>4. call' \in [Call -> Slot] /\ cancel' \in BOOLEAN
  BY <1>1, <1>2, <1>3, PollKeeps
<1>5. table' \in 0..Last /\ rows' \in 0..Last /\ shown' \in 0..Steps
  BY <1>1, <1>2, DrawTyped
<1>6. PageTypeOK'
  BY <1>1, <1>2, <1>4, <1>5 DEF PageTypeOK, Slot, Kind, Record
<1>7. SwitchTells' /\ StopsForAReason'
  BY <1>2 DEF SwitchTells, StopsForAReason
<1> QED  BY <1>2, <1>6, <1>7, PageStep

LEMMA FollowNextInv == FollowInv /\ [FollowNext]_allVars => FollowInv'
<1> SUFFICES ASSUME FollowInv, [FollowNext]_allVars PROVE FollowInv'  OBVIOUS
<1>1. CASE Next /\ UNCHANGED pageVars  BY <1>1, UpdatesFollowInv
<1>2. CASE UNCHANGED allVars  BY <1>2, UpdatesFollowInv DEF allVars
<1>3. CASE PageNext
  BY <1>3, OpenInv, TimerInv, ServeInv, LoseInv, PolledInv, HardReloadInv, ReloadedInv DEF PageNext
<1> QED  BY <1>1, <1>2, <1>3 DEF FollowNext

\* The page's variables keep their kinds, for any number of requests on their way.
THEOREM PageTypeCorrect == FollowSpec => []PageTypeOK
<1>1. FollowInv => PageTypeOK  BY DEF FollowInv, PageInv
<1> QED  BY <1>1, FollowInitInv, FollowNextInv, PTL DEF FollowSpec

\* The switch never says that the page polls when it does not, or the reverse
\* (TaskScheduler, createSwitch).
THEOREM SwitchTellsAlways == FollowSpec => []SwitchTells
<1>1. FollowInv => SwitchTells  BY DEF FollowInv, PageInv
<1> QED  BY <1>1, FollowInitInv, FollowNextInv, PTL DEF FollowSpec

\* The polling stops only for the user or a table that is awaited or was lost, in whatever order
\* answers come (update_state).
THEOREM NeverStopsByItself == FollowSpec => []StopsForAReason
<1>1. FollowInv => StopsForAReason  BY DEF FollowInv, PageInv
<1> QED  BY <1>1, FollowInitInv, FollowNextInv, PTL DEF FollowSpec
=============================================================================
