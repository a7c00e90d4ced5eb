----------------------------- MODULE UpdatePage -----------------------------
(***************************************************************************)
(* The page that follows the updates of the database.                      *)
(*                                                                         *)
(* A TaskScheduler polls the progress, quickly while statements are left,  *)
(* slowly at the end of an update.  When the progress is about another     *)
(* update than the table on the page, the polling is stopped, the page     *)
(* asks for the table again and starts polling when it has it.  A switch   *)
(* lets the user stop and start the polling; it is part of the table.      *)
(* Answers may come late, in any order, or not at all.                     *)
(*                                                                         *)
(* Sources: app/webroot/js/update_progress.js,                             *)
(* app/webroot/js/taskScheduler.js, app/View/Servers/update_progress.ctp.  *)
(***************************************************************************)
EXTENDS DatabaseUpdates

CONSTANT Call  \* requests of the page that may be on their way at once

VARIABLES
    page,    \* "closed", "live", or "dead": opened without a table, the script ends
    running, \* taskRunning: the interval timer is set
    fast,    \* its interval is the short one
    cancel,  \* cancelRequested
    switch,  \* the switch on the page: "on", "off" or "none"
    table,   \* data-towarddbversion, 0 without a table
    rows,    \* the update whose statements are the rows of the table
    shown,   \* the statement drawn as the current one
    call,    \* the requests on their way
    off,     \* history: the last thing the user did to the switch was to turn it off
    lost     \* history: a new table was asked for and never came

scheduler == <<running, fast, cancel>>
drawn     == <<table, rows, shown>>
pageVars  == <<page, scheduler, switch, drawn, call, off, lost>>
allVars   == <<vars, pageVars>>

Idle == [kind |-> "none", answer |-> NoProgress]
Sent(kind) == [kind |-> kind, answer |-> NoProgress]

PageInit ==
    /\ page = "closed" /\ running = FALSE /\ fast = TRUE /\ cancel = FALSE
    /\ switch = "none" /\ table = 0 /\ rows = 0 /\ shown = 0
    /\ call = [c \in Call |-> Idle] /\ off = FALSE /\ lost = FALSE

Free == {c \in Call : call[c].kind = "none"}

\* Fault: a cancelled scheduler stays cancelled.
PollKeepsCancel(calls, cancelled) ==
    /\ cancel' = cancelled
    /\ IF cancelled THEN call' = calls
       ELSE \E c \in {k \in Call : calls[k].kind = "none"} :
                call' = [calls EXCEPT ![c] = Sent("poll")]

\* _start: a run of the task that was cancelled is skipped, others poll.  calls are the
\* requests on their way before.
Poll(calls, cancelled) ==
    /\ cancel' = FALSE
    /\ IF cancelled THEN call' = calls
       ELSE \E c \in {k \in Call : calls[k].kind = "none"} :
                call' = [calls EXCEPT ![c] = Sent("poll")]

\* Fault: the current statement is drawn as the next one.
DrawNext(p) == /\ table' = IF p.listed = 0 THEN 0 ELSE p.toward
               /\ rows' = p.listed
               /\ shown' = p.current + 1

\* The table that comes with a progress; without statements there is none.
Draw(p) == /\ table' = IF p.listed = 0 THEN 0 ELSE p.toward
           /\ rows' = p.listed
           /\ shown' = p.current

\* The page is opened.  Without a table the constructor of the scheduler throws.
Open ==
    /\ page = "closed" /\ Draw(progress)
    /\ IF progress.listed = 0
       THEN page' = "dead" /\ UNCHANGED <<scheduler, switch, call>>
       ELSE /\ page' = "live" /\ running' = TRUE /\ switch' = "on"
            /\ Poll(call, FALSE) /\ UNCHANGED fast
    /\ UNCHANGED <<vars, off, lost>>

\* The interval timer.
Tick == /\ running /\ Poll(call, cancel)
        /\ UNCHANGED <<vars, page, running, fast, switch, drawn, off, lost>>

\* The user turns the switch.
TurnOff == /\ switch = "on" /\ switch' = "off" /\ running' = FALSE /\ off' = TRUE
           /\ UNCHANGED <<vars, page, fast, cancel, drawn, call, lost>>

TurnOn == /\ switch = "off" /\ switch' = "on" /\ off' = FALSE /\ running' = TRUE
          /\ IF running THEN UNCHANGED <<cancel, call>> ELSE Poll(call, cancel)
          /\ UNCHANGED <<vars, page, fast, drawn, lost>>

Answered == [poll |-> "polled", reload |-> "reloaded"]

\* The server answers a request; the answer is on its way.
Serve(c) ==
    /\ call[c].kind \in {"poll", "reload"}
    /\ call' = [call EXCEPT ![c] = [kind |-> Answered[@.kind], answer |-> progress]]
    /\ UNCHANGED <<vars, page, scheduler, switch, drawn, off, lost>>

\* It never does.
Lose(c) ==
    /\ call[c].kind # "none" /\ Mishap
    /\ call' = [call EXCEPT ![c] = Idle]
    /\ lost' = (lost \/ call[c].kind \in {"reload", "reloaded"})
    /\ UNCHANGED <<version, lock, fails, progress, jobs, run, attempted>>
    /\ UNCHANGED <<page, scheduler, switch, drawn, off>>

\* A change of the interval starts the timer again, whether it ran or not.
SetInterval(quick) ==
    /\ fast' = quick
    /\ IF fast = quick THEN UNCHANGED <<running, switch>>
       ELSE /\ running' = TRUE
            /\ switch' = IF switch = "none" THEN "none" ELSE "on"

AboutTable(p) == table # 0 /\ p.toward = table

\* The answer to a poll is about the table: the rows are marked.  At its last statement an
\* update is polled slowly.
Polled(c) ==
    /\ call[c].kind = "polled" /\ AboutTable(call[c].answer)
    /\ call' = [call EXCEPT ![c] = Idle]
    /\ shown' = call[c].answer.current
    /\ SetInterval(call[c].answer.current + 1 < Steps)
    /\ UNCHANGED <<vars, page, cancel, table, rows, off, lost>>

\* Another update: cancel, stop, ask for the table.
HardReload(c) ==
    /\ call[c].kind = "polled" /\ ~AboutTable(call[c].answer)
    /\ call' = [call EXCEPT ![c] = Sent("reload")]
    /\ cancel' = TRUE /\ running' = FALSE
    /\ switch' = IF running /\ switch = "on" THEN "off" ELSE switch
    /\ UNCHANGED <<vars, page, fast, drawn, off, lost>>

\* Fault: the polling is not started again.
ReloadedStopped(c) ==
    /\ call[c].kind = "reloaded" /\ Draw(call[c].answer)
    /\ fast' = TRUE /\ running' = ~fast
    /\ switch' = IF call[c].answer.listed = 0 THEN "none" ELSE IF running' THEN "on" ELSE "off"
    /\ call' = [call EXCEPT ![c] = Idle] /\ UNCHANGED cancel
    /\ UNCHANGED <<vars, page, off, lost>>

\* Fault: the new switch is drawn as the stopped one was left.
ReloadedUnchecked(c) ==
    /\ call[c].kind = "reloaded" /\ Draw(call[c].answer)
    /\ running' = TRUE /\ fast' = TRUE
    /\ switch' = IF call[c].answer.listed = 0 THEN "none" ELSE switch
    /\ LET rest == [call EXCEPT ![c] = Idle] IN
       IF running THEN call' = rest /\ UNCHANGED cancel ELSE Poll(rest, cancel)
    /\ UNCHANGED <<vars, page, off, lost>>

\* The new table with a new switch; the polling starts, unless somebody has started it.
Reloaded(c) ==
    /\ call[c].kind = "reloaded" /\ Draw(call[c].answer)
    /\ running' = TRUE /\ fast' = TRUE
    /\ switch' = IF call[c].answer.listed = 0 THEN "none" ELSE "on"
    /\ LET rest == [call EXCEPT ![c] = Idle] IN
       IF running THEN call' = rest /\ UNCHANGED cancel ELSE Poll(rest, cancel)
    /\ UNCHANGED <<vars, page, off, lost>>

PageNext ==
    \/ Open \/ Tick \/ TurnOff \/ TurnOn
    \/ \E c \in Call : Serve(c) \/ Lose(c) \/ Polled(c) \/ HardReload(c) \/ Reloaded(c)

FollowInit == Init /\ PageInit
FollowNext == (Next /\ UNCHANGED pageVars) \/ PageNext

\* The updates go on as in DatabaseUpdates; the timer fires, requests are answered.
FollowSpec ==
    /\ FollowInit /\ [][FollowNext]_allVars /\ Fairness
    /\ WF_allVars(Tick)
    /\ \A c \in Call : WF_allVars(Serve(c)) /\ WF_allVars(Polled(c) \/ HardReload(c) \/ Reloaded(c))

-----------------------------------------------------------------------------
\* Properties.

Reloading == {c \in Call : call[c].kind \in {"reload", "reloaded"}} # {}

\* Every variable holds values of its kind.
PageTypeOK ==
    /\ page \in {"closed", "live", "dead"} /\ running \in BOOLEAN /\ fast \in BOOLEAN
    /\ cancel \in BOOLEAN /\ switch \in {"on", "off", "none"}
    /\ table \in 0..Last /\ rows \in 0..Last /\ shown \in 0..Steps
    /\ call \in [Call -> [kind : {"none", "poll", "polled", "reload", "reloaded"},
                          answer : [toward : 0..Last, listed : 0..Last, current : 0..Steps]]]
    /\ off \in BOOLEAN /\ lost \in BOOLEAN

\* The switch on the page says whether the page polls: through reloads that overlap, late
\* answers that start a stopped timer, and the user.
SwitchTells == switch # "none" => (switch = "on") = running

\* A page that was polling stops only for the user, or while it waits for a table.
StopsForAReason == page = "live" /\ ~running => off \/ lost \/ Reloading

\* A page that follows the updates comes to show how they ended, whatever answers came late,
\* out of order or from before another run.
Followed ==
    <>[](page = "live" /\ ~off /\ ~lost =>
            table = (IF progress.listed = 0 THEN 0 ELSE progress.toward)
              /\ shown = progress.current)
=============================================================================
