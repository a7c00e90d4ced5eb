------------------------------ MODULE NewestWins ------------------------------
(***************************************************************************)
(* What the instances promise about their copies of one event: whatever is *)
(* queued, uploaded, fetched and saved in between, a copy is a version an  *)
(* author wrote, it is replaced by a newer one only, and an instance that  *)
(* banned the event takes it no more.  EventSync implements it.            *)
(***************************************************************************)
EXTENDS Naturals

CONSTANTS Node, None

VARIABLES clock,     \* the time
          written,   \* how many versions have been written
          around,    \* the versions that may still be taken from somewhere
          held,      \* the version each instance has
          banned     \* the instances that take none

promise == <<clock, written, around, held, banned>>

Start == /\ clock = 0 /\ written = 0 /\ around = {}
         /\ held = [n \in Node |-> None]
         /\ banned = [n \in Node |-> FALSE]

\* Versions may be lost on the way, those held by an instance are still around.
Around(versions) == /\ around' \subseteq versions
                    /\ \A n \in Node : held'[n] # None => held'[n] \in around'

Pass == /\ clock' = clock + 1
        /\ UNCHANGED <<written, around, held, banned>>

Forget == /\ Around(around)
          /\ UNCHANGED <<clock, written, held, banned>>

\* The first version, or a change of the version an instance has.
Write(n) ==
    /\ written = 0 \/ held[n] # None
    /\ LET version == [info |-> written + 1, ts |-> clock] IN
         /\ held' = [held EXCEPT ![n] = version]
         /\ Around(around \cup {version})
    /\ written' = written + 1
    /\ UNCHANGED <<clock, banned>>

Take(n, version) ==
    /\ ~banned[n]
    /\ held[n] # None => version.ts > held[n].ts
    /\ held' = [held EXCEPT ![n] = version]
    /\ Around(around)
    /\ UNCHANGED <<clock, written, banned>>

Remove(n) ==
    /\ held[n] # None
    /\ held' = [held EXCEPT ![n] = None]
    /\ \E ban \in BOOLEAN : banned' = [banned EXCEPT ![n] = ban]
    /\ Around(around)
    /\ UNCHANGED <<clock, written>>

Change == \/ Pass \/ Forget
          \/ \E n \in Node : Write(n) \/ Remove(n) \/ \E version \in around : Take(n, version)

Promise == Start /\ [][Change]_promise
===============================================================================
