----------------------------- MODULE MCEventSync -----------------------------
(* Small networks of three or four instances on which EventSync is checked; *)
(* a creates the event.                                                     *)
EXTENDS EventSync

CONSTANTS a, b, c, d

\* Server entries.
NoLinks == {}
PushOne == {<<a, b>>}
\* a feeds two instances that push to each other.
Loop == {<<a, b>>, <<b, c>>, <<c, b>>}
\* Two instances feed a third, which a also pulls from.
Fork == {<<a, b>>, <<c, b>>}
ForkBack == {<<c, b>>, <<a, b>>}
ForkInternal == {<<c, b>>}
\* c pulls from b, b pulls from a.
PullChain == {<<b, a>>, <<c, b>>}
\* ... and pushes to d.
PushOn == {<<b, d>>}

\* Instances.
NoOne == {}
OnlyA == {a}
OnlyB == {b}
OnlyAB == {a, b}
All == {a, b, c}
Four == {a, b, c, d}

\* Values of the force argument.
OnlyFalse == {FALSE}
Booleans == {TRUE, FALSE}
==============================================================================
