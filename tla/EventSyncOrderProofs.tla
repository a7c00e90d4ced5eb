------------------------- MODULE EventSyncOrderProofs -------------------------
(* Which versions a copy may be replaced by, on every network of instances.  *)
(* The theorems name what they need: where the check and the save of a      *)
(* request are one step, or where no pull is forced.                        *)
EXTENDS EventSyncProofs

------------------------------------------------------------------------------
\* Versions only get newer.  The timestamps compared at the destination say
\* nothing of the clock, so the invariant bounds every timestamp by it.

Timely == /\ \A n \in Node : copy[n] # None => copy[n].ts <= now
          /\ \A p \in Process : flight[p] # None => flight[p].row.ts <= now
                                                    /\ ~flight[p].force
          /\ \A s \in Server : ~sync[s].force

Newer == \A n \in Node : copy[n] # None /\ copy'[n] # None => copy'[n].ts >= copy[n].ts

\* The clock and the tasks stand still, and transfers only end.
Calm == /\ UNCHANGED <<now, sync>>
        /\ \A p \in Process : flight'[p] \in {flight[p], None}

LEMMA CalmFlight == UNCHANGED <<now, sync, flight>> => Calm
  BY DEF Calm

LEMMA CopyTs ==
    ASSUME TypeOK, NEW n \in Node, Has(n)
    PROVE  copy[n].ts \in Nat /\ now \in Nat
  BY CopyType DEF Has, Row, TypeOK

\* Writing a row that is not older, and not from the future.
LEMMA NewerRow ==
    ASSUME TypeOK, Timely, NEW n \in Node, NEW row \in Row,
           Has(n) => row.ts >= copy[n].ts, row.ts <= now,
           copy' = [copy EXCEPT ![n] = row], Calm
    PROVE  Timely' /\ Newer
  <1>1. \A m \in Node : copy'[m] = IF m = n THEN row ELSE copy[m]
    BY DEF TypeOK
  <1>2. \A m \in Node : Has(m) => copy[m].ts \in Nat
    BY CopyTs
  <1> QED
    BY <1>1, <1>2 DEF Timely, Newer, Has, Row, Calm

LEMMA SameRow ==
    ASSUME TypeOK, Timely, UNCHANGED copy, Calm
    PROVE  Timely' /\ Newer
  <1>1. \A m \in Node : Has(m) => copy[m].ts \in Nat
    BY CopyTs
  <1> QED
    BY <1>1 DEF Timely, Newer, Has, Calm

LEMMA NewFlight ==
    ASSUME TypeOK, Timely, UNCHANGED <<copy, now>>, NEW p \in Process, NEW m,
           flight' = [flight EXCEPT ![p] = m], m # None => m.row.ts <= now /\ ~m.force,
           \A s \in Server : sync'[s] = sync[s] \/ ~sync'[s].force
    PROVE  Timely' /\ Newer
  <1>1. \A m1 \in Node : Has(m1) => copy[m1].ts \in Nat
    BY CopyTs
  <1> QED
    BY <1>1 DEF Timely, Newer, Has, TypeOK

LEMMA NewSync ==
    ASSUME TypeOK, Timely, UNCHANGED <<copy, now, flight>>,
           \A s \in Server : sync'[s] = sync[s] \/ ~sync'[s].force
    PROVE  Timely' /\ Newer
  <1>1. \A m \in Node : Has(m) => copy[m].ts \in Nat
    BY CopyTs
  <1> QED
    BY <1>1 DEF Timely, Newer, Has

LEMMA SentTs ==
    ASSUME NEW row \in Row, NEW s
    PROVE  Outgoing(row, s).ts = row.ts /\ Incoming(row, s).ts = row.ts
  BY DEF Outgoing, Incoming, Row

LEMMA UserOrder ==
    ASSUME TypeOK, Timely, NEW n \in Node, UserStep(n)
    PROVE  Timely' /\ Newer
  <1>0. Has(n) => copy[n] \in Row /\ copy[n].ts <= now /\ copy[n].ts \in Nat /\ now \in Nat
    BY CopyType, CopyTs DEF Has, Timely
  <1>1. ASSUME NEW d \in Levels, Edit(n, d)
        PROVE  Timely' /\ Newer
    <2> DEFINE row == [Written(n, d) EXCEPT !.org = copy[n].org, !.locked = copy[n].locked]
    <2>1. Written(n, d) \in Row /\ copy[n] \in Row
      BY <1>0, <1>1, WrittenType, FlagAssumption DEF Edit
    <2>2. row \in Row /\ row.ts = now
      BY <2>1 DEF Row, Written
    <2>3. copy' = [copy EXCEPT ![n] = row] /\ Calm
      BY <1>1, CalmFlight DEF Edit
    <2> HIDE DEF row
    <2>8. row.ts <= now /\ (Has(n) => row.ts >= copy[n].ts)
      BY <1>0, <1>1, <2>2 DEF Edit
    <2> QED
      BY <2>2, <2>3, <2>8, NewerRow
  <1>2. CASE Publish(n)
    <2> DEFINE row == [copy[n] EXCEPT !.pub = TRUE]
    <2>1. row \in Row /\ row.ts = copy[n].ts
      BY <1>0, <1>2 DEF Publish, Row
    <2>2. copy' = [copy EXCEPT ![n] = row] /\ Calm
      BY <1>2, CalmFlight DEF Publish, PublishRouter
    <2> HIDE DEF row
    <2>8. row.ts <= now /\ (Has(n) => row.ts >= copy[n].ts)
      BY <1>0, <1>2, <2>1 DEF Publish
    <2> QED
      BY <2>1, <2>2, <2>8, NewerRow
  <1>3. CASE Unpublish(n)
    <2> DEFINE row == [copy[n] EXCEPT !.pub = FALSE]
    <2>1. row \in Row /\ row.ts = copy[n].ts
      BY <1>0, <1>3 DEF Unpublish, Row
    <2>2. copy' = [copy EXCEPT ![n] = row] /\ Calm
      BY <1>3, CalmFlight DEF Unpublish
    <2> HIDE DEF row
    <2>8. row.ts <= now /\ (Has(n) => row.ts >= copy[n].ts)
      BY <1>0, <1>3, <2>1 DEF Unpublish
    <2> QED
      BY <2>1, <2>2, <2>8, NewerRow
  <1>4. CASE Delete(n)
    <2>1. \A m \in Node : copy'[m] = copy[m] \/ copy'[m] = None
      BY <1>4 DEF Delete, TypeOK
    <2>2. \A m \in Node : Has(m) => copy[m].ts \in Nat
      BY CopyTs
    <2> QED
      BY <1>4, <2>1, <2>2 DEF Delete, Timely, Newer, Has
  <1> QED
    BY <1>1, <1>2, <1>3, <1>4 DEF UserStep

LEMMA JobOrder ==
    ASSUME TypeOK, Timely, NEW n \in Node, NEW w \in Worker, JobStep(n, w)
    PROVE  Timely' /\ Newer
  <1>0. /\ Has(n) => copy[n] \in Row /\ copy[n].ts <= now /\ copy[n].ts \in Nat /\ now \in Nat
        /\ <<n, w>> \in Process
    BY CopyType, CopyTs, WorkerType DEF Has, Timely
  <1>1. CASE JobSave(n, w)
    <2>1. CASE Has(n)
      <3> DEFINE row == Flagged(n, w)
      <3>1. row.ts = copy[n].ts /\ row \in Row
        <4>1. job[n][w].info \in Nat
          BY DEF TypeOK, Job
        <4> QED
          BY <1>0, <2>1, <4>1 DEF Flagged, Row
      <3>2. copy' = [copy EXCEPT ![n] = row] /\ Calm
        BY <1>1, <2>1, CalmFlight DEF JobSave
      <3> HIDE DEF row
      <3>3. row.ts <= now /\ (Has(n) => row.ts >= copy[n].ts)
        BY <1>0, <2>1, <3>1
      <3> QED
        BY <3>1, <3>2, <3>3, NewerRow
    <2>2. CASE ~Has(n)
      BY <1>1, <2>2, SameRow, CalmFlight DEF JobSave
    <2> QED
      BY <2>1, <2>2
  <1>2. ASSUME NEW m \in Node, JobUpload(n, w, m)
        PROVE  Timely' /\ Newer
    <2> DEFINE msg == Carry(<<n, m>>, n, "push", FALSE, Outgoing(copy[n], <<n, m>>))
    <2>1. CASE flight' = flight
      BY <1>2, <2>1, SameRow, CalmFlight DEF JobUpload
    <2>2. CASE Has(n) /\ flight' = [flight EXCEPT ![<<n, w>>] = msg]
      <3>1. msg.row.ts = copy[n].ts /\ ~msg.force
        BY <1>0, <2>2, SentTs DEF Carry
      <3>2. flight' = [flight EXCEPT ![<<n, w>>] = msg] /\ UNCHANGED <<copy, now, sync>>
        BY <1>2, <2>2 DEF JobUpload
      <3> HIDE DEF msg
      <3> QED
        BY <1>0, <2>2, <3>1, <3>2, NewFlight
    <2> QED
      BY <1>2, <2>1, <2>2 DEF JobUpload
  <1>3. CASE JobStart(n, w) \/ JobRefused(n, w) \/ JobEnd(n, w)
    BY <1>3, SameRow, CalmFlight DEF JobStart, JobRefused, JobEnd
  <1> QED
    BY <1>1, <1>2, <1>3 DEF JobStep

LEMMA SyncOrder ==
    ASSUME TypeOK, Timely, PullForce \subseteq {FALSE}, NEW s \in Server, SyncStep(s)
    PROVE  Timely' /\ Newer
  <1>0. /\ s[1] \in Node /\ s[2] \in Node /\ s \in Process
        /\ \A n \in Node : copy[n] # None => copy[n] \in Row /\ copy[n].ts <= now
        /\ ~sync[s].force
    BY ServerType, CopyType DEF Timely
  <1>1. CASE PullFetch(s)
    <2> DEFINE msg == Carry(s, s[2], "pull", sync[s].force, Incoming(copy[s[2]], s))
    <2>0. \A t \in Server : sync'[t] = sync[t] \/ ~sync'[t].force
      BY <1>1 DEF PullFetch, SetSync, TypeOK
    <2>1. CASE flight' = flight
      BY <1>1, <2>0, <2>1, NewSync DEF PullFetch
    <2>2. CASE copy[s[2]] # None /\ flight' = [flight EXCEPT ![s] = msg]
      <3>1. msg.row.ts = copy[s[2]].ts /\ ~msg.force
        BY <1>0, <2>2, SentTs DEF Carry
      <3>2. flight' = [flight EXCEPT ![s] = msg] /\ UNCHANGED <<copy, now>>
        BY <1>1, <2>2 DEF PullFetch
      <3> HIDE DEF msg
      <3> QED
        BY <1>0, <2>0, <2>2, <3>1, <3>2, NewFlight
    <2> QED
      BY <1>1, <2>1, <2>2 DEF PullFetch
  <1>2. CASE PushFetch(s)
    <2> DEFINE msg == Carry(s, s[1], "push", FALSE, Outgoing(copy[s[1]], s))
    <2>0. \A t \in Server : sync'[t] = sync[t] \/ ~sync'[t].force
      BY <1>2 DEF PushFetch, SetSync, TypeOK
    <2>1. CASE flight' = flight
      BY <1>2, <2>0, <2>1, NewSync DEF PushFetch
    <2>2. CASE Has(s[1]) /\ flight' = [flight EXCEPT ![s] = msg]
      <3>1. msg.row.ts = copy[s[1]].ts /\ ~msg.force
        BY <1>0, <2>2, SentTs DEF Carry, Has
      <3>2. flight' = [flight EXCEPT ![s] = msg] /\ UNCHANGED <<copy, now>>
        BY <1>2, <2>2 DEF PushFetch
      <3> HIDE DEF msg
      <3> QED
        BY <1>0, <2>0, <2>2, <3>1, <3>2, NewFlight DEF Has
    <2> QED
      BY <1>2, <2>1, <2>2 DEF PushFetch
  <1>3. CASE PullList(s) \/ PushList(s)
    <2>1. PICK t \in SyncTask : sync' = [sync EXCEPT ![s] = t] /\ ~t.force
      <3>1. CASE PullList(s)
        <4>1. PICK force \in PullForce : SetSync(s, "pulling", force)
          BY <3>1 DEF PullList
        <4>2. [at |-> "pulling", force |-> FALSE] \in SyncTask
          BY DEF SyncTask
        <4> QED
          BY <4>1, <4>2 DEF SetSync
      <3>2. CASE PushList(s)
        <4>1. [at |-> "pushing", force |-> FALSE] \in SyncTask
          BY DEF SyncTask
        <4> QED
          BY <3>2, <4>1 DEF PushList, SetSync
      <3> QED
        BY <1>3, <3>1, <3>2
    <2>2. UNCHANGED <<copy, now, flight>>
      BY <1>3 DEF PullList, PushList
    <2> QED
      BY <2>1, <2>2, NewSync DEF TypeOK
  <1> QED
    BY <1>1, <1>2, <1>3 DEF SyncStep

LEMMA ArrivalOrder ==
    ASSUME TypeOK, Timely, ~SplitEdit, NEW p \in Process, Arrival(p) \/ Fail(p)
    PROVE  Timely' /\ Newer
  <1>1. CASE Save(p)
    <2>1. flight[p] \in Message /\ flight[p].row.ts <= now /\ ~flight[p].force
      BY <1>1, FlightType DEF Save, Timely
    <2>2. flight[p].dst \in Node
      BY <2>1, MessageType
    <2>3. PICK how \in {"add", "edit"} :
             /\ SaveAs(p, how)
             /\ how = "edit" <=> Has(flight[p].dst)
             /\ how = Verdict(flight[p])
      BY <1>1, SaveCases
    <2> DEFINE row == Stored(flight[p], how)
               new == IF Publishes(flight[p], how) THEN [row EXCEPT !.pub = TRUE] ELSE row
    <2>4. row \in Row
      BY <2>1, <2>3, StoredType DEF Has
    <2>5. row.ts = flight[p].row.ts
      BY <2>1, MessageType DEF Stored, Row
    <2>6. Has(flight[p].dst) => row.ts >= copy[flight[p].dst].ts
      <3> SUFFICES ASSUME Has(flight[p].dst)
                   PROVE  row.ts >= copy[flight[p].dst].ts
        OBVIOUS
      <3>1. MayEdit(flight[p])
        BY <2>3 DEF Verdict
      <3>2. flight[p].row.ts > copy[flight[p].dst].ts
        BY <2>1, <3>1 DEF MayEdit
      <3>3. flight[p].row.ts \in Nat /\ copy[flight[p].dst].ts \in Nat
        BY <2>1, <2>2, CopyTs, MessageType DEF Row
      <3> HIDE DEF row
      <3> QED
        BY <2>5, <3>2, <3>3
    <2> HIDE DEF row
    <2>7. new \in Row /\ new.ts = row.ts
      BY <2>4 DEF Row
    <2>8. copy' = [copy EXCEPT ![flight[p].dst] = new]
      BY <2>3 DEF SaveAs, PublishRouter, row
    <2> HIDE DEF new
    <2>9. Calm
      BY <2>3 DEF SaveAs, TypeOK, Calm
    <2> QED
      BY <2>1, <2>2, <2>5, <2>6, <2>7, <2>8, <2>9, NewerRow
  <1>2. CASE Refuse(p) \/ Fail(p)
    <2>1. UNCHANGED copy /\ Calm
      BY <1>2 DEF Refuse, Fail, Drop, TypeOK, Calm
    <2> QED
      BY <2>1, SameRow
  <1>3. CASE Accept(p)
    BY <1>3 DEF Accept
  <1> QED
    BY <1>1, <1>2, <1>3 DEF Arrival

LEMMA StepOrder ==
    ASSUME TypeOK, Timely, ~SplitEdit, PullForce \subseteq {FALSE}, [Next]_vars
    PROVE  Timely' /\ Newer
  <1>1. CASE Tick \/ UNCHANGED vars
    <2>1. \A m \in Node : Has(m) => copy[m].ts \in Nat /\ now \in Nat
      BY CopyTs
    <2>2. \A p \in Process : flight[p] # None => flight[p].row.ts \in Nat
      BY FlightType, MessageType DEF Row
    <2>3. now \in Nat /\ (now' = now \/ now' = now + 1) /\ UNCHANGED <<copy, flight, sync>>
      BY <1>1 DEF TypeOK, Tick, vars
    <2> QED
      BY <2>1, <2>2, <2>3 DEF Timely, Newer, Has
  <1>2. ASSUME NEW d \in Levels, Create(d)
        PROVE  Timely' /\ Newer
    <2>1. Written(Origin, d) \in Row /\ Written(Origin, d).ts = now /\ now \in Nat
      BY WrittenType, NetAssumption, FlagAssumption DEF Written, TypeOK
    <2>2. /\ Written(Origin, d).ts <= now /\ ~Has(Origin) /\ Calm /\ Origin \in Node
          /\ copy' = [copy EXCEPT ![Origin] = Written(Origin, d)]
      BY <1>2, <2>1, CalmFlight, NetAssumption DEF Create
    <2> QED
      BY <2>1, <2>2, NewerRow
  <1> QED
    BY <1>1, <1>2, UserOrder, JobOrder, SyncOrder, ArrivalOrder DEF Next

\* Where the comparison of Event::_edit and its save are one step and no pull
\* is forced, no copy is ever replaced by an older version, by any route.
THEOREM Ordered ==
    ASSUME ~SplitEdit, PullForce \subseteq {FALSE}
    PROVE  Spec => NeverOlder
  <1>1. Init => Timely
    BY DEF Init, Timely, NoSync
  <1>2. TypeOK /\ Timely /\ [Next]_vars => Timely' /\ Newer
    BY StepOrder
  <1>3. TypeOK /\ Timely /\ [Next]_vars => [Newer]_vars
    BY <1>2
  <1>4. Spec => [][Newer]_vars
    BY <1>1, <1>2, <1>3, TypeCorrect, PTL DEF Spec
  <1> QED
    BY <1>4 DEF NeverOlder, Newer

News == \A n \in Node : Len(queue'[n]) > Len(queue[n])
                            => \/ asked' > asked
                               \/ Has(n)' /\ (Has(n) => copy'[n].ts > copy[n].ts)

\* A job that is taken makes the queue no longer.
LEMMA Shorter ==
    ASSUME NEW q \in Seq(Node \cup {None})
    PROVE  Len(q) \in Nat /\ (q # << >> => Len(Tail(q)) = Len(q) - 1)
  OBVIOUS

LEMMA NotLonger ==
    ASSUME TypeOK, \A n \in Node : queue'[n] = queue[n]
                                   \/ (queue[n] # << >> /\ queue'[n] = Tail(queue[n]))
    PROVE  News
  <1>1. \A n \in Node : queue[n] \in Seq(Node \cup {None})
    BY DEF TypeOK
  <1>2. \A n \in Node : ~(Len(queue'[n]) > Len(queue[n]))
    <2> SUFFICES ASSUME NEW n \in Node PROVE ~(Len(queue'[n]) > Len(queue[n]))
      OBVIOUS
    <2>1. Len(queue[n]) \in Nat /\ (queue[n] # << >> => Len(Tail(queue[n])) = Len(queue[n]) - 1)
      BY <1>1, Shorter
    <2>2. Len(queue'[n]) = Len(queue[n]) \/ Len(queue'[n]) = Len(queue[n]) - 1
      BY <2>1
    <2> QED
      BY <2>1, <2>2
  <1> QED
    BY <1>2 DEF News

LEMMA StepNews ==
    ASSUME TypeOK, Timely, ~SplitEdit, [Next]_vars
    PROVE  News
  <1>1. CASE UNCHANGED queue
    BY <1>1, NotLonger
  <1>2. ASSUME NEW n \in Node, Publish(n) PROVE News
    <2>1. asked' > asked
      BY <1>2 DEF Publish, TypeOK
    <2> QED
      BY <2>1 DEF News
  <1>3. ASSUME NEW n \in Node, NEW w \in Worker, JobStart(n, w) PROVE News
    <2>1. queue[n] # << >> /\ queue' = [queue EXCEPT ![n] = Tail(queue[n])]
      BY <1>3 DEF JobStart
    <2>2. \A k \in Node : queue'[k] = IF k = n THEN Tail(queue[n]) ELSE queue[k]
      BY <2>1 DEF TypeOK
    <2> QED
      BY <2>1, <2>2, NotLonger
  <1>4. ASSUME NEW p \in Process, Save(p) PROVE News
    <2>1. flight[p] \in Message /\ ~flight[p].force /\ flight[p].dst \in Node
      BY <1>4, FlightType, MessageType DEF Save, Timely
    <2>2. PICK how \in {"add", "edit"} :
             /\ SaveAs(p, how)
             /\ how = "edit" <=> Has(flight[p].dst)
             /\ how = Verdict(flight[p])
      BY <1>4, SaveCases
    <2>m. PICK m \in Node : m = flight[p].dst
      BY <2>1
    <2>3. Stored(flight[p], how) \in Row /\ Stored(flight[p], how).ts = flight[p].row.ts
      BY <2>1, <2>2, StoredType, MessageType DEF Has, Stored, Row
    <2>4. \A k \in Node : k # m => queue'[k] = queue[k]
      BY <2>2, <2>m DEF SaveAs, PublishRouter, TypeOK
    <2>5. Has(m)' /\ copy'[m].ts = flight[p].row.ts
      <3> DEFINE row == Stored(flight[p], how)
                 new == IF Publishes(flight[p], how) THEN [row EXCEPT !.pub = TRUE] ELSE row
      <3>1. copy' = [copy EXCEPT ![m] = new]
        BY <2>2, <2>m DEF SaveAs, PublishRouter
      <3>2. row \in Row /\ row.ts = flight[p].row.ts
        BY <2>3
      <3> HIDE DEF row
      <3>3. new \in Row /\ new.ts = row.ts
        BY <3>2 DEF Row
      <3> HIDE DEF new
      <3>4. copy'[m] = new
        BY <3>1 DEF TypeOK
      <3> QED
        BY <3>2, <3>3, <3>4, NoneAssumption DEF Has
    <2>6. Has(m) => flight[p].row.ts > copy[m].ts
      BY <2>1, <2>2, <2>m DEF Verdict, MayEdit
    <2>7. \A k \in Node : Len(queue[k]) \in Nat
      BY DEF TypeOK
    <2>8. \A k \in Node : k # m => ~(Len(queue'[k]) > Len(queue[k]))
      BY <2>4, <2>7
    <2>9. Has(m)' /\ (Has(m) => copy'[m].ts > copy[m].ts)
      BY <2>5, <2>6
    <2> QED
      BY <2>8, <2>9 DEF News
  <1> QED
    <2>1. CASE UNCHANGED vars \/ Tick \/ \E d \in Levels : Create(d)
      BY <1>1, <2>1 DEF vars, Tick, Create
    <2>2. ASSUME NEW n \in Node, UserStep(n) PROVE News
      BY <1>1, <1>2, <2>2 DEF UserStep, Edit, Unpublish, Delete
    <2>3. ASSUME NEW n \in Node, NEW w \in Worker, JobStep(n, w) PROVE News
      BY <1>1, <1>3, <2>3 DEF JobStep, JobRefused, JobSave, JobUpload, JobEnd
    <2>4. ASSUME NEW s \in Server, SyncStep(s) PROVE News
      BY <1>1, <2>4 DEF SyncStep, PullList, PullFetch, PushList, PushFetch
    <2>5. ASSUME NEW p \in Process, Arrival(p) \/ Fail(p) PROVE News
      BY <1>1, <1>4, <2>5 DEF Arrival, Accept, Refuse, Fail, Drop
    <2> QED
      BY <2>1, <2>2, <2>3, <2>4, <2>5 DEF Next

\* Where check and save are one step and no pull is forced, an instance passes on by
\* itself only the event it did not have and newer versions than its own, on any
\* network: nothing that goes round a cycle of push links is published twice.
THEOREM PassesOnNews ==
    ASSUME ~SplitEdit, PullForce \subseteq {FALSE}
    PROVE  Spec => NewsOnly
  <1>1. Init => Timely
    BY DEF Init, Timely, NoSync
  <1>2. TypeOK /\ Timely /\ [Next]_vars => Timely' /\ News
    BY StepOrder, StepNews
  <1>3. TypeOK /\ Timely /\ [Next]_vars => [News]_vars
    BY <1>2
  <1>4. Spec => [][News]_vars
    BY <1>1, <1>2, <1>3, TypeCorrect, PTL DEF Spec
  <1> QED
    BY <1>4 DEF NewsOnly, News

------------------------------------------------------------------------------
\* Deleted events stay away.  Create is the one action that writes a row without
\* looking at the blocklist, so the invariant says that it comes first.

Unused == edits = 0 => /\ \A n \in Node : copy[n] = None /\ ~blocked[n]
                       /\ \A p \in Process : flight[p] = None

LEMMA LocalBlock ==
    ASSUME TypeOK, Unused, BlocklistHolds, NEW n \in Node,
           UserStep(n) \/ \E w \in Worker : JobStep(n, w)
    PROVE  Unused' /\ BlocklistHolds'
  <1>1. ASSUME NEW d \in Levels, Edit(n, d)
        PROVE  Unused' /\ BlocklistHolds'
    BY <1>1 DEF Edit, Has, Unused, BlocklistHolds, TypeOK
  <1>2. CASE Publish(n)
    BY <1>2 DEF Publish, PublishRouter, Has, Unused, BlocklistHolds, TypeOK
  <1>3. CASE Unpublish(n)
    BY <1>3 DEF Unpublish, Has, Unused, BlocklistHolds, TypeOK
  <1>4. CASE Delete(n)
    BY <1>4 DEF Delete, Has, Unused, BlocklistHolds, TypeOK
  <1>5. ASSUME NEW w \in Worker, JobSave(n, w)
        PROVE  Unused' /\ BlocklistHolds'
    BY <1>5 DEF JobSave, Has, Unused, BlocklistHolds, TypeOK
  <1>6. ASSUME NEW w \in Worker, NEW m \in Node, JobUpload(n, w, m)
        PROVE  Unused' /\ BlocklistHolds'
    BY <1>6 DEF JobUpload, Has, Unused, BlocklistHolds, TypeOK
  <1>7. ASSUME NEW w \in Worker, JobStart(n, w) \/ JobRefused(n, w) \/ JobEnd(n, w)
        PROVE  Unused' /\ BlocklistHolds'
    BY <1>7 DEF JobStart, JobRefused, JobEnd, Unused, BlocklistHolds
  <1> QED
    BY <1>1, <1>2, <1>3, <1>4, <1>5, <1>6, <1>7 DEF UserStep, JobStep

LEMMA SyncBlock ==
    ASSUME TypeOK, Unused, BlocklistHolds, NEW s \in Server, SyncStep(s)
    PROVE  Unused' /\ BlocklistHolds'
  <1>0. s[1] \in Node /\ s[2] \in Node /\ s \in Process
    BY ServerType
  <1>1. CASE PullFetch(s)
    BY <1>0, <1>1 DEF PullFetch, Unused, BlocklistHolds, TypeOK
  <1>2. CASE PushFetch(s)
    BY <1>0, <1>2 DEF PushFetch, Has, Unused, BlocklistHolds, TypeOK
  <1>3. CASE PullList(s) \/ PushList(s)
    BY <1>3 DEF PullList, PushList, Unused, BlocklistHolds
  <1> QED
    BY <1>1, <1>2, <1>3 DEF SyncStep

LEMMA ArrivalBlock ==
    ASSUME TypeOK, Unused, BlocklistHolds, ~SplitEdit, NEW p \in Process,
           Arrival(p) \/ Fail(p)
    PROVE  Unused' /\ BlocklistHolds'
  <1>1. CASE Save(p)
    <2>1. flight[p] # None /\ flight[p] \in Message
      BY <1>1, FlightType DEF Save
    <2>2. flight[p].dst \in Node
      BY <2>1, MessageType
    <2>3. ~blocked[flight[p].dst]
      BY <1>1, <2>2 DEF Save, Verdict, Has, BlocklistHolds
    <2>4. PICK how \in {"add", "edit"} : SaveAs(p, how)
      BY <1>1, SaveCases
    <2>5. PICK row : copy' = [copy EXCEPT ![flight[p].dst] = row]
      BY <2>4 DEF SaveAs, PublishRouter
    <2>6. UNCHANGED <<edits, blocked>>
      BY <2>4 DEF SaveAs
    <2> QED
      BY <2>1, <2>3, <2>5, <2>6 DEF Unused, BlocklistHolds, TypeOK
  <1>2. CASE Refuse(p) \/ Fail(p)
    BY <1>2 DEF Refuse, Fail, Drop, Unused, BlocklistHolds, TypeOK
  <1>3. CASE Accept(p)
    BY <1>3 DEF Accept
  <1> QED
    BY <1>1, <1>2, <1>3 DEF Arrival

LEMMA StepBlock ==
    ASSUME TypeOK, Unused, BlocklistHolds, ~SplitEdit, [Next]_vars
    PROVE  Unused' /\ BlocklistHolds'
  <1>1. CASE Tick \/ UNCHANGED vars
    BY <1>1 DEF Tick, vars, Unused, BlocklistHolds
  <1>2. ASSUME NEW d \in Levels, Create(d)
        PROVE  Unused' /\ BlocklistHolds'
    BY <1>2, NetAssumption DEF Create, Unused, BlocklistHolds, TypeOK
  <1> QED
    BY <1>1, <1>2, LocalBlock, SyncBlock, ArrivalBlock DEF Next

\* Where the blocklist is consulted and the event saved in one step, an
\* instance that deleted and blocklisted the event never has it again, also
\* when a pull or push that had selected it was under way.
THEOREM Blocked ==
    ASSUME ~SplitEdit
    PROVE  Spec => []BlocklistHolds
  <1>1. Init => Unused /\ BlocklistHolds
    BY DEF Init, Unused, BlocklistHolds
  <1>2. TypeOK /\ Unused /\ BlocklistHolds /\ [Next]_vars => Unused' /\ BlocklistHolds'
    BY StepBlock
  <1> QED
    BY <1>1, <1>2, TypeCorrect, PTL DEF Spec

------------------------------------------------------------------------------
\* The creator's row.  It is enough that nothing is accepted at Origin, and that
\* follows from how messages are addressed: none is sent to its own sender.

Created  == edits = 0 => /\ \A n \in Node : copy[n] = None
                         /\ \A p \in Process : flight[p] = None
Removed  == copy[Origin] = None /\ edits # 0 => blocked[Origin]
Sent     == \A p \in Process : flight[p] # None =>
              flight[p].src # flight[p].dst /\ (flight[p].dst = Origin => flight[p].ok = "no")
Todo     == \A n \in Node, w \in Worker : n \notin job[n][w].todo

Author == Created /\ Removed /\ OriginKept /\ Sent /\ Todo

NoInternal == Blocklisting /\ \A n \in Node : <<Origin, n>> \notin Internal

\* Origin accepts nothing: a row there is unlocked and its own, and where there
\* is none the UUID is blocked.
LEMMA OriginRefuses ==
    ASSUME TypeOK, Author, NoInternal, NEW p \in Process, flight[p] # None,
           flight[p].dst = Origin
    PROVE  Verdict(flight[p]) = "no"
  <1>1. flight[p].src # Origin /\ flight[p].src \in Node /\ edits # 0
    BY FlightType, MessageType DEF Author, Sent, Created
  <1>2. CASE Has(Origin)
    <2>1. ~copy[Origin].locked
      BY <1>2 DEF Has, Author, OriginKept
    <2> QED
      BY <1>1, <1>2, <2>1 DEF Verdict, MayEdit, NoInternal
  <1>3. CASE ~Has(Origin)
    BY <1>1, <1>3 DEF Has, Verdict, Author, Removed
  <1> QED
    BY <1>2, <1>3

\* A transfer starts: it is not addressed to its sender, nor yet accepted.
LEMMA SentOut ==
    ASSUME TypeOK, Author, NEW p \in Process, NEW s, s[1] # s[2],
           NEW via \in {"push", "pull"}, NEW force, NEW row, NEW src,
           src = (IF via = "push" THEN s[1] ELSE s[2]), edits # 0,
           flight' = [flight EXCEPT ![p] = Carry(s, src, via, force, row)]
    PROVE  Sent' 
  <1> DEFINE m == Carry(s, src, via, force, row)
  <1>1. m.src # m.dst /\ m.ok = "no"
    BY DEF Carry
  <1>2. flight' = [flight EXCEPT ![p] = m]
    OBVIOUS
  <1> HIDE DEF m
  <1> QED
    BY <1>1, <1>2 DEF Author, Sent, TypeOK

LEMMA UserAuthor ==
    ASSUME TypeOK, Author, NoInternal, NEW n \in Node, UserStep(n)
    PROVE  Author'
  <1>0. Has(n) => copy[n] \in Row /\ edits # 0
    BY CopyType DEF Has, Author, Created
  <1>1. ASSUME NEW d \in Levels, Edit(n, d)
        PROVE  Author'
    <2> DEFINE row == [Written(n, d) EXCEPT !.org = copy[n].org, !.locked = copy[n].locked]
    <2>1. row.path = {n} /\ row.locked = copy[n].locked
      BY DEF Written
    <2>2. row # None
      <3>1. Written(n, d) \in Row /\ copy[n] \in Row
        BY <1>0, <1>1, WrittenType, FlagAssumption DEF Edit
      <3>2. row \in Row
        BY <3>1 DEF Row
      <3> QED
        BY <3>2, NoneAssumption
    <2>3. /\ copy' = [copy EXCEPT ![n] = row] /\ edits' = edits + 1 /\ copy[n] # None
          /\ UNCHANGED <<blocked, flight, job>>
      BY <1>1 DEF Edit, Has
    <2> HIDE DEF row
    <2>4. edits' # 0
      BY <2>3 DEF TypeOK
    <2>5. \A m \in Node : copy'[m] = IF m = n THEN row ELSE copy[m]
      BY <2>3 DEF TypeOK
    <2> QED
      BY <2>1, <2>2, <2>3, <2>4, <2>5, <1>0, NetAssumption
         DEF Author, Created, Removed, OriginKept, Sent, Todo, Has
  <1>2. ASSUME Publish(n) \/ Unpublish(n)
        PROVE  Author'
    <2>1. PICK pub \in BOOLEAN :
             /\ Has(n) /\ copy' = [copy EXCEPT ![n] = [copy[n] EXCEPT !.pub = pub]]
             /\ UNCHANGED <<edits, blocked, flight, job>>
      BY <1>2 DEF Publish, PublishRouter, Unpublish
    <2> DEFINE row == [copy[n] EXCEPT !.pub = pub]
    <2>2. row.path = copy[n].path /\ row.locked = copy[n].locked /\ row # None
      <3>1. row \in Row
        BY <1>0, <2>1 DEF Row
      <3> QED
        BY <1>0, <2>1, <3>1, NoneAssumption DEF Row
    <2>3. \A m \in Node : copy'[m] = IF m = n THEN row ELSE copy[m]
      BY <2>1 DEF TypeOK
    <2> HIDE DEF row
    <2> QED
      BY <1>0, <2>1, <2>2, <2>3, NetAssumption
         DEF Author, Created, Removed, OriginKept, Sent, Todo, Has
  <1>3. CASE Delete(n)
    BY <1>0, <1>3, NetAssumption
       DEF Delete, Author, Created, Removed, OriginKept, Sent, Todo, TypeOK, NoInternal
  <1> QED
    BY <1>1, <1>2, <1>3 DEF UserStep

LEMMA JobAuthor ==
    ASSUME TypeOK, Author, NEW n \in Node, NEW w \in Worker, JobStep(n, w)
    PROVE  Author'
  <1>0. /\ Has(n) => copy[n] \in Row /\ edits # 0
        /\ <<n, w>> \in Process /\ <<n, n>> \notin Push
    BY CopyType, WorkerType, NetAssumption DEF Has, Author, Created
  <1>1. ASSUME JobSave(n, w)
        PROVE  Author'
    <2>1. Todo'
      <3>1. \A j : SetJob(n, w, j) /\ n \notin j.todo => Todo'
        BY DEF SetJob, Author, Todo, TypeOK
      <3>2. Idle.todo = {}
        BY DEF Idle
      <3>3. \A pass : LET j == [Idle EXCEPT !.at = "upload",
                               !.todo = {m \in Node : <<n, m>> \in Push} \ {pass}]
                      IN  n \notin j.todo
        BY <1>0 DEF Idle
      <3> QED
        BY <1>1, <3>1, <3>2, <3>3 DEF JobSave
    <2>2. CASE Has(n)
      <3> DEFINE row == Flagged(n, w)
      <3>1. row.path = copy[n].path /\ row.locked = copy[n].locked /\ row # None
        <4>1. row \in Row
          <5>1. job[n][w].info \in Nat
            BY DEF TypeOK, Job
          <5> QED
            BY <1>0, <2>2, <5>1 DEF Flagged, Row
        <4> QED
          BY <1>0, <2>2, <4>1, NoneAssumption DEF Flagged, Row
      <3>2. /\ copy' = [copy EXCEPT ![n] = row]
            /\ UNCHANGED <<edits, blocked, flight>>
        BY <1>1, <2>2 DEF JobSave
      <3> HIDE DEF row
      <3>3. \A m \in Node : copy'[m] = IF m = n THEN row ELSE copy[m]
        BY <3>2 DEF TypeOK
      <3> QED
        BY <1>0, <2>1, <2>2, <3>1, <3>2, <3>3, NetAssumption
           DEF Author, Created, Removed, OriginKept, Sent, Has
    <2>3. CASE ~Has(n)
      BY <1>1, <2>1, <2>3 DEF JobSave, Author, Created, Removed, OriginKept, Sent
    <2> QED
      BY <2>2, <2>3
  <1>2. ASSUME NEW m \in Node, JobUpload(n, w, m)
        PROVE  Author'
    <2>1. Todo'
      BY <1>2 DEF JobUpload, SetJob, Author, Todo, TypeOK, Job
    <2>2. UNCHANGED <<copy, edits, blocked>>
      BY <1>2 DEF JobUpload
    <2>3. n # m
      BY <1>2 DEF JobUpload, Author, Todo
    <2>4. (edits # 0 /\ Sent') \/ flight' = flight
      <3>1. CASE flight' = flight
        BY <3>1
      <3>2. CASE flight' # flight
        <4>1. /\ Has(n)
              /\ flight' = [flight EXCEPT ![<<n, w>>] =
                   Carry(<<n, m>>, n, "push", FALSE, Outgoing(copy[n], <<n, m>>))]
          BY <1>2, <3>2 DEF JobUpload
        <4> QED
          BY <1>0, <2>3, <4>1, SentOut
      <3> QED
        BY <3>1, <3>2
    <2> QED
      BY <2>1, <2>2, <2>4 DEF Author, Created, Removed, OriginKept, Sent
  <1>3. ASSUME JobStart(n, w) \/ JobRefused(n, w) \/ JobEnd(n, w)
        PROVE  Author'
    <2>1. PICK j : SetJob(n, w, j) /\ j.todo = {}
      <3>1. Idle.todo = {} /\ [Idle EXCEPT !.at = "stopped"].todo = {}
            /\ \A i, q : [Idle EXCEPT !.at = "read", !.info = i, !.pass = q].todo = {}
        BY DEF Idle
      <3>2. CASE Has(n)
        BY <1>3, <3>1, <3>2 DEF JobStart, JobRefused, JobEnd
      <3>3. CASE ~Has(n)
        BY <1>3, <3>1, <3>3 DEF JobStart, JobRefused, JobEnd
      <3> QED
        BY <3>2, <3>3
    <2>2. Todo'
      BY <2>1 DEF SetJob, Author, Todo, TypeOK
    <2> QED
      BY <1>3, <2>2
         DEF JobStart, JobRefused, JobEnd, Author, Created, Removed, OriginKept, Sent
  <1> QED
    BY <1>1, <1>2, <1>3 DEF JobStep

LEMMA SyncAuthor ==
    ASSUME TypeOK, Author, NEW s \in Server, SyncStep(s)
    PROVE  Author'
  <1>0. s[1] \in Node /\ s[2] \in Node /\ s[1] # s[2] /\ s \in Process
    BY ServerType
  <1>1. /\ UNCHANGED <<copy, edits, blocked, job>>
        /\ (edits # 0 /\ Sent') \/ flight' = flight
    <2>1. CASE PullFetch(s)
      <3>1. CASE flight' # flight
        <4>1. /\ copy[s[2]] # None
              /\ flight' = [flight EXCEPT ![s] =
                   Carry(s, s[2], "pull", sync[s].force, Incoming(copy[s[2]], s))]
          BY <2>1, <3>1 DEF PullFetch
        <4>2. edits # 0
          BY <1>0, <4>1 DEF Author, Created
        <4>3. Sent'
          BY <1>0, <4>1, <4>2, SentOut
        <4> QED
          BY <2>1, <4>2, <4>3 DEF PullFetch
      <3> QED
        BY <2>1, <3>1 DEF PullFetch
    <2>2. CASE PushFetch(s)
      <3>1. CASE flight' # flight
        <4>1. /\ copy[s[1]] # None
              /\ flight' = [flight EXCEPT ![s] =
                   Carry(s, s[1], "push", FALSE, Outgoing(copy[s[1]], s))]
          BY <2>2, <3>1 DEF PushFetch, Has
        <4>2. edits # 0
          BY <1>0, <4>1 DEF Author, Created
        <4>3. Sent'
          BY <1>0, <4>1, <4>2, SentOut
        <4> QED
          BY <2>2, <4>2, <4>3 DEF PushFetch
      <3> QED
        BY <2>2, <3>1 DEF PushFetch
    <2>3. CASE PullList(s) \/ PushList(s)
      BY <2>3 DEF PullList, PushList
    <2> QED
      BY <2>1, <2>2, <2>3 DEF SyncStep
  <1> QED
    BY <1>1 DEF Author, Created, Removed, OriginKept, Sent, Todo

LEMMA ArrivalAuthor ==
    ASSUME TypeOK, Author, NoInternal, NEW p \in Process, Arrival(p) \/ Fail(p)
    PROVE  Author'
  <1>1. CASE Save(p)
    <2>1. flight[p] # None /\ flight[p] \in Message
      BY <1>1, FlightType DEF Save
    <2>2. flight[p].dst \in Node /\ flight[p].dst # Origin
      BY <1>1, <2>1, OriginRefuses, MessageType DEF Save, Author, Sent
    <2>3. PICK how \in {"add", "edit"} : SaveAs(p, how)
      BY <1>1, SaveCases
    <2>4. PICK row : copy' = [copy EXCEPT ![flight[p].dst] = row]
      BY <2>3 DEF SaveAs, PublishRouter
    <2>5. UNCHANGED <<edits, blocked, job>> /\ flight' = [flight EXCEPT ![p] = None]
      BY <2>3 DEF SaveAs
    <2>6. edits # 0 /\ copy'[Origin] = copy[Origin]
      BY <2>1, <2>2, <2>4, NetAssumption DEF Author, Created, TypeOK
    <2> QED
      BY <2>5, <2>6 DEF Author, Created, Removed, OriginKept, Sent, Todo, TypeOK
  <1>2. CASE Refuse(p) \/ Fail(p)
    BY <1>2 DEF Refuse, Fail, Drop, Author, Created, Removed, OriginKept, Sent, Todo, TypeOK
  <1>3. CASE Accept(p)
    <2> DEFINE m == [flight[p] EXCEPT !.ok = Verdict(flight[p])]
    <2>1. flight[p] # None /\ flight[p] \in Message /\ flight[p].dst # Origin /\ edits # 0
      BY <1>3, FlightType, OriginRefuses DEF Accept, Author, Created
    <2>2. m.src = flight[p].src /\ m.dst = flight[p].dst
      BY <2>1 DEF Message
    <2>3. /\ flight' = [flight EXCEPT ![p] = m]
          /\ UNCHANGED <<copy, edits, blocked, job>>
      BY <1>3 DEF Accept
    <2> HIDE DEF m
    <2> QED
      BY <2>1, <2>2, <2>3
         DEF Author, Created, Removed, OriginKept, Sent, Todo, TypeOK
  <1> QED
    BY <1>1, <1>2, <1>3 DEF Arrival

\* The creator's row is never replaced by a peer's version, even where requests
\* interleave within the check and the save: its row is unlocked, it has no
\* internal link of its own, and the UUID of an event it deleted is blocked.
THEOREM OriginSafe ==
    ASSUME NoInternal
    PROVE  Spec => []OriginKept
  <1>1. Init => Author
    BY NetAssumption DEF Init, Author, Created, Removed, OriginKept, Sent, Todo, Idle
  <1>2. TypeOK /\ Author /\ [Next]_vars => Author'
    <2> SUFFICES ASSUME TypeOK, Author, [Next]_vars PROVE Author'
      OBVIOUS
    <2>1. CASE Tick \/ UNCHANGED vars
      BY <2>1 DEF Tick, vars, Author, Created, Removed, OriginKept, Sent, Todo
    <2>2. ASSUME NEW d \in Levels, Create(d)
          PROVE  Author'
      <3>1. Written(Origin, d) # None
        BY WrittenType, NetAssumption, FlagAssumption, NoneAssumption
      <3>2. ~Written(Origin, d).locked /\ Written(Origin, d).path = {Origin}
        BY DEF Written
      <3>3. /\ copy' = [copy EXCEPT ![Origin] = Written(Origin, d)] /\ edits' # 0
            /\ UNCHANGED <<blocked, flight, job>>
        BY <2>2 DEF Create, TypeOK
      <3> QED
        BY <3>1, <3>2, <3>3, NetAssumption
           DEF Author, Created, Removed, OriginKept, Sent, Todo, TypeOK
    <2> QED
      BY <2>1, <2>2, UserAuthor, JobAuthor, SyncAuthor, ArrivalAuthor DEF Next
  <1>3. Author => OriginKept
    BY DEF Author
  <1> QED
    BY <1>1, <1>2, <1>3, TypeCorrect, PTL DEF Spec

------------------------------------------------------------------------------
\* Transfers go where they are configured to.

Routed(m) ==
    /\ m.ok = "no"
    /\ m.row.locked
    /\ m.via = "push" => /\ <<m.src, m.dst>> \in Push /\ ~m.force
                         /\ m.row.dist > 0 \/ <<m.src, m.dst>> \in Internal
    /\ m.via = "pull" => <<m.dst, m.src>> \in Pull /\ (m.force => TRUE \in PullForce)

\* The server a publish job leaves out is one its instance pulls from.
FromPull(n, pass) == pass # None => <<n, pass>> \in Pull

Sending == \A p \in Process : flight[p] # None => Routed(flight[p])

Fetching == \A s \in Server : /\ sync[s].at # "idle" => flight[s] = None
                              /\ sync[s].at = "pulling" => s \in Pull
                              /\ sync[s].at = "pushing" => s \in Push
                              /\ sync[s].force => TRUE \in PullForce

Queued == \A n \in Node : \A i \in DOMAIN queue[n] : FromPull(n, queue[n][i])

Tasked == \A n \in Node, w \in Worker : /\ FromPull(n, job[n][w].pass)
                                        /\ \A m \in job[n][w].todo : <<n, m>> \in Push

Routes == Sending /\ Fetching /\ Queued /\ Tasked

LEMMA SentRow ==
    ASSUME NEW row \in Row, NEW s
    PROVE  /\ Outgoing(row, s).locked /\ Incoming(row, s).locked
           /\ Uploadable(row, s) => Outgoing(row, s).dist > 0 \/ s \in Internal
           /\ Outgoing(row, s).info = row.info /\ Outgoing(row, s).ts = row.ts
           /\ Incoming(row, s).info = row.info /\ Incoming(row, s).ts = row.ts
  BY DEF Outgoing, Incoming, Uploadable, Row, Dist

\* Transfers end.
LEMMA EndedRoutes ==
    ASSUME Routes, UNCHANGED <<sync, job>>, Queued',
           \A p \in Process : flight'[p] \in {flight[p], None}
    PROVE  Routes'
  <1>1. Sending'
    BY DEF Routes, Sending, Routed
  <1>2. Fetching'
    <2>1. \A s \in Server : s \in Process
      BY DEF Process
    <2> QED
      BY <2>1 DEF Routes, Fetching
  <1>3. Tasked'
    BY DEF Routes, Tasked
  <1> QED
    BY <1>1, <1>2, <1>3 DEF Routes

\* A Server entry's task is done, with or without a transfer.
LEMMA FetchedRoutes ==
    ASSUME TypeOK, Routes, NEW s \in Server, UNCHANGED <<queue, job>>,
           sync' = [sync EXCEPT ![s] = [at |-> "idle", force |-> FALSE]],
           NEW msg, flight' = flight \/ (Routed(msg) /\ flight' = [flight EXCEPT ![s] = msg])
    PROVE  Routes'
  <1>1. s \in Process /\ \A t \in Server : t \in Process
    BY DEF Process
  <1>2. \A t \in Server : sync'[t] = IF t = s THEN [at |-> "idle", force |-> FALSE] ELSE sync[t]
    BY DEF TypeOK
  <1>3. \A p \in Process : p # s => flight'[p] = flight[p]
    BY DEF TypeOK
  <1>4. Sending'
    BY <1>1 DEF Routes, Sending, TypeOK
  <1>5. Fetching'
    <2>1. \A t \in Server : t # s => sync'[t] = sync[t] /\ flight'[t] = flight[t]
      BY <1>1, <1>2, <1>3
    <2>2. sync'[s].at = "idle" /\ sync'[s].force = FALSE
      BY <1>2
    <2> QED
      BY <2>1, <2>2 DEF Routes, Fetching
  <1>6. Queued' /\ Tasked'
    BY DEF Routes, Queued, Tasked, FromPull
  <1> QED
    BY <1>4, <1>5, <1>6 DEF Routes

LEMMA SyncRoutes ==
    ASSUME TypeOK, Routes, NEW s \in Server, SyncStep(s)
    PROVE  Routes'
  <1>0. s[1] \in Node /\ s[2] \in Node /\ s = <<s[1], s[2]>> /\ s \in Process
    BY ServerType
  <1>1. UNCHANGED <<queue, job>>
    BY DEF SyncStep, PullList, PullFetch, PushList, PushFetch
  <1>2. CASE PullFetch(s)
    <2> DEFINE msg == Carry(s, s[2], "pull", sync[s].force, Incoming(copy[s[2]], s))
    <2>1. copy[s[2]] # None => Routed(msg)
      <3>1. copy[s[2]] # None => Incoming(copy[s[2]], s).locked
        BY <1>0, CopyType, SentRow
      <3>2. sync[s].at = "pulling" /\ s \in Pull /\ (sync[s].force => TRUE \in PullForce)
        BY <1>2 DEF PullFetch, Routes, Fetching
      <3> QED
        BY <1>0, <3>1, <3>2 DEF Routed, Carry
    <2>2. sync' = [sync EXCEPT ![s] = [at |-> "idle", force |-> FALSE]]
      BY <1>2 DEF PullFetch, SetSync
    <2>3. flight' = flight \/ (copy[s[2]] # None /\ flight' = [flight EXCEPT ![s] = msg])
      BY <1>2 DEF PullFetch
    <2> HIDE DEF msg
    <2>4. flight' = flight \/ (Routed(msg) /\ flight' = [flight EXCEPT ![s] = msg])
      BY <2>1, <2>3
    <2> QED
      BY <1>1, <2>2, <2>4, FetchedRoutes
  <1>3. CASE PushFetch(s)
    <2> DEFINE msg == Carry(s, s[1], "push", FALSE, Outgoing(copy[s[1]], s))
    <2>1. Has(s[1]) /\ Uploadable(copy[s[1]], s) => Routed(msg)
      <3>1. Has(s[1]) /\ Uploadable(copy[s[1]], s) =>
              /\ Outgoing(copy[s[1]], s).locked
              /\ Outgoing(copy[s[1]], s).dist > 0 \/ s \in Internal
        BY <1>0, CopyType, SentRow DEF Has
      <3>2. sync[s].at = "pushing" /\ s \in Push
        BY <1>3 DEF PushFetch, Routes, Fetching
      <3> QED
        BY <1>0, <3>1, <3>2 DEF Routed, Carry
    <2>2. sync' = [sync EXCEPT ![s] = [at |-> "idle", force |-> FALSE]]
      BY <1>3 DEF PushFetch, SetSync
    <2>3. \/ flight' = flight
          \/ /\ Has(s[1]) /\ Uploadable(copy[s[1]], s)
             /\ flight' = [flight EXCEPT ![s] = msg]
      BY <1>3 DEF PushFetch
    <2> HIDE DEF msg
    <2>4. flight' = flight \/ (Routed(msg) /\ flight' = [flight EXCEPT ![s] = msg])
      BY <2>1, <2>3
    <2> QED
      BY <1>1, <2>2, <2>4, FetchedRoutes
  <1>4. CASE PullList(s)
    <2>1. PICK force \in PullForce : SetSync(s, "pulling", force)
      BY <1>4 DEF PullList
    <2>2. s \in Pull /\ flight[s] = None /\ UNCHANGED flight
      BY <1>4 DEF PullList
    <2>3. force => TRUE \in PullForce
      BY ForceAssumption
    <2> QED
      BY <1>1, <2>1, <2>2, <2>3 DEF SetSync, Routes, Sending, Fetching, Queued, Tasked, TypeOK
  <1>5. CASE PushList(s)
    <2>1. s \in Push /\ flight[s] = None /\ UNCHANGED flight
      BY <1>5, NetAssumption DEF PushList
    <2> QED
      BY <1>1, <1>5, <2>1 
         DEF PushList, SetSync, Routes, Sending, Fetching, Queued, Tasked, TypeOK
  <1> QED
    BY <1>2, <1>3, <1>4, <1>5 DEF SyncStep

LEMMA JobRoutes ==
    ASSUME TypeOK, Routes, NEW n \in Node, NEW w \in Worker, JobStep(n, w)
    PROVE  Routes'
  <1>0. /\ <<n, w>> \in Process
        /\ \A s \in Server : <<n, w>> # s
    BY WorkerType, ServerType, NetAssumption
  <1>1. UNCHANGED sync
    BY DEF JobStep, JobStart, JobRefused, JobSave, JobEnd, JobUpload
  <1>2. ASSUME NEW j, SetJob(n, w, j), FromPull(n, j.pass), \A m \in j.todo : <<n, m>> \in Push
        PROVE  Tasked'
    BY <1>2 DEF SetJob, Routes, Tasked, FromPull, TypeOK
  <1>3. /\ FromPull(n, None) /\ Idle.pass = None /\ Idle.todo = {}
        /\ FromPull(n, job[n][w].pass) /\ \A m \in job[n][w].todo : <<n, m>> \in Push
        /\ job[n][w] \in Job
    BY DEF FromPull, Idle, Routes, Tasked, TypeOK
  <1>4. CASE JobStart(n, w)
    <2>1. queue[n] \in Seq(Node \cup {None}) /\ queue[n] # << >>
      BY <1>4 DEF JobStart, TypeOK
    <2>2. FromPull(n, Head(queue[n]))
      BY <2>1 DEF Routes, Queued
    <2>3. \A i \in DOMAIN Tail(queue[n]) : FromPull(n, Tail(queue[n])[i])
      BY <2>1 DEF Routes, Queued
    <2>4. Queued'
      BY <1>4, <2>3 DEF JobStart, Routes, Queued, FromPull, TypeOK
    <2> DEFINE j == IF Has(n) THEN [Idle EXCEPT !.at = "read", !.info = copy[n].info,
                                               !.pass = Head(queue[n])]
                              ELSE Idle
    <2>5. FromPull(n, j.pass) /\ j.todo = {}
      BY <1>3, <2>2 DEF Idle
    <2>6. SetJob(n, w, j) /\ UNCHANGED flight
      BY <1>4 DEF JobStart
    <2> HIDE DEF j
    <2>7. Tasked'
      BY <1>2, <2>5, <2>6
    <2> QED
      BY <1>1, <2>4, <2>6, <2>7 DEF Routes, Sending, Fetching
  <1>5. CASE JobSave(n, w)
    <2> DEFINE j == [Idle EXCEPT !.at = "upload",
                       !.todo = {m \in Node : <<n, m>> \in Push} \ {job[n][w].pass}]
    <2>1. FromPull(n, j.pass) /\ \A m \in j.todo : <<n, m>> \in Push
      BY <1>3 DEF Idle
    <2>2. (SetJob(n, w, j) \/ SetJob(n, w, Idle)) /\ UNCHANGED <<flight, queue>>
      BY <1>5 DEF JobSave
    <2> HIDE DEF j
    <2>3. Tasked'
      BY <1>2, <1>3, <2>1, <2>2
    <2> QED
      BY <1>1, <2>2, <2>3 DEF Routes, Sending, Fetching, Queued
  <1>6. CASE JobRefused(n, w) \/ JobEnd(n, w)
    <2> DEFINE j == [Idle EXCEPT !.at = "stopped"]
    <2>1. FromPull(n, j.pass) /\ j.todo = {}
      BY <1>3 DEF Idle
    <2>2. (SetJob(n, w, j) \/ SetJob(n, w, Idle)) /\ UNCHANGED <<flight, queue>>
      BY <1>6 DEF JobRefused, JobEnd
    <2> HIDE DEF j
    <2>3. Tasked'
      BY <1>2, <1>3, <2>1, <2>2
    <2> QED
      BY <1>1, <2>2, <2>3 DEF Routes, Sending, Fetching, Queued
  <1>7. ASSUME NEW m \in Node, JobUpload(n, w, m)
        PROVE  Routes'
    <2> DEFINE j   == [job[n][w] EXCEPT !.todo = @ \ {m}]
               msg == Carry(<<n, m>>, n, "push", FALSE, Outgoing(copy[n], <<n, m>>))
    <2>1. FromPull(n, j.pass) /\ \A x \in j.todo : <<n, x>> \in Push
      BY <1>3 DEF Job
    <2>2. SetJob(n, w, j) /\ UNCHANGED queue /\ <<n, m>> \in Push
      BY <1>3, <1>7 DEF JobUpload
    <2> HIDE DEF j
    <2>3. Tasked'
      BY <1>2, <2>1, <2>2
    <2>4. Has(n) /\ Uploadable(copy[n], <<n, m>>) => Routed(msg)
      <3>1. Has(n) /\ Uploadable(copy[n], <<n, m>>) =>
              /\ Outgoing(copy[n], <<n, m>>).locked
              /\ Outgoing(copy[n], <<n, m>>).dist > 0 \/ <<n, m>> \in Internal
        BY CopyType, SentRow DEF Has
      <3> QED
        BY <2>2, <3>1 DEF Routed, Carry
    <2>5. \/ flight' = flight
          \/ /\ Has(n) /\ Uploadable(copy[n], <<n, m>>)
             /\ flight' = [flight EXCEPT ![<<n, w>>] = msg]
      BY <1>7 DEF JobUpload
    <2> HIDE DEF msg
    <2> QED
      <3>1. Sending'
        BY <1>0, <2>4, <2>5 DEF Routes, Sending, TypeOK
      <3>2. \A s \in Server : flight'[s] = flight[s]
        BY <1>0, <2>5 DEF TypeOK, Process
      <3>3. Fetching' /\ Queued'
        BY <1>1, <2>2, <3>2 DEF Routes, Fetching, Queued
      <3> QED
        BY <2>3, <3>1, <3>3 DEF Routes
  <1> QED
    BY <1>4, <1>5, <1>6, <1>7 DEF JobStep

LEMMA RouterRoutes ==
    ASSUME TypeOK, Routes, NEW n \in Node, NEW pass \in Node \cup {None},
           FromPull(n, pass), queue' = [queue EXCEPT ![n] = Append(@, pass)]
    PROVE  Queued'
  <1>1. queue[n] \in Seq(Node \cup {None})
    BY DEF TypeOK
  <1>2. \A i \in DOMAIN Append(queue[n], pass) : FromPull(n, Append(queue[n], pass)[i])
    BY <1>1 DEF Routes, Queued
  <1> QED
    BY <1>2 DEF Routes, Queued, FromPull, TypeOK

LEMMA UserRoutes ==
    ASSUME TypeOK, Routes, NEW n \in Node, UserStep(n)
    PROVE  Routes'
  <1>1. CASE Publish(n)
    <2>1. queue' = [queue EXCEPT ![n] = Append(@, None)] /\ UNCHANGED <<flight, sync, job>>
      BY <1>1 DEF Publish, PublishRouter
    <2>2. FromPull(n, None)
      BY DEF FromPull
    <2>3. Queued'
      BY <2>1, <2>2, RouterRoutes
    <2> QED
      BY <2>1, <2>3 DEF Routes, Sending, Fetching, Tasked
  <1>2. CASE ~Publish(n)
    <2>1. UNCHANGED <<flight, sync, job, queue>>
      BY <1>2 DEF UserStep, Edit, Unpublish, Delete
    <2> QED
      BY <2>1 DEF Routes, Sending, Fetching, Queued, Tasked
  <1> QED
    BY <1>1, <1>2

LEMMA ArrivalRoutes ==
    ASSUME TypeOK, Routes, ~SplitEdit, NEW p \in Process, Arrival(p) \/ Fail(p)
    PROVE  Routes'
  <1>1. CASE Save(p)
    <2>1. flight[p] # None /\ flight[p] \in Message /\ Routed(flight[p])
      BY <1>1, FlightType DEF Save, Routes, Sending
    <2>2. /\ flight[p].dst \in Node /\ PassAlong(flight[p]) \in Node \cup {None}
          /\ FromPull(flight[p].dst, PassAlong(flight[p]))
      BY <2>1, MessageType DEF PassAlong, FromPull, Routed
    <2>3. PICK how \in {"add", "edit"} : SaveAs(p, how)
      BY <1>1, SaveCases
    <2>4. \/ UNCHANGED queue
          \/ queue' = [queue EXCEPT ![flight[p].dst] = Append(@, PassAlong(flight[p]))]
      BY <2>3 DEF SaveAs, PublishRouter
    <2>5. Queued'
      BY <2>2, <2>4, RouterRoutes DEF Routes, Queued
    <2>6. /\ \A q \in Process : flight'[q] \in {flight[q], None}
          /\ UNCHANGED <<job, sync>>
      BY <2>3 DEF SaveAs, TypeOK
    <2> QED
      BY <2>5, <2>6, EndedRoutes
  <1>2. CASE Refuse(p) \/ Fail(p)
    <2>1. /\ \A q \in Process : flight'[q] \in {flight[q], None}
          /\ UNCHANGED <<queue, job, sync>>
      BY <1>2 DEF Refuse, Fail, Drop, TypeOK
    <2> QED
      BY <2>1, EndedRoutes DEF Routes, Queued
  <1>3. CASE Accept(p)
    BY <1>3 DEF Accept
  <1> QED
    BY <1>1, <1>2, <1>3 DEF Arrival

------------------------------------------------------------------------------
\* A version is written once: wherever two rows have the same content, on
\* whatever instances and on whatever way, they also have the same timestamp.

Around(row) == \/ \E n \in Node : Has(n) /\ row = copy[n]
               \/ \E p \in Process : flight[p] # None /\ row = flight[p].row

Versions == /\ \A row \in Row : Around(row) => row.info <= edits /\ row.ts <= now
            /\ \A r, q \in Row : Around(r) /\ Around(q) /\ r.info = q.info => r.ts = q.ts

\* row holds a version that is already around.
Known(row) == \E q \in Row : Around(q) /\ row.info = q.info /\ row.ts = q.ts

\* The step writes no version, or one of now.
NoneNew == \A row \in Row : Around(row)' => Known(row)
OneNew  == \A row \in Row : Around(row)' => \/ Known(row)
                                            \/ row.info = edits + 1 /\ row.ts = now

LEMMA KnownVersions ==
    ASSUME TypeOK, TypeOK', Versions,
           \/ NoneNew /\ edits' = edits /\ now' \in {now, now + 1}
           \/ OneNew /\ edits' = edits + 1 /\ now' = now
    PROVE  Versions'
  <1>0. /\ now \in Nat /\ now' \in Nat /\ edits \in Nat /\ edits' \in Nat
        /\ \A row \in Row : row.info \in Nat /\ row.ts \in Nat
    BY DEF TypeOK, Row
  <1>1. \A row \in Row : Known(row) => row.info <= edits /\ row.ts <= now
    BY DEF Known, Versions
  <1>2. \A r, q \in Row : Known(r) /\ Known(q) /\ r.info = q.info => r.ts = q.ts
    BY DEF Known, Versions
  <1>3. CASE NoneNew /\ edits' = edits /\ now' \in {now, now + 1}
    <2>1. \A row \in Row : Around(row)' => row.info <= edits' /\ row.ts <= now'
      BY <1>0, <1>1, <1>3 DEF NoneNew
    <2>2. \A r, q \in Row : Around(r)' /\ Around(q)' /\ r.info = q.info => r.ts = q.ts
      BY <1>2, <1>3 DEF NoneNew
    <2> QED
      BY <2>1, <2>2 DEF Versions
  <1>4. CASE OneNew /\ edits' = edits + 1 /\ now' = now
    <2>1. \A row \in Row : Around(row)' => row.info <= edits' /\ row.ts <= now'
      BY <1>0, <1>1, <1>4 DEF OneNew
    <2>2. \A r, q \in Row : Around(r)' /\ Around(q)' /\ r.info = q.info => r.ts = q.ts
      BY <1>0, <1>1, <1>2, <1>4 DEF OneNew
    <2> QED
      BY <2>1, <2>2 DEF Versions
  <1> QED
    BY <1>3, <1>4

LEMMA AroundKnown ==
    ASSUME TypeOK
    PROVE  /\ \A n \in Node : Has(n) => copy[n] \in Row /\ Known(copy[n])
           /\ \A p \in Process : flight[p] # None =>
                flight[p].row \in Row /\ Known(flight[p].row)
  <1>1. /\ \A n \in Node : Has(n) => copy[n] \in Row
        /\ \A p \in Process : flight[p] # None => flight[p].row \in Row
    BY CopyType, FlightType, MessageType DEF Has
  <1> QED
    BY <1>1 DEF Known, Around

\* Rows stay or go, and transfers end.
LEMMA QuietVersions ==
    ASSUME TypeOK, TypeOK', Versions,
           \A n \in Node : copy'[n] \in {copy[n], None},
           \A p \in Process : flight'[p] \in {flight[p], None},
           edits' = edits, now' \in {now, now + 1}
    PROVE  Versions'
  <1>1. NoneNew
    BY AroundKnown DEF NoneNew, Around, Has
  <1> QED
    BY <1>1, KnownVersions

\* A row is written, and transfers end.
LEMMA WriteVersions ==
    ASSUME TypeOK, TypeOK', Versions, NEW n \in Node, NEW row,
           copy' = [copy EXCEPT ![n] = row], now' = now,
           \A p \in Process : flight'[p] \in {flight[p], None},
           \/ Known(row) /\ edits' = edits
           \/ row.info = edits + 1 /\ row.ts = now /\ edits' = edits + 1
    PROVE  Versions'
  <1>1. \A m \in Node : copy'[m] = IF m = n THEN row ELSE copy[m]
    BY DEF TypeOK
  <1>2. \A r \in Row : Around(r)' => Known(r) \/ r = row
    BY <1>1, AroundKnown DEF Around, Has
  <1>3. CASE Known(row) /\ edits' = edits
    BY <1>2, <1>3, KnownVersions DEF NoneNew
  <1>4. CASE row.info = edits + 1 /\ row.ts = now /\ edits' = edits + 1
    BY <1>2, <1>4, KnownVersions DEF OneNew
  <1> QED
    BY <1>3, <1>4

\* A row is sent.
LEMMA SendVersions ==
    ASSUME TypeOK, TypeOK', Versions, NEW p \in Process, NEW msg,
           flight' = [flight EXCEPT ![p] = msg], Known(msg.row),
           UNCHANGED <<copy, edits, now>>
    PROVE  Versions'
  <1>1. \A q \in Process : flight'[q] = IF q = p THEN msg ELSE flight[q]
    BY DEF TypeOK
  <1>2. NoneNew
    BY <1>1, AroundKnown DEF NoneNew, Around, Has
  <1> QED
    BY <1>2, KnownVersions

LEMMA UserVersions ==
    ASSUME TypeOK, TypeOK', Versions, NEW n \in Node, UserStep(n)
    PROVE  Versions'
  <1>1. ASSUME NEW d \in Levels, Edit(n, d)
        PROVE  Versions'
    <2> DEFINE row == [Written(n, d) EXCEPT !.org = copy[n].org, !.locked = copy[n].locked]
    <2>1. row.info = edits + 1 /\ row.ts = now
      BY DEF Written
    <2>2. copy' = [copy EXCEPT ![n] = row] /\ edits' = edits + 1 /\ UNCHANGED <<now, flight>>
      BY <1>1 DEF Edit
    <2> HIDE DEF row
    <2> QED
      BY <2>1, <2>2, WriteVersions
  <1>2. ASSUME NEW pub \in BOOLEAN, Has(n), UNCHANGED <<now, edits, flight>>,
               copy' = [copy EXCEPT ![n] = [copy[n] EXCEPT !.pub = pub]]
        PROVE  Versions'
    <2> DEFINE row == [copy[n] EXCEPT !.pub = pub]
    <2>1. Known(row)
      BY <1>2, AroundKnown DEF Known, Row
    <2> HIDE DEF row
    <2> QED
      BY <1>2, <2>1, WriteVersions DEF row
  <1>3. CASE Publish(n) \/ Unpublish(n)
    BY <1>2, <1>3 DEF Publish, PublishRouter, Unpublish
  <1>4. CASE Delete(n)
    BY <1>4, QuietVersions DEF Delete, TypeOK
  <1> QED
    BY <1>1, <1>3, <1>4 DEF UserStep

LEMMA JobVersions ==
    ASSUME TypeOK, TypeOK', Versions, ~SplitPublish,
           NEW n \in Node, NEW w \in Worker, JobStep(n, w)
    PROVE  Versions'
  <1>1. CASE JobSave(n, w)
    <2>1. CASE Has(n)
      <3>1. Known(Flagged(n, w))
        BY <2>1, AroundKnown DEF Known, Flagged, Row
      <3>2. copy' = [copy EXCEPT ![n] = Flagged(n, w)] /\ UNCHANGED <<now, edits, flight>>
        BY <1>1, <2>1 DEF JobSave
      <3> QED
        BY <3>1, <3>2, WriteVersions
    <2>2. CASE ~Has(n)
      BY <1>1, <2>2, QuietVersions DEF JobSave
    <2> QED
      BY <2>1, <2>2
  <1>2. ASSUME NEW m \in Node, JobUpload(n, w, m)
        PROVE  Versions'
    <2> DEFINE msg == Carry(<<n, m>>, n, "push", FALSE, Outgoing(copy[n], <<n, m>>))
    <2>1. CASE flight' = flight
      BY <1>2, <2>1, QuietVersions DEF JobUpload
    <2>2. CASE Has(n) /\ flight' = [flight EXCEPT ![<<n, w>>] = msg]
      <3>1. Known(msg.row)
        BY <2>2, AroundKnown, SentRow DEF Known, Carry
      <3>2. UNCHANGED <<copy, edits, now>> /\ <<n, w>> \in Process
        BY <1>2, WorkerType DEF JobUpload
      <3> HIDE DEF msg
      <3> QED
        BY <2>2, <3>1, <3>2, SendVersions
    <2> QED
      BY <1>2, <2>1, <2>2 DEF JobUpload
  <1>3. CASE JobStart(n, w) \/ JobRefused(n, w) \/ JobEnd(n, w)
    BY <1>3, QuietVersions DEF JobStart, JobRefused, JobEnd
  <1> QED
    BY <1>1, <1>2, <1>3 DEF JobStep

LEMMA SyncVersions ==
    ASSUME TypeOK, TypeOK', Versions, NEW s \in Server, SyncStep(s)
    PROVE  Versions'
  <1>0. s[1] \in Node /\ s[2] \in Node /\ s \in Process
    BY ServerType
  <1>1. UNCHANGED <<copy, edits, now>>
    BY DEF SyncStep, PullList, PullFetch, PushList, PushFetch
  <1>2. CASE UNCHANGED flight
    BY <1>1, <1>2, QuietVersions
  <1>3. CASE PullFetch(s) /\ flight' # flight
    <2> DEFINE msg == Carry(s, s[2], "pull", sync[s].force, Incoming(copy[s[2]], s))
    <2>1. Has(s[2]) /\ flight' = [flight EXCEPT ![s] = msg]
      BY <1>3 DEF PullFetch, Has
    <2>2. Known(msg.row)
      BY <1>0, <2>1, AroundKnown, SentRow DEF Known, Carry
    <2> HIDE DEF msg
    <2> QED
      BY <1>0, <1>1, <2>1, <2>2, SendVersions
  <1>4. CASE PushFetch(s) /\ flight' # flight
    <2> DEFINE msg == Carry(s, s[1], "push", FALSE, Outgoing(copy[s[1]], s))
    <2>1. Has(s[1]) /\ flight' = [flight EXCEPT ![s] = msg]
      BY <1>4 DEF PushFetch
    <2>2. Known(msg.row)
      BY <1>0, <2>1, AroundKnown, SentRow DEF Known, Carry
    <2> HIDE DEF msg
    <2> QED
      BY <1>0, <1>1, <2>1, <2>2, SendVersions
  <1> QED
    BY <1>2, <1>3, <1>4 DEF SyncStep, PullList, PushList

LEMMA ArrivalVersions ==
    ASSUME TypeOK, TypeOK', Versions, ~SplitEdit, NEW p \in Process, Arrival(p) \/ Fail(p)
    PROVE  Versions'
  <1>1. CASE Save(p)
    <2>1. flight[p] # None /\ flight[p] \in Message
      BY <1>1, FlightType DEF Save
    <2>2. flight[p].dst \in Node
      BY <2>1, MessageType
    <2>3. PICK how \in {"add", "edit"} : SaveAs(p, how)
      BY <1>1, SaveCases
    <2> DEFINE row == Stored(flight[p], how)
               new == IF Publishes(flight[p], how) THEN [row EXCEPT !.pub = TRUE] ELSE row
    <2>4. Known(flight[p].row) /\ flight[p].row \in Row
      BY <2>1, AroundKnown
    <2>5. row.info = flight[p].row.info /\ row.ts = flight[p].row.ts
      BY <2>4 DEF Stored, Row
    <2> HIDE DEF row
    <2>6. new.info = row.info /\ new.ts = row.ts
      OBVIOUS
    <2>7. copy' = [copy EXCEPT ![flight[p].dst] = new]
      BY <2>3 DEF SaveAs, PublishRouter, row
    <2> HIDE DEF new
    <2>8. Known(new)
      BY <2>4, <2>5, <2>6 DEF Known
    <2>9. /\ \A q \in Process : flight'[q] \in {flight[q], None}
          /\ UNCHANGED <<edits, now>>
      BY <2>3 DEF SaveAs, TypeOK
    <2> QED
      BY <2>2, <2>7, <2>8, <2>9, WriteVersions
  <1>2. CASE Refuse(p) \/ Fail(p)
    BY <1>2, QuietVersions DEF Refuse, Fail, Drop, TypeOK
  <1>3. CASE Accept(p)
    BY <1>3 DEF Accept
  <1> QED
    BY <1>1, <1>2, <1>3 DEF Arrival

------------------------------------------------------------------------------
\* Publishing reaches the peers.  What is promised on a push link has to be
\* shown on the way, link by link.

Shown(m) == Has(m) /\ copy[m].locked => copy[m].dist > 0

Served(n, m) == Has(m) /\ copy[m].ts >= copy[n].ts

Carries(msg, n, m) == /\ msg # None /\ msg.via = "push" /\ msg.src = n /\ msg.dst = m
                      /\ msg.row.ts >= copy[n].ts

Working(j, m) == j.at = "read" \/ (j.at = "upload" /\ m \in j.todo)

Delivering(n, m) == \/ queue[n] # << >>
                    \/ \E w \in Worker : Working(job[n][w], m)
                    \/ \E p \in Process : Carries(flight[p], n, m)

Kept(n, m) == faults = 0 /\ Owed(<<n, m>>) => Served(n, m) \/ Delivering(n, m)

Safe(n, m) == Shown(m) /\ Kept(n, m)

Links == \A s \in Push : Undisturbed(s[1], s[2]) => Safe(s[1], s[2])

LEMMA OwedMeans ==
    ASSUME NEW n \in Node, NEW m \in Node
    PROVE  Owed(<<n, m>>) <=>
             /\ Has(n) /\ copy[n].pub /\ Uploadable(copy[n], <<n, m>>)
             /\ ~blocked[m]
             /\ Has(m) => copy[m].locked /\ (copy[m].dist > 0 \/ copy[m].org = n)
  BY DEF Owed, Has, Uploadable

\* Neither end changes, and what is being delivered still is.
LEMMA Aside ==
    ASSUME NEW n \in Node, NEW m \in Node, Safe(n, m),
           copy'[n] = copy[n], copy'[m] = copy[m], blocked'[m] = blocked[m], faults' = faults,
           Delivering(n, m) => Delivering(n, m)' \/ Served(n, m)
    PROVE  Safe(n, m)'
  BY DEF Safe, Shown, Kept, Owed, Served, Has

\* The same, by what delivers.
LEMMA StillDelivering ==
    ASSUME NEW n \in Node, NEW m \in Node, copy'[n] = copy[n],
           queue[n] # << >> => queue'[n] # << >>,
           \A w \in Worker : Working(job[n][w], m) => Working(job'[n][w], m),
           \A p \in Process : Carries(flight[p], n, m) => flight'[p] = flight[p]
    PROVE  Delivering(n, m) => Delivering(n, m)'
  BY DEF Delivering, Carries

\* What has been queued is in the queue.
LEMMA LastIn ==
    ASSUME NEW q \in Seq(Node \cup {None}), NEW pass \in Node \cup {None}
    PROVE  Append(q, pass) # << >>
  <1>1. Len(Append(q, pass)) = Len(q) + 1 /\ Len(q) \in Nat
    OBVIOUS
  <1> QED
    BY <1>1

LEMMA UserSafe ==
    ASSUME TypeOK, Versions, NEW n \in Node, NEW m \in Node, n # m,
           Undisturbed(n, m), Safe(n, m), NEW k \in Node, UserStep(k)
    PROVE  Safe(n, m)'
  <1>0. /\ \A x \in Node : Has(x) => copy[x] \in Row /\ copy[x].ts \in Nat /\ copy[x].ts <= now
        /\ now \in Nat
    <2>1. \A x \in Node : Has(x) => copy[x] \in Row
      BY CopyType DEF Has
    <2>2. \A x \in Node : Has(x) => copy[x].ts <= now
      BY <2>1 DEF Versions, Around
    <2> QED
      BY <2>1, <2>2 DEF Row, TypeOK
  <1>1. ASSUME NEW d \in Levels, Edit(k, d)
        PROVE  Safe(n, m)'
    <2> DEFINE row == [Written(k, d) EXCEPT !.org = copy[k].org, !.locked = copy[k].locked]
    <2>1. row.pub = FALSE /\ row.ts = now /\ row.dist = d /\ row # None
      <3>1. Written(k, d) \in Row /\ copy[k] \in Row
        BY <1>0, <1>1, WrittenType, FlagAssumption DEF Edit
      <3>2. row \in Row
        BY <3>1 DEF Row
      <3> QED
        BY <3>2, NoneAssumption DEF Written
    <2>2. /\ \A x \in Node : copy'[x] = IF x = k THEN row ELSE copy[x]
          /\ UNCHANGED <<blocked, faults, queue, job, flight>> /\ k \in Editors
      BY <1>1 DEF Edit, TypeOK
    <2> HIDE DEF row
    <2>3. CASE k = n
      BY <2>1, <2>2, <2>3 DEF Safe, Shown, Kept, Owed, Has
    <2>4. CASE k = m
      <3>1. d > 0
        BY <2>2, <2>4, FlagAssumption DEF Undisturbed, Dist
      <3>2. Shown(m)'
        BY <2>1, <2>2, <2>4, <3>1 DEF Shown
      <3>3. Has(n) => Served(n, m)'
        BY <1>0, <2>1, <2>2, <2>4 DEF Served, Has
      <3> QED
        BY <2>2, <2>4, <3>2, <3>3 DEF Safe, Kept, Owed, Has
    <2>5. CASE k # n /\ k # m
      <3>1. Delivering(n, m) => Delivering(n, m)'
        BY <2>2, <2>5, StillDelivering
      <3> QED
        BY <2>2, <2>5, <3>1, Aside
    <2> QED
      BY <2>3, <2>4, <2>5
  <1>2. CASE Publish(k) \/ Unpublish(k)
    <2>1. PICK pub \in BOOLEAN :
             /\ copy' = [copy EXCEPT ![k] = [copy[k] EXCEPT !.pub = pub]]
             /\ pub => Publish(k)
      BY <1>2 DEF Publish, PublishRouter, Unpublish
    <2> DEFINE row == [copy[k] EXCEPT !.pub = pub]
    <2>2. /\ Has(k) /\ UNCHANGED <<blocked, faults, job, flight>>
          /\ \A x \in Node : queue'[x] = IF x = k /\ Publish(k) THEN Append(queue[k], None)
                                                                ELSE queue[x]
      BY <1>2 DEF Publish, PublishRouter, Unpublish, TypeOK
    <2>3. /\ row.pub = pub /\ row.ts = copy[k].ts /\ row.dist = copy[k].dist /\ row # None
          /\ row.locked = copy[k].locked /\ row.org = copy[k].org
      <3>1. row \in Row /\ copy[k] \in Row
        BY <1>0, <2>2 DEF Row
      <3> QED
        BY <3>1, NoneAssumption DEF Row
    <2>4. \A x \in Node : copy'[x] = IF x = k THEN row ELSE copy[x]
      BY <2>1 DEF TypeOK
    <2>5. \A x \in Node : Append(queue[x], None) # << >>
      <3>1. \A x \in Node : queue[x] \in Seq(Node \cup {None})
        BY DEF TypeOK
      <3> QED
        BY <3>1, LastIn
    <2>6. \A x \in Node : queue[x] # << >> => queue'[x] # << >>
      BY <2>2, <2>5
    <2> HIDE DEF row
    <2>7. CASE k = n
      <3>1. pub => Delivering(n, m)'
        BY <2>1, <2>2, <2>5, <2>7 DEF Delivering
      <3>2. Shown(m)'
        BY <2>4, <2>7 DEF Safe, Shown, Has
      <3> QED
        BY <2>3, <2>4, <2>7, <3>1, <3>2 DEF Safe, Kept, Owed
    <2>8. CASE k = m
      <3>1. Delivering(n, m) => Delivering(n, m)'
        BY <2>2, <2>4, <2>6, <2>8, StillDelivering
      <3> QED
        BY <2>2, <2>3, <2>4, <2>8, <3>1 DEF Safe, Shown, Kept, Owed, Served, Has
    <2>9. CASE k # n /\ k # m
      <3>1. Delivering(n, m) => Delivering(n, m)'
        BY <2>2, <2>4, <2>6, <2>9, StillDelivering
      <3> QED
        BY <2>2, <2>4, <2>9, <3>1, Aside
    <2> QED
      BY <2>7, <2>8, <2>9
  <1>3. CASE Delete(k)
    <2>1. /\ \A x \in Node : copy'[x] = IF x = k THEN None ELSE copy[x]
          /\ \A x \in Node : blocked'[x] = IF x = k THEN Blocklisting ELSE blocked[x]
          /\ UNCHANGED <<faults, queue, job, flight>> /\ k \in Deleters
      BY <1>3 DEF Delete, TypeOK
    <2>2. CASE k = n
      BY <2>1, <2>2 DEF Safe, Shown, Kept, Owed, Has
    <2>3. CASE k = m
      <3>1. blocked'[m] = TRUE
        BY <2>1, <2>3, FlagAssumption DEF Undisturbed
      <3> QED
        BY <2>1, <2>3, <3>1 DEF Safe, Shown, Kept, Owed, Has
    <2>4. CASE k # n /\ k # m
      <3>1. Delivering(n, m) => Delivering(n, m)'
        BY <2>1, <2>4, StillDelivering
      <3> QED
        BY <2>1, <2>4, <3>1, Aside
    <2> QED
      BY <2>2, <2>3, <2>4
  <1> QED
    BY <1>1, <1>2, <1>3 DEF UserStep

LEMMA JobSafe ==
    ASSUME TypeOK, Routes, ~SplitPublish, NEW n \in Node, NEW m \in Node, n # m,
           <<n, m>> \in Push, Undisturbed(n, m), Safe(n, m),
           NEW k \in Node, NEW w \in Worker, JobStep(k, w)
    PROVE  Safe(n, m)'
  <1>0. /\ \A x \in Node : Has(x) => copy[x] \in Row
        /\ <<k, w>> \in Process
        /\ \A x \in Node : queue[x] \in Seq(Node \cup {None})
    BY CopyType, WorkerType DEF Has, TypeOK
  <1>1. ASSUME NEW j, SetJob(k, w, j)
        PROVE  \A x \in Node, v \in Worker :
                 job'[x][v] = IF x = k /\ v = w THEN j ELSE job[x][v]
    BY <1>1 DEF SetJob, TypeOK
  <1>2. CASE JobStart(k, w)
    <2>1. /\ UNCHANGED <<copy, blocked, faults, flight>> /\ job[k][w] = Idle
          /\ \A x \in Node : x # k => queue'[x] = queue[x]
          /\ \A x \in Node, v \in Worker : ~(x = k /\ v = w) => job'[x][v] = job[x][v]
          /\ Has(k) => job'[k][w].at = "read"
      <3> DEFINE j == IF Has(k) THEN [Idle EXCEPT !.at = "read", !.info = copy[k].info,
                                                 !.pass = Head(queue[k])]
                                ELSE Idle
      <3>1. SetJob(k, w, j) /\ (Has(k) => j.at = "read")
        BY <1>2 DEF JobStart, Idle
      <3> HIDE DEF j
      <3>2. \A x \in Node, v \in Worker :
              job'[x][v] = IF x = k /\ v = w THEN j ELSE job[x][v]
        BY <1>1, <3>1
      <3> QED
        BY <1>2, <3>1, <3>2 DEF JobStart, TypeOK
    <2>2. CASE k = n
      <3>1. Has(n) => Delivering(n, m)'
        BY <2>1, <2>2 DEF Delivering, Working
      <3> QED
        BY <2>1, <3>1 DEF Safe, Shown, Kept, Owed, Has
    <2>3. CASE k # n
      <3>1. Delivering(n, m) => Delivering(n, m)'
        BY <2>1, <2>3, StillDelivering
      <3> QED
        BY <2>1, <3>1, Aside
    <2> QED
      BY <2>2, <2>3
  <1>3. CASE JobSave(k, w)
    <2> DEFINE j == [Idle EXCEPT !.at = "upload",
                       !.todo = {x \in Node : <<k, x>> \in Push} \ {job[k][w].pass}]
    <2>1. CASE ~Has(k)
      <3>1. UNCHANGED <<copy, blocked, faults, queue, flight>> /\ SetJob(k, w, Idle)
        BY <1>3, <2>1 DEF JobSave
      <3>2. CASE k = n
        BY <2>1, <3>1, <3>2 DEF Safe, Shown, Kept, Owed, Has
      <3>3. CASE k # n
        <4>1. \A v \in Worker : job'[n][v] = job[n][v]
          BY <1>1, <3>1, <3>3
        <4>2. Delivering(n, m) => Delivering(n, m)'
          BY <3>1, <4>1, StillDelivering
        <4> QED
          BY <3>1, <4>2, Aside
      <3> QED
        BY <3>2, <3>3
    <2>2. CASE Has(k)
      <3> DEFINE row == Flagged(k, w)
      <3>1. /\ row # None /\ row.dist = copy[k].dist /\ row.ts = copy[k].ts
            /\ row.locked = copy[k].locked /\ row.org = copy[k].org
        <4>1. row \in Row
          BY <1>0, <2>2 DEF Flagged, Row
        <4> QED
          BY <1>0, <2>2, <4>1, NoneAssumption DEF Flagged, Row
      <3>2. /\ \A x \in Node : copy'[x] = IF x = k THEN row ELSE copy[x]
            /\ UNCHANGED <<blocked, faults, queue, flight>> /\ SetJob(k, w, j)
        BY <1>3, <2>2 DEF JobSave, TypeOK
      <3> HIDE DEF row
      <3>3. CASE k = n
        <4>1. job[n][w].pass # m
          BY NoneAssumption DEF Routes, Tasked, FromPull, Undisturbed
        <4>2. j.at = "upload" /\ m \in j.todo
          BY <3>3, <4>1 DEF Idle
        <4> HIDE DEF j
        <4>3. Delivering(n, m)'
          BY <1>1, <3>2, <3>3, <4>2 DEF Delivering, Working
        <4>4. Shown(m)'
          BY <3>2, <3>3 DEF Safe, Shown, Has
        <4> QED
          BY <4>3, <4>4 DEF Safe, Kept
      <3> HIDE DEF j
      <3>4. CASE k # n
        <4>1. \A v \in Worker : job'[n][v] = job[n][v]
          BY <1>1, <3>2, <3>4
        <4>2. Delivering(n, m) => Delivering(n, m)'
          BY <3>2, <3>4, <4>1, StillDelivering
        <4> QED
          BY <2>2, <3>1, <3>2, <3>4, <4>2 DEF Safe, Shown, Kept, Owed, Served, Has
      <3> QED
        BY <3>3, <3>4
    <2> QED
      BY <2>1, <2>2
  <1>4. CASE JobRefused(k, w)
    <2>1. UNCHANGED <<copy, blocked, faults, queue, flight>> /\ k # n
      BY <1>4 DEF JobRefused, Undisturbed
    <2>2. \A v \in Worker : job'[n][v] = job[n][v]
      BY <1>1, <1>4, <2>1 DEF JobRefused
    <2>3. Delivering(n, m) => Delivering(n, m)'
      BY <2>1, <2>2, StillDelivering
    <2> QED
      BY <2>1, <2>3, Aside
  <1>5. CASE JobEnd(k, w)
    <2>1. UNCHANGED <<copy, blocked, faults, queue, flight>> /\ ~Working(job[k][w], m)
      BY <1>5 DEF JobEnd, Working
    <2>2. \A v \in Worker : job'[n][v] = job[n][v] \/ (k = n /\ v = w)
      BY <1>1, <1>5 DEF JobEnd
    <2>3. \A v \in Worker : Working(job[n][v], m) => Working(job'[n][v], m)
      BY <2>1, <2>2
    <2>4. Delivering(n, m) => Delivering(n, m)'
      BY <2>1, <2>3, StillDelivering
    <2> QED
      BY <2>1, <2>4, Aside
  <1>6. ASSUME NEW x \in Node, JobUpload(k, w, x)
        PROVE  Safe(n, m)'
    <2> DEFINE j   == [job[k][w] EXCEPT !.todo = @ \ {x}]
               msg == Carry(<<k, x>>, k, "push", FALSE, Outgoing(copy[k], <<k, x>>))
    <2>1. /\ UNCHANGED <<copy, blocked, faults, queue>> /\ SetJob(k, w, j)
          /\ flight[<<k, w>>] = None
      BY <1>6 DEF JobUpload
    <2>2. \A p \in Process : flight[p] # None => flight'[p] = flight[p]
      <3>1. flight' = flight \/ flight' = [flight EXCEPT ![<<k, w>>] = msg]
        BY <1>6 DEF JobUpload
      <3> HIDE DEF msg
      <3> QED
        BY <2>1, <3>1 DEF TypeOK
    <2>3. j.at = job[k][w].at /\ j.todo = job[k][w].todo \ {x}
      BY DEF TypeOK, Job
    <2> HIDE DEF j
    <2>4. CASE k = n /\ x = m
      <3>1. ASSUME Owed(<<n, m>>)
            PROVE  Delivering(n, m)'
        <4>1. flight' = [flight EXCEPT ![<<k, w>>] = msg] /\ copy[n] \in Row
          BY <1>0, <1>6, <2>4, <3>1, OwedMeans DEF JobUpload
        <4>2. /\ msg.src = n /\ msg.dst = m /\ msg.via = "push" /\ msg.row.ts = copy[n].ts
              /\ msg \in Message
          BY <2>4, <4>1, SentRow, OutgoingType, CarryType DEF Carry
        <4> HIDE DEF msg
        <4>3. flight'[<<k, w>>] = msg /\ msg # None
          BY <1>0, <4>1, <4>2, NoneAssumption DEF TypeOK
        <4>4. copy[n].ts \in Nat
          BY <4>1 DEF Row
        <4>5. Carries(msg, n, m) /\ copy'[n] = copy[n]
          BY <2>1, <4>2, <4>3, <4>4 DEF Carries
        <4> QED
          BY <1>0, <4>3, <4>5 DEF Delivering, Carries
      <3> QED
        BY <2>1, <3>1 DEF Safe, Shown, Kept, Owed, Has
    <2> HIDE DEF msg
    <2>5. CASE ~(k = n /\ x = m)
      <3>1. \A v \in Worker : Working(job[n][v], m) => Working(job'[n][v], m)
        BY <1>1, <2>1, <2>3, <2>5 DEF Working
      <3>2. Delivering(n, m) => Delivering(n, m)'
        BY <2>1, <2>2, <3>1, StillDelivering DEF Carries
      <3> QED
        BY <2>1, <3>2, Aside
    <2> QED
      BY <2>4, <2>5
  <1> QED
    BY <1>2, <1>3, <1>4, <1>5, <1>6 DEF JobStep

LEMMA SyncSafe ==
    ASSUME TypeOK, Routes, NEW n \in Node, NEW m \in Node, Safe(n, m),
           NEW s \in Server, SyncStep(s)
    PROVE  Safe(n, m)'
  <1>1. UNCHANGED <<copy, blocked, faults, queue, job>>
    BY DEF SyncStep, PullList, PullFetch, PushList, PushFetch
  <1>2. \A p \in Process : flight[p] # None => flight'[p] = flight[p]
    <2>1. CASE PullFetch(s) \/ PushFetch(s)
      <3>1. flight[s] = None
        BY <2>1 DEF PullFetch, PushFetch, Routes, Fetching
      <3>2. \A p \in Process : p # s => flight'[p] = flight[p]
        BY <2>1 DEF PullFetch, PushFetch, TypeOK
      <3> QED
        BY <3>1, <3>2
    <2>2. CASE PullList(s) \/ PushList(s)
      BY <2>2 DEF PullList, PushList
    <2> QED
      BY <2>1, <2>2 DEF SyncStep
  <1>3. Delivering(n, m) => Delivering(n, m)'
    BY <1>1, <1>2, StillDelivering DEF Carries
  <1> QED
    BY <1>1, <1>3, Aside

\* A refused or failed transfer.  Nothing n sends to m is refused as long as m
\* is owed the event and has not got it.
LEMMA DropSafe ==
    ASSUME TypeOK, Routes, NEW n \in Node, NEW m \in Node, Safe(n, m),
           NEW p \in Process, Refuse(p) \/ Fail(p)
    PROVE  Safe(n, m)'
  <1>1. /\ UNCHANGED <<copy, blocked, queue, job>>
        /\ \A q \in Process : q # p => flight'[q] = flight[q]
        /\ flight[p] # None
    BY DEF Refuse, Fail, Drop, TypeOK
  <1>2. CASE Fail(p)
    <2>1. faults' # 0
      BY <1>2 DEF Fail, TypeOK
    <2> QED
      BY <1>1, <2>1 DEF Safe, Shown, Kept, Has
  <1>3. CASE Refuse(p)
    <2>1. UNCHANGED faults /\ flight[p].ok = "no" /\ Verdict(flight[p]) = "no"
      BY <1>1, <1>3 DEF Refuse, Routes, Sending, Routed
    <2>2. CASE Carries(flight[p], n, m)
      <3>1. ASSUME Owed(<<n, m>>)
            PROVE  Served(n, m)
        <4>1. Has(n) /\ copy[n] \in Row /\ ~blocked[m] /\ flight[p].row \in Row
          BY <1>1, <3>1, OwedMeans, CopyType, FlightType, MessageType DEF Has
        <4>2. Has(m) /\ ~MayEdit(flight[p])
          BY <2>1, <2>2, <4>1 DEF Verdict, Carries
        <4>3. copy[m] \in Row /\ copy[m].locked /\ (copy[m].dist > 0 \/ copy[m].org = n)
          BY <3>1, <4>2, OwedMeans, CopyType DEF Has
        <4>4. Sees(copy[m], n)
          BY <4>3 DEF Sees, Row, Dist
        <4>5. ~(flight[p].row.ts > copy[m].ts)
          BY <2>2, <4>2, <4>3, <4>4 DEF MayEdit, Carries
        <4>6. flight[p].row.ts >= copy[n].ts
          BY <2>2 DEF Carries
        <4>7. flight[p].row.ts \in Nat /\ copy[m].ts \in Nat /\ copy[n].ts \in Nat
          BY <4>1, <4>3 DEF Row
        <4>8. copy[m].ts >= copy[n].ts
          BY <4>5, <4>6, <4>7
        <4> QED
          BY <4>2, <4>8 DEF Served
      <3> QED
        BY <1>1, <2>1, <3>1 DEF Safe, Shown, Kept, Owed, Served, Has
    <2>3. CASE ~Carries(flight[p], n, m)
      <3>1. Delivering(n, m) => Delivering(n, m)'
        BY <1>1, <2>3, StillDelivering
      <3> QED
        BY <1>1, <2>1, <3>1, Aside
    <2> QED
      BY <2>2, <2>3
  <1> QED
    BY <1>2, <1>3

\* A row arrives at m: it is not older, and if it is what n was to bring then m
\* is served.
LEMMA ServedSafe ==
    ASSUME TypeOK, Routes, ~SplitEdit, NEW n \in Node, NEW m \in Node, n # m,
           Undisturbed(n, m), Safe(n, m), NEW p \in Process, Save(p), flight[p].dst = m
    PROVE  Safe(n, m)'
  <1>0. flight[p] # None /\ flight[p] \in Message /\ Routed(flight[p]) /\ flight[p].row \in Row
    BY FlightType, MessageType DEF Save, Routes, Sending
  <1>1. /\ flight[p].via = "push" /\ ~flight[p].force
        /\ flight[p].row.locked /\ flight[p].row.dist > 0
    BY <1>0, MessageType DEF Routed, Undisturbed
  <1>2. PICK how \in {"add", "edit"} :
           /\ SaveAs(p, how)
           /\ how = "edit" <=> Has(m)
           /\ how = Verdict(flight[p])
    BY SaveCases
  <1> DEFINE row == Stored(flight[p], how)
             new == IF Publishes(flight[p], how) THEN [row EXCEPT !.pub = TRUE] ELSE row
  <1>3. row \in Row
    BY <1>0, <1>2, StoredType DEF Has
  <1>4. /\ row.ts = flight[p].row.ts /\ row.dist = flight[p].row.dist
        /\ how = "add" => row.locked
        /\ how = "edit" => row.locked = copy[m].locked /\ row.org = copy[m].org
    BY <1>0, <1>1 DEF Stored, Row
  <1> HIDE DEF row
  <1>5. /\ new \in Row /\ new.ts = row.ts /\ new.dist = row.dist
        /\ new.locked = row.locked /\ new.org = row.org
    BY <1>3 DEF Row
  <1>6. copy' = [copy EXCEPT ![m] = new]
    BY <1>2 DEF SaveAs, PublishRouter, row
  <1> HIDE DEF new
  <1>7. /\ \A x \in Node : copy'[x] = IF x = m THEN new ELSE copy[x]
        /\ \A x \in Node : x # m => queue'[x] = queue[x]
        /\ \A q \in Process : q # p => flight'[q] = flight[q]
        /\ UNCHANGED <<blocked, faults, job>> /\ new # None
    BY <1>2, <1>5, <1>6, NoneAssumption DEF SaveAs, PublishRouter, TypeOK
  <1>8. Shown(m)'
    BY <1>1, <1>4, <1>5, <1>7 DEF Shown
  <1>9. ASSUME faults = 0, Owed(<<n, m>>)'
        PROVE  Served(n, m)' \/ Delivering(n, m)'
    <2>0. /\ Has(n) /\ copy'[n] = copy[n] /\ copy[n].ts \in Nat
          /\ flight[p].row.ts \in Nat /\ new.ts = flight[p].row.ts
      <3>1. Has(n) /\ copy'[n] = copy[n]
        BY <1>7, <1>9 DEF Owed, Has
      <3> QED
        BY <1>0, <1>4, <1>5, <3>1, CopyType DEF Row, Has
    <2>1. Owed(<<n, m>>)
      <3>1. CASE how = "add"
        BY <1>2, <1>7, <1>9, <2>0, <3>1 DEF Owed, Has
      <3>2. CASE how = "edit"
        <4>1. copy[m].locked /\ Has(m)
          BY <1>2, <1>4, <1>5, <1>7, <1>9, <3>2 DEF Owed
        <4>2. copy[m].dist > 0
          BY <4>1 DEF Safe, Shown
        <4> QED
          BY <1>7, <1>9, <2>0, <4>1, <4>2 DEF Owed, Has
      <3> QED
        BY <3>1, <3>2
    <2>2. CASE Served(n, m)
      <3>1. how = "edit" /\ MayEdit(flight[p]) /\ copy[m] \in Row
        BY <1>2, <2>2, CopyType DEF Served, Verdict, Has
      <3>2. flight[p].row.ts > copy[m].ts /\ copy[m].ts \in Nat
        BY <1>1, <3>1 DEF MayEdit, Row
      <3>3. copy[m].ts >= copy[n].ts
        BY <2>2 DEF Served
      <3>4. flight[p].row.ts >= copy[n].ts
        BY <2>0, <3>2, <3>3
      <3> QED
        BY <1>7, <2>0, <3>4 DEF Served, Has
    <2>3. CASE Carries(flight[p], n, m)
      BY <1>7, <2>0, <2>3 DEF Carries, Served, Has
    <2>4. CASE ~Carries(flight[p], n, m) /\ Delivering(n, m)
      BY <1>7, <2>0, <2>4, StillDelivering
    <2> QED
      BY <1>9, <2>1, <2>2, <2>3, <2>4 DEF Safe, Kept
  <1> QED
    BY <1>7, <1>8, <1>9 DEF Safe, Kept

\* A row arrives at n: a published one is a newer version, so it is published
\* again, or it has just been added.
LEMMA PassedSafe ==
    ASSUME TypeOK, Routes, Versions, ~SplitEdit, NEW n \in Node, NEW m \in Node, n # m,
           Undisturbed(n, m), Safe(n, m), NEW p \in Process, Save(p), flight[p].dst = n
    PROVE  Safe(n, m)'
  <1>0. flight[p] # None /\ flight[p] \in Message /\ Routed(flight[p]) /\ flight[p].row \in Row
    BY FlightType, MessageType DEF Save, Routes, Sending
  <1>1. ~flight[p].force
    BY <1>0, MessageType DEF Routed, Undisturbed
  <1>2. PICK how \in {"add", "edit"} :
           /\ SaveAs(p, how)
           /\ how = "edit" <=> Has(n)
           /\ how = Verdict(flight[p])
    BY SaveCases
  <1>3. copy'[m] = copy[m]
    BY <1>2 DEF SaveAs, PublishRouter, TypeOK
  <1>4. CASE Publishes(flight[p], how)
    <2>1. queue' = [queue EXCEPT ![n] = Append(@, PassAlong(flight[p]))]
      BY <1>2, <1>4 DEF SaveAs, PublishRouter
    <2>2. queue[n] \in Seq(Node \cup {None}) /\ PassAlong(flight[p]) \in Node \cup {None}
      BY <1>0, MessageType DEF TypeOK, PassAlong
    <2>3. queue'[n] # << >>
      BY <2>1, <2>2, LastIn DEF TypeOK
    <2> QED
      BY <1>3, <2>3 DEF Safe, Shown, Kept, Delivering, Has
  <1>5. CASE ~Publishes(flight[p], how)
    <2>1. ~flight[p].row.pub
      <3> SUFFICES ASSUME flight[p].row.pub PROVE FALSE
        OBVIOUS
      <3>1. how = "edit" /\ flight[p].row.info = copy[n].info
        BY <1>2, <1>5 DEF Publishes
      <3>2. Has(n) /\ copy[n] \in Row /\ MayEdit(flight[p])
        BY <1>2, <3>1, CopyType DEF Has, Verdict
      <3>3. flight[p].row.ts > copy[n].ts
        BY <1>1, <3>2 DEF MayEdit
      <3>4. Around(flight[p].row) /\ Around(copy[n])
        BY <1>0, <3>2 DEF Around
      <3>5. flight[p].row.ts = copy[n].ts
        BY <1>0, <3>1, <3>2, <3>4 DEF Versions
      <3> QED
        BY <3>2, <3>3, <3>5 DEF Row
    <2>2. ~Stored(flight[p], how).pub /\ Stored(flight[p], how) # None
      <3>1. Stored(flight[p], how) \in Row
        BY <1>0, <1>2, StoredType DEF Has
      <3>2. Stored(flight[p], how).pub = flight[p].row.pub
        BY <1>0 DEF Stored, Row
      <3> QED
        BY <2>1, <3>1, <3>2, NoneAssumption
    <2>3. copy'[n] = Stored(flight[p], how)
      BY <1>2, <1>5 DEF SaveAs, TypeOK
    <2> QED
      BY <1>3, <2>2, <2>3 DEF Safe, Shown, Kept, Owed, Has
  <1> QED
    BY <1>4, <1>5

LEMMA ArrivalSafe ==
    ASSUME TypeOK, Routes, Versions, ~SplitEdit, NEW n \in Node, NEW m \in Node, n # m,
           Undisturbed(n, m), Safe(n, m), NEW p \in Process, Arrival(p) \/ Fail(p)
    PROVE  Safe(n, m)'
  <1>1. CASE Save(p) /\ flight[p].dst \notin {n, m}
    <2>1. PICK how \in {"add", "edit"} : SaveAs(p, how)
      BY <1>1, SaveCases
    <2>2. /\ UNCHANGED <<blocked, faults, job>>
          /\ \A x \in {n, m} : copy'[x] = copy[x] /\ queue'[x] = queue[x]
          /\ \A q \in Process : q # p => flight'[q] = flight[q]
      BY <1>1, <2>1 DEF SaveAs, PublishRouter, TypeOK
    <2>3. Delivering(n, m) => Delivering(n, m)'
      BY <1>1, <2>2, StillDelivering DEF Carries
    <2> QED
      BY <2>2, <2>3, Aside
  <1>2. CASE Accept(p)
    BY <1>2 DEF Accept
  <1> QED
    BY <1>1, <1>2, ServedSafe, PassedSafe, DropSafe DEF Arrival

\* Origin's first version is not owed by it, nor to it.
LEMMA CreateSafe ==
    ASSUME TypeOK, NEW n \in Node, NEW m \in Node, n # m, Safe(n, m),
           NEW d \in Levels, Create(d)
    PROVE  Safe(n, m)'
  <1>1. Written(Origin, d) # None
    BY WrittenType, NetAssumption, FlagAssumption, NoneAssumption
  <1>2. ~Written(Origin, d).pub /\ ~Written(Origin, d).locked
    BY DEF Written
  <1>3. /\ \A x \in Node : copy'[x] = IF x = Origin THEN Written(Origin, d) ELSE copy[x]
        /\ UNCHANGED <<blocked, faults, queue, job, flight>>
    BY NetAssumption DEF Create, TypeOK
  <1>4. CASE Origin \in {n, m}
    BY <1>1, <1>2, <1>3, <1>4 DEF Safe, Shown, Kept, Owed, Has
  <1>5. CASE Origin \notin {n, m}
    <2>1. Delivering(n, m) => Delivering(n, m)'
      BY <1>3, <1>5, StillDelivering
    <2> QED
      BY <1>3, <1>5, <2>1, Aside
  <1> QED
    BY <1>4, <1>5

\* When nothing is queued, run or on its way, nothing is being delivered.
LEMMA QuietEnds ==
    ASSUME Quiet, NEW n \in Node, NEW m \in Node
    PROVE  ~Delivering(n, m)
  <1>1. /\ queue[n] = << >> /\ \A w \in Worker : job[n][w].at = "idle"
        /\ \A p \in Process : flight[p] = None
    BY DEF Quiet, Idle
  <1> QED
    BY <1>1 DEF Delivering, Working, Carries

\* Whatever the rest of the network does: a push link that nothing disturbs has
\* brought its peer up to every version its instance shows as published, once
\* nothing is queued or under way.
THEOREM LinkReaches ==
    ASSUME ~SplitEdit, ~SplitPublish
    PROVE  Spec => []LinksReached
  <1> DEFINE IInv == Routes /\ Versions /\ Links
  <1>1. Init => IInv
    <2> SUFFICES ASSUME Init PROVE IInv
      OBVIOUS
    <2>1. Routes
      <3>1. Sending
        BY DEF Init, Sending
      <3>2. Fetching
        <4>1. \A s \in Server : s \in Process
          BY DEF Process
        <4> QED
          BY <4>1 DEF Init, Fetching, NoSync
      <3>3. Queued
        <4>1. \A n \in Node : DOMAIN queue[n] = {}
          BY DEF Init
        <4> QED
          BY <4>1 DEF Queued
      <3>4. Tasked
        BY DEF Init, Tasked, FromPull, Idle
      <3> QED
        BY <3>1, <3>2, <3>3, <3>4 DEF Routes
    <2>2. Versions
      BY DEF Init, Versions, Around, Has
    <2>3. Links
      BY NetAssumption DEF Init, Links, Safe, Shown, Kept, Owed, Has
    <2> QED
      BY <2>1, <2>2, <2>3
  <1>2. TypeOK /\ TypeOK' /\ IInv /\ [Next]_vars => IInv'
    <2> SUFFICES ASSUME TypeOK, TypeOK', IInv, [Next]_vars PROVE IInv'
      OBVIOUS
    <2>1. CASE Tick \/ UNCHANGED vars
      <3>1. /\ now' \in {now, now + 1}
            /\ UNCHANGED <<edits, faults, copy, blocked, queue, job, sync, flight>>
        BY <2>1 DEF Tick, vars
      <3>2. Routes'
        BY <3>1 DEF Routes, Sending, Fetching, Queued, Tasked
      <3>3. Versions'
        BY <3>1, QuietVersions
      <3>4. Links'
        BY <3>1 DEF Links, Safe, Shown, Kept, Owed, Served, Delivering, Carries, Has
      <3> QED
        BY <3>2, <3>3, <3>4
    <2>2. ASSUME NEW d \in Levels, Create(d)
          PROVE  IInv'
      <3>1. Routes'
        BY <2>2 DEF Create, Routes, Sending, Fetching, Queued, Tasked
      <3>2. Versions'
        <4>1. Written(Origin, d).info = edits + 1 /\ Written(Origin, d).ts = now
          BY DEF Written
        <4> QED
          BY <2>2, <4>1, WriteVersions, NetAssumption DEF Create
      <3>3. Links'
        <4>1. \A s \in Push : s \in Server
          BY DEF Server
        <4> QED
          BY <2>2, <4>1, ServerType, CreateSafe DEF Links
      <3> QED
        BY <3>1, <3>2, <3>3
    <2>3. ASSUME NEW n \in Node, UserStep(n)
          PROVE  IInv'
      <3>1. Routes' /\ Versions'
        BY <2>3, UserRoutes, UserVersions
      <3>2. \A s \in Push : s \in Server
        BY DEF Server
      <3>3. Links'
        BY <2>3, <3>2, ServerType, UserSafe DEF Links
      <3> QED
        BY <3>1, <3>3
    <2>4. ASSUME NEW n \in Node, NEW w \in Worker, JobStep(n, w)
          PROVE  IInv'
      <3>1. Routes' /\ Versions'
        BY <2>4, JobRoutes, JobVersions
      <3>2. \A s \in Push : s \in Server /\ <<s[1], s[2]>> \in Push
        BY ServerType DEF Server
      <3>3. Links'
        BY <2>4, <3>2, ServerType, JobSafe DEF Links
      <3> QED
        BY <3>1, <3>3
    <2>5. ASSUME NEW t \in Server, SyncStep(t)
          PROVE  IInv'
      <3>1. Routes' /\ Versions'
        BY <2>5, SyncRoutes, SyncVersions
      <3>2. \A s \in Push : s \in Server
        BY DEF Server
      <3>3. Links'
        BY <2>5, <3>2, ServerType, SyncSafe DEF Links
      <3> QED
        BY <3>1, <3>3
    <2>6. ASSUME NEW p \in Process, Arrival(p) \/ Fail(p)
          PROVE  IInv'
      <3>1. Routes' /\ Versions'
        BY <2>6, ArrivalRoutes, ArrivalVersions
      <3>2. \A s \in Push : s \in Server
        BY DEF Server
      <3>3. Links'
        BY <2>6, <3>2, ServerType, ArrivalSafe DEF Links
      <3> QED
        BY <3>1, <3>3
    <2> QED
      BY <2>1, <2>2, <2>3, <2>4, <2>5, <2>6 DEF Next
  <1>3. IInv => LinksReached
    <2> SUFFICES ASSUME Links, Quiet, faults = 0, NEW s \in Push,
                        Undisturbed(s[1], s[2]), Owed(s)
                 PROVE  Served(s[1], s[2])
      BY DEF LinksReached, Served, Has
    <2>1. s = <<s[1], s[2]>> /\ s[1] \in Node /\ s[2] \in Node
      BY ServerType DEF Server
    <2>2. ~Delivering(s[1], s[2]) /\ Owed(<<s[1], s[2]>>)
      BY <2>1, QuietEnds
    <2> QED
      BY <2>2 DEF Links, Safe, Kept
  <1> HIDE DEF IInv
  <1> QED
    BY <1>1, <1>2, <1>3, TypeCorrect, PTL DEF Spec

\* So on a network of push links that nothing disturbs, every peer is brought up to
\* what is shown as published.
THEOREM PublishReaches ==
    ASSUME ~SplitEdit, ~SplitPublish, \A s \in Push : Undisturbed(s[1], s[2])
    PROVE  Spec => []PublishReachesPeers
  <1>1. LinksReached => PublishReachesPeers
    BY DEF LinksReached, PublishReachesPeers, Served, Has
  <1> QED
    BY <1>1, LinkReaches, PTL

------------------------------------------------------------------------------
\* EventSync implements NewestWins.

LEMMA HeldIs ==
    /\ \A n \in Node : Held[n] = IF Has(n) THEN Version(copy[n]) ELSE None
    /\ \A v : v \in Live <=> \/ \E n \in Node : Has(n) /\ v = Version(copy[n])
                             \/ \E p \in Process : flight[p] # None
                                                   /\ v = Version(flight[p].row)
    /\ \A n \in Node : Held[n] # None => Held[n] \in Live
  <1>1. \A n \in Node : Held[n] = IF Has(n) THEN Version(copy[n]) ELSE None
    BY DEF Held
  <1>2. \A v : v \in Live <=> \/ \E n \in Node : Has(n) /\ v = Version(copy[n])
                              \/ \E p \in Process : flight[p] # None
                                                    /\ v = Version(flight[p].row)
    BY DEF Live
  <1>3. \A n \in Node : Held[n] # None => Held[n] \in Live
    BY <1>1, <1>2
  <1> QED
    BY <1>1, <1>2, <1>3

LEMMA HeldNext ==
    /\ \A n \in Node : Held'[n] = IF Has(n)' THEN Version(copy'[n]) ELSE None
    /\ \A v : v \in Live' <=> \/ \E n \in Node : Has(n)' /\ v = Version(copy'[n])
                              \/ \E p \in Process : flight'[p] # None
                                                    /\ v = Version(flight'[p].row)
    /\ \A n \in Node : Held'[n] # None => Held'[n] \in Live'
  <1>1. \A n \in Node : Held'[n] = IF Has(n)' THEN Version(copy'[n]) ELSE None
    BY DEF Held
  <1>2. \A v : v \in Live' <=> \/ \E n \in Node : Has(n)' /\ v = Version(copy'[n])
                               \/ \E p \in Process : flight'[p] # None
                                                     /\ v = Version(flight'[p].row)
    BY DEF Live
  <1>3. \A n \in Node : Held'[n] # None => Held'[n] \in Live'
    BY <1>1, <1>2
  <1> QED
    BY <1>1, <1>2, <1>3

\* A step of the publish cascade or of a task that moves versions and takes none.
LEMMA ForgetStep ==
    ASSUME UNCHANGED <<now, edits, blocked>>, Held' = Held, Live' \subseteq Live
    PROVE  Newest!Change
  <1>1. Newest!Around(Live)
    BY HeldNext DEF Newest!Around
  <1>2. Newest!Forget
    BY <1>1 DEF Newest!Forget
  <1> QED
    BY <1>2 DEF Newest!Change

\* The copies stay what they are, but for flags, and transfers end.
LEMMA SameHeld ==
    ASSUME \A n \in Node : copy'[n] = copy[n] \/ /\ Has(n) /\ Has(n)'
                                                 /\ Version(copy'[n]) = Version(copy[n]),
           \A p \in Process : flight'[p] \in {flight[p], None},
           UNCHANGED <<now, edits, blocked>>
    PROVE  Newest!Change
  <1>1. \A n \in Node : Held'[n] = Held[n]
    BY HeldIs, HeldNext DEF Has
  <1>2. Held' = Held
    BY <1>1 DEF Held
  <1>3. Live' \subseteq Live
    <2>1. \A n \in Node : Has(n)' => Has(n) /\ Version(copy'[n]) = Version(copy[n])
      BY DEF Has
    <2> QED
      BY <2>1, HeldIs, HeldNext
  <1> QED
    BY <1>2, <1>3, ForgetStep

LEMMA SendHeld ==
    ASSUME TypeOK, UNCHANGED <<now, edits, blocked, copy>>, NEW p \in Process, NEW msg,
           flight' = [flight EXCEPT ![p] = msg],
           NEW n \in Node, Has(n), Version(msg.row) = Version(copy[n])
    PROVE  Newest!Change
  <1>1. Held' = Held
    BY DEF Held, Has
  <1>2. \A q \in Process : flight'[q] = IF q = p THEN msg ELSE flight[q]
    BY DEF TypeOK
  <1>3. Live' \subseteq Live
    BY <1>2, HeldIs, HeldNext DEF Has
  <1> QED
    BY <1>1, <1>3, ForgetStep

\* A row is written: what is held and around then.
LEMMA WriteHeld ==
    ASSUME TypeOK, NEW n \in Node, NEW row, row # None,
           copy' = [copy EXCEPT ![n] = row],
           \A p \in Process : flight'[p] \in {flight[p], None}
    PROVE  /\ Held' = [Held EXCEPT ![n] = Version(row)]
           /\ Newest!Around(Live \cup {Version(row)})
  <1>1. \A m \in Node : copy'[m] = IF m = n THEN row ELSE copy[m]
    BY DEF TypeOK
  <1>2. \A m \in Node : Held'[m] = IF m = n THEN Version(row) ELSE Held[m]
    BY <1>1, HeldIs, HeldNext DEF Has
  <1>3. Held' = [Held EXCEPT ![n] = Version(row)]
    BY <1>2 DEF Held
  <1>4. Live' \subseteq Live \cup {Version(row)}
    BY <1>1, HeldIs, HeldNext DEF Has
  <1> QED
    BY <1>3, <1>4, HeldNext DEF Newest!Around

LEMMA VersionIs ==
    ASSUME NEW row \in Row
    PROVE  Version(row) \in [info : Nat, ts : Nat] /\ Version(row) # None
  BY NoneAssumption DEF Version, Row

\* An author writes a version.
LEMMA AuthorChange ==
    ASSUME TypeOK, NEW n \in Node, NEW row, row # None,
           row.info = edits + 1, row.ts = now, edits = 0 \/ Has(n),
           copy' = [copy EXCEPT ![n] = row], edits' = edits + 1,
           UNCHANGED <<now, blocked, flight>>
    PROVE  Newest!Change
  <1>1. Version(row) = [info |-> edits + 1, ts |-> now]
    BY DEF Version
  <1>2. /\ Held' = [Held EXCEPT ![n] = Version(row)]
        /\ Newest!Around(Live \cup {Version(row)})
    BY WriteHeld
  <1>3. edits = 0 \/ Held[n] # None
    BY HeldIs, CopyType, VersionIs DEF Has
  <1>4. Newest!Write(n)
    BY <1>1, <1>2, <1>3 DEF Newest!Write
  <1> QED
    BY <1>4 DEF Newest!Change

LEMMA UserChange ==
    ASSUME TypeOK, NEW n \in Node, UserStep(n)
    PROVE  Newest!Change
  <1>0. /\ Has(n) => copy[n] \in Row
        /\ \A m \in Node : copy[m] # None => copy[m] \in Row
    BY CopyType DEF Has
  <1>1. ASSUME NEW d \in Levels, Edit(n, d)
        PROVE  Newest!Change
    <2> DEFINE row == [Written(n, d) EXCEPT !.org = copy[n].org, !.locked = copy[n].locked]
    <2>1. row.info = edits + 1 /\ row.ts = now /\ row # None
      <3>1. Written(n, d) \in Row /\ copy[n] \in Row
        BY <1>0, <1>1, WrittenType, FlagAssumption DEF Edit
      <3>2. row \in Row
        BY <3>1 DEF Row
      <3> QED
        BY <3>2, NoneAssumption DEF Written
    <2>2. /\ copy' = [copy EXCEPT ![n] = row] /\ edits' = edits + 1 /\ Has(n)
          /\ UNCHANGED <<now, blocked, flight>>
      BY <1>1 DEF Edit
    <2> HIDE DEF row
    <2> QED
      BY <2>1, <2>2, AuthorChange
  <1>2. CASE Publish(n) \/ Unpublish(n)
    <2>1. PICK pub \in BOOLEAN : copy' = [copy EXCEPT ![n] = [copy[n] EXCEPT !.pub = pub]]
      BY <1>2 DEF Publish, PublishRouter, Unpublish
    <2> DEFINE row == [copy[n] EXCEPT !.pub = pub]
    <2>2. Has(n) /\ UNCHANGED <<now, edits, blocked, flight>>
      BY <1>2 DEF Publish, Unpublish
    <2>3. row # None /\ Version(row) = Version(copy[n])
      <3>1. row \in Row
        BY <1>0, <2>2 DEF Row
      <3> QED
        BY <1>0, <2>2, <3>1, NoneAssumption DEF Version, Row
    <2>4. \A m \in Node : copy'[m] = IF m = n THEN row ELSE copy[m]
      BY <2>1 DEF TypeOK
    <2> HIDE DEF row
    <2> QED
      BY <2>2, <2>3, <2>4, SameHeld DEF Has
  <1>3. CASE Delete(n)
    <2>1. \A m \in Node : copy'[m] = IF m = n THEN None ELSE copy[m]
      BY <1>3 DEF Delete, TypeOK
    <2>2. Held[n] # None /\ Held' = [Held EXCEPT ![n] = None]
      <3>1. \A m \in Node : Held'[m] = IF m = n THEN None ELSE Held[m]
        BY <2>1, HeldIs, HeldNext DEF Has
      <3>2. Held' = [Held EXCEPT ![n] = None]
        BY <3>1 DEF Held
      <3>3. Held[n] # None
        BY <1>0, <1>3, HeldIs, VersionIs DEF Delete
      <3> QED
        BY <3>2, <3>3
    <2>3. Live' \subseteq Live
      BY <1>3, <2>1, HeldIs, HeldNext DEF Has, Delete
    <2>4. Newest!Around(Live)
      BY <2>3, HeldNext DEF Newest!Around
    <2>5. Newest!Remove(n)
      BY <1>3, <2>2, <2>4, FlagAssumption DEF Delete, Newest!Remove
    <2> QED
      BY <2>5 DEF Newest!Change
  <1> QED
    BY <1>1, <1>2, <1>3 DEF UserStep

LEMMA JobChange ==
    ASSUME TypeOK, ~SplitPublish, NEW n \in Node, NEW w \in Worker, JobStep(n, w)
    PROVE  Newest!Change
  <1>0. /\ Has(n) => copy[n] \in Row
        /\ <<n, w>> \in Process
        /\ UNCHANGED <<now, edits, blocked>>
    BY CopyType, WorkerType
       DEF Has, JobStep, JobStart, JobRefused, JobSave, JobEnd, JobUpload
  <1>1. CASE JobSave(n, w) /\ Has(n)
    <2>1. Flagged(n, w) # None /\ Version(Flagged(n, w)) = Version(copy[n])
      <3>1. Flagged(n, w) \in Row
        BY <1>0, <1>1 DEF Flagged, Row
      <3> QED
        BY <1>0, <1>1, <3>1, NoneAssumption DEF Flagged, Version, Row
    <2>2. /\ \A m \in Node : copy'[m] = IF m = n THEN Flagged(n, w) ELSE copy[m]
          /\ UNCHANGED flight
      BY <1>1 DEF JobSave, TypeOK
    <2> QED
      BY <1>0, <1>1, <2>1, <2>2, SameHeld DEF Has
  <1>2. ASSUME NEW m \in Node, JobUpload(n, w, m)
        PROVE  Newest!Change
    <2> DEFINE msg == Carry(<<n, m>>, n, "push", FALSE, Outgoing(copy[n], <<n, m>>))
    <2>1. UNCHANGED copy
      BY <1>2 DEF JobUpload
    <2>2. CASE UNCHANGED flight
      BY <1>0, <2>1, <2>2, SameHeld
    <2>3. CASE flight' # flight
      <3>1. Has(n) /\ flight' = [flight EXCEPT ![<<n, w>>] = msg]
        BY <1>2, <2>3 DEF JobUpload
      <3>2. Version(msg.row) = Version(copy[n])
        BY <1>0, <3>1, SentRow DEF Version, Carry
      <3> HIDE DEF msg
      <3> QED
        BY <1>0, <2>1, <3>1, <3>2, SendHeld
    <2> QED
      BY <2>2, <2>3
  <1>3. CASE \/ JobStart(n, w) \/ JobRefused(n, w) \/ JobEnd(n, w)
             \/ JobSave(n, w) /\ ~Has(n)
    <2>1. UNCHANGED <<copy, flight>>
      BY <1>3 DEF JobStart, JobRefused, JobEnd, JobSave
    <2> QED
      BY <1>0, <2>1, SameHeld
  <1> QED
    BY <1>1, <1>2, <1>3 DEF JobStep

LEMMA SyncChange ==
    ASSUME TypeOK, NEW s \in Server, SyncStep(s)
    PROVE  Newest!Change
  <1>0. s[1] \in Node /\ s[2] \in Node /\ s \in Process
    BY ServerType
  <1>1. UNCHANGED <<copy, edits, now, blocked>>
    BY DEF SyncStep, PullList, PullFetch, PushList, PushFetch
  <1>2. CASE UNCHANGED flight
    BY <1>1, <1>2, SameHeld
  <1>3. CASE PullFetch(s) /\ flight' # flight
    <2> DEFINE msg == Carry(s, s[2], "pull", sync[s].force, Incoming(copy[s[2]], s))
    <2>1. Has(s[2]) /\ flight' = [flight EXCEPT ![s] = msg]
      BY <1>3 DEF PullFetch, Has
    <2>2. Version(msg.row) = Version(copy[s[2]])
      BY <1>0, <2>1, CopyType, SentRow DEF Version, Carry, Has
    <2> HIDE DEF msg
    <2> QED
      BY <1>0, <1>1, <2>1, <2>2, SendHeld
  <1>4. CASE PushFetch(s) /\ flight' # flight
    <2> DEFINE msg == Carry(s, s[1], "push", FALSE, Outgoing(copy[s[1]], s))
    <2>1. Has(s[1]) /\ flight' = [flight EXCEPT ![s] = msg]
      BY <1>4 DEF PushFetch
    <2>2. Version(msg.row) = Version(copy[s[1]])
      BY <1>0, <2>1, CopyType, SentRow DEF Version, Carry, Has
    <2> HIDE DEF msg
    <2> QED
      BY <1>0, <1>1, <2>1, <2>2, SendHeld
  <1> QED
    BY <1>2, <1>3, <1>4 DEF SyncStep, PullList, PushList

LEMMA ArrivalChange ==
    ASSUME TypeOK, Timely, BlocklistHolds, ~SplitEdit,
           NEW p \in Process, Arrival(p) \/ Fail(p)
    PROVE  Newest!Change
  <1>1. CASE Save(p)
    <2>1. flight[p] # None /\ flight[p] \in Message /\ ~flight[p].force
      BY <1>1, FlightType DEF Save, Timely
    <2>2. flight[p].dst \in Node /\ flight[p].row \in Row
      BY <2>1, MessageType
    <2>3. PICK how \in {"add", "edit"} :
             /\ SaveAs(p, how)
             /\ how = "edit" <=> Has(flight[p].dst)
             /\ how = Verdict(flight[p])
      BY <1>1, SaveCases
    <2> DEFINE row == Stored(flight[p], how)
               new == IF Publishes(flight[p], how) THEN [row EXCEPT !.pub = TRUE] ELSE row
               dst == flight[p].dst
               version == Version(flight[p].row)
    <2>4. row \in Row /\ row.info = flight[p].row.info /\ row.ts = flight[p].row.ts
      <3>1. row \in Row
        BY <2>1, <2>3, StoredType DEF Has
      <3> QED
        BY <2>2, <3>1 DEF Stored, Row
    <2> HIDE DEF row
    <2>5. new \in Row /\ new.info = row.info /\ new.ts = row.ts
      BY <2>4 DEF Row
    <2>6. copy' = [copy EXCEPT ![dst] = new]
      BY <2>3 DEF SaveAs, PublishRouter, row
    <2> HIDE DEF new
    <2>7. new # None /\ Version(new) = version
      BY <2>4, <2>5, NoneAssumption DEF Version
    <2>8. /\ \A q \in Process : flight'[q] \in {flight[q], None}
          /\ UNCHANGED <<edits, now, blocked>>
      BY <2>3 DEF SaveAs, TypeOK
    <2>9. version \in Live
      BY <2>1, HeldIs
    <2>10. /\ Held' = [Held EXCEPT ![dst] = version]
           /\ Newest!Around(Live)
      <3>1. Live \cup {version} = Live
        BY <2>9
      <3>2. /\ Held' = [Held EXCEPT ![dst] = Version(new)]
            /\ Newest!Around(Live \cup {Version(new)})
        BY <2>2, <2>6, <2>7, <2>8, WriteHeld
      <3> QED
        BY <2>7, <3>1, <3>2
    <2>11. ~blocked[dst] \/ Has(dst)
      BY <2>3 DEF Verdict
    <2>12. Held[dst] # None => Has(dst) /\ version.ts > Held[dst].ts
      <3> SUFFICES ASSUME Held[dst] # None
                   PROVE  Has(dst) /\ version.ts > Held[dst].ts
        OBVIOUS
      <3>1. Has(dst) /\ Held[dst] = Version(copy[dst])
        BY <2>2, HeldIs
      <3>2. MayEdit(flight[p])
        BY <2>3, <3>1 DEF Verdict
      <3>3. flight[p].row.ts > copy[dst].ts
        BY <2>1, <3>2 DEF MayEdit
      <3> QED
        BY <3>1, <3>3 DEF Version
    <2> HIDE DEF version
    <2>13. ~blocked[dst]
      BY <2>2, <2>11 DEF BlocklistHolds, Has
    <2>14. Newest!Take(dst, version)
      BY <2>8, <2>10, <2>12, <2>13 DEF Newest!Take
    <2> QED
      BY <2>2, <2>9, <2>14 DEF Newest!Change
  <1>2. CASE Refuse(p) \/ Fail(p)
    <2>1. /\ UNCHANGED <<now, edits, copy, blocked>>
          /\ \A q \in Process : flight'[q] \in {flight[q], None}
      BY <1>2 DEF Refuse, Fail, Drop, TypeOK
    <2> QED
      BY <2>1, SameHeld
  <1>3. CASE Accept(p)
    BY <1>3 DEF Accept
  <1> QED
    BY <1>1, <1>2, <1>3 DEF Arrival

\* Where checks and saves are one step and no pull is forced, the network keeps
\* the promise of NewestWins: every copy is a version an author wrote, and is
\* replaced by newer ones only, and a banned event does not come back.
THEOREM Replicates ==
    ASSUME ~SplitEdit, ~SplitPublish, PullForce \subseteq {FALSE}
    PROVE  Spec => KeepsNewest
  <1>1. Init => Timely /\ Unused /\ BlocklistHolds /\ Newest!Start
    <2> SUFFICES ASSUME Init
                 PROVE  Timely /\ Unused /\ BlocklistHolds /\ Newest!Start
      OBVIOUS
    <2>1. Timely /\ Unused /\ BlocklistHolds
      BY DEF Init, Timely, NoSync, Unused, BlocklistHolds
    <2>2. Live = {}
      <3>1. (\A n \in Node : ~Has(n)) /\ (\A p \in Process : flight[p] = None)
        BY DEF Init, Has
      <3> QED
        BY <3>1, HeldIs
    <2>3. Held = [n \in Node |-> None]
      <3>1. \A n \in Node : ~Has(n)
        BY DEF Init, Has
      <3> QED
        BY <3>1 DEF Held
    <2> QED
      BY <2>1, <2>2, <2>3 DEF Init, Newest!Start
  <1>2. /\ TypeOK /\ Timely /\ Unused /\ BlocklistHolds /\ [Next]_vars
           => Timely' /\ Unused' /\ BlocklistHolds'
    BY StepOrder, StepBlock
  <1>3. TypeOK /\ Timely /\ BlocklistHolds /\ [Next]_vars => [Newest!Change]_(Newest!promise)
    <2> SUFFICES ASSUME TypeOK, Timely, BlocklistHolds, [Next]_vars
                 PROVE  [Newest!Change]_(Newest!promise)
      OBVIOUS
    <2>1. CASE Tick
      <3>1. UNCHANGED <<Held, Live>>
        BY <2>1 DEF Tick, Held, Live, Has
      <3>2. Newest!Pass
        BY <2>1, <3>1 DEF Tick, Newest!Pass
      <3> QED
        BY <3>2 DEF Newest!Change
    <2>2. CASE UNCHANGED vars
      BY <2>2 DEF vars, Newest!promise, Held, Live, Has
    <2>3. ASSUME NEW d \in Levels, Create(d)
          PROVE  Newest!Change
      <3>1. Written(Origin, d) # None
        BY WrittenType, NetAssumption, FlagAssumption, NoneAssumption
      <3>2. Written(Origin, d).info = edits + 1 /\ Written(Origin, d).ts = now
        BY DEF Written
      <3> QED
        BY <2>3, <3>1, <3>2, NetAssumption, AuthorChange DEF Create
    <2> QED
      BY <2>1, <2>2, <2>3, UserChange, JobChange, SyncChange, ArrivalChange DEF Next
  <1> QED
    BY <1>1, <1>2, <1>3, TypeCorrect, PTL DEF Spec, KeepsNewest, Newest!Promise
==============================================================================
