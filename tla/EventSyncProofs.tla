--------------------------- MODULE EventSyncProofs ---------------------------
(* Theorems about EventSync for every network of instances.                 *)
EXTENDS EventSync, FiniteSetTheorems, TLAPS

------------------------------------------------------------------------------
\* Type correctness.

LEMMA ServerType ==
    ASSUME NEW s \in Server
    PROVE  /\ s = <<s[1], s[2]>> /\ s[1] \in Node /\ s[2] \in Node /\ s[1] # s[2]
           /\ s \in Process
  BY NetAssumption, SMT DEF Server, Process

LEMMA WorkerType ==
    ASSUME NEW n \in Node, NEW w \in Worker
    PROVE  <<n, w>> \in Process
  BY DEF Process

\* What is sent and what is stored are rows.
LEMMA RowUpdate ==
    ASSUME NEW row \in Row, NEW pub \in BOOLEAN, NEW dist \in Dist,
           NEW path \in SUBSET Node
    PROVE  [row EXCEPT !.locked = TRUE, !.pub = pub, !.dist = dist, !.path = path] \in Row
  BY DEF Row

LEMMA CrossedType ==
    ASSUME NEW row \in Row, NEW s, NEW dst \in Node
    PROVE  Crossed(row, s, dst) \in SUBSET Node
  BY DEF Crossed, Row

LEMMA OutgoingType ==
    ASSUME NEW row \in Row, NEW s, s[2] \in Node
    PROVE  Outgoing(row, s) \in Row
  <1> DEFINE pub  == row.pub /\ s \notin UnpublishPush
             dist == IF s \notin Internal /\ row.dist = 2 THEN 1 ELSE row.dist
  <1>1. pub \in BOOLEAN
    OBVIOUS
  <1>2. dist \in Dist
    BY DEF Row, Dist
  <1>3. Crossed(row, s, s[2]) \in SUBSET Node
    BY CrossedType
  <1> HIDE DEF pub, dist
  <1>4. [row EXCEPT !.locked = TRUE, !.pub = pub, !.dist = dist,
                    !.path = Crossed(row, s, s[2])] \in Row
    BY <1>1, <1>2, <1>3, RowUpdate
  <1> QED
    BY <1>4 DEF Outgoing, pub, dist

LEMMA IncomingType ==
    ASSUME NEW row \in Row, NEW s, s[1] \in Node
    PROVE  Incoming(row, s) \in Row
  <1> DEFINE dist == IF s \notin Internal /\ row.dist \in {1, 2}
                       THEN row.dist - 1 ELSE row.dist
  <1>1. dist \in Dist
    BY DEF Row, Dist
  <1>2. Crossed(row, s, s[1]) \in SUBSET Node
    BY CrossedType
  <1> HIDE DEF dist
  <1>3. [row EXCEPT !.locked = TRUE, !.dist = dist, !.path = Crossed(row, s, s[1])] \in Row
    BY <1>1, <1>2 DEF Row
  <1> QED
    BY <1>3 DEF Incoming, dist

LEMMA CopyType ==
    ASSUME TypeOK, NEW n \in Node, copy[n] # None
    PROVE  copy[n] \in Row
  BY DEF TypeOK

LEMMA FlightType ==
    ASSUME TypeOK, NEW p \in Process, flight[p] # None
    PROVE  flight[p] \in Message
  BY DEF TypeOK

LEMMA MessageType ==
    ASSUME NEW m \in Message
    PROVE  /\ m.src \in Node /\ m.dst \in Node /\ m.via \in {"push", "pull"}
           /\ m.force \in BOOLEAN /\ m.row \in Row /\ m.ok \in {"no", "add", "edit"}
  BY DEF Message

LEMMA StoredType ==
    ASSUME TypeOK, NEW m \in Message, NEW how \in {"add", "edit"},
           how = "edit" => copy[m.dst] # None
    PROVE  Stored(m, how) \in Row
  <1>1. CASE how = "add"
    <2> DEFINE org == IF m.via = "pull" THEN m.dst ELSE m.src
    <2>1. org \in Node
      BY MessageType
    <2> HIDE DEF org
    <2>2. [m.row EXCEPT !.org = org] \in Row
      BY <2>1, MessageType DEF Row
    <2> QED
      BY <1>1, <2>2 DEF Stored, org
  <1>2. CASE how = "edit"
    <2>1. copy[m.dst] \in Row
      BY <1>2, CopyType, MessageType
    <2> QED
      BY <1>2, <2>1, MessageType DEF Stored, Row
  <1> QED
    BY <1>1, <1>2

LEMMA WrittenType ==
    ASSUME TypeOK, NEW n \in Node, NEW d \in Dist
    PROVE  Written(n, d) \in Row
  BY SMT DEF Written, Row, Dist, TypeOK

LEMMA CarryType ==
    ASSUME NEW s, s[1] \in Node, s[2] \in Node, NEW src \in Node,
           NEW via \in {"push", "pull"}, NEW force \in BOOLEAN, NEW row \in Row
    PROVE  Carry(s, src, via, force, row) \in Message
  BY SMT DEF Carry, Message

LEMMA RouterType ==
    ASSUME TypeOK, NEW n \in Node, NEW row \in Row, NEW pass \in Node \cup {None},
           PublishRouter(n, row, pass)
    PROVE  /\ copy' \in [Node -> Row \cup {None}]
           /\ queue' \in [Node -> Seq(Node \cup {None})]
  <1>1. [row EXCEPT !.pub = TRUE] \in Row
    BY DEF Row
  <1>2. queue[n] \in Seq(Node \cup {None})
    BY DEF TypeOK
  <1>3. Append(queue[n], pass) \in Seq(Node \cup {None})
    BY <1>2
  <1> QED
    BY <1>1, <1>3 DEF PublishRouter, TypeOK

LEMMA SetJobType ==
    ASSUME TypeOK, NEW n \in Node, NEW w \in Worker, NEW j \in Job, SetJob(n, w, j)
    PROVE  job' \in [Node -> [Worker -> Job]]
  BY DEF SetJob, TypeOK

LEMMA IdleType == Idle \in Job /\ NoSync \in SyncTask
  BY DEF Idle, Job, NoSync, SyncTask

LEMMA UserType ==
    ASSUME TypeOK, NEW n \in Node, UserStep(n)
    PROVE  TypeOK'
  <1>1. ASSUME NEW d \in Levels, Edit(n, d)
        PROVE  TypeOK'
    <2>1. Written(n, d) \in Row /\ copy[n] \in Row
      BY <1>1, WrittenType, CopyType, FlagAssumption DEF Edit, Has
    <2>2. [Written(n, d) EXCEPT !.org = copy[n].org, !.locked = copy[n].locked] \in Row
      BY <2>1 DEF Row
    <2> QED
      BY <1>1, <2>2 DEF Edit, TypeOK
  <1>2. CASE Publish(n)
    <2>1. copy[n] \in Row
      BY <1>2, CopyType DEF Publish, Has
    <2>2. PublishRouter(n, copy[n], None)
      BY <1>2 DEF Publish
    <2> QED
      BY <1>2, <2>1, <2>2, RouterType DEF Publish, TypeOK
  <1>3. CASE Unpublish(n)
    <2>1. copy[n] \in Row
      BY <1>3, CopyType DEF Unpublish, Has
    <2>2. [copy[n] EXCEPT !.pub = FALSE] \in Row
      BY <2>1 DEF Row
    <2> QED
      BY <1>3, <2>2 DEF Unpublish, TypeOK
  <1>4. CASE Delete(n)
    BY <1>4, FlagAssumption DEF Delete, TypeOK
  <1> QED
    BY <1>1, <1>2, <1>3, <1>4 DEF UserStep

LEMMA JobType ==
    ASSUME TypeOK, NEW n \in Node, NEW w \in Worker, JobStep(n, w)
    PROVE  TypeOK'
  <1>0. job[n][w] \in Job /\ queue[n] \in Seq(Node \cup {None})
    BY DEF TypeOK
  <1>1. CASE JobStart(n, w)
    <2> DEFINE j == IF Has(n) THEN [Idle EXCEPT !.at = "read", !.info = copy[n].info,
                                                !.pass = Head(queue[n])]
                              ELSE Idle
    <2>1. Head(queue[n]) \in Node \cup {None} /\ Tail(queue[n]) \in Seq(Node \cup {None})
      BY <1>0, <1>1 DEF JobStart
    <2>2. Has(n) => copy[n].info \in Nat
      BY CopyType DEF Has, Row
    <2>3. j \in Job
      BY <2>1, <2>2 DEF Idle, Job
    <2>4. SetJob(n, w, j)
      BY <1>1 DEF JobStart
    <2>5. job' \in [Node -> [Worker -> Job]]
      BY <2>3, <2>4, SetJobType
    <2> QED
      BY <1>1, <2>1, <2>5 DEF JobStart, TypeOK
  <1>2. CASE JobRefused(n, w)
    <2>1. [Idle EXCEPT !.at = "stopped"] \in Job
      BY DEF Idle, Job
    <2>2. job' \in [Node -> [Worker -> Job]]
      BY <1>2, <2>1, SetJobType DEF JobRefused
    <2> QED
      BY <1>2, <2>2 DEF JobRefused, TypeOK
  <1>3. CASE JobSave(n, w)
    <2> DEFINE j == [Idle EXCEPT !.at = "upload",
                       !.todo = {m \in Node : <<n, m>> \in Push} \ {job[n][w].pass}]
    <2>1. j \in Job /\ Idle \in Job
      BY DEF Idle, Job
    <2>2. SetJob(n, w, j) \/ SetJob(n, w, Idle)
      BY <1>3 DEF JobSave
    <2>3. job' \in [Node -> [Worker -> Job]]
      BY <2>1, <2>2, SetJobType
    <2>4. Has(n) => Flagged(n, w) \in Row
      <3> SUFFICES ASSUME Has(n) PROVE Flagged(n, w) \in Row
        OBVIOUS
      <3>1. copy[n] \in Row /\ job[n][w].info \in Nat
        BY <1>0, CopyType DEF Has, Job
      <3> QED
        BY <3>1 DEF Flagged, Row
    <2>5. copy' \in [Node -> Row \cup {None}]
      BY <1>3, <2>4 DEF JobSave, TypeOK
    <2> QED
      BY <1>3, <2>3, <2>5 DEF JobSave, TypeOK
  <1>4. CASE JobEnd(n, w)
    <2>1. job' \in [Node -> [Worker -> Job]]
      BY <1>4, IdleType, SetJobType DEF JobEnd
    <2> QED
      BY <1>4, <2>1 DEF JobEnd, TypeOK
  <1>5. ASSUME NEW m \in Node, JobUpload(n, w, m)
        PROVE  TypeOK'
    <2>1. [job[n][w] EXCEPT !.todo = @ \ {m}] \in Job
      BY <1>0 DEF Job
    <2>2. job' \in [Node -> [Worker -> Job]]
      BY <1>5, <2>1, SetJobType DEF JobUpload
    <2>3. Has(n) => Carry(<<n, m>>, n, "push", FALSE, Outgoing(copy[n], <<n, m>>)) \in Message
      BY CopyType, OutgoingType, CarryType DEF Has
    <2>4. flight' \in [Process -> Message \cup {None}]
      BY <1>5, <2>3 DEF JobUpload, TypeOK
    <2> QED
      BY <1>5, <2>2, <2>4 DEF JobUpload, TypeOK
  <1> QED
    BY <1>1, <1>2, <1>3, <1>4, <1>5 DEF JobStep

LEMMA SyncType ==
    ASSUME TypeOK, NEW s \in Server, SyncStep(s)
    PROVE  TypeOK'
  <1>1. /\ s[1] \in Node /\ s[2] \in Node /\ s \in Process
        /\ sync[s] \in SyncTask
    BY ServerType DEF TypeOK
  <1>2. CASE PullList(s)
    <2>1. PICK force \in PullForce : SetSync(s, "pulling", force)
      BY <1>2 DEF PullList, SetSync
    <2>2. force \in BOOLEAN
      BY ForceAssumption
    <2>3. [at |-> "pulling", force |-> force] \in SyncTask
      BY <2>2 DEF SyncTask
    <2> QED
      BY <1>2, <2>1, <2>3 DEF PullList, SetSync, TypeOK
  <1>3. CASE PullFetch(s)
    <2>1. copy[s[2]] # None
            => Carry(s, s[2], "pull", sync[s].force, Incoming(copy[s[2]], s)) \in Message
      BY <1>1, CopyType, IncomingType, CarryType DEF SyncTask
    <2> QED
      BY <1>1, <1>3, <2>1 DEF PullFetch, SetSync, SyncTask, TypeOK
  <1>4. CASE PushList(s)
    BY <1>4 DEF PushList, SetSync, SyncTask, TypeOK
  <1>5. CASE PushFetch(s)
    <2>1. copy[s[1]] # None
            => Carry(s, s[1], "push", FALSE, Outgoing(copy[s[1]], s)) \in Message
      BY <1>1, CopyType, OutgoingType, CarryType
    <2> QED
      BY <1>1, <1>5, <2>1 DEF PushFetch, SetSync, SyncTask, TypeOK, Has
  <1> QED
    BY <1>2, <1>3, <1>4, <1>5 DEF SyncStep

LEMMA SaveCases ==
    ASSUME TypeOK, NEW p \in Process, Save(p)
    PROVE  \E how \in {"add", "edit"} :
             /\ SaveAs(p, how)
             /\ how = "edit" <=> Has(flight[p].dst)
             /\ how = (IF SplitEdit THEN flight[p].ok ELSE Verdict(flight[p]))
  <1>1. CASE SplitEdit
    <2>1. flight[p].ok \in {"add", "edit"}
      BY <1>1, FlightType, MessageType DEF Save
    <2> QED
      BY <1>1, <2>1 DEF Save, Outdated
  <1>2. CASE ~SplitEdit
    <2>1. Verdict(flight[p]) \in {"add", "edit"}
      BY <1>2 DEF Save, Verdict
    <2>2. Verdict(flight[p]) = "edit" <=> Has(flight[p].dst)
      BY <2>1 DEF Verdict
    <2> QED
      BY <1>2, <2>1, <2>2 DEF Save
  <1> QED
    BY <1>1, <1>2

LEMMA ArrivalType ==
    ASSUME TypeOK, NEW p \in Process, Arrival(p) \/ Fail(p)
    PROVE  TypeOK'
  <1>1. CASE Accept(p)
    <2>1. flight[p] \in Message /\ Verdict(flight[p]) \in {"no", "add", "edit"}
      BY <1>1, FlightType DEF Accept, Verdict
    <2>2. [flight[p] EXCEPT !.ok = Verdict(flight[p])] \in Message
      BY <2>1 DEF Message
    <2> QED
      BY <1>1, <2>2 DEF Accept, TypeOK
  <1>2. CASE Save(p)
    <2>1. flight[p] \in Message
      BY <1>2, FlightType DEF Save
    <2>2. flight[p].dst \in Node /\ PassAlong(flight[p]) \in Node \cup {None}
      BY <2>1, MessageType DEF PassAlong
    <2>3. PICK how \in {"add", "edit"} :
             SaveAs(p, how) /\ (how = "edit" <=> Has(flight[p].dst))
      BY <1>2, SaveCases
    <2>4. Stored(flight[p], how) \in Row
      BY <2>1, <2>3, StoredType DEF Has
    <2>5. /\ copy' \in [Node -> Row \cup {None}]
          /\ queue' \in [Node -> Seq(Node \cup {None})]
      BY <2>2, <2>3, <2>4, RouterType DEF SaveAs, TypeOK
    <2> QED
      BY <2>3, <2>5 DEF SaveAs, TypeOK
  <1>3. CASE Refuse(p)
    BY <1>3 DEF Refuse, Drop, TypeOK
  <1>4. CASE Fail(p)
    BY <1>4 DEF Fail, Drop, TypeOK
  <1> QED
    BY <1>1, <1>2, <1>3, <1>4 DEF Arrival

\* EventSync keeps every row, message and job well formed, on every network.
THEOREM TypeCorrect == Spec => []TypeOK
  <1>1. Init => TypeOK
    BY IdleType, FlagAssumption DEF Init, TypeOK
  <1>2. TypeOK /\ [Next]_vars => TypeOK'
    <2> SUFFICES ASSUME TypeOK, [Next]_vars PROVE TypeOK'
      OBVIOUS
    <2>1. CASE Tick
      BY <2>1 DEF Tick, TypeOK
    <2>2. ASSUME NEW d \in Levels, Create(d)
          PROVE  TypeOK'
      <3>1. Written(Origin, d) \in Row
        BY WrittenType, NetAssumption, FlagAssumption
      <3> QED
        BY <2>2, <3>1, NetAssumption DEF Create, TypeOK
    <2>3. CASE UNCHANGED vars
      BY <2>3 DEF vars, TypeOK
    <2> QED
      BY <2>1, <2>2, <2>3, UserType, JobType, SyncType, ArrivalType DEF Next
  <1> QED
    BY <1>1, <1>2, PTL DEF Spec

------------------------------------------------------------------------------
\* The reach of a version.  WithinReach alone is not inductive: a row that has
\* been nowhere could still have every level left, so a step down from level 3
\* would not be excluded for a version its author restricted.

Spread(row) == row.path # {} /\ WithinReach(row)

Reach == /\ \A n \in Node : copy[n] # None => Spread(copy[n])
         /\ \A p \in Process : flight[p] # None => Spread(flight[p].row)

LEMMA PathFinite ==
    ASSUME NEW row \in Row
    PROVE  /\ IsFiniteSet(row.path) /\ Cardinality(row.path) \in Nat
           /\ row.path # {} => Cardinality(row.path) >= 1
           /\ \A n \in Node : Cardinality(row.path \cup {n}) <= Cardinality(row.path) + 1
  <1>1. row.path \subseteq Node /\ IsFiniteSet(Node)
    BY NetAssumption DEF Row
  <1>2. IsFiniteSet(row.path)
    BY <1>1, FS_Subset
  <1>3. Cardinality(row.path) \in Nat
    BY <1>2, FS_CardinalityType
  <1>4. row.path # {} => Cardinality(row.path) # 0
    BY <1>2, FS_EmptySet
  <1>5. ASSUME NEW n \in Node
        PROVE  Cardinality(row.path \cup {n}) <= Cardinality(row.path) + 1
    <2>1. Cardinality(row.path \cup {n}) \in {Cardinality(row.path), Cardinality(row.path) + 1}
      BY <1>2, <1>3, FS_AddElement
    <2> QED
      BY <1>3, <2>1
  <1> QED
    BY <1>2, <1>3, <1>4, <1>5

\* A restricted version is never at level 3, and at level 2 or 1 it has
\* instances left to go to.
LEMMA SpreadLevel ==
    ASSUME NEW row \in Row, Spread(row), row.base < 3
    PROVE  row.dist <= row.base
  BY PathFinite DEF Spread, WithinReach, Row, Dist

\* Neither what a push sends nor what a pull stores exceeds the level.
LEMMA OutgoingSpread ==
    ASSUME NEW row \in Row, NEW s, s[2] \in Node, Spread(row), Uploadable(row, s)
    PROVE  Spread(Outgoing(row, s))
  <1> DEFINE out == Outgoing(row, s)
  <1>1. /\ out.base = row.base
        /\ out.dist = IF s \notin Internal /\ row.dist = 2 THEN 1 ELSE row.dist
        /\ out.path = IF s \in Internal \/ row.dist = 0
                        THEN row.path ELSE row.path \cup {s[2]}
    BY DEF Outgoing, Crossed, Row
  <1>2. row.dist \in 0..3 /\ row.base \in 0..3
    BY DEF Row, Dist
  <1>3. out.path # {}
    BY <1>1 DEF Spread
  <1>4. ASSUME row.base < 3, s \notin Internal
        PROVE  Cardinality(out.path) + out.dist <= row.base + 1
    <2>1. row.dist = 2
      BY <1>2, <1>4, SpreadLevel DEF Uploadable
    <2>2. Cardinality(row.path \cup {s[2]}) <= Cardinality(row.path) + 1
      BY PathFinite
    <2>3. Cardinality(row.path) + 2 <= row.base + 1
      BY <1>4, <2>1 DEF Spread, WithinReach
    <2>4. out.path = row.path \cup {s[2]} /\ out.dist = 1
      BY <1>1, <1>4, <2>1
    <2>5. Cardinality(out.path) \in Nat
      BY OutgoingType, PathFinite
    <2> HIDE DEF out
    <2> QED
      BY <1>2, <2>2, <2>3, <2>4, <2>5, PathFinite
  <1>5. ASSUME row.base < 3, s \in Internal
        PROVE  Cardinality(out.path) + out.dist <= row.base + 1
    BY <1>1, <1>5 DEF Spread, WithinReach
  <1> QED
    BY <1>1, <1>3, <1>4, <1>5 DEF Spread, WithinReach

LEMMA IncomingSpread ==
    ASSUME NEW row \in Row, NEW s, s[1] \in Node, Spread(row)
    PROVE  Spread(Incoming(row, s))
  <1> DEFINE in == Incoming(row, s)
  <1>1. /\ in.base = row.base
        /\ in.dist = IF s \notin Internal /\ row.dist \in {1, 2} THEN row.dist - 1
                                                                ELSE row.dist
        /\ in.path = IF s \in Internal \/ row.dist = 0
                       THEN row.path ELSE row.path \cup {s[1]}
    BY DEF Incoming, Crossed, Row
  <1>2. row.dist \in 0..3 /\ row.base \in 0..3
    BY DEF Row, Dist
  <1>3. in.path # {}
    BY <1>1 DEF Spread
  <1>4. ASSUME row.base < 3, s \notin Internal, row.dist # 0
        PROVE  Cardinality(in.path) + in.dist <= row.base + 1
    <2>1. row.dist \in {1, 2}
      BY <1>2, <1>4, SpreadLevel
    <2>2. Cardinality(row.path \cup {s[1]}) <= Cardinality(row.path) + 1
      BY PathFinite
    <2>3. Cardinality(row.path) + row.dist <= row.base + 1
      BY <1>4 DEF Spread, WithinReach
    <2>4. in.path = row.path \cup {s[1]} /\ in.dist = row.dist - 1
      BY <1>1, <1>4, <2>1
    <2>5. Cardinality(in.path) \in Nat
      BY IncomingType, PathFinite
    <2> HIDE DEF in
    <2> QED
      BY <1>2, <2>1, <2>2, <2>3, <2>4, <2>5, PathFinite
  <1>5. ASSUME row.base < 3, s \in Internal \/ row.dist = 0
        PROVE  Cardinality(in.path) + in.dist <= row.base + 1
    BY <1>1, <1>5 DEF Spread, WithinReach
  <1> QED
    BY <1>1, <1>3, <1>4, <1>5 DEF Spread, WithinReach

LEMMA SpreadFields ==
    ASSUME NEW r1, NEW r2, Spread(r1),
           r2.base = r1.base, r2.dist = r1.dist, r2.path = r1.path
    PROVE  Spread(r2)
  BY DEF Spread, WithinReach

LEMMA StoredSpread ==
    ASSUME NEW m \in Message, NEW how, Spread(m.row)
    PROVE  Spread(Stored(m, how))
  <1>1. /\ Stored(m, how).base = m.row.base /\ Stored(m, how).dist = m.row.dist
        /\ Stored(m, how).path = m.row.path
    BY MessageType DEF Stored, Row
  <1> QED
    BY <1>1, SpreadFields

LEMMA WrittenSpread ==
    ASSUME NEW n \in Node, NEW d \in Dist
    PROVE  Spread(Written(n, d))
  <1>1. Cardinality({n}) = 1
    BY FS_Singleton
  <1> QED
    BY <1>1 DEF Spread, WithinReach, Written, Dist

\* One row changes and stays within reach.
LEMMA CopyReach ==
    ASSUME TypeOK, Reach, NEW n \in Node, NEW row, Spread(row),
           copy' = [copy EXCEPT ![n] = row], UNCHANGED flight
    PROVE  Reach'
  BY DEF Reach, TypeOK

LEMMA FlightReach ==
    ASSUME TypeOK, Reach, NEW p \in Process, NEW m, m # None => Spread(m.row),
           flight' = [flight EXCEPT ![p] = m], UNCHANGED copy
    PROVE  Reach'
  BY DEF Reach, TypeOK

LEMMA RouterSpread ==
    ASSUME NEW row \in Row, Spread(row)
    PROVE  Spread([row EXCEPT !.pub = TRUE])
  BY SpreadFields DEF Row

LEMMA UserReach ==
    ASSUME TypeOK, Reach, NEW n \in Node, UserStep(n)
    PROVE  Reach'
  <1>0. Has(n) => copy[n] \in Row /\ Spread(copy[n])
    BY CopyType DEF Has, Reach
  <1>1. ASSUME NEW d \in Levels, Edit(n, d)
        PROVE  Reach'
    <2> DEFINE row == [Written(n, d) EXCEPT !.org = copy[n].org, !.locked = copy[n].locked]
    <2>1. Spread(Written(n, d)) /\ Written(n, d) \in Row
      BY WrittenSpread, WrittenType, FlagAssumption
    <2>2. row.base = Written(n, d).base /\ row.dist = Written(n, d).dist
          /\ row.path = Written(n, d).path
      BY <2>1 DEF Row
    <2>3. Spread(row)
      BY <2>1, <2>2, SpreadFields
    <2>4. copy' = [copy EXCEPT ![n] = row] /\ UNCHANGED flight
      BY <1>1 DEF Edit
    <2> HIDE DEF row
    <2> QED
      BY <2>3, <2>4, CopyReach
  <1>2. CASE Publish(n)
    BY <1>0, <1>2, RouterSpread, CopyReach DEF Publish, PublishRouter
  <1>3. CASE Unpublish(n)
    <2>1. Spread([copy[n] EXCEPT !.pub = FALSE])
      BY <1>0, <1>3, SpreadFields DEF Unpublish, Row
    <2> QED
      BY <1>3, <2>1, CopyReach DEF Unpublish
  <1>4. CASE Delete(n)
    BY <1>4 DEF Delete, Reach, TypeOK
  <1> QED
    BY <1>1, <1>2, <1>3, <1>4 DEF UserStep

LEMMA JobReach ==
    ASSUME TypeOK, Reach, NEW n \in Node, NEW w \in Worker, JobStep(n, w)
    PROVE  Reach'
  <1>0. /\ Has(n) => copy[n] \in Row /\ Spread(copy[n])
        /\ <<n, w>> \in Process
    BY CopyType, WorkerType DEF Has, Reach
  <1>1. CASE JobSave(n, w)
    <2>1. CASE Has(n)
      <3>1. Spread(Flagged(n, w))
        <4>1. /\ Flagged(n, w).base = copy[n].base /\ Flagged(n, w).dist = copy[n].dist
              /\ Flagged(n, w).path = copy[n].path
          BY <1>0, <2>1 DEF Flagged, Row
        <4> QED
          BY <1>0, <2>1, <4>1, SpreadFields
      <3> QED
        BY <1>1, <2>1, <3>1, CopyReach DEF JobSave
    <2>2. CASE ~Has(n)
      BY <1>1, <2>2 DEF JobSave, Reach
    <2> QED
      BY <2>1, <2>2
  <1>2. ASSUME NEW m \in Node, JobUpload(n, w, m)
        PROVE  Reach'
    <2> DEFINE msg == Carry(<<n, m>>, n, "push", FALSE, Outgoing(copy[n], <<n, m>>))
    <2>1. CASE Has(n) /\ Uploadable(copy[n], <<n, m>>)
      <3>1. Spread(msg.row)
        BY <1>0, <2>1, OutgoingSpread DEF Carry
      <3>2. flight' = [flight EXCEPT ![<<n, w>>] = msg] /\ UNCHANGED copy
        BY <1>2, <2>1 DEF JobUpload
      <3> HIDE DEF msg
      <3> QED
        BY <1>0, <3>1, <3>2, FlightReach
    <2>2. CASE ~(Has(n) /\ Uploadable(copy[n], <<n, m>>))
      BY <1>2, <2>2 DEF JobUpload, Reach
    <2> QED
      BY <2>1, <2>2
  <1>3. CASE JobStart(n, w) \/ JobRefused(n, w) \/ JobEnd(n, w)
    BY <1>3 DEF JobStart, JobRefused, JobEnd, Reach
  <1> QED
    BY <1>1, <1>2, <1>3 DEF JobStep

LEMMA SyncReach ==
    ASSUME TypeOK, Reach, NEW s \in Server, SyncStep(s)
    PROVE  Reach'
  <1>0. /\ s[1] \in Node /\ s[2] \in Node /\ s \in Process
        /\ \A n \in Node : copy[n] # None => copy[n] \in Row /\ Spread(copy[n])
    BY ServerType, CopyType DEF Reach
  <1>1. CASE PullFetch(s)
    <2> DEFINE msg == Carry(s, s[2], "pull", sync[s].force, Incoming(copy[s[2]], s))
    <2>1. CASE flight' = flight
      BY <1>1, <2>1 DEF PullFetch, Reach
    <2>2. CASE copy[s[2]] # None /\ flight' = [flight EXCEPT ![s] = msg]
      <3>1. Spread(msg.row)
        BY <1>0, <2>2, IncomingSpread DEF Carry
      <3>2. flight' = [flight EXCEPT ![s] = msg] /\ UNCHANGED copy
        BY <1>1, <2>2 DEF PullFetch
      <3> HIDE DEF msg
      <3> QED
        BY <1>0, <3>1, <3>2, FlightReach
    <2> QED
      BY <1>1, <2>1, <2>2 DEF PullFetch
  <1>2. CASE PushFetch(s)
    <2> DEFINE msg == Carry(s, s[1], "push", FALSE, Outgoing(copy[s[1]], s))
    <2>1. CASE flight' = flight
      BY <1>2, <2>1 DEF PushFetch, Reach
    <2>2. CASE Has(s[1]) /\ Uploadable(copy[s[1]], s) /\ flight' = [flight EXCEPT ![s] = msg]
      <3>1. Spread(msg.row)
        BY <1>0, <2>2, OutgoingSpread DEF Carry, Has
      <3>2. flight' = [flight EXCEPT ![s] = msg] /\ UNCHANGED copy
        BY <1>2, <2>2 DEF PushFetch
      <3> HIDE DEF msg
      <3> QED
        BY <1>0, <3>1, <3>2, FlightReach
    <2> QED
      BY <1>2, <2>1, <2>2 DEF PushFetch
  <1>3. CASE PullList(s) \/ PushList(s)
    BY <1>3 DEF PullList, PushList, Reach
  <1> QED
    BY <1>1, <1>2, <1>3 DEF SyncStep

LEMMA ArrivalReach ==
    ASSUME TypeOK, Reach, NEW p \in Process, Arrival(p) \/ Fail(p)
    PROVE  Reach'
  <1>0. flight[p] # None => flight[p] \in Message /\ Spread(flight[p].row)
    BY FlightType DEF Reach
  <1>1. CASE Accept(p)
    <2>1. [flight[p] EXCEPT !.ok = Verdict(flight[p])].row = flight[p].row
      BY <1>0, <1>1 DEF Accept, Message
    <2> QED
      BY <1>0, <1>1, <2>1, FlightReach DEF Accept
  <1>2. CASE Save(p)
    <2>1. flight[p] \in Message /\ Spread(flight[p].row)
      BY <1>0, <1>2 DEF Save
    <2>2. flight[p].dst \in Node
      BY <2>1, MessageType
    <2>3. PICK how \in {"add", "edit"} :
             SaveAs(p, how) /\ (how = "edit" <=> Has(flight[p].dst))
      BY <1>2, SaveCases
    <2> DEFINE row == Stored(flight[p], how)
    <2>4. row \in Row /\ Spread(row)
      BY <2>1, <2>3, StoredType, StoredSpread DEF Has
    <2> HIDE DEF row
    <2>5. PICK new : /\ Spread(new)
                     /\ copy' = [copy EXCEPT ![flight[p].dst] = new]
      <3>1. CASE Publishes(flight[p], how)
        BY <2>3, <2>4, <3>1, RouterSpread DEF SaveAs, PublishRouter, row
      <3>2. CASE ~Publishes(flight[p], how)
        BY <2>3, <2>4, <3>2 DEF SaveAs, row
      <3> QED
        BY <3>1, <3>2
    <2>6. flight' = [flight EXCEPT ![p] = None]
      BY <2>3 DEF SaveAs
    <2> QED
      BY <2>2, <2>5, <2>6 DEF Reach, TypeOK
  <1>3. CASE Refuse(p) \/ Fail(p)
    BY <1>3 DEF Refuse, Fail, Drop, Reach, TypeOK
  <1> QED
    BY <1>1, <1>2, <1>3 DEF Arrival

\* However a version travels, it never reaches more instances than its author's
\* distribution allows: the level is lowered on every way out and in.
THEOREM Reached == Spec => []HopBound
  <1>1. Init => Reach
    BY DEF Init, Reach
  <1>2. TypeOK /\ Reach /\ [Next]_vars => Reach'
    <2> SUFFICES ASSUME TypeOK, Reach, [Next]_vars PROVE Reach'
      OBVIOUS
    <2>1. CASE Tick \/ UNCHANGED vars
      BY <2>1 DEF Tick, vars, Reach
    <2>2. ASSUME NEW d \in Levels, Create(d)
          PROVE  Reach'
      <3>1. Spread(Written(Origin, d))
        BY WrittenSpread, NetAssumption, FlagAssumption
      <3> QED
        BY <2>2, <3>1, CopyReach, NetAssumption DEF Create
    <2> QED
      BY <2>1, <2>2, UserReach, JobReach, SyncReach, ArrivalReach DEF Next
  <1>3. Reach => HopBound
    BY DEF Reach, HopBound, Spread
  <1> QED
    BY <1>1, <1>2, <1>3, TypeCorrect, PTL DEF Spec
==============================================================================
