------------------------------ MODULE EventSync ------------------------------
(***************************************************************************)
(* One event, identified by its UUID, on a network of MISP instances.      *)
(*                                                                         *)
(* Every instance keeps at most one row for the event.  The creator edits, *)
(* publishes, unpublishes and deletes it; publishing queues a background   *)
(* job that uploads the row to the push servers; an instance also pulls    *)
(* the event from, and pushes it to, the servers it is configured with.    *)
(* A transfer is read at the source, travels, is checked at the            *)
(* destination and saved there, and every other activity may run between   *)
(* these steps.                                                            *)
(*                                                                         *)
(* Sources: app/Model/Event.php, app/Model/Server.php,                     *)
(* app/Lib/Tools/ServerSyncTool.php, app/Controller/EventsController.php,  *)
(* app/Console/Command/EventShell.php.                                     *)
(***************************************************************************)
EXTENDS Naturals, Sequences, FiniteSets

CONSTANTS
    Node,          \* the instances; an instance also stands for its host organisation
    Worker,        \* the workers of an instance's "prio" queue
    Origin,        \* the instance the event is created on
    Editors,       \* the instances whose users edit the event
    Deleters,      \* the instances where an administrator may delete it
    Push,          \* <<n, m>>: n has a Server entry for m with push = 1
    FullPush,      \* the push entries that are also pushed in full by a task
    Pull,          \* <<n, m>>: n has a Server entry for m with pull = 1
    Internal,      \* the Server entries with internal = 1
    UnpublishPush, \* the Server entries with unpublish_event = 1
    Workflow,      \* the instances with a blocking event-publish workflow
    PullForce,     \* the values of the force argument of a pull
    Blocklisting,  \* MISP.enableEventBlocklisting
    Levels,        \* the distributions authors choose
    SplitEdit,     \* TRUE: another request may run between the check and the save
                   \* of Event::_add and Event::_edit
    SplitPublish,  \* TRUE: and between the read and the save of Event::publish
    None,          \* no row, no message, no server
    MaxTime,       \* bound on the clock (seconds)
    MaxEdits,      \* bound on the versions written by users
    MaxPublish,    \* bound on the publish requests of users
    MaxFaults      \* bound on the failed transfers

Dist == 0..3       \* distribution: organisation, community, connected, all

\* info is the version of the content a user wrote.  base and path are history
\* variables: the distribution the author chose for this version, and the
\* instances it has been on by virtue of its distribution.
Row == [ts: Nat, info: Nat, dist: Dist, pub: BOOLEAN, locked: BOOLEAN,
        org: Node, base: Dist, path: SUBSET Node]

Server  == Push \cup Pull
Process == Server \cup (Node \X Worker)

Message == [src: Node, dst: Node, via: {"push", "pull"}, force: BOOLEAN,
            row: Row, ok: {"no", "add", "edit"}]

Job  == [at: {"idle", "read", "upload", "stopped"}, info: Nat,
         pass: Node \cup {None}, todo: SUBSET Node]
Idle == [at |-> "idle", info |-> 0, pass |-> None, todo |-> {}]

SyncTask == [at: {"idle", "pulling", "pushing"}, force: BOOLEAN]
NoSync   == [at |-> "idle", force |-> FALSE]

ASSUME NetAssumption ==
    /\ Origin \in Node /\ Editors \cup Deleters \subseteq Node /\ Workflow \subseteq Node
    /\ Push \subseteq Node \X Node /\ Pull \subseteq Node \X Node
    /\ \A n \in Node : <<n, n>> \notin Push \cup Pull
    /\ FullPush \subseteq Push /\ Internal \subseteq Push \cup Pull /\ UnpublishPush \subseteq Push
    /\ Node \cap Worker = {} /\ IsFiniteSet(Node)

ASSUME ForceAssumption == PullForce \subseteq BOOLEAN

ASSUME FlagAssumption ==
    /\ Blocklisting \in BOOLEAN /\ Levels \subseteq Dist
    /\ SplitEdit \in BOOLEAN /\ SplitPublish \in BOOLEAN

ASSUME NoneAssumption == /\ None \notin Node /\ None \notin Row /\ None \notin Message
                         /\ None \notin [info : Nat, ts : Nat]

ASSUME BoundAssumption == {MaxTime, MaxEdits, MaxPublish, MaxFaults} \subseteq Nat

VARIABLES
    now,      \* time() in seconds
    edits,    \* how many versions users have written
    asked,    \* how many publish requests users have made
    faults,   \* how many transfers have failed
    copy,     \* the row of the event on each instance
    blocked,  \* the event's UUID is on the instance's event blocklist
    queue,    \* the publish jobs waiting, each the passAlong server it carries
    job,      \* the publish job each worker runs
    sync,     \* the pull or push each Server entry runs
    flight    \* the transfer each process has under way

vars == <<now, edits, asked, faults, copy, blocked, queue, job, sync, flight>>

------------------------------------------------------------------------------
Has(n) == copy[n] # None

\* The row is shown to users of organisation o: createEventConditions.
Sees(row, o) == row.dist \in 1..3 \/ row.org = o

\* uploadEventToServersRouter and checkDistributionForPush.
Uploadable(row, s) == row.dist >= 2 \/ s \in Internal

\* Crossing s by virtue of the distribution is recorded; a row its own
\* organisation fetches, and a row on an internal link, has not been distributed.
Crossed(row, s, dst) == IF s \in Internal \/ row.dist = 0
                          THEN row.path ELSE row.path \cup {dst}

\* uploadEventToServer: locked, perhaps unpublished, "connected" becomes "community".
Outgoing(row, s) ==
    [row EXCEPT !.locked = TRUE,
                !.pub    = @ /\ s \notin UnpublishPush,
                !.dist   = IF s \notin Internal /\ @ = 2 THEN 1 ELSE @,
                !.path   = Crossed(row, s, s[2])]

\* Fault: the distribution is kept on a pull.
IncomingUnchanged(row, s) ==
    [row EXCEPT !.locked = TRUE, !.path = Crossed(row, s, s[1])]

\* __updatePulledEventBeforeInsert: locked, the distribution one level down.
Incoming(row, s) ==
    [row EXCEPT !.locked = TRUE,
                !.dist   = IF s \notin Internal /\ @ \in {1, 2} THEN @ - 1 ELSE @,
                !.path   = Crossed(row, s, s[1])]

\* Fault: any local row is taken for an up-to-date one.
UpToDateIfPresent(local, remote) == local # None

\* removeOlderEvents and filterEventIdsForPush: the local row asks for no update.
UpToDate(local, remote) ==
    local # None /\ (local.ts >= remote.ts \/ ~local.locked)

Carry(s, src, via, force, row) ==
    [src |-> src, dst |-> IF via = "push" THEN s[2] ELSE s[1], via |-> via,
     force |-> force, row |-> row, ok |-> "no"]

------------------------------------------------------------------------------
\* What the destination does with a message.

\* Fault: an edit of the same second is taken for a newer one.
MayEditSameSecond(m) ==
    LET old == copy[m.dst] IN
    /\ IF m.via = "pull" THEN old.locked \/ <<m.dst, m.src>> \in Internal
                         ELSE Sees(old, m.src) /\ (old.locked \/ m.src = Origin)
    /\ m.force \/ m.row.ts >= old.ts

\* Fault: the timestamps are not compared.
MayEditAnyTime(m) ==
    LET old == copy[m.dst] IN
    IF m.via = "pull" THEN old.locked \/ <<m.dst, m.src>> \in Internal
                      ELSE Sees(old, m.src) /\ (old.locked \/ m.src = Origin)

\* Fault: an event created locally may be edited by any peer.
MayEditUnlocked(m) == /\ m.via = "push" => Sees(copy[m.dst], m.src)
                      /\ m.force \/ m.row.ts > copy[m.dst].ts

\* __checkIfPulledEventExistsAndAddOrUpdate (pull); pushEvent, then the add or
\* edit request of the peer's sync user (push): may the existing row be edited?
MayEdit(m) ==
    LET old == copy[m.dst] IN
    /\ IF m.via = "pull"
         THEN old.locked \/ <<m.dst, m.src>> \in Internal
         ELSE /\ Sees(old, m.src)
              /\ old.locked \/ m.src = Origin
    /\ m.force \/ m.row.ts > old.ts

\* Fault: the blocklist is consulted for the index only.
VerdictUnblocked(m) ==
    IF Has(m.dst) THEN (IF MayEdit(m) THEN "edit" ELSE "no") ELSE "add"

\* How the message will be saved, "no" when it is refused.
Verdict(m) ==
    IF Has(m.dst) THEN (IF MayEdit(m) THEN "edit" ELSE "no")
                  ELSE (IF blocked[m.dst] THEN "no" ELSE "add")

\* Fault: the owner is the server the event came from, which a push does not name.
StoredOwnerless(m, how) ==
    IF how = "add"
      THEN [m.row EXCEPT !.org = IF m.via = "pull" THEN m.dst ELSE None]
      ELSE [m.row EXCEPT !.org = copy[m.dst].org, !.locked = copy[m.dst].locked]

\* _add stores the whole row and its owner, _edit keeps locked and owner.
Stored(m, how) ==
    IF how = "add"
      THEN [m.row EXCEPT !.org = IF m.via = "pull" THEN m.dst ELSE m.src]
      ELSE [m.row EXCEPT !.org = copy[m.dst].org, !.locked = copy[m.dst].locked]

\* Fault: an update is not passed on.
PublishesNewOnly(m, how) == m.row.pub /\ how = "add"

\* _add always publishes a published row, _edit only one that has changed.
Publishes(m, how) ==
    /\ m.row.pub
    /\ how = "edit" => \/ m.row.info # copy[m.dst].info
                       \/ m.row.dist # copy[m.dst].dist

\* The row is no longer what the check saw: the UUID is taken, or the row gone.
Outdated(m) == Has(m.dst) # (m.ok = "edit")

PassAlong(m) == IF m.via = "pull" THEN m.src ELSE None

------------------------------------------------------------------------------
Init ==
    /\ now = 0 /\ edits = 0 /\ asked = 0 /\ faults = 0
    /\ copy    = [n \in Node |-> None]
    /\ blocked = [n \in Node |-> FALSE]
    /\ queue   = [n \in Node |-> << >>]
    /\ job     = [n \in Node |-> [w \in Worker |-> Idle]]
    /\ sync    = [s \in Server |-> NoSync]
    /\ flight  = [p \in Process |-> None]

Tick == /\ now < MaxTime
        /\ now' = now + 1
        /\ UNCHANGED <<edits, asked, faults, copy, blocked, queue, job, sync, flight>>

------------------------------------------------------------------------------
\* The users of an instance.

\* publishRouter: the flag is set tentatively and a "publish" job queued.
PublishRouter(n, row, pass) ==
    /\ copy'  = [copy EXCEPT ![n] = [row EXCEPT !.pub = TRUE]]
    /\ queue' = [queue EXCEPT ![n] = Append(@, pass)]

Written(n, d) == [ts |-> now, info |-> edits + 1, dist |-> d, pub |-> FALSE,
                  locked |-> FALSE, org |-> n, base |-> d, path |-> {n}]

Create(d) ==
    /\ edits = 0 /\ edits < MaxEdits /\ ~Has(Origin)
    /\ edits' = edits + 1
    /\ copy'  = [copy EXCEPT ![Origin] = Written(Origin, d)]
    /\ UNCHANGED <<now, asked, faults, blocked, queue, job, sync, flight>>

\* The edit form: timestamp = time(), published = 0.
Edit(n, d) ==
    /\ n \in Editors /\ Has(n) /\ edits < MaxEdits
    /\ edits' = edits + 1
    /\ copy'  = [copy EXCEPT ![n] = [Written(n, d) EXCEPT !.org = copy[n].org,
                                                          !.locked = copy[n].locked]]
    /\ UNCHANGED <<now, asked, faults, blocked, queue, job, sync, flight>>

Publish(n) ==
    /\ n \in Editors /\ Has(n) /\ asked < MaxPublish
    /\ asked' = asked + 1
    /\ PublishRouter(n, copy[n], None)
    /\ UNCHANGED <<now, edits, faults, blocked, job, sync, flight>>

Unpublish(n) ==
    /\ n \in Editors /\ Has(n) /\ copy[n].pub
    /\ copy' = [copy EXCEPT ![n].pub = FALSE]
    /\ UNCHANGED <<now, edits, asked, faults, blocked, queue, job, sync, flight>>

\* A site administrator may delete the event on any instance; beforeDelete
\* puts the UUID on the blocklist.
Delete(n) ==
    /\ n \in Deleters /\ Has(n)
    /\ copy'    = [copy EXCEPT ![n] = None]
    /\ blocked' = [blocked EXCEPT ![n] = Blocklisting]
    /\ UNCHANGED <<now, edits, asked, faults, queue, job, sync, flight>>

------------------------------------------------------------------------------
\* The publish job: EventShell::publish, Event::publish, uploadEventToServersRouter.

SetJob(n, w, j) == job' = [job EXCEPT ![n][w] = j]

\* The job is taken from the queue and reads the row it is about.
JobStart(n, w) ==
    /\ job[n][w] = Idle /\ queue[n] # << >>
    /\ queue' = [queue EXCEPT ![n] = Tail(@)]
    /\ SetJob(n, w, IF Has(n) THEN [Idle EXCEPT !.at = "read", !.info = copy[n].info,
                                               !.pass = Head(queue[n])]
                              ELSE Idle)
    /\ UNCHANGED <<now, edits, asked, faults, copy, blocked, sync, flight>>

\* The workflow refuses: publish returns its message and stores nothing.
JobRefused(n, w) ==
    /\ n \in Workflow /\ job[n][w].at = "read"
    /\ SetJob(n, w, [Idle EXCEPT !.at = "stopped"])
    /\ UNCHANGED <<now, edits, asked, faults, copy, blocked, queue, sync, flight>>

\* The flag is saved, and with it the info the job read when it started.
Flagged(n, w) ==
    [copy[n] EXCEPT !.pub = TRUE, !.info = IF SplitPublish THEN job[n][w].info ELSE @]

JobSave(n, w) ==
    /\ job[n][w].at = "read"
    /\ IF Has(n)
         THEN /\ copy' = [copy EXCEPT ![n] = Flagged(n, w)]
              /\ SetJob(n, w, [Idle EXCEPT !.at = "upload",
                    !.todo = {m \in Node : <<n, m>> \in Push} \ {job[n][w].pass}])
         ELSE /\ SetJob(n, w, Idle)
              /\ UNCHANGED copy
    /\ UNCHANGED <<now, edits, asked, faults, blocked, queue, sync, flight>>

\* The row is read again for each server, and sent as it then is.
JobUpload(n, w, m) ==
    /\ job[n][w].at = "upload" /\ m \in job[n][w].todo
    /\ flight[<<n, w>>] = None
    /\ SetJob(n, w, [job[n][w] EXCEPT !.todo = @ \ {m}])
    /\ flight' = IF Has(n) /\ Uploadable(copy[n], <<n, m>>)
                   THEN [flight EXCEPT ![<<n, w>>] =
                          Carry(<<n, m>>, n, "push", FALSE, Outgoing(copy[n], <<n, m>>))]
                   ELSE flight
    /\ UNCHANGED <<now, edits, asked, faults, copy, blocked, queue, sync>>

JobEnd(n, w) ==
    /\ \/ job[n][w].at = "stopped"
       \/ job[n][w].at = "upload" /\ job[n][w].todo = {}
    /\ flight[<<n, w>>] = None
    /\ SetJob(n, w, Idle)
    /\ UNCHANGED <<now, edits, asked, faults, copy, blocked, queue, sync, flight>>

------------------------------------------------------------------------------
\* Server::pull and Server::push on the Server entry s = <<n, m>>.

SetSync(s, at, force) == sync' = [sync EXCEPT ![s] = [at |-> at, force |-> force]]

\* The peer's index of published events, less the blocked and the up-to-date.
PullWants(s, force) ==
    LET local == copy[s[1]]  remote == copy[s[2]] IN
    /\ remote # None /\ remote.pub /\ Sees(remote, s[1])
    /\ ~blocked[s[1]]
    /\ force \/ ~UpToDate(local, remote)

PullList(s) ==
    /\ s \in Pull /\ sync[s].at = "idle" /\ flight[s] = None
    /\ \E force \in PullForce : PullWants(s, force) /\ SetSync(s, "pulling", force)
    /\ UNCHANGED <<now, edits, asked, faults, copy, blocked, queue, job, flight>>

\* Each listed event is fetched by its UUID, as it is by then.
PullFetch(s) ==
    /\ sync[s].at = "pulling"
    /\ SetSync(s, "idle", FALSE)
    /\ flight' = IF copy[s[2]] # None /\ Sees(copy[s[2]], s[1])
                   THEN [flight EXCEPT ![s] = Carry(s, s[2], "pull", sync[s].force,
                                                    Incoming(copy[s[2]], s))]
                   ELSE flight
    /\ UNCHANGED <<now, edits, asked, faults, copy, blocked, queue, job>>

\* The published events the peer, asked through filterEventIdsForPush, lacks.
PushWants(s) ==
    LET local == copy[s[1]]  remote == copy[s[2]] IN
    /\ local # None /\ local.pub /\ local.dist \in 1..3
    /\ ~UpToDate(remote, local)

PushList(s) ==
    /\ s \in FullPush /\ sync[s].at = "idle" /\ flight[s] = None
    /\ PushWants(s)
    /\ SetSync(s, "pushing", FALSE)
    /\ UNCHANGED <<now, edits, asked, faults, copy, blocked, queue, job, flight>>

PushFetch(s) ==
    /\ sync[s].at = "pushing"
    /\ SetSync(s, "idle", FALSE)
    /\ flight' = IF Has(s[1]) /\ Uploadable(copy[s[1]], s)
                   THEN [flight EXCEPT ![s] = Carry(s, s[1], "push", FALSE,
                                                    Outgoing(copy[s[1]], s))]
                   ELSE flight
    /\ UNCHANGED <<now, edits, asked, faults, copy, blocked, queue, job>>

------------------------------------------------------------------------------
\* The destination of a transfer: Event::_add and Event::_edit.

\* The check that precedes the save, when another request may come in between.
Accept(p) ==
    /\ SplitEdit /\ flight[p] # None /\ flight[p].ok = "no"
    /\ Verdict(flight[p]) # "no"
    /\ flight' = [flight EXCEPT ![p].ok = Verdict(flight[p])]
    /\ UNCHANGED <<now, edits, asked, faults, copy, blocked, queue, job, sync>>

SaveAs(p, how) ==
    /\ IF Publishes(flight[p], how)
         THEN PublishRouter(flight[p].dst, Stored(flight[p], how), PassAlong(flight[p]))
         ELSE /\ copy' = [copy EXCEPT ![flight[p].dst] = Stored(flight[p], how)]
              /\ UNCHANGED queue
    /\ flight' = [flight EXCEPT ![p] = None]
    /\ UNCHANGED <<now, edits, asked, faults, blocked, job, sync>>

Save(p) ==
    /\ flight[p] # None
    /\ IF SplitEdit
         THEN flight[p].ok # "no" /\ ~Outdated(flight[p]) /\ SaveAs(p, flight[p].ok)
         ELSE Verdict(flight[p]) # "no" /\ SaveAs(p, Verdict(flight[p]))

Drop(p) ==
    /\ flight' = [flight EXCEPT ![p] = None]
    /\ UNCHANGED <<now, edits, asked, copy, blocked, queue, job, sync>>

\* The destination refuses, or cannot save what it had accepted.
Refuse(p) ==
    /\ flight[p] # None
    /\ IF flight[p].ok = "no" THEN Verdict(flight[p]) = "no" ELSE Outdated(flight[p])
    /\ Drop(p) /\ UNCHANGED faults

\* The request fails: the code logs it and goes on.
Fail(p) ==
    /\ flight[p] # None /\ faults < MaxFaults
    /\ Drop(p) /\ faults' = faults + 1

------------------------------------------------------------------------------
UserStep(n) == \/ \E d \in Levels : Edit(n, d)
               \/ Publish(n) \/ Unpublish(n) \/ Delete(n)

JobStep(n, w) == \/ JobStart(n, w) \/ JobRefused(n, w) \/ JobSave(n, w) \/ JobEnd(n, w)
                 \/ \E m \in Node : JobUpload(n, w, m)

SyncStep(s) == PullList(s) \/ PullFetch(s) \/ PushList(s) \/ PushFetch(s)

Arrival(p) == Accept(p) \/ Save(p) \/ Refuse(p)

Next == \/ Tick
        \/ \E d \in Levels : Create(d)
        \/ \E n \in Node : UserStep(n) \/ \E w \in Worker : JobStep(n, w)
        \/ \E s \in Server : SyncStep(s)
        \/ \E p \in Process : Arrival(p) \/ Fail(p)

Spec == Init /\ [][Next]_vars

\* Workers and requests make progress; pulls and pushes are scheduled again and
\* again (SchedulerWorkerShell).  Users and the clock owe nothing.
Fairness == /\ \A n \in Node, w \in Worker : WF_vars(JobStep(n, w))
            /\ \A s \in Server : WF_vars(SyncStep(s))
            /\ \A p \in Process : WF_vars(Arrival(p))

FairSpec == Spec /\ Fairness

------------------------------------------------------------------------------
\* Properties.

\* Every variable keeps its shape: rows, messages and jobs are well formed.
TypeOK ==
    /\ {now, edits, asked, faults} \subseteq Nat
    /\ copy \in [Node -> Row \cup {None}]
    /\ blocked \in [Node -> BOOLEAN]
    /\ queue \in [Node -> Seq(Node \cup {None})]
    /\ job \in [Node -> [Worker -> Job]]
    /\ sync \in [Server -> SyncTask]
    /\ flight \in [Process -> Message \cup {None}]

\* However pushes, pulls, edits and publish jobs interleave, a version whose
\* author chose organisation (0), community (1) or connected communities (2)
\* is spread by its distribution over at most that many further instances,
\* and what is left of its level is still enforced on the copy.
WithinReach(row) == row.base < 3 => Cardinality(row.path) + row.dist <= row.base + 1

HopBound == /\ \A n \in Node : copy[n] # None => WithinReach(copy[n])
            /\ \A p \in Process : flight[p] # None => WithinReach(flight[p].row)

\* The creator's row is never replaced by what other instances made of the
\* event, even where their administrators edit it: it stays unlocked and its
\* content is one written there.
OriginKept ==
    copy[Origin] # None => ~copy[Origin].locked /\ copy[Origin].path = {Origin}

\* An instance that deleted the event does not get it back, whatever pull,
\* push or publish job was already under way.
BlocklistHolds == \A n \in Node : blocked[n] => copy[n] = None

\* Event.php:5301: "Conditions affecting all", "edit timestamp newer than existing
\* event timestamp".  No row is overwritten by an older version.
NeverOlder ==
    [][\A n \in Node : copy[n] # None /\ copy'[n] # None
                         => copy'[n].ts >= copy[n].ts]_vars

Quiet == /\ \A n \in Node : queue[n] = << >> /\ \A w \in Worker : job[n][w] = Idle
         /\ \A p \in Process : flight[p] = None

\* n shows the event as published, at a level its push link s may carry, to a
\* peer that has not blocked it and whose own row, if any, is a synchronised
\* one that n's sync user is allowed to see.
Owed(s) == LET mine == copy[s[1]]  theirs == copy[s[2]] IN
           /\ mine # None /\ mine.pub /\ (mine.dist >= 2 \/ s \in Internal)
           /\ ~blocked[s[2]]
           /\ theirs # None => /\ theirs.locked
                               /\ theirs.dist > 0 \/ theirs.org = s[1]

\* When nothing is queued or under way and no transfer failed, whoever shows
\* the event as published has brought every push server up to it: no queued
\* job, however late, leaves a peer behind (uploadEventToServersRouter).
PublishReachesPeers ==
    Quiet /\ faults = 0 =>
      \A s \in Push :
        Owed(s) => copy[s[2]] # None /\ copy[s[2]].ts >= copy[s[1]].ts

\* What a push link from n to m needs for that.  Otherwise a published version
\* may be forgotten: a workflow refuses after the flag is set; a job queued by
\* a pull from m leaves m out, whatever the row has become; a forced pull brings
\* the flag without a job; m pulls the event at a level n may not see, is sent it
\* at that level over an internal link or edits it to that level, and is later
\* brought up to a version older than the ones it refused; m deletes its row
\* and would take another.
Undisturbed(n, m) ==
    /\ n \notin Workflow
    /\ <<n, m>> \notin Pull
    /\ TRUE \in PullForce => \A k \in Node : <<n, k>> \notin Pull
    /\ \A k \in Node : <<m, k>> \notin Pull /\ <<k, m>> \notin Internal
    /\ 0 \in Levels => m \notin Editors
    /\ Blocklisting \/ m \notin Deleters

\* Whatever the rest of the network does, pulls, forced pulls and internal links
\* included, a push link that nothing disturbs leaves its peer no version behind.
LinksReached ==
    Quiet /\ faults = 0 =>
      \A s \in Push : Undisturbed(s[1], s[2]) /\ Owed(s)
                       => copy[s[2]] # None /\ copy[s[2]].ts >= copy[s[1]].ts

\* Event.php:5510: an instance passes on by itself only what was news to it.  It
\* queues a publication that no user asked for only as it takes the event, or a
\* newer version of it: this is why the cascade ends.
NewsOnly ==
    [][\A n \in Node : Len(queue'[n]) > Len(queue[n])
                         => \/ asked' > asked
                            \/ Has(n)' /\ (Has(n) => copy'[n].ts > copy[n].ts)]_vars

\* The publish cascade ends, also where push links form a cycle.
CascadeEnds == <>[](\A n \in Node : queue[n] = << >>
                                    /\ \A w \in Worker : job[n][w] = Idle)

\* The peer publishes a version the instance lacks and would take.
Behind(s) == LET local == copy[s[1]]  remote == copy[s[2]] IN
             /\ remote # None /\ remote.pub /\ remote.dist > 0
             /\ ~blocked[s[1]]
             /\ local # None => local.locked /\ local.ts < remote.ts

\* A pull keeps coming back until its server's published event has arrived:
\* no instance stays behind a server it pulls from (Server::pull).
PullCatchesUp == \A s \in Pull : []<>(~Behind(s))

\* The network replicates a version register: copies, jobs and transfers of a
\* row are the versions held and around.
Version(row) == [info |-> row.info, ts |-> row.ts]

Held == [n \in Node |-> IF Has(n) THEN Version(copy[n]) ELSE None]

Live == {Version(copy[n]) : n \in {k \in Node : Has(k)}}
          \cup {Version(flight[p].row) : p \in {q \in Process : flight[q] # None}}

Newest == INSTANCE NewestWins WITH clock <- now, written <- edits, around <- Live,
                                   held <- Held, banned <- blocked

\* Event.php:5301, "edit timestamp newer than existing event timestamp": through
\* whatever pushes, pulls and jobs, a copy is a version somebody wrote and
\* gives way to newer versions only, and a banned event stays away.
KeepsNewest == Newest!Promise
==============================================================================
