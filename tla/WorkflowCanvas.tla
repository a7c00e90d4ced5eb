--------------------------- MODULE WorkflowCanvas ---------------------------
(***************************************************************************)
(* The canvas of the workflow editor in one browser, and the graph that    *)
(* the server keeps.                                                       *)
(*                                                                         *)
(* The page draws the stored graph node by node, link by link and frame by *)
(* frame; the user edits it with the mouse and the keyboard; a save sends  *)
(* the whole graph, which the server validates, and draws the answer.  A   *)
(* save is one step: a backdrop covers the canvas until the answer.        *)
(*                                                                         *)
(* Modules of the misp-modules service are known to a page only if the     *)
(* service answered when the page was made.                                *)
(*                                                                         *)
(* Sources: app/webroot/js/workflows-editor/workflows-editor.js,           *)
(* app/webroot/js/drawflow.js, app/Model/Workflow.php,                     *)
(* app/Lib/Tools/WorkflowGraphTool.php.                                    *)
(***************************************************************************)
EXTENDS Integers, Sequences, FiniteSets, Functions

CONSTANTS
    Module,    \* the modules a block can be made of, the trigger not among them
    Outs,      \* the number of outputs of each module
    Fan,       \* the modules whose output may have several links
    External,  \* the modules of the misp-modules service
    Trigger,   \* the module of the trigger of this workflow
    Blueprint, \* the saved groups of blocks: a sequence of modules and the links among them
    Frame,     \* the uuids of frames
    MaxId,     \* bound on the identifiers of nodes
    MaxEdits   \* bound on the edits

ASSUME ModuleAssumption ==
    /\ Trigger \notin Module
    /\ Fan \subseteq Module /\ External \subseteq Module
    /\ Outs \in [Module \cup {Trigger} -> Nat] /\ Outs[Trigger] = 1

ASSUME BlueprintAssumption ==
    \A b \in Blueprint :
        /\ b.kind \in Seq(Module) /\ b.kind # << >>
        /\ \A l \in b.link : l.from \in DOMAIN b.kind /\ l.to \in DOMAIN b.kind
                             /\ l.port \in 1..Outs[b.kind[l.from]]

ASSUME BoundsAssumption == MaxId \in Nat \ {0} /\ MaxEdits \in Nat

VARIABLES
    kind,   \* the canvas: the module of each node, by identifier
    link,   \* the connections, from an output of a node to another node
    live,   \* the frames drawn: frame_to_nodes_registry
    frame,  \* the frames as they are exported: data._frames
    next,   \* editor.nodeId
    dirty,  \* contentChanged
    cover,  \* the loading backdrop: "none", or what never finished
    known,  \* the external modules are in all_modules_by_id
    up,     \* the misp-modules service answers
    stored, \* the graph of the workflow on the server
    edits

canvas == <<kind, link, live, frame>>
page   == <<canvas, next, dirty, cover, known>>
vars   == <<page, up, stored, edits>>

Node == DOMAIN kind
Link == [from: Nat, port: Nat, to: Nat]

\* The nodes or frames of f, and those of g that are not there.
Joined(f, g) == [x \in DOMAIN f \cup DOMAIN g |-> IF x \in DOMAIN f THEN f[x] ELSE g[x]]

Init ==
    /\ kind = [n \in {1} |-> Trigger] /\ link = {} /\ live = << >> /\ frame = << >>
    /\ next = 2 /\ dirty = FALSE /\ cover = "none" /\ known = TRUE /\ up = TRUE
    /\ stored = [kind |-> kind, link |-> {}, frame |-> << >>]
    /\ edits = 0

-----------------------------------------------------------------------------
\* What an edit does to the canvas.

\* An edit with the mouse needs a canvas that the backdrop does not cover; one with the
\* keyboard needs a node selected before it.
Edit(cond) == /\ cond /\ edits < MaxEdits /\ edits' = edits + 1
              /\ dirty' = TRUE /\ UNCHANGED <<cover, known, up, stored>>
Mouse    == cover = "none"
Keyboard == cover # "loading"

Room(n) == next + n - 1 <= MaxId

\* Frames lose the nodes; one with no node left goes.
Shrunk(f, gone) ==
    LET kept == {i \in DOMAIN f : ~(f[i] \subseteq gone)} IN
    [i \in kept |-> f[i] \ gone]

\* Fault: only the links that leave the nodes go with them.
RemoveNodesKeepInputs(gone) ==
    /\ kind'  = Restrict(kind, Node \ gone)
    /\ link'  = {l \in link : l.from \notin gone}
    /\ live'  = Shrunk(live, gone)
    /\ frame' = Restrict(frame, DOMAIN live')
    /\ UNCHANGED next

\* Fault: frames are left as they are.
RemoveNodesKeepFrames(gone) ==
    /\ kind'  = Restrict(kind, Node \ gone)
    /\ link'  = {l \in link : l.from \notin gone /\ l.to \notin gone}
    /\ UNCHANGED <<live, frame, next>>

\* Fault: a frame that goes stays in the export.
RemoveNodesKeepExport(gone) ==
    /\ kind'  = Restrict(kind, Node \ gone)
    /\ link'  = {l \in link : l.from \notin gone /\ l.to \notin gone}
    /\ live'  = Shrunk(live, gone)
    /\ UNCHANGED <<frame, next>>

\* The exported frames keep their list of nodes when the drawn one shrinks.
RemoveNodes(gone) ==
    /\ kind'  = Restrict(kind, Node \ gone)
    /\ link'  = {l \in link : l.from \notin gone /\ l.to \notin gone}
    /\ live'  = Shrunk(live, gone)
    /\ frame' = Restrict(frame, DOMAIN live')
    /\ UNCHANGED next

Triggers == {n \in Node : kind[n] = Trigger}

\* A node whose module the page does not know: it has no module_data.
Unknown == {n \in Node : kind[n] \in External /\ ~known}

Placeable(m) == m \in External => known

-----------------------------------------------------------------------------
\* The edits.

NewNode(m) == /\ Room(1) /\ Placeable(m)
              /\ kind' = Joined(kind, [n \in {next} |-> m]) /\ next' = next + 1

Add(m) == Edit(Mouse) /\ NewNode(m) /\ UNCHANGED <<link, live, frame>>

\* A block dropped on a link: one without outputs has no output_1 to go on from, and
\* the handler ends there, the old link still in place.
DropOnLink(m, l) ==
    /\ Edit(Mouse) /\ NewNode(m)
    /\ link' = LET first == [l EXCEPT !.to = next] IN
               IF Outs[m] = 0 THEN link \cup {first}
               ELSE (link \ {l}) \cup {first, [from |-> next, port |-> 1, to |-> l.to]}
    /\ UNCHANGED <<live, frame>>

Connect(a, p, b) ==
    /\ Edit(Mouse) /\ a # b /\ p \in 1..Outs[kind[a]] /\ b \notin Triggers
    /\ link' = link \cup {[from |-> a, port |-> p, to |-> b]}
    /\ UNCHANGED <<kind, live, frame, next>>

Disconnect(l) == /\ Edit(Mouse) /\ link' = link \ {l}
                 /\ UNCHANGED <<kind, live, frame, next>>

\* The delete button and the modal of a block.
Delete(s) == Edit(Mouse) /\ RemoveNodes(s \ Triggers)

\* The Delete key: the editor removes the selected nodes that are no triggers, Drawflow
\* the one it holds selected, whatever it is.
DeleteKey(s, selected) == Edit(Keyboard) /\ RemoveNodes((s \ Triggers) \cup {selected})

\* Where the copies of s are put, in the order of the originals.
CopyId(s) == [n \in s |-> next + Cardinality({i \in s : i < n})]

CopyLinks(links, id) ==
    {[from |-> id[l.from], port |-> l.port, to |-> id[l.to]] :
        l \in {k \in links : k.from \in DOMAIN id /\ k.to \in DOMAIN id}}

\* Fault: the identifier goes up by one for all the copies.
CopyCountedOnce(kinds, links, id) ==
    /\ kind' = Joined(kind, [n \in Range(id) |-> kinds[CHOOSE i \in DOMAIN id : id[i] = n]])
    /\ link' = link \cup CopyLinks(links, id)
    /\ next' = next + 1

\* The copies of the nodes of a graph under new identifiers, with the links among them.
Copy(kinds, links, id) ==
    /\ kind' = Joined(kind, [n \in Range(id) |-> kinds[CHOOSE i \in DOMAIN id : id[i] = n]])
    /\ link' = link \cup CopyLinks(links, id)
    /\ next' = next + Cardinality(DOMAIN id)

\* An unknown node ends the copying where it comes, before any link is made.
Duplicate(s) ==
    /\ Edit(Keyboard)
    /\ LET blocks == s \ (Triggers \cup Unknown) IN
       IF s \cap Unknown = {}
       THEN Room(Cardinality(blocks)) /\ Copy(kind, link, CopyId(blocks))
       ELSE \E done \in SUBSET blocks :
                Room(Cardinality(done)) /\ Copy(kind, {}, CopyId(done))
    /\ UNCHANGED <<live, frame>>

NewFrame(f, s) == /\ f \notin DOMAIN live
                  /\ live'  = Joined(live, [i \in {f} |-> s])
                  /\ frame' = Joined(frame, [i \in {f} |-> s])

FrameSelection(f, s) == Edit(Keyboard) /\ NewFrame(f, s) /\ UNCHANGED <<kind, link, next>>

AddBlueprint(b, f) ==
    /\ Edit(Mouse)
    /\ Room(Cardinality(DOMAIN b.kind))
    /\ LET id == CopyId(DOMAIN b.kind) IN
       /\ Copy(b.kind, b.link, id)
       /\ NewFrame(f, Range(id))

RemoveFrame(f) ==
    /\ Edit(Mouse)
    /\ live'  = Restrict(live, DOMAIN live \ {f})
    /\ frame' = Restrict(frame, DOMAIN frame \ {f})
    /\ UNCHANGED <<kind, link, next>>

-----------------------------------------------------------------------------
\* What the page draws of a graph g, when it does (exts) or does not know the external
\* modules.  Nodes come in the order of their identifiers.

Strange(g, exts) == {n \in DOMAIN g.kind : g.kind[n] \in External /\ ~exts}

\* The last node before n that has a known module; the trigger is the first of all.
Home(g, exts, n) ==
    CHOOSE i \in DOMAIN g.kind \ Strange(g, exts) :
        i < n /\ \A j \in DOMAIN g.kind \ Strange(g, exts) : j < n => j <= i

\* Fault: every node gets the next identifier.
PlacedInOrder(g, exts) ==
    [n \in DOMAIN g.kind |-> Cardinality({i \in DOMAIN g.kind : i <= n})]

\* Fault: the identifier is not moved past a node of an unknown module.
PlacedOnTop(g, exts) ==
    [n \in DOMAIN g.kind |->
        IF n \in Strange(g, exts) THEN Home(g, exts, n) + 1 ELSE n]

\* A node of a known module keeps its identifier; one of a module the page does not know
\* gets the one after the node before it.
Placed(g, exts) ==
    [n \in DOMAIN g.kind |->
        IF n \in Strange(g, exts)
        THEN LET home == Home(g, exts, n) IN
             home + Cardinality({i \in DOMAIN g.kind : home < i /\ i <= n})
        ELSE n]

\* The module of each node as it is drawn.
Drawn(g, id) ==
    [n \in Range(id) |-> g.kind[CHOOSE i \in DOMAIN id : id[i] = n]]

\* addConnection on nodes that may be missing: nothing for one that is, an exception for
\* two, or for a node that has not the output.
Skipped(l, kinds) == (l.from \in DOMAIN kinds) # (l.to \in DOMAIN kinds)
Raises(l, kinds)  == /\ ~Skipped(l, kinds)
                     /\ l.from \in DOMAIN kinds => l.port > Outs[kinds[l.from]]
Linked(l, kinds)  == ~Skipped(l, kinds) /\ ~Raises(l, kinds)

\* A frame is laid around its nodes, and one of them that is missing is an exception.
Laid(nodes, kinds) == nodes \subseteq DOMAIN kinds

Smooth(g, kinds) == /\ \A l \in g.link : ~Raises(l, kinds)
                    /\ \A f \in DOMAIN g.frame : Laid(g.frame[f], kinds)

\* The links drawn: all, or those of the targets before the first that raises and any of its.
LinksDrawn(g, kinds) ==
    LET raised == {l \in g.link : Raises(l, kinds)}
        good   == {l \in g.link : Linked(l, kinds)}
        before == {l \in good : \A r \in raised : l.to < r.to}
        at     == {l \in good \ before : \A r \in raised : l.to <= r.to}
    IN  IF raised = {} THEN {good} ELSE {before \cup some : some \in SUBSET at}

\* The frames drawn: none after a link that raised, else those before the first that raises.
FramesDrawn(g, kinds) ==
    LET laid == {f \in DOMAIN g.frame : Laid(g.frame[f], kinds)} IN
    IF \E l \in g.link : Raises(l, kinds) THEN {{}}
    ELSE IF laid = DOMAIN g.frame THEN {laid} ELSE SUBSET laid

\* loadWorkflow, up to the first exception.
Load(g, exts) ==
    LET id == Placed(g, exts) IN
    /\ kind' = Drawn(g, id)
    /\ next' = 1 + id[CHOOSE n \in DOMAIN id : \A i \in DOMAIN id : i <= n]
    /\ link' \in LinksDrawn(g, kind')
    /\ \E shown \in FramesDrawn(g, kind') :
          live' = Restrict(g.frame, shown) /\ frame' = live'

\* The page is opened, or opened again, whatever the warning about unsaved changes says.
Open ==
    /\ known' = up /\ Load(stored, up)
    /\ dirty' = ~Smooth(stored, kind')
    /\ cover' = IF Smooth(stored, kind') THEN "none" ELSE "loading"
    /\ UNCHANGED <<up, stored, edits>>

\* GraphUtil::isCyclic: a set of nodes each with a link from the set holds a cycle.
Acyclic(g) ==
    \A s \in (SUBSET DOMAIN g.kind) \ {{}} :
        {n \in s : \A l \in g.link : l.to = n => l.from \notin s} # {}

OneTrigger(g) == Cardinality({n \in DOMAIN g.kind : g.kind[n] = Trigger}) = 1

OneLinkPerOutput(g) ==
    \A k, l \in g.link :
        k.from = l.from /\ k.port = l.port /\ k # l => g.kind[k.from] \in Fan

\* Fault: the links of an output are not counted.
ValidAnyFan(g) == Acyclic(g) /\ OneTrigger(g)

Valid(g) == Acyclic(g) /\ OneTrigger(g) /\ OneLinkPerOutput(g)

Exported == [kind |-> kind, link |-> link, frame |-> frame]

\* The graph is saved and its answer drawn over the canvas.
Save ==
    /\ Valid(Exported)
    /\ stored' = Exported /\ Load(Exported, known)
    /\ dirty' = ~Smooth(Exported, kind')
    /\ cover' = IF Smooth(Exported, kind') THEN "none" ELSE "saving"
    /\ UNCHANGED <<known, up, edits>>

\* Refused: the message is shown and the canvas left as it is.
SaveRefused ==
    /\ ~Valid(Exported)
    /\ cover' = "none"
    /\ UNCHANGED <<canvas, next, dirty, known, up, stored, edits>>

\* The misp-modules service stops or comes back.
Service == up' = ~up /\ UNCHANGED <<page, stored, edits>>

Next ==
    \/ \E m \in Module : Add(m) \/ \E l \in link : DropOnLink(m, l)
    \/ \E a, b \in Node : \E p \in 1..Outs[kind[a]] : Connect(a, p, b)
    \/ \E l \in link : Disconnect(l)
    \/ \E s \in (SUBSET Node) \ {{}} :
          \/ Delete(s) \/ Duplicate(s)
          \/ \E n \in s : DeleteKey(s, n)
          \/ \E f \in Frame : FrameSelection(f, s)
    \/ \E b \in Blueprint, f \in Frame : AddBlueprint(b, f)
    \/ \E f \in DOMAIN live : RemoveFrame(f)
    \/ Open \/ Save \/ SaveRefused \/ Service

Spec == Init /\ [][Next]_vars

-----------------------------------------------------------------------------
\* Properties.

KindOf(s) == [s -> Module \cup {Trigger}]

\* Every variable holds values of its kind.
TypeOK ==
    /\ Node \subseteq 1..MaxId /\ kind \in KindOf(Node) /\ link \subseteq Link
    /\ DOMAIN live \subseteq Frame /\ live \in [DOMAIN live -> SUBSET (1..MaxId)]
    /\ DOMAIN frame = DOMAIN live /\ frame \in [DOMAIN live -> SUBSET (1..MaxId)]
    /\ next \in 2..(MaxId + 1) /\ dirty \in BOOLEAN /\ known \in BOOLEAN /\ up \in BOOLEAN
    /\ cover \in {"none", "loading", "saving"}
    /\ DOMAIN stored.kind \subseteq 1..MaxId /\ stored.kind \in KindOf(DOMAIN stored.kind)
    /\ stored.link \subseteq Link
    /\ DOMAIN stored.frame \subseteq Frame
    /\ stored.frame \in [DOMAIN stored.frame -> SUBSET (1..MaxId)]
    /\ edits \in 0..MaxEdits

\* The identifier the editor gives next is above every one on the canvas: no new node, copy or
\* blueprint overwrites a node, whatever loads, deletions and unknown modules came before.
Fresh == \A n \in Node : n < next

\* Every link ends at nodes of the canvas, leaves an output its node has and enters a node with
\* an input, through deletions, copies, drops on links and loads cut short by an exception.
Wired == \A l \in link :
            /\ l.from \in Node /\ l.to \in Node \ Triggers
            /\ l.port \in 1..Outs[kind[l.from]]

\* Every frame that is drawn holds at least a node of the canvas, and no other.
FramesLive == \A f \in DOMAIN live : live[f] # {} /\ live[f] \subseteq frame[f] \cap Node

\* The graph the server runs has one trigger, no cycle, one link per output, and links that
\* end at its nodes, whatever was on the canvas it came from.
StoredRuns == /\ Acyclic(stored) /\ OneTrigger(stored) /\ OneLinkPerOutput(stored)
              /\ \A l \in stored.link : {l.from, l.to} \subseteq DOMAIN stored.kind

\* A page that knows every module and says "saved" shows the graph the server holds: what is
\* drawn from an answer is what was sent, and every edit since is announced.
SavedShown ==
    ~dirty /\ known => kind = stored.kind /\ link = stored.link /\ live = stored.frame

\* Drawing a graph loses no node, known or not: there are as many of each module on the canvas
\* as the server holds.
NodesSurvive ==
    [][ (Open \/ Save) =>
          \A m \in Module \cup {Trigger} :
              Cardinality({n \in DOMAIN kind' : kind'[n] = m})
                = Cardinality({n \in DOMAIN stored'.kind : stored'.kind[n] = m}) ]_vars

=============================================================================
