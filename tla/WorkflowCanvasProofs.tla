------------------------ MODULE WorkflowCanvasProofs ------------------------
(* The invariants of WorkflowCanvas, for every set of modules, blueprints    *)
(* and frames, any number of nodes and edits.                                *)
EXTENDS WorkflowCanvas, FiniteSetTheorems, WellFoundedInduction, TLAPS

USE ModuleAssumption, BlueprintAssumption, BoundsAssumption

-----------------------------------------------------------------------------
\* Numbers.

LEMMA Least == ASSUME NEW T \in SUBSET Nat, T # {} PROVE \E x \in T : \A y \in T : x <= y
<1>1. PICK x \in T : \A y \in T : ~ (<<y, x>> \in OpToRel(<, Nat))
  BY NatLessThanWellFounded, WFMin
<1>2. \A y \in T : ~(y < x)  BY <1>1 DEF OpToRel
<1> QED  BY <1>2

LEMMA Greatest ==
    ASSUME NEW N \in Nat, NEW T \in SUBSET (0..N), T # {}
    PROVE  \E x \in T : \A y \in T : y <= x
<1> DEFINE U == {N - y : y \in T}
<1>1. \A y \in T : N - y \in Nat  OBVIOUS
<1>2. U \in SUBSET Nat /\ U # {}  BY <1>1
<1> HIDE DEF U
<1>3. PICK u \in U : \A y \in U : u <= y  BY <1>2, Least
<1>4. PICK x \in T : u = N - x  BY <1>3 DEF U
<1>5. \A y \in T : u <= N - y  BY <1>3 DEF U
<1> QED  BY <1>4, <1>5

\* The members of s above low and up to high.
Between(s, low, high) == {i \in s : low < i /\ i <= high}

LEMMA BetweenCount ==
    ASSUME NEW s \in SUBSET Nat, NEW low \in Nat, NEW high \in s, low < high
    PROVE  /\ IsFiniteSet(Between(s, low, high))
           /\ Cardinality(Between(s, low, high)) \in 1..(high - low)
<1>1. Between(s, low, high) \in SUBSET ((low + 1)..high)
  <2>1. \A i \in s : i \in Nat /\ (low < i /\ i <= high => i \in (low + 1)..high)  OBVIOUS
  <2> QED  BY <2>1 DEF Between
<1>2. IsFiniteSet((low + 1)..high) /\ Cardinality((low + 1)..high) = high - low
  <2>1. low + 1 \in Int /\ high \in Int /\ ~(low + 1 > high)  OBVIOUS
  <2>2. /\ IsFiniteSet((low + 1)..high)
        /\ Cardinality((low + 1)..high) = high - (low + 1) + 1
    BY <2>1, FS_Interval
  <2> QED  BY <2>1, <2>2
<1>3. /\ IsFiniteSet(Between(s, low, high))
      /\ Cardinality(Between(s, low, high)) <= high - low
      /\ Cardinality(Between(s, low, high)) \in Nat
  BY <1>1, <1>2, FS_Subset, FS_CardinalityType
<1>4. Between(s, low, high) # {}  BY DEF Between
<1>5. Cardinality(Between(s, low, high)) # 0  BY <1>3, <1>4, FS_EmptySet
<1> QED  BY <1>3, <1>5

LEMMA BetweenGrows ==
    ASSUME NEW s \in SUBSET Nat, NEW low \in Nat, NEW n \in s, NEW m \in s, low < n, n <= m
    PROVE  /\ Cardinality(Between(s, low, n)) <= Cardinality(Between(s, low, m))
           /\ n # m => Cardinality(Between(s, low, n)) < Cardinality(Between(s, low, m))
<1>1. Between(s, low, n) \in SUBSET Between(s, low, m)
  <2>1. \A i \in s : i <= n => i <= m  OBVIOUS
  <2> QED  BY <2>1 DEF Between
<1>2. IsFiniteSet(Between(s, low, m)) /\ Cardinality(Between(s, low, m)) \in Nat
  BY BetweenCount
<1>3. IsFiniteSet(Between(s, low, n)) /\ Cardinality(Between(s, low, n)) \in Nat
  BY BetweenCount
<1>4. /\ Cardinality(Between(s, low, n)) <= Cardinality(Between(s, low, m))
      /\ Cardinality(Between(s, low, m)) = Cardinality(Between(s, low, n)) =>
            Between(s, low, m) = Between(s, low, n)
  BY <1>1, <1>2, FS_Subset
<1>5. n # m => m \in Between(s, low, m) /\ m \notin Between(s, low, n)  BY DEF Between
<1> QED  BY <1>2, <1>3, <1>4, <1>5

\* The members of s below n.
Below(s, n) == {i \in s : i < n}

LEMMA BelowCount ==
    ASSUME NEW s \in SUBSET Nat, IsFiniteSet(s), NEW n \in s
    PROVE  Cardinality(Below(s, n)) \in 0..(Cardinality(s) - 1)
<1>1. IsFiniteSet(Below(s, n)) /\ Cardinality(Below(s, n)) \in Nat
      /\ Cardinality(Below(s, n)) <= Cardinality(s) /\ Cardinality(s) \in Nat
      /\ (Cardinality(s) = Cardinality(Below(s, n)) => s = Below(s, n))
  <2>1. Below(s, n) \in SUBSET s  BY DEF Below
  <2> QED  BY <2>1, FS_Subset, FS_CardinalityType
<1>2. n \notin Below(s, n)  BY DEF Below
<1> QED  BY <1>1, <1>2

LEMMA BelowGrows ==
    ASSUME NEW s \in SUBSET Nat, IsFiniteSet(s), NEW n \in s, NEW m \in s, n < m
    PROVE  Cardinality(Below(s, n)) < Cardinality(Below(s, m))
<1>1. Below(s, n) \in SUBSET Below(s, m) /\ Below(s, m) \in SUBSET s
  <2>1. \A i, j, k \in Nat : i < j /\ j < k => i < k  OBVIOUS
  <2>2. n \in Nat /\ m \in Nat /\ \A i \in s : i \in Nat  OBVIOUS
  <2> QED  BY <2>1, <2>2 DEF Below
<1>2. IsFiniteSet(Below(s, m)) /\ Cardinality(Below(s, m)) \in Nat
  BY <1>1, FS_Subset, FS_CardinalityType
<1>3. /\ Cardinality(Below(s, n)) \in Nat
      /\ Cardinality(Below(s, n)) <= Cardinality(Below(s, m))
      /\ Cardinality(Below(s, m)) = Cardinality(Below(s, n)) => Below(s, m) = Below(s, n)
  BY <1>1, <1>2, FS_Subset, FS_CardinalityType
<1>4. n \in Below(s, m) /\ n \notin Below(s, n)  BY DEF Below
<1> QED  BY <1>2, <1>3, <1>4
-----------------------------------------------------------------------------
\* Graphs.

\* The only trigger is the first node.
Nodes(kinds) == /\ DOMAIN kinds \subseteq 1..MaxId /\ kinds \in KindOf(DOMAIN kinds)
                /\ \A n \in DOMAIN kinds : kinds[n] = Trigger => n = 1

Wires(links, kinds) == \A l \in links : /\ l \in Link
                                        /\ l.from \in DOMAIN kinds /\ l.to \in DOMAIN kinds
                                        /\ kinds[l.to] # Trigger
                                        /\ l.port \in 1..Outs[kinds[l.from]]

Frames(frames) == /\ DOMAIN frames \subseteq Frame
                  /\ frames \in [DOMAIN frames -> SUBSET (1..MaxId)]
                  /\ \A f \in DOMAIN frames : frames[f] # {}

\* A graph the server keeps.
Sound(g) == /\ Nodes(g.kind) /\ 1 \in DOMAIN g.kind /\ g.kind[1] = Trigger
            /\ Wires(g.link, g.kind) /\ Frames(g.frame)

LEMMA HomeOf ==
    ASSUME NEW g, Sound(g), NEW exts, NEW n \in Strange(g, exts)
    PROVE  /\ Home(g, exts, n) \in DOMAIN g.kind \ Strange(g, exts)
           /\ Home(g, exts, n) < n
           /\ \A j \in DOMAIN g.kind \ Strange(g, exts) : j < n => j <= Home(g, exts, n)
<1> DEFINE plain == DOMAIN g.kind \ Strange(g, exts)
           before == {j \in plain : j < n}
<1>1. DOMAIN g.kind \subseteq 1..MaxId /\ n \in DOMAIN g.kind
  BY DEF Sound, Nodes, Strange
<1>2. 1 \in plain /\ n # 1
  BY DEF Sound, Strange
<1>3. before \in SUBSET (0..MaxId) /\ 1 \in before /\ MaxId \in Nat
  BY <1>1, <1>2
<1>4. PICK h \in before : \A j \in before : j <= h
  <2> HIDE DEF before
  <2> QED  BY <1>3, Greatest
<1>5. h \in plain /\ h < n /\ \A j \in plain : j < n => j <= h  BY <1>4
<1> QED  BY <1>5 DEF Home

LEMMA PlacedAt ==
    ASSUME NEW g, Sound(g), NEW exts, NEW n \in DOMAIN g.kind
    PROVE  /\ Placed(g, exts)[n] \in 1..n
           /\ n \notin Strange(g, exts) => Placed(g, exts)[n] = n
           /\ n \in Strange(g, exts) =>
                 /\ Placed(g, exts)[n] =
                       Home(g, exts, n)
                         + Cardinality(Between(DOMAIN g.kind, Home(g, exts, n), n))
                 /\ Home(g, exts, n) < Placed(g, exts)[n]
<1>1. DOMAIN g.kind \in SUBSET Nat /\ n \in Nat /\ n >= 1 /\ DOMAIN g.kind \subseteq 1..MaxId
  BY DEF Sound, Nodes
<1>2. CASE n \notin Strange(g, exts)  BY <1>1, <1>2 DEF Placed
<1>3. CASE n \in Strange(g, exts)
  <2> DEFINE h == Home(g, exts, n)
             count == Cardinality(Between(DOMAIN g.kind, h, n))
  <2>1. h \in DOMAIN g.kind /\ h < n  BY <1>3, HomeOf
  <2>2. Placed(g, exts)[n] = h + count  BY <1>3 DEF Placed, Between
  <2> HIDE DEF h, count
  <2>3. h \in Nat /\ h >= 1  BY <1>1, <2>1
  <2>4. count \in 1..(n - h)  BY <1>1, <2>1, <2>3, BetweenCount DEF count
  <2>5. h + count \in 1..n /\ h < h + count  BY <1>1, <2>1, <2>3, <2>4
  <2> QED  BY <1>3, <2>2, <2>5 DEF h, count
<1> QED  BY <1>2, <1>3

\* Nodes are drawn in the order of their identifiers, none over another.
LEMMA PlacedGrows ==
    ASSUME NEW g, Sound(g), NEW exts, NEW n \in DOMAIN g.kind, NEW m \in DOMAIN g.kind, n < m
    PROVE  Placed(g, exts)[n] < Placed(g, exts)[m]
<1> DEFINE id == Placed(g, exts)
<1>1. DOMAIN g.kind \in SUBSET Nat /\ n \in Nat /\ m \in Nat  BY DEF Sound, Nodes
<1>2. id[n] \in 1..n /\ id[m] \in 1..m  BY PlacedAt
<1>3. CASE m \notin Strange(g, exts)
  <2>1. id[m] = m  BY <1>3, PlacedAt
  <2> QED  BY <1>1, <1>2, <2>1
<1>4. CASE m \in Strange(g, exts)
  <2> DEFINE h == Home(g, exts, m)
             k == Home(g, exts, n)
  <2>1. /\ h \in DOMAIN g.kind \ Strange(g, exts) /\ h < m /\ h < id[m]
        /\ id[m] = h + Cardinality(Between(DOMAIN g.kind, h, m))
        /\ \A j \in DOMAIN g.kind \ Strange(g, exts) : j < m => j <= h
    BY <1>4, HomeOf, PlacedAt
  <2>2. CASE n <= h  BY <1>1, <1>2, <2>1, <2>2
  <2>3. CASE ~(n <= h)
    <3>1. n \in Strange(g, exts)  BY <2>1, <2>3
    <3>2. /\ k \in DOMAIN g.kind \ Strange(g, exts) /\ k < n
          /\ \A j \in DOMAIN g.kind \ Strange(g, exts) : j < n => j <= k
          /\ id[n] = k + Cardinality(Between(DOMAIN g.kind, k, n))
      BY <3>1, HomeOf, PlacedAt
    <3> HIDE DEF h, k, id
    <3>3. k \in Nat /\ h \in Nat  BY <1>1, <2>1, <3>2
    <3>4. k < m /\ h < n  BY <1>1, <2>3, <3>2, <3>3
    <3>5. k <= h /\ h <= k  BY <2>1, <3>2, <3>4
    <3>6. k = h  BY <3>3, <3>5
    <3>7. /\ IsFiniteSet(Between(DOMAIN g.kind, h, n))
          /\ Cardinality(Between(DOMAIN g.kind, h, n)) \in 1..(n - h)
      BY <1>1, <3>3, <3>4, BetweenCount
    <3>8. Cardinality(Between(DOMAIN g.kind, h, m)) \in 1..(m - h)
      BY <1>1, <2>1, <3>3, BetweenCount
    <3>9. Cardinality(Between(DOMAIN g.kind, h, n)) < Cardinality(Between(DOMAIN g.kind, h, m))
      BY <1>1, <3>3, <3>4, BetweenGrows
    <3> QED  BY <2>1, <3>2, <3>3, <3>6, <3>7, <3>8, <3>9 DEF id
  <2> QED  BY <2>2, <2>3
<1> QED  BY <1>3, <1>4

\* What is drawn of a graph: each node in its place, the links and frames that can be.
LEMMA DrawnNodes ==
    ASSUME NEW g, Sound(g), NEW exts, NEW n \in DOMAIN g.kind
    PROVE  /\ DOMAIN Drawn(g, Placed(g, exts)) = Range(Placed(g, exts))
           /\ Placed(g, exts)[n] \in DOMAIN Drawn(g, Placed(g, exts))
           /\ Drawn(g, Placed(g, exts))[Placed(g, exts)[n]] = g.kind[n]
<1> DEFINE id == Placed(g, exts)
<1>1. DOMAIN id = DOMAIN g.kind  BY DEF Placed
<1>2. id[n] \in Range(id)  BY <1>1 DEF Range
<1>3. \A i \in DOMAIN g.kind : id[i] = id[n] => i = n
  <2> SUFFICES ASSUME NEW i \in DOMAIN g.kind, i # n PROVE id[i] # id[n]  OBVIOUS
  <2>1. i \in Nat /\ n \in Nat  BY DEF Sound, Nodes
  <2>2. id[i] \in 1..i /\ id[n] \in 1..n  BY PlacedAt
  <2>3. CASE i < n
    <3>1. id[i] < id[n]  BY <2>3, PlacedGrows
    <3> QED  BY <2>1, <2>2, <3>1
  <2>4. CASE n < i
    <3>1. id[n] < id[i]  BY <2>4, PlacedGrows
    <3> QED  BY <2>1, <2>2, <3>1
  <2> QED  BY <2>1, <2>3, <2>4
<1> HIDE DEF id
<1>4. (CHOOSE i \in DOMAIN id : id[i] = id[n]) = n  BY <1>1, <1>3
<1> QED  BY <1>1, <1>2, <1>4 DEF Drawn, id

\* The last node of a graph; the identifier after its place is the next one.
LEMMA LastNode ==
    ASSUME NEW g, Sound(g), NEW exts
    PROVE  LET id == Placed(g, exts)
               last == CHOOSE n \in DOMAIN id : \A i \in DOMAIN id : i <= n
           IN  last \in DOMAIN g.kind /\ \A i \in DOMAIN g.kind : id[i] <= id[last]
<1> DEFINE id == Placed(g, exts)
           last == CHOOSE n \in DOMAIN id : \A i \in DOMAIN id : i <= n
<1>1. DOMAIN id = DOMAIN g.kind  BY DEF Placed
<1>2. DOMAIN g.kind \in SUBSET (0..MaxId) /\ DOMAIN g.kind # {}
  BY DEF Sound, Nodes
<1>3. \E n \in DOMAIN g.kind : \A i \in DOMAIN g.kind : i <= n
  BY <1>2, Greatest
<1> HIDE DEF id
<1>4. last \in DOMAIN g.kind /\ \A i \in DOMAIN g.kind : i <= last
  BY <1>1, <1>3
<1> HIDE DEF last
<1>5. ASSUME NEW i \in DOMAIN g.kind PROVE id[i] <= id[last]
  <2>1. i \in Nat /\ last \in Nat /\ i <= last  BY <1>2, <1>4
  <2>2. id[i] \in 1..i /\ id[last] \in 1..last  BY <1>4, PlacedAt DEF id
  <2>3. CASE i = last  BY <2>2, <2>3
  <2>4. CASE i < last
    <3>1. id[i] < id[last]  BY <1>4, <2>4, PlacedGrows DEF id
    <3> QED  BY <2>1, <2>2, <3>1
  <2> QED  BY <2>1, <2>3, <2>4
<1> QED  BY <1>4, <1>5 DEF id, last

LEMMA LoadNodes ==
    ASSUME NEW g, Sound(g), NEW exts, Load(g, exts)
    PROVE  Nodes(kind') /\ next' \in 2..(MaxId + 1) /\ \A n \in DOMAIN kind' : n < next'
<1> DEFINE id == Placed(g, exts)
           last == CHOOSE n \in DOMAIN id : \A i \in DOMAIN id : i <= n
<1>1. kind' = Drawn(g, id) /\ next' = 1 + id[last]  BY DEF Load
<1>2. last \in DOMAIN g.kind /\ \A i \in DOMAIN g.kind : id[i] <= id[last]
  BY LastNode
<1>3. \A n \in DOMAIN g.kind : /\ n \in 1..MaxId /\ id[n] \in 1..n
                               /\ g.kind[n] \in Module \cup {Trigger}
                               /\ g.kind[n] = Trigger => n = 1
  BY PlacedAt DEF Sound, Nodes, KindOf
<1>4. \A n \in DOMAIN g.kind : kind'[id[n]] = g.kind[n]
  BY <1>1, DrawnNodes
<1>5. DOMAIN kind' = Range(id) /\ DOMAIN id = DOMAIN g.kind
  BY <1>1 DEF Drawn, Placed
<1>6. kind' = [x \in DOMAIN kind' |-> kind'[x]]
  BY <1>1 DEF Drawn
<1> HIDE DEF id, last
<1>7. \A x \in DOMAIN kind' : \E n \in DOMAIN g.kind : x = id[n]
  BY <1>5 DEF Range
<1>8. ASSUME NEW x \in DOMAIN kind'
      PROVE  /\ x \in 1..MaxId /\ kind'[x] \in Module \cup {Trigger}
             /\ kind'[x] = Trigger => x = 1
             /\ x < next'
  <2>1. PICK n \in DOMAIN g.kind : x = id[n]  BY <1>7
  <2>2. n \in 1..MaxId /\ id[n] \in 1..n /\ id[last] \in 1..last /\ last \in 1..MaxId
    BY <1>2, <1>3
  <2>3. x \in 1..MaxId  BY <2>1, <2>2
  <2>4. x < next'  BY <1>1, <1>2, <2>1, <2>2
  <2>5. kind'[x] \in Module \cup {Trigger}  BY <1>3, <1>4, <2>1
  <2>6. kind'[x] = Trigger => x = 1  BY <1>3, <1>4, <2>1, <2>2
  <2> QED  BY <2>3, <2>4, <2>5, <2>6
<1>9. next' \in 2..(MaxId + 1)  BY <1>1, <1>2, <1>3
<1>10. kind' \in KindOf(DOMAIN kind')  BY <1>6, <1>8 DEF KindOf
<1> QED  BY <1>8, <1>9, <1>10 DEF Nodes

\* Only links with both ends drawn and their output in place are drawn.
LEMMA LoadWires ==
    ASSUME NEW g, Sound(g), NEW exts, Load(g, exts)
    PROVE  Wires(link', kind')
<1>1. link' \subseteq {l \in g.link : Linked(l, kind')}
  BY DEF Load, LinksDrawn
<1>2. ASSUME NEW l \in link'
      PROVE  /\ l \in Link /\ l.from \in DOMAIN kind' /\ l.to \in DOMAIN kind'
             /\ kind'[l.to] # Trigger /\ l.port \in 1..Outs[kind'[l.from]]
  <2>1. /\ l \in Link /\ l.port >= 1 /\ l.port \in Nat /\ g.kind[l.to] # Trigger
    BY <1>1 DEF Sound, Wires, Link
  <2>2. /\ l.from \in DOMAIN kind' /\ l.to \in DOMAIN kind'
        /\ ~(l.port > Outs[kind'[l.from]])
    BY <1>1 DEF Linked, Skipped, Raises
  <2>3. Nodes(kind')  BY LoadNodes
  <2>4. kind'[l.from] \in Module \cup {Trigger}  BY <2>2, <2>3 DEF Nodes, KindOf
  <2>5. Outs[kind'[l.from]] \in Nat  BY <2>4
  <2>6. kind'[l.to] # Trigger  BY <2>1, <2>2, <2>3 DEF Nodes, Sound
  <2>7. l.port \in 1..Outs[kind'[l.from]]  BY <2>1, <2>2, <2>5
  <2> QED  BY <2>1, <2>2, <2>6, <2>7
<1> QED  BY <1>2 DEF Wires

LEMMA LoadFrames ==
    ASSUME NEW g, Sound(g), NEW exts, Load(g, exts)
    PROVE  /\ Frames(live') /\ frame' = live'
           /\ \A f \in DOMAIN live' : live'[f] \subseteq DOMAIN kind'
<1>1. PICK shown \in FramesDrawn(g, kind') : live' = Restrict(g.frame, shown) /\ frame' = live'
  BY DEF Load
<1>2. shown \subseteq {f \in DOMAIN g.frame : Laid(g.frame[f], kind')}
  BY <1>1 DEF FramesDrawn
<1>3. live' = [f \in shown |-> g.frame[f]]  BY <1>1 DEF Restrict
<1>4. \A f \in shown : /\ f \in Frame /\ g.frame[f] \in SUBSET (1..MaxId)
                       /\ g.frame[f] # {} /\ g.frame[f] \subseteq DOMAIN kind'
  BY <1>2 DEF Sound, Frames, Laid
<1> QED  BY <1>1, <1>3, <1>4 DEF Frames

\* A page that knows every module draws a graph as it is.
LEMMA LoadKnown ==
    ASSUME NEW g, Sound(g), NEW exts, Strange(g, exts) = {}, Load(g, exts)
    PROVE  /\ kind' = g.kind
           /\ Smooth(g, kind') => link' = g.link /\ live' = g.frame
<1>1. \A n \in DOMAIN g.kind : n \notin Strange(g, exts)  OBVIOUS
<1>2. \A n \in DOMAIN g.kind : Placed(g, exts)[n] = n  BY <1>1, PlacedAt
<1>3. DOMAIN Placed(g, exts) = DOMAIN g.kind  BY DEF Placed
<1>4. Range(Placed(g, exts)) = DOMAIN g.kind
  <2> DEFINE id == Placed(g, exts)
  <2>1. DOMAIN id = DOMAIN g.kind /\ \A n \in DOMAIN g.kind : id[n] = n  BY <1>2, <1>3
  <2> HIDE DEF id
  <2>2. Range(id) = DOMAIN g.kind  BY <2>1 DEF Range
  <2> QED  BY <2>2 DEF id
<1>5. kind' = Drawn(g, Placed(g, exts))  BY DEF Load
<1>6. DOMAIN kind' = DOMAIN g.kind  BY <1>4, <1>5, DrawnNodes DEF Drawn
<1>7. \A n \in DOMAIN g.kind : kind'[n] = g.kind[n]
  <2> DEFINE id == Placed(g, exts)
  <2>1. kind' = Drawn(g, id)  BY <1>5
  <2>2. \A n \in DOMAIN g.kind : kind'[id[n]] = g.kind[n]  BY <2>1, DrawnNodes
  <2> QED  BY <1>2, <2>2
<1>8. kind' = [n \in DOMAIN kind' |-> kind'[n]]  BY <1>5 DEF Drawn
<1>9. g.kind = [n \in DOMAIN g.kind |-> g.kind[n]]  BY DEF Sound, Nodes, KindOf
<1>10. kind' = g.kind  BY <1>6, <1>7, <1>8, <1>9
<1>11. ASSUME Smooth(g, kind') PROVE link' = g.link /\ live' = g.frame
  <2>1. \A l \in g.link : ~Raises(l, kind') /\ Linked(l, kind')
    BY <1>10, <1>11 DEF Smooth, Linked, Skipped, Sound, Wires
  <2>2. {l \in g.link : Linked(l, kind')} = g.link /\ {l \in g.link : Raises(l, kind')} = {}
    BY <2>1
  <2>3. link' = g.link
    BY <2>2 DEF Load, LinksDrawn
  <2>4. {f \in DOMAIN g.frame : Laid(g.frame[f], kind')} = DOMAIN g.frame
    BY <1>11 DEF Smooth
  <2>5. FramesDrawn(g, kind') = {DOMAIN g.frame}
    BY <2>1, <2>4 DEF FramesDrawn
  <2>6. live' = [f \in DOMAIN g.frame |-> g.frame[f]]
    BY <2>5 DEF Load, Restrict
  <2>7. g.frame = [f \in DOMAIN g.frame |-> g.frame[f]]
    BY DEF Sound, Frames
  <2> QED  BY <2>3, <2>6, <2>7
<1> QED  BY <1>10, <1>11

-----------------------------------------------------------------------------
\* Edits.

\* What holds of the canvas.
Canvas ==
    /\ Nodes(kind) /\ Wires(link, kind)
    /\ Frames(live) /\ Frames(frame) /\ DOMAIN frame = DOMAIN live /\ FramesLive
    /\ next \in 2..(MaxId + 1) /\ Fresh

\* More nodes were drawn, none changed.
Grown == /\ Node \subseteq DOMAIN kind' /\ \A n \in Node : kind'[n] = kind[n]

\* New nodes of modules, under identifiers from next on.
LEMMA NewNodes ==
    ASSUME Nodes(kind), Fresh, next \in 2..(MaxId + 1),
           NEW new, \A x \in DOMAIN new : x \in next..MaxId /\ new[x] \in Module,
           kind' = Joined(kind, new)
    PROVE  /\ Nodes(kind') /\ Grown
           /\ DOMAIN kind' = Node \cup DOMAIN new
           /\ \A x \in DOMAIN new : kind'[x] = new[x]
<1>1. \A n \in Node : n \in 1..MaxId /\ kind[n] \in Module \cup {Trigger}
                      /\ (kind[n] = Trigger => n = 1)
  BY DEF Nodes, KindOf, Node
<1>2. \A x \in DOMAIN new : x \notin Node
  BY <1>1 DEF Fresh
<1>3. /\ DOMAIN kind' = Node \cup DOMAIN new
      /\ \A n \in Node : kind'[n] = kind[n]
      /\ \A x \in DOMAIN new : kind'[x] = new[x]
      /\ kind' = [x \in DOMAIN kind' |-> kind'[x]]
  <2>1. kind' = [x \in DOMAIN kind \cup DOMAIN new |->
                    IF x \in DOMAIN kind THEN kind[x] ELSE new[x]]
    BY DEF Joined
  <2>2. DOMAIN kind' = DOMAIN kind \cup DOMAIN new  BY <2>1
  <2> QED  BY <1>2, <2>1, <2>2 DEF Node
<1>4. ASSUME NEW x \in DOMAIN kind'
      PROVE  x \in 1..MaxId /\ kind'[x] \in Module \cup {Trigger}
             /\ (kind'[x] = Trigger => x = 1)
  <2>1. CASE x \in Node  BY <1>1, <1>3, <2>1
  <2>2. CASE x \in DOMAIN new
    <3>1. x \in next..MaxId /\ kind'[x] \in Module  BY <1>3, <2>2
    <3> QED  BY <3>1
  <2> QED  BY <1>3, <2>1, <2>2
<1>5. kind' \in KindOf(DOMAIN kind')  BY <1>3, <1>4 DEF KindOf
<1> QED  BY <1>3, <1>4, <1>5 DEF Nodes, Grown

LEMMA WiresKept ==
    ASSUME Wires(link, kind), Grown
    PROVE  Wires(link, kind')
BY DEF Wires, Grown, Node

\* The frames hold when no node goes.
LEMMA FramesKept ==
    ASSUME Canvas, Grown, UNCHANGED <<live, frame>>
    PROVE  /\ Frames(live') /\ Frames(frame') /\ DOMAIN frame' = DOMAIN live'
           /\ FramesLive'
<1>1. \A f \in DOMAIN live : live[f] # {} /\ live[f] \subseteq frame[f]
                             /\ live[f] \subseteq DOMAIN kind'
  BY DEF Canvas, FramesLive, Grown, Node
<1> QED  BY <1>1 DEF Canvas, FramesLive, Node

LEMMA NewNodeKept ==
    ASSUME Canvas, NEW m \in Module, NewNode(m)
    PROVE  /\ Nodes(kind') /\ Grown /\ next \in DOMAIN kind' /\ kind'[next] = m
           /\ next' \in 2..(MaxId + 1) /\ Fresh'
<1> DEFINE new == [n \in {next} |-> m]
<1>1. next \in 2..(MaxId + 1) /\ Nodes(kind) /\ Fresh  BY DEF Canvas
<1>2. next <= MaxId  BY <1>1 DEF NewNode, Room
<1>3. kind' = Joined(kind, new) /\ next' = next + 1  BY DEF NewNode
<1>4. DOMAIN new = {next} /\ \A x \in DOMAIN new : x \in next..MaxId /\ new[x] \in Module
                             /\ new[x] = m
  BY <1>1, <1>2
<1> HIDE DEF new
<1>5. /\ Nodes(kind') /\ Grown /\ DOMAIN kind' = Node \cup {next} /\ kind'[next] = m
  BY <1>1, <1>3, <1>4, NewNodes
<1>6. Fresh'
  <2>1. \A n \in Node : n \in 1..MaxId /\ n < next  BY <1>1 DEF Fresh, Nodes, Node
  <2>2. \A n \in DOMAIN kind' : n < next + 1  BY <1>1, <1>5, <2>1
  <2> QED  BY <1>3, <2>2 DEF Fresh, Node
<1> QED  BY <1>1, <1>2, <1>3, <1>5, <1>6

LEMMA AddKept ==
    ASSUME Canvas, NEW m \in Module, Add(m) PROVE Canvas'
<1>1. NewNode(m) /\ UNCHANGED <<link, live, frame>>  BY DEF Add
<1>2. /\ Nodes(kind') /\ Grown /\ next' \in 2..(MaxId + 1) /\ Fresh'  BY <1>1, NewNodeKept
<1>3. Wires(link', kind')  BY <1>1, <1>2, WiresKept DEF Canvas
<1>4. /\ Frames(live') /\ Frames(frame') /\ DOMAIN frame' = DOMAIN live' /\ FramesLive'
  BY <1>1, <1>2, FramesKept
<1> QED  BY <1>2, <1>3, <1>4 DEF Canvas

LEMMA DropOnLinkKept ==
    ASSUME Canvas, NEW m \in Module, NEW l \in link, DropOnLink(m, l) PROVE Canvas'
<1>1. NewNode(m) /\ UNCHANGED <<live, frame>>  BY DEF DropOnLink
<1>2. /\ Nodes(kind') /\ Grown /\ next \in DOMAIN kind' /\ kind'[next] = m
      /\ next' \in 2..(MaxId + 1) /\ Fresh'
  BY <1>1, NewNodeKept
<1>3. Wires(link, kind')  BY <1>2, WiresKept DEF Canvas
<1>4. ASSUME NEW k \in link'
      PROVE  /\ k \in Link /\ k.from \in DOMAIN kind' /\ k.to \in DOMAIN kind'
             /\ kind'[k.to] # Trigger /\ k.port \in 1..Outs[kind'[k.from]]
  <2> DEFINE first == [l EXCEPT !.to = next]
             second == [from |-> next, port |-> 1, to |-> l.to]
  <2>1. /\ l \in Link /\ l.from \in DOMAIN kind' /\ l.to \in DOMAIN kind'
        /\ kind'[l.to] # Trigger /\ l.port \in 1..Outs[kind'[l.from]]
    BY <1>3 DEF Wires
  <2>2. next \in Nat /\ m # Trigger /\ Outs[m] \in Nat  BY DEF Canvas
  <2>3. /\ first \in Link /\ first.from = l.from /\ first.port = l.port /\ first.to = next
    BY <2>1, <2>2 DEF Link
  <2>4. second \in Link /\ second.from = next /\ second.port = 1 /\ second.to = l.to
    BY <2>1, <2>2 DEF Link
  <2>5. k \in link \/ k = first \/ (k = second /\ Outs[m] # 0)
    BY DEF DropOnLink
  <2> HIDE DEF first, second
  <2>6. CASE k \in link  BY <1>3, <2>6 DEF Wires
  <2>7. CASE k = first  BY <1>2, <2>1, <2>2, <2>3, <2>7
  <2>8. CASE k = second /\ Outs[m] # 0  BY <1>2, <2>1, <2>2, <2>4, <2>8
  <2> QED  BY <2>5, <2>6, <2>7, <2>8
<1>5. Wires(link', kind')  BY <1>4 DEF Wires
<1>6. /\ Frames(live') /\ Frames(frame') /\ DOMAIN frame' = DOMAIN live' /\ FramesLive'
  BY <1>1, <1>2, FramesKept
<1> QED  BY <1>2, <1>5, <1>6 DEF Canvas

LEMMA ConnectKept ==
    ASSUME Canvas, NEW a \in Node, NEW b \in Node, NEW p \in 1..Outs[kind[a]], Connect(a, p, b)
    PROVE  Canvas'
<1>1. UNCHANGED <<kind, live, frame, next>> /\ kind[b] # Trigger
  BY DEF Connect, Triggers
<1>2. a \in Nat /\ b \in Nat /\ kind[a] \in Module \cup {Trigger}
  BY DEF Canvas, Nodes, Node, KindOf
<1>3. Outs[kind[a]] \in Nat /\ p \in Nat  BY <1>2
<1>4. [from |-> a, port |-> p, to |-> b] \in Link  BY <1>2, <1>3 DEF Link
<1>5. link' = link \cup {[from |-> a, port |-> p, to |-> b]}  BY DEF Connect
<1>6. Wires(link', kind)  BY <1>1, <1>4, <1>5 DEF Canvas, Wires, Node
<1> QED  BY <1>1, <1>6 DEF Canvas, FramesLive, Fresh, Node

LEMMA DisconnectKept ==
    ASSUME Canvas, NEW l \in link, Disconnect(l) PROVE Canvas'
<1>1. UNCHANGED <<kind, live, frame, next>> /\ link' \subseteq link  BY DEF Disconnect
<1>2. Wires(link', kind)  BY <1>1 DEF Canvas, Wires
<1> QED  BY <1>1, <1>2 DEF Canvas, FramesLive, Fresh, Node

LEMMA RemoveNodesKept ==
    ASSUME Canvas, NEW gone, RemoveNodes(gone) PROVE Canvas'
<1>1. /\ kind' = [n \in Node \ gone |-> kind[n]] /\ next' = next
      /\ link' = {l \in link : l.from \notin gone /\ l.to \notin gone}
  BY DEF RemoveNodes, Restrict
<1>2. DOMAIN kind' = Node \ gone /\ \A n \in DOMAIN kind' : kind'[n] = kind[n]
  BY <1>1
<1>3. Nodes(kind')  BY <1>1, <1>2 DEF Canvas, Nodes, KindOf, Node
<1>4. Wires(link', kind')  BY <1>1, <1>2 DEF Canvas, Wires, Node
<1>5. Fresh' /\ next' \in 2..(MaxId + 1)  BY <1>1, <1>2 DEF Canvas, Fresh, Node
<1>6. live' = Shrunk(live, gone) /\ frame' = [i \in DOMAIN live' |-> frame[i]]
  BY DEF RemoveNodes, Restrict
<1>7. /\ DOMAIN live' = {i \in DOMAIN live : ~(live[i] \subseteq gone)}
      /\ live' = [i \in DOMAIN live' |-> live'[i]]
      /\ \A i \in DOMAIN live' : live'[i] = live[i] \ gone
  BY <1>6 DEF Shrunk
<1>8. ASSUME NEW i \in DOMAIN live'
      PROVE  /\ i \in Frame /\ live'[i] # {} /\ live'[i] \in SUBSET (1..MaxId)
             /\ live'[i] \subseteq DOMAIN kind' /\ live'[i] \subseteq frame'[i]
             /\ frame'[i] # {} /\ frame'[i] \in SUBSET (1..MaxId)
  <2>1. /\ i \in DOMAIN live /\ ~(live[i] \subseteq gone) /\ live'[i] = live[i] \ gone
        /\ frame'[i] = frame[i]
    BY <1>6, <1>7
  <2>2. /\ i \in Frame /\ live[i] \in SUBSET (1..MaxId) /\ frame[i] \in SUBSET (1..MaxId)
        /\ live[i] \subseteq frame[i] /\ live[i] \subseteq Node
    BY <2>1 DEF Canvas, Frames, FramesLive
  <2> QED  BY <1>2, <2>1, <2>2
<1>9. DOMAIN frame' = DOMAIN live'  BY <1>6
<1>10. Frames(live') /\ Frames(frame')
  <2>1. live' \in [DOMAIN live' -> SUBSET (1..MaxId)]  BY <1>7, <1>8
  <2>2. frame' \in [DOMAIN frame' -> SUBSET (1..MaxId)]  BY <1>6, <1>8
  <2> QED  BY <1>8, <1>9, <2>1, <2>2 DEF Frames
<1>11. FramesLive'  BY <1>8 DEF FramesLive, Node
<1> QED  BY <1>3, <1>4, <1>5, <1>9, <1>10, <1>11 DEF Canvas

LEMMA DeleteKept ==
    ASSUME Canvas, NEW s, Delete(s) PROVE Canvas'
BY RemoveNodesKept DEF Delete

LEMMA DeleteKeyKept ==
    ASSUME Canvas, NEW s, NEW selected, DeleteKey(s, selected) PROVE Canvas'
BY RemoveNodesKept DEF DeleteKey

\* The copies of s fill identifiers from next on, one each.
LEMMA CopyIds ==
    ASSUME next \in Nat, NEW s \in SUBSET Nat, IsFiniteSet(s), NEW n \in s
    PROVE  /\ CopyId(s)[n] \in next..(next + Cardinality(s) - 1)
           /\ \A m \in s : CopyId(s)[m] = CopyId(s)[n] => m = n
<1> DEFINE below(i) == Cardinality(Below(s, i))
<1>1. \A i \in s : CopyId(s)[i] = next + below(i)  BY DEF CopyId, Below
<1>2. \A i \in s : below(i) \in 0..(Cardinality(s) - 1)  BY BelowCount
<1>3. Cardinality(s) \in Nat  BY FS_CardinalityType
<1>4. \A i, j \in s : i < j => below(i) < below(j)  BY BelowGrows
<1> HIDE DEF below
<1>5. CopyId(s)[n] \in next..(next + Cardinality(s) - 1)  BY <1>1, <1>2, <1>3
<1>6. ASSUME NEW m \in s, m # n PROVE CopyId(s)[m] # CopyId(s)[n]
  <2>1. m < n \/ n < m  BY <1>6
  <2>2. below(m) # below(n)  BY <1>2, <1>3, <1>4, <2>1
  <2> QED  BY <1>1, <1>2, <1>3, <2>2
<1> QED  BY <1>5, <1>6

LEMMA CopyKept ==
    ASSUME Canvas, NEW kinds, NEW links, NEW s \in SUBSET Nat, IsFiniteSet(s),
           \A n \in s : kinds[n] \in Module,
           \A l \in links : l.from \in s /\ l.to \in s => l.port \in 1..Outs[kinds[l.from]],
           Room(Cardinality(s)), Copy(kinds, links, CopyId(s))
    PROVE  /\ Nodes(kind') /\ Wires(link', kind') /\ Grown
           /\ next' \in 2..(MaxId + 1) /\ Fresh'
           /\ Range(CopyId(s)) \subseteq DOMAIN kind'
<1> DEFINE id  == CopyId(s)
           new == [n \in Range(id) |-> kinds[CHOOSE i \in DOMAIN id : id[i] = n]]
<1>1. /\ Nodes(kind) /\ Wires(link, kind) /\ next \in 2..(MaxId + 1) /\ Fresh /\ next \in Nat
  BY DEF Canvas
<1>2. /\ kind' = Joined(kind, new) /\ link' = link \cup CopyLinks(links, id)
      /\ DOMAIN id = s /\ next' = next + Cardinality(s)
  BY DEF Copy, CopyId
<1>3. Cardinality(s) \in Nat /\ next + Cardinality(s) - 1 <= MaxId
  BY FS_CardinalityType DEF Room
<1>4. \A n \in s : /\ id[n] \in next..(next + Cardinality(s) - 1)
                   /\ \A m \in s : id[m] = id[n] => m = n
  BY <1>1, CopyIds
<1>5. DOMAIN new = Range(id)  OBVIOUS
<1>6. \A x \in Range(id) : new[x] = kinds[CHOOSE i \in DOMAIN id : id[i] = x]  OBVIOUS
<1> HIDE DEF id, new
<1>7. \A n \in s : id[n] \in Range(id) /\ (CHOOSE i \in DOMAIN id : id[i] = id[n]) = n
  BY <1>2, <1>4 DEF Range
<1>8. \A n \in s : id[n] \in DOMAIN new /\ new[id[n]] = kinds[n]
  BY <1>5, <1>6, <1>7
<1>9. \A x \in DOMAIN new : \E n \in s : x = id[n]  BY <1>2, <1>5 DEF Range
<1>10. \A x \in DOMAIN new : /\ x \in next..MaxId /\ x < next' /\ new[x] \in Module
  <2> SUFFICES ASSUME NEW x \in DOMAIN new
               PROVE  x \in next..MaxId /\ x < next' /\ new[x] \in Module
    OBVIOUS
  <2>1. PICK n \in s : x = id[n]  BY <1>9
  <2>2. x \in next..(next + Cardinality(s) - 1)  BY <1>4, <2>1
  <2>3. new[x] \in Module  BY <1>8, <2>1
  <2> QED  BY <1>1, <1>2, <1>3, <2>2, <2>3
<1>11. /\ Nodes(kind') /\ Grown /\ DOMAIN kind' = Node \cup DOMAIN new
       /\ \A x \in DOMAIN new : kind'[x] = new[x]
  BY <1>1, <1>2, <1>10, NewNodes
<1>12. next' \in 2..(MaxId + 1)  BY <1>1, <1>2, <1>3
<1>13. Fresh'
  <2>1. \A n \in Node : n \in 1..MaxId /\ n < next  BY <1>1 DEF Fresh, Nodes, Node
  <2>2. \A n \in Node : n < next'  BY <1>1, <1>2, <1>3, <2>1
  <2> QED  BY <1>10, <1>11, <2>2 DEF Fresh, Node
<1>14. Wires(link, kind')  BY <1>1, <1>11, WiresKept
<1>15. ASSUME NEW k \in CopyLinks(links, id)
       PROVE  /\ k \in Link /\ k.from \in DOMAIN kind' /\ k.to \in DOMAIN kind'
              /\ kind'[k.to] # Trigger /\ k.port \in 1..Outs[kind'[k.from]]
  <2>1. PICK l \in links : /\ l.from \in s /\ l.to \in s
                           /\ k = [from |-> id[l.from], port |-> l.port, to |-> id[l.to]]
    BY <1>2 DEF CopyLinks
  <2>2. k.from = id[l.from] /\ k.port = l.port /\ k.to = id[l.to]  BY <2>1
  <2>3. /\ id[l.from] \in DOMAIN kind' /\ kind'[id[l.from]] = kinds[l.from]
        /\ id[l.to] \in DOMAIN kind' /\ kind'[id[l.to]] = kinds[l.to]
    BY <1>8, <1>11, <2>1
  <2>4. kinds[l.from] \in Module /\ kinds[l.to] \in Module
        /\ l.port \in 1..Outs[kinds[l.from]]
    BY <2>1
  <2>5. Outs[kinds[l.from]] \in Nat /\ kinds[l.to] # Trigger  BY <2>4
  <2>6. l.port \in Nat  BY <2>4, <2>5
  <2>7. id[l.from] \in Nat /\ id[l.to] \in Nat
    <3>1. \A x \in next..(next + Cardinality(s) - 1) : x \in Nat  BY <1>1, <1>3
    <3>2. id[l.from] \in next..(next + Cardinality(s) - 1)  BY <1>4, <2>1
    <3>3. id[l.to] \in next..(next + Cardinality(s) - 1)  BY <1>4, <2>1
    <3> QED  BY <3>1, <3>2, <3>3
  <2>8. k \in Link  BY <2>1, <2>6, <2>7 DEF Link
  <2> QED  BY <2>2, <2>3, <2>4, <2>5, <2>8
<1>16. Wires(link', kind')  BY <1>2, <1>14, <1>15 DEF Wires
<1> QED  BY <1>5, <1>11, <1>12, <1>13, <1>16 DEF id

\* The nodes are finitely many numbers.
LEMMA NodesFinite ==
    ASSUME NEW kinds, Nodes(kinds), NEW s, s \subseteq DOMAIN kinds
    PROVE  s \in SUBSET Nat /\ IsFiniteSet(s)
<1>1. s \in SUBSET (1..MaxId)  BY DEF Nodes
<1>2. IsFiniteSet(1..MaxId)
  <2>1. 1 \in Int /\ MaxId \in Int  OBVIOUS
  <2> QED  BY <2>1, FS_Interval
<1>3. IsFiniteSet(s)  BY <1>1, <1>2, FS_Subset
<1> QED  BY <1>1, <1>3

LEMMA DuplicateKept ==
    ASSUME Canvas, NEW s, s \subseteq Node, Duplicate(s) PROVE Canvas'
<1> DEFINE blocks == s \ (Triggers \cup Unknown)
<1>1. \A n \in blocks : n \in Node /\ kind[n] \in Module
  BY DEF Canvas, Nodes, KindOf, Node, Triggers
<1>2. PICK done, links :
          /\ done \subseteq blocks /\ links \subseteq link
          /\ Room(Cardinality(done)) /\ Copy(kind, links, CopyId(done))
  <2>1. CASE s \cap Unknown = {}  BY <2>1 DEF Duplicate
  <2>2. CASE s \cap Unknown # {}
    <3>1. PICK done \in SUBSET blocks :
              Room(Cardinality(done)) /\ Copy(kind, {}, CopyId(done))
      BY <2>2 DEF Duplicate
    <3> QED  BY <3>1
  <2> QED  BY <2>1, <2>2
<1>3. done \in SUBSET Nat /\ IsFiniteSet(done)
  <2>1. done \subseteq DOMAIN kind  BY <1>1, <1>2 DEF Node
  <2> QED  BY <2>1, NodesFinite DEF Canvas
<1>4. \A n \in done : kind[n] \in Module  BY <1>1, <1>2
<1>5. \A l \in links : l.from \in done /\ l.to \in done => l.port \in 1..Outs[kind[l.from]]
  BY <1>2 DEF Canvas, Wires
<1>6. /\ Nodes(kind') /\ Wires(link', kind') /\ Grown /\ next' \in 2..(MaxId + 1) /\ Fresh'
  BY <1>2, <1>3, <1>4, <1>5, CopyKept
<1>7. UNCHANGED <<live, frame>>  BY DEF Duplicate
<1>8. /\ Frames(live') /\ Frames(frame') /\ DOMAIN frame' = DOMAIN live' /\ FramesLive'
  BY <1>6, <1>7, FramesKept
<1> QED  BY <1>6, <1>8 DEF Canvas

LEMMA NewFrameKept ==
    ASSUME Canvas, Grown, Nodes(kind'), NEW f \in Frame, NEW s,
           s \subseteq DOMAIN kind', s # {}, NewFrame(f, s)
    PROVE  /\ Frames(live') /\ Frames(frame') /\ DOMAIN frame' = DOMAIN live'
           /\ FramesLive'
<1> DEFINE new == [i \in {f} |-> s]
<1>1. f \notin DOMAIN live /\ live' = Joined(live, new) /\ frame' = Joined(frame, new)
      /\ DOMAIN frame = DOMAIN live
  BY DEF NewFrame, Canvas
<1>2. DOMAIN new = {f} /\ new[f] = s  OBVIOUS
<1> HIDE DEF new
<1>3. /\ live'  = [x \in DOMAIN live \cup {f} |-> IF x \in DOMAIN live THEN live[x] ELSE new[x]]
      /\ frame' = [x \in DOMAIN live \cup {f} |-> IF x \in DOMAIN live THEN frame[x] ELSE new[x]]
  BY <1>1, <1>2 DEF Joined
<1>4. s \in SUBSET (1..MaxId)  BY DEF Nodes
<1>5. ASSUME NEW x \in DOMAIN live
      PROVE  /\ live'[x] = live[x] /\ frame'[x] = frame[x] /\ x \in Frame
             /\ live[x] \in SUBSET (1..MaxId) /\ frame[x] \in SUBSET (1..MaxId)
             /\ live[x] # {} /\ frame[x] # {} /\ live[x] \subseteq frame[x]
             /\ live[x] \subseteq DOMAIN kind'
  <2>1. live'[x] = live[x] /\ frame'[x] = frame[x]  BY <1>3
  <2> QED  BY <1>1, <2>1 DEF Canvas, Frames, FramesLive, Grown, Node
<1>6. live'[f] = s /\ frame'[f] = s  BY <1>1, <1>2, <1>3
<1>7. DOMAIN live' = DOMAIN live \cup {f} /\ DOMAIN frame' = DOMAIN live \cup {f}
  BY <1>3
<1>8. ASSUME NEW x \in DOMAIN live'
      PROVE  /\ x \in Frame /\ live'[x] \in SUBSET (1..MaxId) /\ frame'[x] \in SUBSET (1..MaxId)
             /\ live'[x] # {} /\ frame'[x] # {} /\ live'[x] \subseteq frame'[x]
             /\ live'[x] \subseteq DOMAIN kind'
  <2>1. CASE x \in DOMAIN live  BY <1>5, <2>1
  <2>2. CASE x = f  BY <1>4, <1>6, <2>2
  <2> QED  BY <1>7, <2>1, <2>2
<1>9. /\ live'  = [x \in DOMAIN live' |-> live'[x]]
      /\ frame' = [x \in DOMAIN frame' |-> frame'[x]]
  BY <1>3
<1>10. Frames(live')  BY <1>8, <1>9 DEF Frames
<1>11. Frames(frame')  BY <1>7, <1>8, <1>9 DEF Frames
<1>12. FramesLive'  BY <1>8 DEF FramesLive, Node
<1> QED  BY <1>7, <1>10, <1>11, <1>12

LEMMA FrameSelectionKept ==
    ASSUME Canvas, NEW f \in Frame, NEW s, s \subseteq Node, s # {}, FrameSelection(f, s)
    PROVE  Canvas'
<1>1. UNCHANGED <<kind, link, next>> /\ NewFrame(f, s)  BY DEF FrameSelection
<1>2. Grown /\ Nodes(kind') /\ s \subseteq DOMAIN kind'  BY <1>1 DEF Grown, Node, Canvas
<1>3. /\ Frames(live') /\ Frames(frame') /\ DOMAIN frame' = DOMAIN live' /\ FramesLive'
  BY <1>1, <1>2, NewFrameKept
<1> QED  BY <1>1, <1>2, <1>3 DEF Canvas, Fresh, Node

LEMMA AddBlueprintKept ==
    ASSUME Canvas, NEW b \in Blueprint, NEW f \in Frame, AddBlueprint(b, f) PROVE Canvas'
<1> DEFINE s == DOMAIN b.kind
<1>1. /\ b.kind \in Seq(Module) /\ b.kind # << >>
      /\ \A l \in b.link : l.port \in 1..Outs[b.kind[l.from]]
  BY DEF BlueprintAssumption
<1>2. s = 1..Len(b.kind) /\ Len(b.kind) \in Nat /\ Len(b.kind) # 0  BY <1>1
<1>3. \A n \in s : b.kind[n] \in Module  BY <1>1, <1>2
<1>4. s \in SUBSET Nat /\ IsFiniteSet(s)
  <2>1. 1 \in Int /\ Len(b.kind) \in Int  BY <1>2
  <2> QED  BY <1>2, <2>1, FS_Interval
<1>5. /\ Room(Cardinality(s)) /\ Copy(b.kind, b.link, CopyId(s))
      /\ NewFrame(f, Range(CopyId(s)))
  BY DEF AddBlueprint
<1>6. 1 \in s  BY <1>2
<1> HIDE DEF s
<1>7. /\ Nodes(kind') /\ Wires(link', kind') /\ Grown /\ next' \in 2..(MaxId + 1) /\ Fresh'
      /\ Range(CopyId(s)) \subseteq DOMAIN kind'
  BY <1>1, <1>3, <1>4, <1>5, CopyKept
<1>8. Range(CopyId(s)) # {}
  <2>1. 1 \in DOMAIN CopyId(s)  BY <1>6 DEF CopyId
  <2>2. CopyId(s)[1] \in Range(CopyId(s))  BY <2>1 DEF Range
  <2> QED  BY <2>2
<1>9. /\ Frames(live') /\ Frames(frame') /\ DOMAIN frame' = DOMAIN live' /\ FramesLive'
  BY <1>5, <1>7, <1>8, NewFrameKept
<1> QED  BY <1>7, <1>9 DEF Canvas

LEMMA RemoveFrameKept ==
    ASSUME Canvas, NEW f \in DOMAIN live, RemoveFrame(f) PROVE Canvas'
<1>1. /\ UNCHANGED <<kind, link, next>>
      /\ live'  = [i \in DOMAIN live \ {f} |-> live[i]]
      /\ frame' = [i \in DOMAIN live \ {f} |-> frame[i]]
  BY DEF RemoveFrame, Restrict, Canvas
<1>2. Frames(live') /\ Frames(frame') /\ DOMAIN frame' = DOMAIN live'
  BY <1>1 DEF Canvas, Frames
<1>3. FramesLive'  BY <1>1 DEF Canvas, FramesLive, Node
<1> QED  BY <1>1, <1>2, <1>3 DEF Canvas, Fresh, Node

LEMMA LoadKept ==
    ASSUME NEW g, Sound(g), NEW exts, Load(g, exts) PROVE Canvas'
<1>1. /\ Nodes(kind') /\ next' \in 2..(MaxId + 1) /\ \A n \in DOMAIN kind' : n < next'
      /\ Wires(link', kind') /\ Frames(live') /\ frame' = live'
      /\ \A f \in DOMAIN live' : live'[f] \subseteq DOMAIN kind'
  BY LoadNodes, LoadWires, LoadFrames
<1>2. Fresh'  BY <1>1 DEF Fresh, Node
<1>3. FramesLive'  BY <1>1 DEF FramesLive, Frames, Node
<1> QED  BY <1>1, <1>2, <1>3 DEF Canvas

-----------------------------------------------------------------------------
\* The invariant.

\* The canvas with the graph on the server, and what a saved page shows.
IInv ==
    /\ Canvas
    /\ dirty \in BOOLEAN /\ known \in BOOLEAN /\ up \in BOOLEAN
    /\ cover \in {"none", "loading", "saving"} /\ edits \in 0..MaxEdits
    /\ Sound(stored) /\ StoredRuns /\ SavedShown

\* An edit leaves the server as it is and is announced.
LEMMA EditKept ==
    ASSUME IInv, NEW cond, Edit(cond), Canvas' PROVE IInv'
<1>1. /\ UNCHANGED <<cover, known, up, stored>> /\ dirty' = TRUE
      /\ edits < MaxEdits /\ edits' = edits + 1
  BY DEF Edit
<1>2. edits' \in 0..MaxEdits  BY <1>1 DEF IInv
<1>3. StoredRuns'
  <2>1. stored' = stored /\ StoredRuns  BY <1>1 DEF IInv
  <2> QED  BY <2>1 DEF StoredRuns
<1>4. SavedShown'  BY <1>1 DEF SavedShown
<1>5. Sound(stored)'  BY <1>1 DEF IInv
<1> QED  BY <1>1, <1>2, <1>3, <1>4, <1>5 DEF IInv

\* What passes the checks of the server is a graph it keeps.
LEMMA ExportedSound ==
    ASSUME Canvas, Valid(Exported) PROVE Sound(Exported)
<1>1. /\ Exported.kind = kind /\ Exported.link = link /\ Exported.frame = frame
  BY DEF Exported
<1>2. Cardinality({n \in DOMAIN kind : kind[n] = Trigger}) = 1
  BY <1>1 DEF Valid, OneTrigger
<1>3. IsFiniteSet({n \in DOMAIN kind : kind[n] = Trigger})
  <2>1. {n \in DOMAIN kind : kind[n] = Trigger} \subseteq DOMAIN kind  OBVIOUS
  <2> QED  BY <2>1, NodesFinite DEF Canvas
<1>4. PICK x : {n \in DOMAIN kind : kind[n] = Trigger} = {x}
  BY <1>2, <1>3, FS_Singleton
<1>5. x \in DOMAIN kind /\ kind[x] = Trigger  BY <1>4
<1>6. x = 1  BY <1>5 DEF Canvas, Nodes
<1> QED  BY <1>1, <1>5, <1>6 DEF Canvas, Sound

\* A graph that is drawn without an exception by a page that knows every module is shown.
LEMMA LoadShown ==
    ASSUME NEW g, Sound(g), NEW exts \in BOOLEAN, Load(g, exts), exts = TRUE, Smooth(g, kind')
    PROVE  kind' = g.kind /\ link' = g.link /\ live' = g.frame
<1>1. Strange(g, exts) = {}  BY DEF Strange
<1> HIDE DEF Load
<1>2. kind' = g.kind /\ (Smooth(g, kind') => link' = g.link /\ live' = g.frame)
  BY ONLY <1>1, Sound(g), Load(g, exts), LoadKnown
<1> QED  BY <1>2

LEMMA OpenKept ==
    ASSUME IInv, Open PROVE IInv'
<1>1. /\ known' = up /\ Load(stored, up) /\ dirty' = ~Smooth(stored, kind')
      /\ cover' = (IF Smooth(stored, kind') THEN "none" ELSE "loading")
      /\ UNCHANGED <<up, stored, edits>>
  BY DEF Open
<1>2. Canvas'  BY <1>1, LoadKept DEF IInv
<1>3. StoredRuns'
  <2>1. stored' = stored /\ StoredRuns  BY <1>1 DEF IInv
  <2> QED  BY <2>1 DEF StoredRuns
<1>4. SavedShown'
  <2> SUFFICES ASSUME ~dirty', known'
               PROVE  kind' = stored'.kind /\ link' = stored'.link /\ live' = stored'.frame
    BY DEF SavedShown
  <2>1. Sound(stored) /\ up \in BOOLEAN  BY DEF IInv
  <2>2. up = TRUE /\ Smooth(stored, kind')  BY <1>1, <2>1
  <2>3. kind' = stored.kind /\ link' = stored.link /\ live' = stored.frame
    BY <1>1, <2>1, <2>2, LoadShown
  <2> QED  BY <1>1, <2>3
<1>5. dirty' \in BOOLEAN /\ known' \in BOOLEAN /\ up' \in BOOLEAN
  BY <1>1 DEF IInv
<1>6. cover' \in {"none", "loading", "saving"} /\ edits' \in 0..MaxEdits
  BY <1>1 DEF IInv
<1>7. Sound(stored)'  BY <1>1 DEF IInv
<1> QED  BY <1>2, <1>3, <1>4, <1>5, <1>6, <1>7 DEF IInv

LEMMA SaveKept ==
    ASSUME IInv, Save PROVE IInv'
<1>1. /\ Valid(Exported) /\ stored' = Exported /\ Load(Exported, known)
      /\ dirty' = ~Smooth(Exported, kind')
      /\ cover' = (IF Smooth(Exported, kind') THEN "none" ELSE "saving")
      /\ UNCHANGED <<known, up, edits>>
  BY DEF Save
<1>2. Sound(Exported)  BY <1>1, ExportedSound DEF IInv
<1>3. Canvas'  BY <1>1, <1>2, LoadKept
<1>4. StoredRuns'
  <2>1. \A l \in Exported.link : {l.from, l.to} \subseteq DOMAIN Exported.kind
    BY <1>2 DEF Sound, Wires
  <2>2. Acyclic(Exported) /\ OneTrigger(Exported) /\ OneLinkPerOutput(Exported)
    BY <1>1 DEF Valid
  <2> DEFINE g == Exported
  <2> HIDE DEF g
  <2>3. stored' = g  BY <1>1 DEF g
  <2>4. Acyclic(g) /\ OneTrigger(g) /\ OneLinkPerOutput(g)
        /\ \A l \in g.link : {l.from, l.to} \subseteq DOMAIN g.kind
    BY <2>1, <2>2 DEF g
  <2> QED  BY <2>3, <2>4 DEF StoredRuns
<1>5. SavedShown'
  <2> SUFFICES ASSUME ~dirty', known'
               PROVE  kind' = stored'.kind /\ link' = stored'.link /\ live' = stored'.frame
    BY DEF SavedShown
  <2>1. known \in BOOLEAN  BY DEF IInv
  <2>2. known = TRUE /\ Smooth(Exported, kind')  BY <1>1, <2>1
  <2>3. kind' = Exported.kind /\ link' = Exported.link /\ live' = Exported.frame
    BY <1>1, <1>2, <2>1, <2>2, LoadShown
  <2> QED  BY <1>1, <2>3
<1>6. dirty' \in BOOLEAN /\ known' \in BOOLEAN /\ up' \in BOOLEAN
  BY <1>1 DEF IInv
<1>7. cover' \in {"none", "loading", "saving"} /\ edits' \in 0..MaxEdits
  BY <1>1 DEF IInv
<1>8. Sound(stored')  BY <1>1, <1>2
<1> QED  BY <1>3, <1>4, <1>5, <1>6, <1>7, <1>8 DEF IInv

\* Steps that leave the canvas and the graph of the server alone.
LEMMA StillKept ==
    ASSUME IInv, UNCHANGED <<canvas, next, dirty, known, stored, edits>>,
           up' \in BOOLEAN, cover' \in {"none", "loading", "saving"}
    PROVE  IInv'
<1>1. Canvas'
  BY DEF IInv, Canvas, canvas, FramesLive, Fresh, Node
<1>2. StoredRuns'
  <2>1. stored' = stored /\ StoredRuns  BY DEF IInv
  <2> QED  BY <2>1 DEF StoredRuns
<1>3. SavedShown'  BY DEF IInv, SavedShown, canvas
<1>4. Sound(stored)'  BY DEF IInv
<1> QED  BY <1>1, <1>2, <1>3, <1>4 DEF IInv

-----------------------------------------------------------------------------
\* The theorems.

LEMMA InitKept ==
    ASSUME Init PROVE IInv
<1> DEFINE k == [n \in {1} |-> Trigger]
<1>1. /\ kind = k /\ link = {} /\ live = << >> /\ frame = << >> /\ next = 2
      /\ dirty = FALSE /\ cover = "none" /\ known = TRUE /\ up = TRUE /\ edits = 0
      /\ stored = [kind |-> k, link |-> {}, frame |-> << >>]
  BY DEF Init
<1>2. DOMAIN k = {1} /\ k[1] = Trigger /\ k \in KindOf(DOMAIN k) /\ 1 \in 1..MaxId
  BY DEF KindOf
<1> HIDE DEF k
<1>3. Nodes(k)  BY <1>2 DEF Nodes
<1>4. Wires({}, k)  BY DEF Wires
<1>5. DOMAIN << >> = {} /\ << >> \in [{} -> SUBSET (1..MaxId)]  OBVIOUS
<1>6. Frames(<< >>)  BY <1>5 DEF Frames
<1>7. stored.kind = k /\ stored.link = {} /\ stored.frame = << >>  BY <1>1
<1>8. Sound(stored)  BY <1>2, <1>3, <1>4, <1>6, <1>7 DEF Sound
<1>9. FramesLive  BY <1>1, <1>5 DEF FramesLive
<1>10. Fresh  BY <1>1, <1>2 DEF Fresh, Node
<1>11. next \in 2..(MaxId + 1)  BY <1>1
<1>12. Canvas  BY <1>1, <1>3, <1>4, <1>6, <1>9, <1>10, <1>11 DEF Canvas
<1>13. StoredRuns
  <2>1. Acyclic(stored)
    <3>1. ASSUME NEW s \in (SUBSET {1}) \ {{}}
          PROVE  {n \in s : \A l \in {} : l.to = n => l.from \notin s} # {}
      <4>1. 1 \in s  OBVIOUS
      <4> QED  BY <4>1
    <3> QED  BY <1>2, <1>7, <3>1 DEF Acyclic
  <2>2. OneTrigger(stored)
    <3>1. {n \in DOMAIN stored.kind : stored.kind[n] = Trigger} = {1}  BY <1>2, <1>7
    <3>2. Cardinality({1}) = 1  BY FS_Singleton
    <3> QED  BY <3>1, <3>2 DEF OneTrigger
  <2>3. OneLinkPerOutput(stored)  BY <1>7 DEF OneLinkPerOutput
  <2> QED  BY <1>7, <2>1, <2>2, <2>3 DEF StoredRuns
<1>14. SavedShown  BY <1>1, <1>7 DEF SavedShown
<1>15. dirty \in BOOLEAN /\ known \in BOOLEAN /\ up \in BOOLEAN  BY <1>1
<1>16. cover \in {"none", "loading", "saving"} /\ edits \in 0..MaxEdits  BY <1>1
<1> QED  BY <1>8, <1>12, <1>13, <1>14, <1>15, <1>16 DEF IInv

LEMMA NextKept ==
    ASSUME IInv, [Next]_vars PROVE IInv'
<1>1. Canvas  BY DEF IInv
<1>2. ASSUME NEW m \in Module, Add(m) PROVE IInv'
  BY <1>1, <1>2, AddKept, EditKept DEF Add
<1>3. ASSUME NEW m \in Module, NEW l \in link, DropOnLink(m, l) PROVE IInv'
  BY <1>1, <1>3, DropOnLinkKept, EditKept DEF DropOnLink
<1>4. ASSUME NEW a \in Node, NEW b \in Node, NEW p \in 1..Outs[kind[a]], Connect(a, p, b)
      PROVE  IInv'
  BY <1>1, <1>4, ConnectKept, EditKept DEF Connect
<1>5. ASSUME NEW l \in link, Disconnect(l) PROVE IInv'
  BY <1>1, <1>5, DisconnectKept, EditKept DEF Disconnect
<1>6. ASSUME NEW s \in (SUBSET Node) \ {{}}, Delete(s) PROVE IInv'
  BY <1>1, <1>6, DeleteKept, EditKept DEF Delete
<1>7. ASSUME NEW s \in (SUBSET Node) \ {{}}, Duplicate(s) PROVE IInv'
  BY <1>1, <1>7, DuplicateKept, EditKept DEF Duplicate
<1>8. ASSUME NEW s \in (SUBSET Node) \ {{}}, NEW n \in s, DeleteKey(s, n) PROVE IInv'
  BY <1>1, <1>8, DeleteKeyKept, EditKept DEF DeleteKey
<1>9. ASSUME NEW s \in (SUBSET Node) \ {{}}, NEW f \in Frame, FrameSelection(f, s) PROVE IInv'
  BY <1>1, <1>9, FrameSelectionKept, EditKept DEF FrameSelection
<1>10. ASSUME NEW b \in Blueprint, NEW f \in Frame, AddBlueprint(b, f) PROVE IInv'
  BY <1>1, <1>10, AddBlueprintKept, EditKept DEF AddBlueprint
<1>11. ASSUME NEW f \in DOMAIN live, RemoveFrame(f) PROVE IInv'
  BY <1>1, <1>11, RemoveFrameKept, EditKept DEF RemoveFrame
<1>12. CASE Open  BY <1>12, OpenKept
<1>13. CASE Save  BY <1>13, SaveKept
<1>14. CASE SaveRefused
  BY <1>14, StillKept DEF SaveRefused, IInv
<1>15. CASE Service
  <2>1. UNCHANGED <<canvas, next, dirty, known, stored, edits>> /\ cover' = cover
    BY <1>15 DEF Service, page
  <2>2. up' \in BOOLEAN  BY <1>15 DEF Service, IInv
  <2>3. cover' \in {"none", "loading", "saving"}  BY <2>1 DEF IInv
  <2> QED  BY <2>1, <2>2, <2>3, StillKept
<1>16. CASE UNCHANGED vars
  <2>1. UNCHANGED <<canvas, next, dirty, known, stored, edits>> /\ cover' = cover /\ up' = up
    BY <1>16 DEF vars, page
  <2>2. up' \in BOOLEAN /\ cover' \in {"none", "loading", "saving"}  BY <2>1 DEF IInv
  <2> QED  BY <2>1, <2>2, StillKept
<1>17. CASE Next
  BY <1>2, <1>3, <1>4, <1>5, <1>6, <1>7, <1>8, <1>9, <1>10, <1>11, <1>12, <1>13, <1>14, <1>15,
     <1>17 DEF Next
<1> QED  BY <1>16, <1>17

LEMMA Invariant == Spec => []IInv
<1>1. Init => IInv  BY InitKept
<1>2. IInv /\ [Next]_vars => IInv'  BY NextKept
<1> QED  BY <1>1, <1>2, PTL DEF Spec

\* Every variable holds values of its kind: a frame is exported if and only if it is drawn, and
\* the graph the server keeps has the shape of the canvas, after any edits, loads and saves.
THEOREM CanvasTypeCorrect == Spec => []TypeOK
<1>1. ASSUME IInv PROVE TypeOK
  <2>1. Node \subseteq 1..MaxId /\ kind \in KindOf(Node)  BY <1>1 DEF IInv, Canvas, Nodes, Node
  <2>2. link \subseteq Link  BY <1>1 DEF IInv, Canvas, Wires
  <2>3. /\ DOMAIN live \subseteq Frame /\ live \in [DOMAIN live -> SUBSET (1..MaxId)]
        /\ DOMAIN frame = DOMAIN live /\ frame \in [DOMAIN live -> SUBSET (1..MaxId)]
    BY <1>1 DEF IInv, Canvas, Frames
  <2>4. next \in 2..(MaxId + 1)  BY <1>1 DEF IInv, Canvas
  <2>5. /\ dirty \in BOOLEAN /\ known \in BOOLEAN /\ up \in BOOLEAN
        /\ cover \in {"none", "loading", "saving"} /\ edits \in 0..MaxEdits
    BY <1>1 DEF IInv
  <2>6. Sound(stored)  BY <1>1 DEF IInv
  <2>7. DOMAIN stored.kind \subseteq 1..MaxId /\ stored.kind \in KindOf(DOMAIN stored.kind)
    BY <2>6 DEF Sound, Nodes
  <2>8. stored.link \subseteq Link  BY <2>6 DEF Sound, Wires
  <2>9. /\ DOMAIN stored.frame \subseteq Frame
        /\ stored.frame \in [DOMAIN stored.frame -> SUBSET (1..MaxId)]
    BY <2>6 DEF Sound, Frames
  <2> QED  BY <2>1, <2>2, <2>3, <2>4, <2>5, <2>7, <2>8, <2>9 DEF TypeOK
<1> QED  BY <1>1, Invariant, PTL

\* The next identifier of the editor is above every node of the canvas, so that no new block,
\* copy or blueprint is put over a node, for any graph drawn with unknown modules or without.
THEOREM NeverOver == Spec => []Fresh
<1>1. ASSUME IInv PROVE Fresh  BY <1>1 DEF IInv, Canvas
<1> QED  BY <1>1, Invariant, PTL

\* Every link ends at nodes of the canvas, at an output and an input they have, also after a
\* node was deleted and after a drawing that an exception cut short.
THEOREM EndsThere == Spec => []Wired
<1>1. ASSUME IInv PROVE Wired
  BY <1>1 DEF IInv, Canvas, Wires, Wired, Node, Triggers
<1> QED  BY <1>1, Invariant, PTL

\* A frame that is drawn holds a node of the canvas, and no other, whatever was deleted of it.
THEOREM FramesHold == Spec => []FramesLive
<1>1. ASSUME IInv PROVE FramesLive  BY <1>1 DEF IInv, Canvas
<1> QED  BY <1>1, Invariant, PTL

\* The graph the server runs is acyclic with one trigger, one link per output and no link to a
\* node it has not, whatever was edited before the save that stored it.
THEOREM ServerRuns == Spec => []StoredRuns
<1>1. ASSUME IInv PROVE StoredRuns  BY <1>1 DEF IInv
<1> QED  BY <1>1, Invariant, PTL

\* A page that knows every module and announces no unsaved change shows the stored graph.
THEOREM ShowsSaved == Spec => []SavedShown
<1>1. ASSUME IInv PROVE SavedShown  BY <1>1 DEF IInv
<1> QED  BY <1>1, Invariant, PTL

\* Drawing a graph keeps the number of nodes of each module: the place of a node, known or
\* not, is taken by no other.
Of(kinds, m) == {n \in DOMAIN kinds : kinds[n] = m}

LEMMA LoadCounts ==
    ASSUME NEW g, Sound(g), NEW exts, Load(g, exts), NEW m
    PROVE  Cardinality(Of(kind', m)) = Cardinality(Of(g.kind, m))
<1> DEFINE id == Placed(g, exts)
           s  == Of(g.kind, m)
           t  == Of(kind', m)
           b  == [n \in s |-> id[n]]
<1>1. kind' = Drawn(g, id)  BY DEF Load
<1>2. \A n \in DOMAIN g.kind : kind'[id[n]] = g.kind[n]  BY <1>1, DrawnNodes
<1>3. DOMAIN kind' = Range(id) /\ DOMAIN id = DOMAIN g.kind  BY <1>1 DEF Drawn, Placed
<1>4. \A n \in DOMAIN g.kind : n \in Nat /\ id[n] \in 1..n  BY PlacedAt DEF Sound, Nodes
<1>5. \A n, i \in DOMAIN g.kind : n < i => id[n] < id[i]  BY PlacedGrows
<1> HIDE DEF id
<1>6. \A n, i \in DOMAIN g.kind : id[n] = id[i] => n = i
  <2> SUFFICES ASSUME NEW n \in DOMAIN g.kind, NEW i \in DOMAIN g.kind, n # i
               PROVE  id[n] # id[i]
    OBVIOUS
  <2>1. n \in Nat /\ i \in Nat /\ id[n] \in 1..n /\ id[i] \in 1..i  BY <1>4
  <2>2. n < i \/ i < n  BY <2>1
  <2> QED  BY <1>5, <2>1, <2>2
<1>7. \A n \in s : id[n] \in t  BY <1>2, <1>3 DEF Range, Of
<1>8. \A x \in t : \E n \in s : id[n] = x  BY <1>2, <1>3 DEF Range, Of
<1>9. \A n, i \in s : id[n] = id[i] => n = i  BY <1>6 DEF Of
<1>10. s \subseteq DOMAIN g.kind  BY DEF Of
<1> HIDE DEF s, t
<1>11. b \in Bijection(s, t)
  BY <1>7, <1>8, <1>9 DEF Bijection, Injection, Surjection, IsInjective
<1>12. IsFiniteSet(s)  BY <1>10, NodesFinite DEF Sound
<1>13. Cardinality(t) = Cardinality(s)
  <2>1. ExistsBijection(s, t)  BY <1>11 DEF ExistsBijection
  <2> QED  BY <1>12, <2>1, FS_Bijection
<1> QED  BY <1>13 DEF s, t

\* An opening or a save draws as many nodes of each module as the server holds, known or not.
THEOREM NoneLost == Spec => NodesSurvive
<1> DEFINE Same == (Open \/ Save) =>
                      \A m \in Module \cup {Trigger} :
                          Cardinality(Of(kind', m)) = Cardinality(Of(stored'.kind, m))
<1>1. ASSUME IInv, [Next]_vars PROVE [Same]_vars
  <2>1. CASE Open
    <3>1. Load(stored, up) /\ stored' = stored /\ Sound(stored)  BY <1>1, <2>1 DEF Open, IInv
    <3> QED  BY <3>1, LoadCounts
  <2>2. CASE Save
    <3>1. Load(Exported, known) /\ stored' = Exported /\ Sound(Exported)
      BY <1>1, <2>2, ExportedSound DEF Save, IInv
    <3> QED  BY <3>1, LoadCounts
  <2>3. CASE ~(Open \/ Save)  BY <2>3
  <2> QED  BY <2>1, <2>2, <2>3
<1> QED  BY <1>1, Invariant, PTL DEF Spec, NodesSurvive, Of

=============================================================================
