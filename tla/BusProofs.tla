-------------------------------- MODULE BusProofs --------------------------------
(***************************************************************************)
(* Theorems about Bus for any number of types, ids, binds and events.      *)
(***************************************************************************)
EXTENDS Bus, SequenceTheorems, TLAPS

(***************************************************************************)
(* The theorems are about a program whose main binds only before the first *)
(* event (~Concurrent): with binds at any time there are data races, and C *)
(* leaves undefined what they do.                                          *)
(*                                                                         *)
(* The inductive invariant has two parts.  The first is what the steps     *)
(* read and write: where pointers lead, that the tree of types, the trees  *)
(* of ids and the nodes share nothing, and who is in the trees.            *)
(***************************************************************************)
Slots == Seq(Handlers \cup {Null})
Node == [m_listeners : Nat, n_listeners : Nat, n_alloc : Nat]

(* The places in bus_event_node_add_handler *)
ArrayPcs == {"first", "first_alloc", "first_count", "full", "double", "realloc", "repoint",
             "count", "store"}
AddPcs == ArrayPcs \cup {"add"}
Pcs == {"index", "new_type", "val", "new_tree", "find", "new_node"} \cup AddPcs

IdleOps == [pc : {"idle"}]
BindOps == [pc : Pcs, for : {"bind"}, event : Event, handler : Handlers, ptr : Nat,
            array : Nat, slot : Nat]
DispatchOps ==
  [pc : {"index", "new_type", "val", "find"}, for : {"dispatch"}, event : Event, ptr : Nat]
Ops == IdleOps \cup BindOps \cup DispatchOps

Firing == {"fire", "slot", "call", "calling"}

Fires ==
  [pc : {"take"}]
  \cup [pc : {"lookup", "delete"}, event : Event]
  \cup [pc : Firing \cup {"delete"}, event : Event, node : Nat \ {0}, i : Nat \ {0},
        array : Nat]

(* The pointer that thread t has got is what the place it is at takes it   *)
(* for.                                                                    *)
PointerFits(t) ==
  /\ op[t].pc \in {"val", "new_tree"} => op[t].ptr \in DOMAIN val
  /\ op[t].pc \in {"find", "new_node"} => op[t].ptr \in DOMAIN trees
  /\ op[t].pc \in AddPcs => op[t].ptr \in DOMAIN nodes

Shapes ==
  /\ DOMAIN typeTree \subseteq Types
  /\ \A ty \in DOMAIN typeTree : typeTree[ty] \in DOMAIN val
  /\ val \in Seq(Nat)
  /\ \A n \in DOMAIN val : val[n] \in DOMAIN trees \cup {Null}
  /\ trees \in Seq(UNION {[I -> Nat] : I \in SUBSET Ids})
  /\ \A t \in DOMAIN trees : \A id \in DOMAIN trees[t] : trees[t][id] \in DOMAIN nodes
  /\ nodes \in Seq(Node)
  /\ arrays \in Seq(Slots)
  /\ freed \subseteq DOMAIN arrays
  /\ queue \in Seq(Event)
  /\ op \in [Threads -> Ops]
  /\ fire \in Fires
  /\ binds \in 0..MaxBinds /\ raised \in 0..MaxEvents
  /\ bound \in [Event -> Seq(Handlers)]
  /\ called \in Seq(Handlers \cup {Null})
  /\ \A t \in Threads : PointerFits(t)
  /\ fire.pc \in Firing => fire.node \in DOMAIN nodes

(* One type leads to a node of the upper tree, one of these to a tree and  *)
(* one entry of a tree to a node of it.                                    *)
NothingShared ==
  /\ \A k, l \in DOMAIN typeTree : typeTree[k] = typeTree[l] => k = l
  /\ \A m, n \in DOMAIN val : val[m] = val[n] /\ val[m] # Null => m = n
  /\ \A s, t \in DOMAIN trees :
       \A i \in DOMAIN trees[s], j \in DOMAIN trees[t] :
         trees[s][i] = trees[t][j] => s = t /\ i = j

(* A thread that is in the trees has called BUS_BIND, main or a handler    *)
(* on the bus thread, or looks an event up that it dispatches.             *)
Matched ==
  /\ op[Main].pc # "idle" => op[Main].for = "bind"
  /\ op[BusThread].pc # "idle" =>
       \/ op[BusThread].for = "bind" /\ fire.pc = "calling"
       \/ op[BusThread].for = "dispatch" /\ fire.pc = "lookup"
  /\ fire.pc = "lookup" =>
       op[BusThread].pc # "idle" /\ op[BusThread].event = fire.event

Sound == Shapes /\ NothingShared /\ Matched

(***************************************************************************)
(* The second is what a thread may rely on because no other is in its way: *)
(* one thread at a time is in the trees, ...                               *)
(***************************************************************************)
OneThread ==
  /\ raised = 0 => queue = <<>> /\ fire.pc = "take"
  /\ op[Main].pc # "idle" => raised = 0

HasTree(e) == e.type \in DOMAIN typeTree /\ val[typeTree[e.type]] # Null
TreeOf(e) == val[typeTree[e.type]]
HasNode(e) == HasTree(e) /\ e.id \in DOMAIN trees[TreeOf(e)]
NodeOf(e) == trees[TreeOf(e)][e.id]

(* ... what a thread has found on its way down the trees is still there    *)
(* (and what it has not found is not), ...                                 *)
OnTheWay(t) ==
  LET e == op[t].event
      p == op[t].ptr
  IN  /\ op[t].pc = "new_type" => e.type \notin DOMAIN typeTree
      /\ op[t].pc \in {"val", "new_tree"} => e.type \in DOMAIN typeTree /\ typeTree[e.type] = p
      /\ op[t].pc = "new_tree" => val[p] = Null
      /\ op[t].pc \in {"find", "new_node"} => HasTree(e) /\ TreeOf(e) = p
      /\ op[t].pc = "new_node" => e.id \notin DOMAIN trees[p]
      /\ op[t].pc \in AddPcs => HasNode(e) /\ NodeOf(e) = p

(* ... an event's node lists what was bound to the event, ... *)
Listed ==
  \A e \in Event :
    IF HasNode(e)
    THEN \A i \in 1..Len(bound[e]) :
           bound[e][i] = arrays[nodes[NodeOf(e)].m_listeners][i]
    ELSE bound[e] = <<>>

(* ... and a dispatch has called the first of these. *)
CalledSoFar ==
  /\ fire.pc = "lookup" => called = <<>>
  /\ fire.pc \in Firing =>
       LET e == fire.event
           k == IF fire.pc = "calling" THEN fire.i ELSE fire.i - 1
       IN  /\ HasNode(e) /\ NodeOf(e) = fire.node
           /\ Len(called) = k
           /\ k <= Len(bound[e])
           /\ \A i \in 1..k : called[i] = bound[e][i]
  /\ fire.pc = "delete" => called = bound[fire.event]

(***************************************************************************)
(* ... and the arrays are in order.  A node counts no more handlers than   *)
(* it has slots for, ...                                                   *)
(***************************************************************************)
Fits(node, arrs) ==
  /\ node.m_listeners \in DOMAIN arrs \cup {Null}
  /\ node.m_listeners = Null => node.n_listeners = 0 /\ node.n_alloc = 0
  /\ node.n_listeners <= node.n_alloc
  /\ node.m_listeners # Null => 1..node.n_listeners \subseteq DOMAIN arrs[node.m_listeners]

(* ... its array is there and has as many slots as it says, unless a       *)
(* thread is about to make it so, ...                                      *)
Ready(node, arrs, gone) ==
  node.m_listeners # Null =>
    /\ node.n_alloc # 0 /\ node.m_listeners \notin gone
    /\ DOMAIN arrs[node.m_listeners] = 1..node.n_alloc

InHand(n) ==
  \E t \in Threads : op[t].pc \in {"first_alloc", "realloc", "repoint"} /\ op[t].ptr = n

(* ... which then has, at each place of bus_event_node_add_handler, what   *)
(* the next statement takes for granted; ...                               *)
Stage(o, nds, arrs, gone) ==
  LET node == nds[o.ptr]
      a == node.m_listeners
  IN  /\ o.pc = "first" => a = Null
      /\ o.pc \in ArrayPcs \ {"first"} => a # Null
      /\ o.pc = "first_alloc" =>
           a \notin gone /\ DOMAIN arrs[a] = 1..InitialSlots /\ node.n_listeners = 0
      /\ o.pc = "first_count" => node.n_listeners = 0
      /\ o.pc = "double" => Full(node)
      /\ o.pc = "realloc" => a \notin gone /\ DOMAIN arrs[a] = 1..node.n_listeners
      /\ o.pc \in {"realloc", "repoint"} =>
           node.n_listeners # 0 /\ node.n_alloc = 2 * node.n_listeners
      /\ o.pc = "repoint" =>
           /\ o.array \in DOMAIN arrs \ gone
           /\ DOMAIN arrs[o.array] = 1..node.n_alloc
           /\ \A n \in DOMAIN nds : nds[n].m_listeners # o.array
           /\ \A i \in 1..node.n_listeners : arrs[o.array][i] = arrs[a][i]
      /\ o.pc = "count" => node.n_listeners < node.n_alloc
      /\ o.pc = "store" => o.array = a /\ o.slot = node.n_listeners /\ o.slot # 0

(* ... an array is the array of one node; every handler that is counted    *)
(* has been bound, but for one that is stored next; ...                    *)
Owned ==
  \A m, n \in DOMAIN nodes :
    nodes[m].m_listeners = nodes[n].m_listeners /\ nodes[n].m_listeners # Null => m = n

Storing(n) == \E t \in Threads : op[t].pc = "store" /\ op[t].ptr = n

Counted ==
  \A e \in Event : HasNode(e) =>
    Len(bound[e]) = IF Storing(NodeOf(e)) THEN nodes[NodeOf(e)].n_listeners - 1
                                          ELSE nodes[NodeOf(e)].n_listeners

(* ... and the slot that the bus thread is about to call is one of its     *)
(* node's array.                                                           *)
SlotTaken ==
  /\ fire.pc \in {"slot", "call"} => fire.i <= nodes[fire.node].n_listeners
  /\ fire.pc = "call" => fire.array = nodes[fire.node].m_listeners

Orderly ==
  /\ misused = FALSE
  /\ \A n \in DOMAIN nodes :
       Fits(nodes[n], arrays) /\ (InHand(n) \/ Ready(nodes[n], arrays, freed))
  /\ \A t \in Threads : Stage(op[t], nodes, arrays, freed)
  /\ Owned
  /\ Counted
  /\ SlotTaken

Undisturbed ==
  /\ OneThread
  /\ \A t \in Threads : OnTheWay(t)
  /\ Listed
  /\ CalledSoFar
  /\ Orderly

------------------------------------------------------------------------------
(* What the steps are made of *)

LEMMA ThreadsApart == Main # BusThread /\ Main \in Threads /\ BusThread \in Threads
BY DEF Main, BusThread, Threads

LEMMA AsSequence ==
  ASSUME NEW S, NEW n \in Nat, NEW s \in [1..n -> S]
  PROVE  s \in Seq(S)
BY SeqDef

LEMMA SlotAt ==
  ASSUME NEW s \in Slots
  PROVE  \A i \in DOMAIN s : s[i] \in Handlers \cup {Null}
BY ElementOfSeq, LenProperties DEF Slots

(* What realloc copies. *)
LEMMA LongerAt ==
  ASSUME NEW s \in Slots, NEW n \in Nat, NEW l, l = Longer(s, n)
  PROVE  /\ l \in Slots /\ DOMAIN l = 1..n
         /\ \A i \in DOMAIN s : i \in 1..n => l[i] = s[i]
<1>1. l \in [1..n -> Handlers \cup {Null}]
  BY SlotAt DEF Longer
<1> QED BY <1>1, AsSequence DEF Longer, Slots

LEMMA AppendAt ==
  ASSUME NEW S, NEW s \in Seq(S), NEW x \in S
  PROVE  /\ Append(s, x) \in Seq(S)
         /\ Len(s) \in Nat /\ DOMAIN s = 1..Len(s) /\ Len(s) + 1 \notin DOMAIN s
         /\ Len(Append(s, x)) = Len(s) + 1
         /\ DOMAIN Append(s, x) = DOMAIN s \cup {Len(s) + 1}
         /\ \A i \in DOMAIN s : Append(s, x)[i] = s[i]
         /\ Append(s, x)[Len(s) + 1] = x
BY AppendProperties, LenProperties

LEMMA ChangeAt ==
  ASSUME NEW S, NEW s \in Seq(S), NEW k \in DOMAIN s, NEW x \in S
  PROVE  /\ [s EXCEPT ![k] = x] \in Seq(S)
         /\ DOMAIN [s EXCEPT ![k] = x] = DOMAIN s
         /\ [s EXCEPT ![k] = x][k] = x
         /\ \A i \in DOMAIN s \ {k} : [s EXCEPT ![k] = x][i] = s[i]
BY ExceptSeq, LenProperties

(* RB_INSERT changes nothing but, perhaps, what key k leads to. *)
LEMMA InsertAt ==
  ASSUME NEW tree, NEW k, NEW n, NEW new, new = Insert(tree, k, n)
  PROVE  /\ DOMAIN new = DOMAIN tree \cup {k}
         /\ \A j \in DOMAIN tree : new[j] = tree[j]
         /\ k \notin DOMAIN tree => new[k] = n
BY DEF Insert

(* The bind or the lookup that a thread is at. *)
LEMMA OpType ==
  ASSUME op \in [Threads -> Ops], NEW t \in Threads, op[t].pc # "idle"
  PROVE  /\ op[t].pc \in Pcs /\ op[t].ptr \in Nat
         /\ op[t].event \in Event /\ op[t].event.type \in Types /\ op[t].event.id \in Ids
         /\ \/ op[t] \in BindOps /\ op[t].for = "bind" /\ op[t].handler \in Handlers
            \/ op[t].for = "dispatch" /\ op[t].pc \in {"index", "new_type", "val", "find"}
<1>1. op[t] \in BindOps \cup DispatchOps
  BY DEF Ops, IdleOps
<1>2. CASE op[t] \in BindOps
  BY <1>2 DEF BindOps, Event
<1>3. CASE op[t] \in DispatchOps
  BY <1>3 DEF DispatchOps, Event, Pcs
<1> QED BY <1>1, <1>2, <1>3

(* Thread t goes on with it. *)
LEMMA AtOps ==
  ASSUME op \in [Threads -> Ops], NEW t \in Threads, op[t].pc # "idle",
         NEW pc \in Pcs, NEW p \in Nat, NEW o, o = At(t, pc, p),
         op[t].for = "dispatch" => pc \in {"index", "new_type", "val", "find"}
  PROVE  /\ o \in [Threads -> Ops]
         /\ o[t].pc = pc /\ o[t].ptr = p
         /\ o[t].for = op[t].for /\ o[t].event = op[t].event
         /\ o[t].for = "bind" => o[t].handler = op[t].handler
         /\ \A s \in Threads \ {t} : o[s] = op[s]
<1>1. PICK r : r = op[t]
  OBVIOUS
<1>2. PICK q : q = [r EXCEPT !.pc = pc, !.ptr = p]
  OBVIOUS
<1>3. o = [op EXCEPT ![t] = q]
  BY <1>1, <1>2 DEF At
<1>4. CASE r \in BindOps
  <2>1. /\ q \in BindOps /\ q.pc = pc /\ q.ptr = p
        /\ q.for = r.for /\ q.event = r.event /\ q.handler = r.handler
    BY <1>2, <1>4 DEF BindOps
  <2> QED BY <1>1, <1>3, <2>1 DEF Ops
<1>5. CASE r \in DispatchOps
  <2>1. /\ q \in DispatchOps /\ q.pc = pc /\ q.ptr = p
        /\ q.for = r.for /\ q.event = r.event /\ r.for = "dispatch"
    BY <1>1, <1>2, <1>5 DEF DispatchOps
  <2> QED BY <1>1, <1>3, <2>1 DEF Ops
<1> QED BY <1>1, <1>4, <1>5 DEF Ops, IdleOps

------------------------------------------------------------------------------
(* The first part, step by step *)

LEMMA InitSound == Init => Sound
<1> SUFFICES ASSUME Init PROVE Sound
  OBVIOUS
<1>1. \A t \in Threads : PointerFits(t)
  BY DEF Init, PointerFits, AddPcs, ArrayPcs
<1>2. op \in [Threads -> Ops] /\ fire \in Fires
  BY DEF Init, Ops, IdleOps, Fires
<1>3. fire.pc \notin Firing
  BY DEF Init, Firing
<1>4. Shapes
  BY <1>1, <1>2, <1>3, BusAssumption DEF Init, Shapes, Slots, Null
<1>5. NothingShared /\ Matched
  BY ThreadsApart DEF Init, NothingShared, Matched
<1> QED BY <1>4, <1>5 DEF Sound

(* What is allocated is numbered from 1; no pointer to it is null. *)
LEMMA Numbered ==
  ASSUME Sound
  PROVE  /\ DOMAIN val \subseteq Nat \ {Null} /\ DOMAIN trees \subseteq Nat \ {Null}
         /\ DOMAIN nodes \subseteq Nat \ {Null} /\ DOMAIN arrays \subseteq Nat \ {Null}
         /\ \A n \in DOMAIN val : val[n] \in Nat
<1>1. DOMAIN val \subseteq Nat \ {Null} /\ \A n \in DOMAIN val : val[n] \in Nat
  BY LenProperties DEF Sound, Shapes, Null
<1>2. DOMAIN trees \subseteq Nat \ {Null}
  BY LenProperties DEF Sound, Shapes, Null
<1>3. DOMAIN nodes \subseteq Nat \ {Null}
  BY LenProperties, SMTT(60) DEF Sound, Shapes, Null
<1>4. DOMAIN arrays \subseteq Nat \ {Null}
  BY LenProperties DEF Sound, Shapes, Null
<1> QED BY <1>1, <1>2, <1>3, <1>4

(* A thread that only goes on. *)
LEMMA MovesSound ==
  ASSUME Sound, NEW t \in Threads, op[t].pc # "idle",
         NEW pc \in Pcs, NEW p \in Nat, op' = At(t, pc, p),
         op[t].for = "dispatch" => pc \in {"index", "new_type", "val", "find"},
         pc \in {"val", "new_tree"} => p \in DOMAIN val,
         pc \in {"find", "new_node"} => p \in DOMAIN trees,
         pc \in AddPcs => p \in DOMAIN nodes,
         UNCHANGED <<registry, misused, queue, fire, history, called>>
  PROVE  Sound'
<1> USE DEF Sound
<1>1. op \in [Threads -> Ops] /\ \A s \in Threads : PointerFits(s)
  BY DEF Shapes
<1>2. /\ op' \in [Threads -> Ops]
      /\ op'[t].pc = pc /\ op'[t].ptr = p
      /\ op'[t].for = op[t].for /\ op'[t].event = op[t].event
      /\ \A s \in Threads \ {t} : op'[s] = op[s]
  BY <1>1, AtOps
<1>3. UNCHANGED <<typeTree, val, trees, nodes, arrays, freed, misused, queue, fire, binds,
                  raised, bound, called>>
  BY DEF registry, history
<1>4. \A s \in Threads : PointerFits(s)'
  BY <1>1, <1>2, <1>3 DEF PointerFits
<1>5. Shapes'
  BY <1>2, <1>3, <1>4 DEF Shapes
<1>6. Matched'
  BY <1>2, <1>3, ThreadsApart DEF Matched
<1> QED BY <1>3, <1>5, <1>6 DEF NothingShared

LEMMA FindTypeSound ==
  ASSUME Sound, NEW t \in Threads, FindType(t)
  PROVE  Sound'
<1>1. CASE op[t].event.type \in DOMAIN typeTree
  <2>1. typeTree[op[t].event.type] \in DOMAIN val /\ typeTree[op[t].event.type] \in Nat
    BY <1>1, Numbered DEF Sound, Shapes
  <2> QED BY <1>1, <2>1, MovesSound DEF FindType, Pcs, AddPcs, ArrayPcs
<1>2. CASE op[t].event.type \notin DOMAIN typeTree
  BY <1>2, MovesSound DEF FindType, Pcs, AddPcs, ArrayPcs, Null
<1> QED BY <1>1, <1>2

LEMMA BindTreeSound ==
  ASSUME Sound, NEW t \in Threads, BindTree(t)
  PROVE  Sound'
<1>1. /\ op[t].pc = "val" /\ op[t].for = "bind" /\ op[t].ptr \in DOMAIN val
      /\ DOMAIN val \subseteq Nat /\ val[op[t].ptr] \in Nat
      /\ val[op[t].ptr] \in DOMAIN trees \cup {Null}
  BY Numbered DEF BindTree, Is, Sound, Shapes, PointerFits
<1>2. CASE val[op[t].ptr] # Null
  BY <1>1, <1>2, MovesSound DEF BindTree, Pcs, AddPcs, ArrayPcs
<1>3. CASE val[op[t].ptr] = Null
  BY <1>1, <1>3, MovesSound DEF BindTree, Pcs, AddPcs, ArrayPcs
<1> QED BY <1>2, <1>3

LEMMA BindNodeSound ==
  ASSUME Sound, NEW t \in Threads, BindNode(t)
  PROVE  Sound'
<1>1. /\ op[t].pc = "find" /\ op[t].for = "bind" /\ op[t].ptr \in DOMAIN trees
      /\ DOMAIN trees \subseteq Nat /\ DOMAIN nodes \subseteq Nat
  BY Numbered DEF BindNode, Is, Sound, Shapes, PointerFits
<1>2. CASE op[t].event.id \in DOMAIN trees[op[t].ptr]
  <2>1. trees[op[t].ptr][op[t].event.id] \in DOMAIN nodes
    BY <1>1, <1>2 DEF Sound, Shapes
  <2> QED BY <1>1, <1>2, <2>1, MovesSound DEF BindNode, Pcs, AddPcs, ArrayPcs
<1>3. CASE op[t].event.id \notin DOMAIN trees[op[t].ptr]
  BY <1>1, <1>3, MovesSound DEF BindNode, Pcs, AddPcs, ArrayPcs
<1> QED BY <1>2, <1>3

------------------------------------------------------------------------------
(* What the second part says of a step *)

LEMMA EventsApart ==
  ASSUME Sound, NEW e \in Event, NEW f \in Event
  PROVE  /\ HasTree(e) => TreeOf(e) \in DOMAIN trees
         /\ HasTree(e) /\ HasTree(f) /\ TreeOf(e) = TreeOf(f) => e.type = f.type
         /\ HasNode(e) => NodeOf(e) \in DOMAIN nodes
         /\ HasNode(e) /\ HasNode(f) /\ NodeOf(e) = NodeOf(f) => e = f
<1>1. /\ HasTree(e) => TreeOf(e) \in DOMAIN trees
      /\ HasTree(f) => TreeOf(f) \in DOMAIN trees
  BY DEF Sound, Shapes, HasTree, TreeOf
<1>2. HasTree(e) /\ HasTree(f) /\ TreeOf(e) = TreeOf(f) => e.type = f.type
  BY DEF Sound, Shapes, NothingShared, HasTree, TreeOf
<1>3. HasNode(e) => NodeOf(e) \in DOMAIN nodes
  BY <1>1 DEF Sound, Shapes, HasNode, NodeOf
<1>4. HasNode(e) /\ HasNode(f) /\ NodeOf(e) = NodeOf(f) => TreeOf(e) = TreeOf(f) /\ e.id = f.id
  BY <1>1 DEF Sound, NothingShared, HasNode, NodeOf
<1>5. e.type = f.type /\ e.id = f.id => e = f
  BY DEF Event
<1> QED BY <1>1, <1>2, <1>3, <1>4, <1>5 DEF HasNode

(* While t is in the trees the other thread is not. *)
LEMMA OthersIdle ==
  ASSUME Sound, OneThread, NEW t \in Threads, op[t].pc # "idle",
         \A s \in Threads \ {t} : op'[s] = op[s],
         UNCHANGED <<queue, fire, raised>>
  PROVE  OneThread' /\ \A s \in Threads \ {t} : OnTheWay(s)'
<1>1. \A s \in Threads \ {t} : op'[s].pc = "idle"
  BY ThreadsApart DEF Sound, Matched, OneThread, Threads
<1>2. \A s \in Threads \ {t} : OnTheWay(s)'
  BY <1>1 DEF OnTheWay, AddPcs, ArrayPcs
<1>3. OneThread'
  BY ThreadsApart DEF OneThread
<1> QED BY <1>2, <1>3

LEMMA NotFiring ==
  ASSUME Sound, OneThread, NEW t \in Threads, op[t].pc # "idle"
  PROVE  fire.pc \in {"take", "lookup", "calling"}
BY ThreadsApart DEF Sound, Matched, OneThread, Threads

(* A place that is not in bus_event_node_add_handler asks nothing of the   *)
(* array.                                                                  *)
LEMMA OtherStage ==
  ASSUME NEW o, o.pc \notin ArrayPcs, NEW nds, NEW arrs, NEW gone
  PROVE  Stage(o, nds, arrs, gone)
BY DEF Stage, ArrayPcs

(* A step that leaves the nodes and the arrays as they are, of a thread    *)
(* that is not in bus_event_node_add_handler. *)
LEMMA OrderKept ==
  ASSUME Orderly, NEW t \in Threads, \A s \in Threads \ {t} : op'[s] = op[s],
         op[t].pc \notin ArrayPcs, op'[t].pc \notin ArrayPcs,
         UNCHANGED <<nodes, arrays, freed, misused, bound>>,
         \A e \in Event : HasNode(e)' => HasNode(e) /\ NodeOf(e)' = NodeOf(e),
         SlotTaken'
  PROVE  Orderly'
<1>1. \A n : (InHand(n) => InHand(n)') /\ (Storing(n)' <=> Storing(n))
  BY DEF InHand, Storing, ArrayPcs
<1>2. \A s \in Threads : Stage(op[s], nodes, arrays, freed)'
  <2> TAKE s \in Threads
  <2>1. CASE s = t
    BY <2>1, OtherStage
  <2>2. CASE s # t
    BY <2>2 DEF Orderly
  <2> QED BY <2>1, <2>2
<1>3. Counted'
  BY <1>1 DEF Orderly, Counted
<1>4. Owned'
  BY DEF Orderly, Owned
<1> QED BY <1>1, <1>2, <1>3, <1>4 DEF Orderly

(* A thread that binds leaves what the dispatch has done as it was. *)
LEMMA CalledKept ==
  ASSUME Sound, OneThread, CalledSoFar, NEW t \in Threads, op[t].pc # "idle",
         UNCHANGED <<fire, called>>,
         \A e \in Event : HasNode(e) => HasNode(e)' /\ NodeOf(e)' = NodeOf(e),
         \A e \in Event : /\ Len(bound'[e]) \in Nat /\ Len(bound'[e]) >= Len(bound[e])
                         /\ \A i \in 1..Len(bound[e]) : bound'[e][i] = bound[e][i]
  PROVE  CalledSoFar'
<1>1. fire.pc \in {"take", "lookup", "calling"}
  BY NotFiring
<1>2. CASE fire.pc = "calling"
  <2>1. fire.event \in Event /\ fire.i \in Nat
    BY <1>2 DEF Sound, Shapes, Fires
  <2>2. Len(bound[fire.event]) \in Nat
    BY <2>1, LenProperties DEF Sound, Shapes
  <2> QED BY <1>2, <2>1, <2>2, SMTT(60) DEF CalledSoFar, Firing
<1> QED BY <1>1, <1>2 DEF CalledSoFar, Firing

(* A thread that only goes on, and knows what it has found. *)
LEMMA MovesUndisturbed ==
  ASSUME Sound, Undisturbed, NEW t \in Threads, op[t].pc # "idle",
         op[t].pc \notin ArrayPcs, NEW pc \in Pcs \ ArrayPcs, NEW p \in Nat, op' = At(t, pc, p),
         op[t].for = "dispatch" => pc \in {"index", "new_type", "val", "find"},
         UNCHANGED <<registry, misused, queue, fire, history, called>>,
         LET e == op[t].event
         IN  /\ pc = "new_type" => e.type \notin DOMAIN typeTree
             /\ pc \in {"val", "new_tree"} => e.type \in DOMAIN typeTree /\ typeTree[e.type] = p
             /\ pc = "new_tree" => val[p] = Null
             /\ pc \in {"find", "new_node"} => HasTree(e) /\ TreeOf(e) = p
             /\ pc = "new_node" => e.id \notin DOMAIN trees[p]
             /\ pc = "add" => HasNode(e) /\ NodeOf(e) = p
  PROVE  Undisturbed'
<1>1. op \in [Threads -> Ops]
  BY DEF Sound, Shapes
<1>2. /\ op' \in [Threads -> Ops]
      /\ op'[t].pc = pc /\ op'[t].ptr = p /\ op'[t].event = op[t].event
      /\ \A s \in Threads \ {t} : op'[s] = op[s]
  BY <1>1, AtOps
<1>3. UNCHANGED <<typeTree, val, trees, nodes, arrays, freed, misused, queue, fire, raised,
                  bound, called>>
  BY DEF registry, history
<1>4. OneThread' /\ \A s \in Threads \ {t} : OnTheWay(s)'
  BY <1>2, <1>3, OthersIdle DEF Undisturbed
<1>5. \A e : /\ HasTree(e)' <=> HasTree(e)
             /\ TreeOf(e)' = TreeOf(e)
             /\ HasNode(e)' <=> HasNode(e)
             /\ NodeOf(e)' = NodeOf(e)
  BY <1>3 DEF HasTree, TreeOf, HasNode, NodeOf
<1>6. OnTheWay(t)'
  BY <1>2, <1>3, <1>5 DEF OnTheWay, AddPcs
<1>7. Listed'
  BY <1>3, <1>5 DEF Undisturbed, Listed
<1>8. CalledSoFar'
  BY <1>3, <1>5 DEF Undisturbed, CalledSoFar
<1>9. SlotTaken'
  BY <1>3 DEF Undisturbed, Orderly, SlotTaken
<1>10. Orderly'
  BY <1>2, <1>3, <1>5, <1>9, OrderKept DEF Undisturbed
<1> QED BY <1>4, <1>6, <1>7, <1>8, <1>10 DEF Undisturbed

LEMMA FindTypeUndisturbed ==
  ASSUME Sound, Undisturbed, NEW t \in Threads, FindType(t)
  PROVE  Undisturbed'
<1>1. CASE op[t].event.type \in DOMAIN typeTree
  <2>1. typeTree[op[t].event.type] \in Nat
    BY <1>1, Numbered DEF Sound, Shapes
  <2> QED BY <1>1, <2>1, MovesUndisturbed DEF FindType, Pcs, AddPcs, ArrayPcs
<1>2. CASE op[t].event.type \notin DOMAIN typeTree
  BY <1>2, MovesUndisturbed DEF FindType, Pcs, AddPcs, ArrayPcs, Null
<1> QED BY <1>1, <1>2

LEMMA BindTreeUndisturbed ==
  ASSUME Sound, Undisturbed, NEW t \in Threads, BindTree(t)
  PROVE  Undisturbed'
<1> DEFINE e == op[t].event
           p == op[t].ptr
<1>1. /\ op[t].pc = "val" /\ op[t].for = "bind" /\ p \in Nat /\ val[p] \in Nat
      /\ e.type \in DOMAIN typeTree /\ typeTree[e.type] = p
      /\ UNCHANGED <<registry, misused, queue, fire, history, called>>
  BY Numbered DEF BindTree, Is, Sound, Shapes, PointerFits, Undisturbed, OnTheWay
<1>2. CASE val[p] # Null
  <2>1. op' = At(t, "find", val[p])
    BY <1>2 DEF BindTree
  <2> QED BY <1>1, <1>2, <2>1, MovesUndisturbed DEF Pcs, AddPcs, ArrayPcs, HasTree, TreeOf
<1>3. CASE val[p] = Null
  <2>1. op' = At(t, "new_tree", p)
    BY <1>3 DEF BindTree
  <2> QED BY <1>1, <1>3, <2>1, MovesUndisturbed DEF Pcs, AddPcs, ArrayPcs
<1> QED BY <1>2, <1>3

LEMMA BindNodeUndisturbed ==
  ASSUME Sound, Undisturbed, NEW t \in Threads, BindNode(t)
  PROVE  Undisturbed'
<1> DEFINE e == op[t].event
           p == op[t].ptr
<1>1. /\ op[t].pc = "find" /\ op[t].for = "bind" /\ p \in DOMAIN trees /\ p \in Nat
      /\ HasTree(e) /\ TreeOf(e) = p
      /\ UNCHANGED <<registry, misused, queue, fire, history, called>>
  BY Numbered DEF BindNode, Is, Sound, Shapes, PointerFits, Undisturbed, OnTheWay
<1>2. CASE e.id \in DOMAIN trees[p]
  <2>1. op' = At(t, "add", trees[p][e.id]) /\ trees[p][e.id] \in Nat
    BY <1>1, <1>2, Numbered DEF BindNode, Sound, Shapes
  <2> QED BY <1>1, <1>2, <2>1, MovesUndisturbed DEF Pcs, AddPcs, ArrayPcs, HasNode, NodeOf
<1>3. CASE e.id \notin DOMAIN trees[p]
  <2>1. op' = At(t, "new_node", p)
    BY <1>3 DEF BindNode
  <2> QED BY <1>1, <1>3, <2>1, MovesUndisturbed DEF Pcs, AddPcs, ArrayPcs
<1> QED BY <1>2, <1>3

LEMMA NewTypeStep ==
  ASSUME Sound, NEW t \in Threads, NewType(t)
  PROVE  Sound' /\ (Undisturbed => Undisturbed')
<1> USE DEF Sound
<1> DEFINE n == Len(val) + 1
<1>1. /\ op \in [Threads -> Ops] /\ op[t].pc = "new_type" /\ op[t].event.type \in Types
      /\ \A s \in Threads : PointerFits(s)
  BY OpType DEF NewType, Shapes
<1>2. /\ val' \in Seq(Nat) /\ Len(val) \in Nat /\ n \notin DOMAIN val
      /\ DOMAIN val' = DOMAIN val \cup {n} /\ val'[n] = Null
      /\ \A i \in DOMAIN val : val'[i] = val[i]
  BY AppendAt, SMTT(60) DEF NewType, Shapes, Null
<1>3. /\ op' \in [Threads -> Ops]
      /\ op'[t].pc = "val" /\ op'[t].ptr = n
      /\ op'[t].for = op[t].for /\ op'[t].event = op[t].event
      /\ \A s \in Threads \ {t} : op'[s] = op[s]
  BY <1>1, <1>2, AtOps DEF NewType, Pcs
<1>4. UNCHANGED <<trees, nodes, arrays, freed, misused, queue, fire, binds, raised, bound,
                  called>>
  BY DEF NewType, history
<1>5. /\ DOMAIN typeTree' = DOMAIN typeTree \cup {op[t].event.type}
      /\ \A ty \in DOMAIN typeTree : typeTree'[ty] = typeTree[ty]
      /\ \A ty \in DOMAIN typeTree' \ DOMAIN typeTree : typeTree'[ty] = n
  BY DEF NewType, Insert
<1> HIDE DEF n
<1>6. \A s \in Threads : PointerFits(s)'
  BY <1>1, <1>2, <1>3, <1>4 DEF PointerFits, AddPcs, ArrayPcs
<1>7. Shapes'
  <2>1. /\ DOMAIN typeTree' \subseteq Types
        /\ \A ty \in DOMAIN typeTree' : typeTree'[ty] \in DOMAIN val'
        /\ \A m \in DOMAIN val' : val'[m] \in DOMAIN trees \cup {Null}
    BY <1>1, <1>2, <1>5 DEF Shapes
  <2> QED BY <1>2, <1>3, <1>4, <1>6, <2>1 DEF Shapes
<1>8. NothingShared'
  <2>1. \A k, l \in DOMAIN typeTree' : typeTree'[k] = typeTree'[l] => k = l
    BY <1>2, <1>5 DEF NothingShared, Shapes
  <2>2. \A m, l \in DOMAIN val' : val'[m] = val'[l] /\ val'[m] # Null => m = l
    BY <1>2 DEF NothingShared
  <2> QED BY <1>4, <2>1, <2>2 DEF NothingShared
<1>9. Matched'
  BY <1>1, <1>3, <1>4, ThreadsApart DEF Matched
<1>10. Sound'
  BY <1>7, <1>8, <1>9
<1>11. ASSUME Undisturbed PROVE Undisturbed'
  <2>1. op[t].event.type \notin DOMAIN typeTree
    BY <1>1, <1>11 DEF Undisturbed, OnTheWay
  <2>2. \A e : /\ HasTree(e)' <=> HasTree(e)
               /\ HasTree(e) => TreeOf(e)' = TreeOf(e)
    BY <1>2, <1>5, <2>1 DEF HasTree, TreeOf, Shapes
  <2>3. \A e : /\ HasNode(e)' <=> HasNode(e)
               /\ HasNode(e) => NodeOf(e)' = NodeOf(e)
    BY <1>4, <2>2 DEF HasNode, NodeOf
  <2>4. OneThread' /\ \A s \in Threads \ {t} : OnTheWay(s)'
    BY <1>1, <1>3, <1>4, <1>11, OthersIdle DEF Undisturbed
  <2>5. OnTheWay(t)'
    BY <1>3, <1>5, <2>1 DEF OnTheWay, AddPcs, ArrayPcs
  <2>6. Listed'
    BY <1>4, <1>11, <2>3 DEF Undisturbed, Listed
  <2>7. CalledSoFar'
    BY <1>4, <1>11, <2>3 DEF Undisturbed, CalledSoFar
  <2>8. SlotTaken'
    BY <1>4, <1>11 DEF Undisturbed, Orderly, SlotTaken
  <2>9. op[t].pc \notin ArrayPcs /\ op'[t].pc \notin ArrayPcs
    BY <1>1, <1>3 DEF ArrayPcs
  <2>10. Orderly'
    BY <1>3, <1>4, <1>11, <2>3, <2>8, <2>9, OrderKept DEF Undisturbed
  <2> QED BY <2>4, <2>5, <2>6, <2>7, <2>10 DEF Undisturbed
<1> QED BY <1>10, <1>11

LEMMA NewTreeStep ==
  ASSUME Sound, NEW t \in Threads, NewTree(t)
  PROVE  Sound' /\ (Undisturbed => Undisturbed')
<1> USE DEF Sound
<1> DEFINE n == Len(trees) + 1
           p == op[t].ptr
<1>1. /\ op \in [Threads -> Ops] /\ op[t].pc = "new_tree" /\ p \in DOMAIN val /\ p \in Nat
      /\ \A s \in Threads : PointerFits(s)
  BY OpType DEF NewTree, Shapes, PointerFits
<1>2. /\ trees' \in Seq(UNION {[I -> Nat] : I \in SUBSET Ids})
      /\ Len(trees) \in Nat /\ n \notin DOMAIN trees /\ n # Null
      /\ DOMAIN trees' = DOMAIN trees \cup {n} /\ trees'[n] = <<>>
      /\ \A i \in DOMAIN trees : trees'[i] = trees[i]
  <2> DEFINE Tree == UNION {[I -> Nat] : I \in SUBSET Ids}
  <2>1. <<>> \in Tree
    BY <<>> \in [{} -> Nat]
  <2>2. trees \in Seq(Tree) /\ trees' = Append(trees, <<>>)
    BY DEF NewTree, Shapes
  <2> HIDE DEF Tree
  <2>3. /\ trees' \in Seq(Tree) /\ Len(trees) \in Nat /\ n \notin DOMAIN trees
        /\ DOMAIN trees' = DOMAIN trees \cup {n} /\ trees'[n] = <<>>
        /\ \A i \in DOMAIN trees : trees'[i] = trees[i]
    BY <2>1, <2>2, AppendAt
  <2> QED BY <2>3 DEF Tree, Null
<1>3. /\ val' \in Seq(Nat) /\ DOMAIN val' = DOMAIN val /\ val'[p] = n
      /\ \A i \in DOMAIN val \ {p} : val'[i] = val[i]
  BY <1>1, <1>2, ChangeAt DEF NewTree, Shapes
<1>4. /\ op' \in [Threads -> Ops]
      /\ op'[t].pc = "val" /\ op'[t].ptr = p
      /\ op'[t].for = op[t].for /\ op'[t].event = op[t].event
      /\ \A s \in Threads \ {t} : op'[s] = op[s]
  BY <1>1, AtOps DEF NewTree, Pcs
<1>5. UNCHANGED <<typeTree, nodes, arrays, freed, misused, queue, fire, binds, raised, bound,
                  called>>
  BY DEF NewTree, history
<1>6. DOMAIN trees'[n] = {}
  BY <1>2
<1> HIDE DEF n, p
<1>7. \A s \in Threads : PointerFits(s)'
  BY <1>1, <1>2, <1>3, <1>4, <1>5 DEF PointerFits, AddPcs, ArrayPcs
<1>8. Shapes'
  <2>1. /\ \A m \in DOMAIN val' : val'[m] \in DOMAIN trees' \cup {Null}
        /\ \A u \in DOMAIN trees' : \A id \in DOMAIN trees'[u] : trees'[u][id] \in DOMAIN nodes
    BY <1>1, <1>2, <1>3, <1>6 DEF Shapes
  <2> QED BY <1>2, <1>3, <1>4, <1>5, <1>7, <2>1 DEF Shapes
<1>9. NothingShared'
  <2>1. \A m, l \in DOMAIN val' : val'[m] = val'[l] /\ val'[m] # Null => m = l
    BY <1>1, <1>2, <1>3 DEF NothingShared, Shapes
  <2>2. \A s, u \in DOMAIN trees' :
          \A i \in DOMAIN trees'[s], j \in DOMAIN trees'[u] :
            trees'[s][i] = trees'[u][j] => s = u /\ i = j
    BY <1>2, <1>6 DEF NothingShared
  <2> QED BY <1>5, <2>1, <2>2 DEF NothingShared
<1>10. Matched'
  BY <1>1, <1>4, <1>5, ThreadsApart DEF Matched
<1>11. Sound'
  BY <1>8, <1>9, <1>10
<1>12. ASSUME Undisturbed PROVE Undisturbed'
  <2>1. /\ op[t].event.type \in DOMAIN typeTree /\ typeTree[op[t].event.type] = p
        /\ val[p] = Null
    BY <1>1, <1>12 DEF Undisturbed, OnTheWay, p
  <2>2. \A e : e.type \in DOMAIN typeTree /\ typeTree[e.type] = p => ~HasNode(e) /\ ~HasNode(e)'
    BY <1>3, <1>5, <1>6, <2>1 DEF HasNode, HasTree, TreeOf
  <2>3. \A e : e.type \in DOMAIN typeTree /\ typeTree[e.type] # p =>
          /\ HasTree(e)' <=> HasTree(e)
          /\ HasTree(e) => TreeOf(e)' = TreeOf(e) /\ TreeOf(e) \in DOMAIN trees
    BY <1>3, <1>5 DEF HasTree, TreeOf, Shapes
  <2>4. \A e : /\ HasNode(e)' <=> HasNode(e)
               /\ HasNode(e) => NodeOf(e)' = NodeOf(e)
    BY <1>2, <1>5, <2>2, <2>3 DEF HasNode, NodeOf, HasTree
  <2>5. OneThread' /\ \A s \in Threads \ {t} : OnTheWay(s)'
    BY <1>1, <1>4, <1>5, <1>12, OthersIdle DEF Undisturbed
  <2>6. OnTheWay(t)'
    BY <1>4, <1>5, <2>1 DEF OnTheWay, AddPcs, ArrayPcs
  <2>7. Listed'
    BY <1>5, <1>12, <2>4 DEF Undisturbed, Listed
  <2>8. CalledSoFar'
    BY <1>5, <1>12, <2>4 DEF Undisturbed, CalledSoFar
  <2>9. SlotTaken'
    BY <1>5, <1>12 DEF Undisturbed, Orderly, SlotTaken
  <2>10. op[t].pc \notin ArrayPcs /\ op'[t].pc \notin ArrayPcs
    BY <1>1, <1>4 DEF ArrayPcs
  <2>11. Orderly'
    BY <1>4, <1>5, <1>12, <2>4, <2>9, <2>10, OrderKept DEF Undisturbed
  <2> QED BY <2>5, <2>6, <2>7, <2>8, <2>11 DEF Undisturbed
<1> QED BY <1>11, <1>12

LEMMA NewNodeStep ==
  ASSUME Sound, NEW t \in Threads, NewNode(t)
  PROVE  Sound' /\ (Undisturbed => Undisturbed')
<1> USE DEF Sound
<1> DEFINE n == Len(nodes) + 1
           p == op[t].ptr
           id == op[t].event.id
           Tree == UNION {[I -> Nat] : I \in SUBSET Ids}
<1>1. /\ op \in [Threads -> Ops] /\ op[t].pc = "new_node" /\ p \in DOMAIN trees
      /\ id \in Ids /\ op[t].for = "bind"
      /\ \A s \in Threads : PointerFits(s)
  BY OpType DEF NewNode, Shapes, PointerFits
<1>2. /\ nodes' \in Seq(Node) /\ n \in Nat /\ n \notin DOMAIN nodes
      /\ DOMAIN nodes' = DOMAIN nodes \cup {n} /\ nodes'[n] = NewNodeRec
      /\ \A i \in DOMAIN nodes : nodes'[i] = nodes[i]
  <2>1. NewNodeRec \in Node
    BY DEF NewNodeRec, Node, Null
  <2>2. nodes \in Seq(Node) /\ nodes' = Append(nodes, NewNodeRec)
    BY DEF NewNode, Shapes
  <2> QED BY <2>1, <2>2, AppendAt, SMTT(60)
<1>3. PICK new : new = Insert(trees[p], id, n)
  OBVIOUS
<1>4. /\ DOMAIN new = DOMAIN trees[p] \cup {id}
      /\ \A j \in DOMAIN trees[p] : new[j] = trees[p][j]
      /\ \A j \in DOMAIN new \ DOMAIN trees[p] : j = id /\ new[j] = n
  BY <1>3 DEF Insert
<1>5. /\ trees' \in Seq(Tree) /\ DOMAIN trees' = DOMAIN trees /\ trees'[p] = new
      /\ \A i \in DOMAIN trees \ {p} : trees'[i] = trees[i]
  <2>1. PICK I \in SUBSET Ids : trees[p] \in [I -> Nat]
    <3>1. trees[p] \in Tree
      BY <1>1, ElementOfSeq, LenProperties DEF Shapes
    <3> QED BY <3>1
  <2>2. new \in [I \cup {id} -> Nat]
    BY <1>2, <1>3, <2>1 DEF Insert
  <2>3. new \in Tree
    BY <1>1, <2>2
  <2>4. trees \in Seq(Tree) /\ trees' = [trees EXCEPT ![p] = new]
    BY <1>3 DEF NewNode, Shapes
  <2> QED BY <1>1, <2>3, <2>4, ChangeAt
<1>6. /\ op' \in [Threads -> Ops]
      /\ op'[t].pc = "add" /\ op'[t].ptr = n
      /\ op'[t].for = op[t].for /\ op'[t].event = op[t].event
      /\ \A s \in Threads \ {t} : op'[s] = op[s]
  <2>1. op' = At(t, "add", n) /\ "add" \in Pcs /\ op[t].pc # "idle" /\ n \in Nat
    BY <1>1, <1>2 DEF NewNode, Pcs, AddPcs
  <2> HIDE DEF n
  <2> QED BY <1>1, <2>1, AtOps
<1>7. UNCHANGED <<typeTree, val, arrays, freed, misused, queue, fire, binds, raised, bound,
                  called>>
  BY DEF NewNode, history
<1> HIDE DEF n, p, id
<1>8. \A s \in Threads : PointerFits(s)'
  BY <1>1, <1>2, <1>5, <1>6, <1>7 DEF PointerFits
<1>9. Shapes'
  <2>1. \A u \in DOMAIN trees' : \A j \in DOMAIN trees'[u] : trees'[u][j] \in DOMAIN nodes'
    BY <1>1, <1>2, <1>4, <1>5 DEF Shapes
  <2>2. \A m \in DOMAIN val' : val'[m] \in DOMAIN trees' \cup {Null}
    BY <1>5, <1>7 DEF Shapes
  <2>3. fire'.pc \in Firing => fire'.node \in DOMAIN nodes'
    BY <1>2, <1>7 DEF Shapes
  <2> QED BY <1>2, <1>5, <1>6, <1>7, <1>8, <2>1, <2>2, <2>3 DEF Shapes
<1>11. NothingShared'
  <2>1. \A s, u \in DOMAIN trees' :
          \A i \in DOMAIN trees'[s], j \in DOMAIN trees'[u] :
            trees'[s][i] = trees'[u][j] => s = u /\ i = j
    <3>1. \A s \in DOMAIN trees' : \A i \in DOMAIN trees'[s] :
            \/ i \in DOMAIN trees[s] /\ trees'[s][i] = trees[s][i] /\ trees[s][i] \in DOMAIN nodes
            \/ s = p /\ i = id /\ trees'[s][i] = n
      BY <1>1, <1>4, <1>5 DEF Shapes
    <3>2. n \notin DOMAIN nodes
      BY <1>2
    <3> TAKE s, u \in DOMAIN trees'
    <3> TAKE i \in DOMAIN trees'[s], j \in DOMAIN trees'[u]
    <3> HAVE trees'[s][i] = trees'[u][j]
    <3>3. CASE s = p /\ i = id /\ trees'[s][i] = n
      BY <3>1, <3>2, <3>3
    <3>4. CASE u = p /\ j = id /\ trees'[u][j] = n
      BY <3>1, <3>2, <3>4
    <3>5. CASE /\ i \in DOMAIN trees[s] /\ trees'[s][i] = trees[s][i]
               /\ j \in DOMAIN trees[u] /\ trees'[u][j] = trees[u][j]
      <4>1. trees[s][i] = trees[u][j] /\ s \in DOMAIN trees /\ u \in DOMAIN trees
        BY <1>5, <3>5
      <4> QED BY <3>5, <4>1 DEF NothingShared
    <3> QED BY <3>1, <3>3, <3>4, <3>5
  <2> QED BY <1>7, <2>1 DEF NothingShared
<1>12. Matched'
  BY <1>1, <1>6, <1>7, ThreadsApart DEF Matched
<1>13. Sound'
  BY <1>9, <1>11, <1>12
<1>14. ASSUME Undisturbed PROVE Undisturbed'
  <2> PICK f : f = op[t].event
    OBVIOUS
  <2>1. f \in Event /\ f.id = id /\ HasTree(f) /\ TreeOf(f) = p /\ ~HasNode(f)
    BY <1>1, <1>14, OpType DEF Undisturbed, OnTheWay, HasNode, p, id
  <2>2. \A e : /\ HasTree(e)' <=> HasTree(e)
               /\ TreeOf(e)' = TreeOf(e)
    BY <1>7 DEF HasTree, TreeOf
  <2>3. HasNode(f)' /\ NodeOf(f)' = n
    BY <1>4, <1>5, <2>1, <2>2 DEF HasNode, NodeOf
  <2>4. ASSUME NEW e \in Event \ {f}
        PROVE  (HasNode(e)' <=> HasNode(e)) /\ (HasNode(e) => NodeOf(e)' = NodeOf(e))
    <3>1. CASE HasTree(e) /\ TreeOf(e) = p
      <4>1. e.type = f.type /\ e.id # id
        BY <2>1, <3>1, EventsApart DEF Event
      <4> QED BY <1>4, <1>5, <2>2, <3>1, <4>1 DEF HasNode, NodeOf
    <3>2. CASE ~(HasTree(e) /\ TreeOf(e) = p)
      BY <1>5, <2>2, <3>2, EventsApart DEF HasNode, NodeOf
    <3> QED BY <3>1, <3>2
  <2>5. \A e \in Event : HasNode(e) => HasNode(e)' /\ NodeOf(e)' = NodeOf(e) /\ e # f
    BY <2>1, <2>4
  <2>6. OneThread' /\ \A s \in Threads \ {t} : OnTheWay(s)'
    BY <1>1, <1>6, <1>7, <1>14, OthersIdle DEF Undisturbed
  <2>7. OnTheWay(t)'
    BY <1>6, <2>3 DEF OnTheWay, AddPcs, ArrayPcs
  <2>8. Listed'
    <3>1. bound'[f] = <<>>
      BY <1>7, <1>14, <2>1 DEF Undisturbed, Listed
    <3>2. \A e \in Event \ {f} : HasNode(e) => nodes'[NodeOf(e)] = nodes[NodeOf(e)]
      BY <1>2, EventsApart
    <3>3. Len(bound'[f]) = 0 /\ 1..0 = {}
      BY <3>1
    <3> SUFFICES ASSUME NEW e \in Event
                 PROVE  IF HasNode(e)'
                        THEN \A i \in 1..Len(bound'[e]) :
                               bound'[e][i] = arrays'[nodes'[NodeOf(e)'].m_listeners][i]
                        ELSE bound'[e] = <<>>
      BY DEF Listed
    <3>4. CASE e = f
      BY <2>3, <3>3, <3>4
    <3>5. CASE e # f
      BY <1>7, <1>14, <2>4, <3>2, <3>5 DEF Undisturbed, Listed
    <3> QED BY <3>4, <3>5
  <2>9. CalledSoFar'
    <3>1. \A e \in Event : Len(bound'[e]) \in Nat
      BY <1>7, LenProperties DEF Shapes
    <3> QED BY <1>1, <1>7, <1>14, <2>5, <3>1, CalledKept DEF Undisturbed
  <2>10. Orderly'
    <3>1. /\ misused = FALSE /\ Owned /\ Counted /\ SlotTaken
          /\ \A q \in DOMAIN nodes :
               Fits(nodes[q], arrays) /\ (InHand(q) \/ Ready(nodes[q], arrays, freed))
          /\ \A s \in Threads : Stage(op[s], nodes, arrays, freed)
      BY <1>14 DEF Undisturbed, Orderly
    <3>2. op[t].pc \notin ArrayPcs /\ op'[t].pc \notin ArrayPcs /\ op'[t].pc # "idle"
      BY <1>1, <1>6 DEF ArrayPcs
    <3>3. \A s \in Threads \ {t} : op'[s].pc = "idle"
      BY <1>1, <1>6, <1>14, ThreadsApart DEF Undisturbed, Matched, OneThread, Threads
    <3>4. \A q : (InHand(q) => InHand(q)') /\ (Storing(q)' <=> Storing(q))
      BY <1>6, <3>2 DEF InHand, Storing, ArrayPcs
    <3>5. Fits(NewNodeRec, arrays) /\ Ready(NewNodeRec, arrays, freed)
      BY DEF Fits, Ready, NewNodeRec
    <3>6. \A q \in DOMAIN nodes' :
            Fits(nodes'[q], arrays') /\ (InHand(q)' \/ Ready(nodes'[q], arrays', freed'))
      BY <1>2, <1>7, <3>1, <3>4, <3>5
    <3>7. \A s \in Threads : Stage(op'[s], nodes', arrays', freed')
      BY <3>2, <3>3, OtherStage DEF ArrayPcs
    <3>8. Owned'
      BY <1>2, <3>1 DEF Owned, NewNodeRec
    <3>9. Counted'
      <4>1. \A q : ~Storing(q)'
        BY <3>2, <3>3 DEF Storing, ArrayPcs
      <4>2. Len(bound'[f]) = 0 /\ nodes'[n].n_listeners = 0
        BY <1>2, <1>7, <1>14, <2>1 DEF Undisturbed, Listed, NewNodeRec
      <4> SUFFICES ASSUME NEW e \in Event, HasNode(e)'
                   PROVE  Len(bound'[e]) = IF Storing(NodeOf(e))'
                                           THEN nodes'[NodeOf(e)'].n_listeners - 1
                                           ELSE nodes'[NodeOf(e)'].n_listeners
        BY DEF Counted
      <4>3. CASE e = f
        BY <2>3, <4>1, <4>2, <4>3 DEF Storing
      <4>4. CASE e # f
        <5>1. HasNode(e) /\ NodeOf(e)' = NodeOf(e) /\ nodes'[NodeOf(e)] = nodes[NodeOf(e)]
          BY <1>2, <2>4, <4>4, EventsApart
        <5> QED BY <1>7, <3>1, <3>4, <5>1 DEF Counted
      <4> QED BY <4>3, <4>4
    <3>10. SlotTaken'
      BY <1>1, <1>7, <1>14, NotFiring DEF Undisturbed, SlotTaken
    <3> QED BY <1>7, <3>1, <3>6, <3>7, <3>8, <3>9, <3>10 DEF Orderly
  <2> QED BY <2>6, <2>7, <2>8, <2>9, <2>10 DEF Undisturbed
<1> QED BY <1>13, <1>14

------------------------------------------------------------------------------
(* bus_event_node_add_handler, statement by statement *)

(* The thread that is there, the node it is at, and the other thread.      *)
LEMMA Adding ==
  ASSUME Sound, Undisturbed, NEW t \in Threads, op[t].pc \in AddPcs
  PROVE  /\ op \in [Threads -> Ops] /\ op[t] \in BindOps /\ op[t].for = "bind"
         /\ op[t].event \in Event /\ op[t].handler \in Handlers
         /\ op[t].ptr \in DOMAIN nodes /\ nodes[op[t].ptr] \in Node
         /\ HasNode(op[t].event) /\ NodeOf(op[t].event) = op[t].ptr
         /\ nodes \in Seq(Node) /\ arrays \in Seq(Slots) /\ freed \subseteq DOMAIN arrays
         /\ Fits(nodes[op[t].ptr], arrays) /\ Stage(op[t], nodes, arrays, freed)
         /\ \A s \in Threads \ {t} : op[s].pc = "idle"
         /\ op[t].pc \notin {"first_alloc", "realloc", "repoint"} =>
              Ready(nodes[op[t].ptr], arrays, freed)
         /\ fire.pc \notin {"slot", "call"} /\ misused = FALSE
<1>1. /\ op \in [Threads -> Ops] /\ op[t].ptr \in DOMAIN nodes
      /\ nodes \in Seq(Node) /\ arrays \in Seq(Slots) /\ freed \subseteq DOMAIN arrays
  BY DEF Sound, Shapes, PointerFits
<1>2. op[t].pc # "idle" /\ op[t].pc \notin {"index", "new_type", "val", "find"}
  BY DEF AddPcs, ArrayPcs
<1>3. op[t] \in BindOps /\ op[t].for = "bind" /\ op[t].event \in Event /\ op[t].handler \in Handlers
  BY <1>1, <1>2, OpType
<1>4. nodes[op[t].ptr] \in Node
  BY <1>1, ElementOfSeq, LenProperties
<1>5. HasNode(op[t].event) /\ NodeOf(op[t].event) = op[t].ptr
  BY DEF Undisturbed, OnTheWay
<1>6. \A s \in Threads \ {t} : op[s].pc = "idle"
  BY <1>2, ThreadsApart DEF Sound, Matched, Undisturbed, OneThread, Threads
<1>7. Fits(nodes[op[t].ptr], arrays) /\ Stage(op[t], nodes, arrays, freed) /\ misused = FALSE
  BY <1>1 DEF Undisturbed, Orderly
<1>8. ASSUME op[t].pc \notin {"first_alloc", "realloc", "repoint"}
      PROVE  Ready(nodes[op[t].ptr], arrays, freed)
  <2>1. ~InHand(op[t].ptr)
    BY <1>6, <1>8 DEF InHand
  <2> QED BY <1>1, <2>1 DEF Undisturbed, Orderly
<1>9. fire.pc \notin {"slot", "call"}
  BY <1>2, NotFiring DEF Undisturbed
<1> QED BY <1>1, <1>3, <1>4, <1>5, <1>6, <1>7, <1>8, <1>9

(* A statement before the handler is stored: it leaves the trees alone,    *)
(* the other nodes and the arrays there were, and the handlers that are in *)
(* the node's array.                                                       *)
Adds(t, o, p, old, node) ==
  /\ p = op[t].ptr /\ old = nodes[p] /\ op[t].pc \in AddPcs \ {"store"}
  /\ op' = [op EXCEPT ![t] = o] /\ o.pc \in ArrayPcs
  /\ o.ptr = p /\ o.event = op[t].event
  /\ nodes' = [nodes EXCEPT ![p] = node]
  /\ arrays' \in Seq(Slots) /\ DOMAIN arrays \subseteq DOMAIN arrays'
  /\ \A b \in DOMAIN arrays : arrays'[b] = arrays[b]
  /\ freed' \in {freed, freed \cup {old.m_listeners}} /\ freed' \subseteq DOMAIN arrays'
  /\ UNCHANGED <<typeTree, val, trees, queue, fire, history, called>> /\ misused' = FALSE
  /\ Fits(node, arrays')
  /\ \A q \in DOMAIN nodes \ {p} :
       node.m_listeners # Null => nodes[q].m_listeners # node.m_listeners
  /\ o.pc \in {"first_alloc", "realloc", "repoint"} \/ Ready(node, arrays', freed')
  /\ Stage(o, nodes', arrays', freed')
  /\ IF o.pc = "store" THEN old.n_listeners = node.n_listeners - 1
                       ELSE old.n_listeners = node.n_listeners
  /\ \A i \in 1..old.n_listeners : arrays'[node.m_listeners][i] = arrays[old.m_listeners][i]

LEMMA AddStep ==
  ASSUME Sound, Undisturbed, NEW t \in Threads, NEW o \in BindOps, NEW node \in Node,
         NEW p, NEW old, Adds(t, o, p, old, node)
  PROVE  Sound' /\ Undisturbed'
<1> USE DEF Adds
<1>1. /\ op \in [Threads -> Ops] /\ op[t].for = "bind" /\ op[t].event \in Event
      /\ p \in DOMAIN nodes /\ old \in Node /\ nodes \in Seq(Node)
      /\ HasNode(op[t].event) /\ NodeOf(op[t].event) = p
      /\ \A s \in Threads \ {t} : op[s].pc = "idle"
      /\ Fits(old, arrays) /\ fire.pc \notin {"slot", "call"} /\ op[t].pc # "idle"
  BY Adding DEF AddPcs, ArrayPcs
<1>2. /\ op' \in [Threads -> Ops] /\ op'[t] = o /\ \A s \in Threads \ {t} : op'[s] = op[s]
      /\ o.for = "bind" /\ o.pc # "idle"
  BY <1>1 DEF Ops, BindOps, ArrayPcs
<1>3. /\ nodes' \in Seq(Node) /\ DOMAIN nodes' = DOMAIN nodes /\ nodes'[p] = node
      /\ \A q \in DOMAIN nodes \ {p} : nodes'[q] = nodes[q]
  BY <1>1, ChangeAt
<1>4. UNCHANGED <<binds, raised, bound>>
  BY DEF history
<1>5. \A s \in Threads : PointerFits(s)'
  <2>1. PointerFits(t)'
    BY <1>1, <1>2, <1>3 DEF PointerFits, AddPcs, ArrayPcs
  <2>2. \A s \in Threads \ {t} : PointerFits(s)'
    BY <1>1, <1>2 DEF PointerFits, AddPcs, ArrayPcs
  <2> QED BY <2>1, <2>2
<1>6. Shapes'
  BY <1>2, <1>3, <1>4, <1>5 DEF Sound, Shapes
<1>7. NothingShared' /\ Matched'
  BY <1>1, <1>2, ThreadsApart DEF Sound, NothingShared, Matched
<1>8. \A e : /\ HasTree(e)' <=> HasTree(e)
             /\ TreeOf(e)' = TreeOf(e)
             /\ HasNode(e)' <=> HasNode(e)
             /\ NodeOf(e)' = NodeOf(e)
  BY DEF HasTree, TreeOf, HasNode, NodeOf
<1>9. OneThread' /\ \A s \in Threads : OnTheWay(s)'
  <2>1. OneThread' /\ \A s \in Threads \ {t} : OnTheWay(s)'
    BY <1>1, <1>2, <1>4, OthersIdle DEF Undisturbed
  <2>2. OnTheWay(t)'
    BY <1>1, <1>2, <1>8 DEF OnTheWay, ArrayPcs
  <2> QED BY <2>1, <2>2
<1>10. CalledSoFar'
  BY <1>4, <1>8 DEF Undisturbed, CalledSoFar
<1>11. \A e \in Event : HasNode(e) /\ NodeOf(e) = p => Len(bound[e]) = old.n_listeners
  <2>1. ~Storing(p)
    BY <1>1 DEF Storing
  <2> QED BY <2>1 DEF Undisturbed, Orderly, Counted
<1>12. \A q \in DOMAIN nodes \ {p} :
         /\ Fits(nodes[q], arrays) /\ Ready(nodes[q], arrays, freed)
         /\ ~InHand(q) /\ ~Storing(q) /\ ~Storing(q)'
  <2>1. \A q \in DOMAIN nodes \ {p} : ~InHand(q) /\ ~Storing(q) /\ ~Storing(q)'
    BY <1>1, <1>2 DEF InHand, Storing
  <2> QED BY <2>1 DEF Undisturbed, Orderly
<1>13. Listed'
  <2> SUFFICES ASSUME NEW e \in Event
               PROVE  IF HasNode(e)'
                      THEN \A i \in 1..Len(bound'[e]) :
                             bound'[e][i] = arrays'[nodes'[NodeOf(e)'].m_listeners][i]
                      ELSE bound'[e] = <<>>
    BY DEF Listed
  <2>1. CASE ~HasNode(e)
    BY <1>4, <1>8, <2>1 DEF Undisturbed, Listed
  <2>2. CASE HasNode(e) /\ NodeOf(e) = p
    <3>1. \A i \in 1..Len(bound[e]) : bound[e][i] = arrays[old.m_listeners][i]
      BY <2>2 DEF Undisturbed, Listed
    <3> QED BY <1>3, <1>4, <1>8, <1>11, <2>2, <3>1
  <2>3. CASE HasNode(e) /\ NodeOf(e) # p
    <3>1. PICK q \in DOMAIN nodes \ {p} : q = NodeOf(e)
      BY <2>3, EventsApart
    <3>2. PICK a : a = nodes[q].m_listeners
      OBVIOUS
    <3>3. \A i \in 1..Len(bound[e]) : bound[e][i] = arrays[a][i]
      BY <2>3, <3>1, <3>2 DEF Undisturbed, Listed
    <3>4. CASE a = Null
      <4>1. nodes[q].n_listeners = 0 /\ ~Storing(q)
        BY <1>12, <3>1, <3>2, <3>4 DEF Fits
      <4>2. Len(bound[e]) = 0
        BY <2>3, <3>1, <4>1 DEF Undisturbed, Orderly, Counted
      <4>3. 1..0 = {}
        OBVIOUS
      <4> QED BY <1>4, <1>8, <2>3, <4>2, <4>3
    <3>5. CASE a # Null
      <4>1. a \in DOMAIN arrays
        BY <1>12, <3>1, <3>2, <3>5 DEF Fits
      <4> QED BY <1>3, <1>4, <1>8, <2>3, <3>1, <3>2, <3>3, <4>1
    <3> QED BY <3>4, <3>5
  <2> QED BY <2>1, <2>2, <2>3
<1>14. \A q \in DOMAIN nodes' :
         Fits(nodes'[q], arrays') /\ (InHand(q)' \/ Ready(nodes'[q], arrays', freed'))
  <2> TAKE q \in DOMAIN nodes'
  <2>1. CASE q = p
    <3>1. o.pc \in {"first_alloc", "realloc", "repoint"} => InHand(p)'
      BY <1>2 DEF InHand
    <3> QED BY <1>3, <2>1, <3>1
  <2>2. CASE q # p
    <3>1. PICK nd : nd = nodes[q]
      OBVIOUS
    <3>2. Fits(nd, arrays) /\ Ready(nd, arrays, freed) /\ nodes'[q] = nd
      BY <1>3, <1>12, <2>2, <3>1
    <3>3. CASE nd.m_listeners = Null
      BY <3>2, <3>3 DEF Fits, Ready
    <3>4. CASE nd.m_listeners # Null
      <4>1. nd.m_listeners \in DOMAIN arrays /\ nd.m_listeners # old.m_listeners
        BY <1>1, <1>3, <2>2, <3>1, <3>2, <3>4 DEF Fits, Undisturbed, Orderly, Owned
      <4>2. /\ arrays'[nd.m_listeners] = arrays[nd.m_listeners]
            /\ nd.m_listeners \in DOMAIN arrays'
            /\ nd.m_listeners \in freed' => nd.m_listeners \in freed
        BY <4>1
      <4> QED BY <3>2, <3>4, <4>2 DEF Fits, Ready
    <3> QED BY <3>3, <3>4
  <2> QED BY <2>1, <2>2
<1>15. \A s \in Threads : Stage(op'[s], nodes', arrays', freed')
  <2>1. \A s \in Threads \ {t} : op'[s].pc \notin ArrayPcs
    BY <1>1, <1>2 DEF ArrayPcs
  <2> QED BY <1>2, <2>1, OtherStage
<1>16. Owned'
  BY <1>1, <1>3 DEF Undisturbed, Orderly, Owned
<1>17. Counted'
  <2> SUFFICES ASSUME NEW e \in Event, HasNode(e)'
               PROVE  Len(bound'[e]) = IF Storing(NodeOf(e))'
                                       THEN nodes'[NodeOf(e)'].n_listeners - 1
                                       ELSE nodes'[NodeOf(e)'].n_listeners
    BY DEF Counted
  <2>1. CASE NodeOf(e) = p
    <3>1. Storing(p)' <=> o.pc = "store"
      BY <1>1, <1>2 DEF Storing
    <3> QED BY <1>3, <1>4, <1>8, <1>11, <2>1, <3>1
  <2>2. CASE NodeOf(e) # p
    <3>1. NodeOf(e) \in DOMAIN nodes \ {p}
      BY <1>8, <2>2, EventsApart
    <3> QED BY <1>3, <1>4, <1>8, <1>12, <3>1 DEF Undisturbed, Orderly, Counted
  <2> QED BY <2>1, <2>2
<1>18. SlotTaken'
  BY <1>1 DEF SlotTaken
<1>19. Orderly'
  BY <1>14, <1>15, <1>16, <1>17, <1>18 DEF Orderly
<1> QED BY <1>6, <1>7, <1>9, <1>10, <1>13, <1>19 DEF Sound, Undisturbed

LEMMA GoesOnOps ==
  ASSUME NEW t \in Threads, op[t] \in BindOps, NEW pc \in Pcs, op' = GoesOn(t, pc)
  PROVE  \E o \in BindOps : /\ o.pc = pc /\ o.ptr = op[t].ptr /\ o.event = op[t].event
                            /\ o.array = op[t].array /\ o.slot = op[t].slot
                            /\ op' = [op EXCEPT ![t] = o]
<1>1. PICK r \in BindOps : r = op[t]
  OBVIOUS
<1>2. PICK o : o = [r EXCEPT !.pc = pc]
  OBVIOUS
<1>3. /\ o \in BindOps /\ o.pc = pc /\ o.ptr = r.ptr /\ o.event = r.event
      /\ o.array = r.array /\ o.slot = r.slot
  BY <1>2 DEF BindOps
<1>4. op' = [op EXCEPT ![t] = o]
  BY <1>1, <1>2 DEF GoesOn
<1> QED BY <1>1, <1>3, <1>4

LEMMA OwnArray ==
  ASSUME Undisturbed, NEW p \in DOMAIN nodes, nodes[p].m_listeners # Null
  PROVE  \A q \in DOMAIN nodes \ {p} : nodes[q].m_listeners # nodes[p].m_listeners
BY DEF Undisturbed, Orderly, Owned

(* A statement that changes the node at most, whose array stays. *)
LEMMA FieldStep ==
  ASSUME Sound, Undisturbed, NEW t \in Threads, op[t].pc \in AddPcs \ {"store"},
         NEW o \in BindOps, op' = [op EXCEPT ![t] = o], o.pc \in ArrayPcs,
         o.ptr = op[t].ptr, o.event = op[t].event,
         UNCHANGED <<typeTree, val, trees, arrays, freed, misused, queue, fire, history, called>>,
         NEW node \in Node, nodes' = [nodes EXCEPT ![op[t].ptr] = node],
         NEW old, old = nodes[op[t].ptr],
         node.m_listeners = old.m_listeners,
         Fits(node, arrays),
         o.pc \in {"first_alloc", "realloc", "repoint"} \/ Ready(node, arrays, freed),
         Stage(o, nodes', arrays, freed),
         IF o.pc = "store" THEN old.n_listeners = node.n_listeners - 1
                           ELSE old.n_listeners = node.n_listeners
  PROVE  Sound' /\ Undisturbed'
<1> PICK p : p = op[t].ptr
  OBVIOUS
<1>1. /\ arrays \in Seq(Slots) /\ freed \subseteq DOMAIN arrays /\ misused = FALSE
      /\ p \in DOMAIN nodes
  BY Adding
<1>2. \A q \in DOMAIN nodes \ {p} :
        node.m_listeners # Null => nodes[q].m_listeners # node.m_listeners
  BY <1>1, OwnArray
<1>3. Adds(t, o, p, old, node)
  BY <1>1, <1>2 DEF Adds
<1> QED BY <1>3, AddStep

(* The two tests change nothing. *)
LEMMA TestStep ==
  ASSUME Sound, Undisturbed, NEW t \in Threads, op[t].pc \in {"add", "full"},
         NEW pc \in {"first", "full", "double", "count"}, op' = GoesOn(t, pc),
         UNCHANGED <<registry, misused, queue, fire, history, called>>,
         NEW node, node = nodes[op[t].ptr],
         pc = "first" <=> node.m_listeners = Null,
         pc = "double" => Full(node),
         pc = "count" => node.n_listeners < node.n_alloc
  PROVE  Sound' /\ Undisturbed'
<1> PICK p : p = op[t].ptr
  OBVIOUS
<1>1. op[t].pc \in AddPcs \ {"store"} /\ pc \in Pcs /\ pc \in ArrayPcs
  BY DEF AddPcs, ArrayPcs, Pcs
<1>2. /\ op[t] \in BindOps /\ p \in DOMAIN nodes /\ node \in Node /\ nodes \in Seq(Node)
      /\ arrays \in Seq(Slots) /\ freed \subseteq DOMAIN arrays /\ misused = FALSE
      /\ Fits(node, arrays) /\ Ready(node, arrays, freed)
  BY <1>1, Adding
<1>3. PICK o \in BindOps : /\ o.pc = pc /\ o.ptr = p /\ o.event = op[t].event
                           /\ op' = [op EXCEPT ![t] = o]
  BY <1>1, <1>2, GoesOnOps
<1>4. /\ UNCHANGED <<typeTree, val, trees, arrays, freed, misused, queue, fire, history, called>>
      /\ nodes' = nodes /\ nodes' = [nodes EXCEPT ![p] = node]
  BY <1>2 DEF registry
<1>5. Stage(o, nodes', arrays', freed')
  BY <1>3, <1>4 DEF Stage, ArrayPcs
<1>6. o.pc # "store" /\ o.pc \in ArrayPcs /\ o.pc \notin {"first_alloc", "realloc", "repoint"}
  BY <1>1, <1>3
<1> QED BY <1>1, <1>2, <1>3, <1>4, <1>5, <1>6, FieldStep

LEMMA TestListenersStep ==
  ASSUME Sound, Undisturbed, NEW t \in Threads, TestListeners(t)
  PROVE  Sound' /\ Undisturbed'
<1> PICK node : node = nodes[op[t].ptr]
  OBVIOUS
<1>1. op[t].pc = "add" /\ UNCHANGED <<registry, misused, queue, fire, history, called>>
  BY DEF TestListeners
<1>2. CASE node.m_listeners = Null
  <2>1. op' = GoesOn(t, "first")
    BY <1>2 DEF TestListeners
  <2> QED BY <1>1, <1>2, <2>1, TestStep
<1>3. CASE node.m_listeners # Null
  <2>1. op' = GoesOn(t, "full")
    BY <1>3 DEF TestListeners
  <2> QED BY <1>1, <1>3, <2>1, TestStep
<1> QED BY <1>2, <1>3

LEMMA TestFullStep ==
  ASSUME Sound, Undisturbed, NEW t \in Threads, TestFull(t)
  PROVE  Sound' /\ Undisturbed'
<1> PICK node : node = nodes[op[t].ptr]
  OBVIOUS
<1>1. /\ op[t].pc = "full" /\ op[t].pc \in AddPcs
      /\ UNCHANGED <<registry, misused, queue, fire, history, called>>
  BY DEF TestFull, AddPcs, ArrayPcs
<1>2. node \in Node /\ Fits(node, arrays) /\ Stage(op[t], nodes, arrays, freed)
  BY <1>1, Adding
<1>3. node.m_listeners # Null
  BY <1>1, <1>2 DEF Stage, ArrayPcs
<1>4. CASE Full(node)
  <2>1. op' = GoesOn(t, "double")
    BY <1>4 DEF TestFull
  <2> QED BY <1>1, <1>3, <1>4, <2>1, TestStep
<1>5. CASE ~Full(node)
  <2>1. op' = GoesOn(t, "count")
    BY <1>5 DEF TestFull
  <2>2. node.n_listeners < node.n_alloc
    BY <1>2, <1>5 DEF Fits, Full, Node
  <2> QED BY <1>1, <1>3, <2>1, <2>2, TestStep
<1> QED BY <1>4, <1>5

(* What is allocated is an array of no node yet. *)
LEMMA NewArray ==
  ASSUME arrays \in Seq(Slots), NEW new \in Slots, arrays' = Append(arrays, new),
         NEW a, a = Len(arrays) + 1
  PROVE  /\ arrays' \in Seq(Slots) /\ DOMAIN arrays' = DOMAIN arrays \cup {a}
         /\ \A b \in DOMAIN arrays : arrays'[b] = arrays[b]
         /\ arrays'[a] = new /\ a \notin DOMAIN arrays /\ a \in Nat /\ a # Null
<1>1. PICK n \in Nat : n = Len(arrays) /\ DOMAIN arrays = 1..n
  BY LenProperties
<1>2. a = n + 1 /\ a \in Nat /\ a # Null
  BY <1>1 DEF Null
<1> QED BY <1>1, <1>2, AppendAt

LEMMA FirstArrayStep ==
  ASSUME Sound, Undisturbed, NEW t \in Threads, FirstArray(t)
  PROVE  Sound' /\ Undisturbed'
<1> PICK p : p = op[t].ptr
  OBVIOUS
<1> PICK old : old = nodes[p]
  OBVIOUS
<1> PICK a : a = Len(arrays) + 1
  OBVIOUS
<1> PICK new : new = [i \in 1..InitialSlots |-> Null]
  OBVIOUS
<1>1. op[t].pc = "first" /\ op[t].pc \in AddPcs \ {"store"}
  BY DEF FirstArray, AddPcs, ArrayPcs
<1>2. /\ op[t] \in BindOps /\ p \in DOMAIN nodes /\ old \in Node /\ nodes \in Seq(Node)
      /\ arrays \in Seq(Slots) /\ freed \subseteq DOMAIN arrays /\ misused = FALSE
      /\ Fits(old, arrays) /\ Stage(op[t], nodes, arrays, freed)
  BY <1>1, Adding
<1>3. old.m_listeners = Null /\ old.n_listeners = 0 /\ old.n_alloc = 0
  BY <1>1, <1>2 DEF Stage, Fits
<1>4. new \in Slots /\ DOMAIN new = 1..InitialSlots
  BY BusAssumption, AsSequence DEF Slots
<1>5. /\ arrays' = Append(arrays, new) /\ nodes' = [nodes EXCEPT ![p].m_listeners = a]
      /\ op' = GoesOn(t, "first_alloc")
      /\ UNCHANGED <<typeTree, val, trees, freed, misused, queue, fire, history, called>>
  BY DEF FirstArray
<1>6. /\ arrays' \in Seq(Slots) /\ DOMAIN arrays' = DOMAIN arrays \cup {a}
      /\ \A b \in DOMAIN arrays : arrays'[b] = arrays[b]
      /\ arrays'[a] = new /\ a \notin DOMAIN arrays /\ a \in Nat /\ a # Null
  BY <1>2, <1>4, <1>5, NewArray
<1>7. PICK node \in Node :
        /\ node.m_listeners = a /\ node.n_listeners = 0 /\ node.n_alloc = 0
        /\ nodes' = [nodes EXCEPT ![p] = node]
  <2>1. PICK node : node = [old EXCEPT !.m_listeners = a]
    OBVIOUS
  <2>2. node \in Node /\ node.m_listeners = a /\ node.n_listeners = 0 /\ node.n_alloc = 0
    BY <1>2, <1>3, <1>6, <2>1 DEF Node
  <2> QED BY <1>5, <2>1, <2>2
<1>8. nodes'[p] = node
  BY <1>2, <1>7
<1>9. PICK o \in BindOps : /\ o.pc = "first_alloc" /\ o.ptr = p /\ o.event = op[t].event
                           /\ op' = [op EXCEPT ![t] = o]
  BY <1>2, <1>5, GoesOnOps DEF Pcs, AddPcs, ArrayPcs
<1>10. Stage(o, nodes', arrays', freed')
  BY <1>2, <1>4, <1>5, <1>6, <1>7, <1>8, <1>9 DEF Stage, ArrayPcs
<1>11. \A q \in DOMAIN nodes \ {p} : nodes[q].m_listeners # a
  BY <1>6 DEF Undisturbed, Orderly, Fits
<1>12. 1..0 = {}
  OBVIOUS
<1>13. Fits(node, arrays')
  BY <1>6, <1>7, <1>12 DEF Fits
<1>14. Adds(t, o, p, old, node)
  BY <1>1, <1>2, <1>3, <1>5, <1>6, <1>7, <1>9, <1>10, <1>11, <1>12, <1>13 DEF Adds, ArrayPcs
<1> QED BY <1>14, AddStep

LEMMA FirstAllocStep ==
  ASSUME Sound, Undisturbed, NEW t \in Threads, FirstAlloc(t)
  PROVE  Sound' /\ Undisturbed'
<1> PICK p : p = op[t].ptr
  OBVIOUS
<1> PICK old : old = nodes[p]
  OBVIOUS
<1>1. op[t].pc = "first_alloc" /\ op[t].pc \in AddPcs \ {"store"}
  BY DEF FirstAlloc, AddPcs, ArrayPcs
<1>2. /\ op[t] \in BindOps /\ p \in DOMAIN nodes /\ old \in Node /\ nodes \in Seq(Node)
      /\ Fits(old, arrays) /\ Stage(op[t], nodes, arrays, freed)
  BY <1>1, Adding
<1>3. /\ old.m_listeners # Null /\ old.m_listeners \notin freed
      /\ DOMAIN arrays[old.m_listeners] = 1..InitialSlots /\ old.n_listeners = 0
  BY <1>1, <1>2 DEF Stage, ArrayPcs
<1>4. PICK node \in Node :
        /\ node.m_listeners = old.m_listeners /\ node.n_listeners = 0
        /\ node.n_alloc = InitialSlots
        /\ nodes' = [nodes EXCEPT ![p] = node]
  <2>1. PICK node : node = [old EXCEPT !.n_alloc = InitialSlots]
    OBVIOUS
  <2>2. /\ node \in Node /\ node.m_listeners = old.m_listeners /\ node.n_listeners = 0
        /\ node.n_alloc = InitialSlots
    BY <1>2, <1>3, <2>1, BusAssumption DEF Node
  <2> QED BY <2>1, <2>2 DEF FirstAlloc
<1>5. op' = GoesOn(t, "first_count") /\ nodes'[p] = node
      /\ UNCHANGED <<typeTree, val, trees, arrays, freed, misused, queue, fire, history, called>>
  BY <1>2, <1>4 DEF FirstAlloc
<1>6. PICK o \in BindOps : /\ o.pc = "first_count" /\ o.ptr = p /\ o.event = op[t].event
                           /\ op' = [op EXCEPT ![t] = o]
  BY <1>2, <1>5, GoesOnOps DEF Pcs, AddPcs, ArrayPcs
<1>7. Fits(node, arrays) /\ Ready(node, arrays, freed)
  BY <1>2, <1>3, <1>4, BusAssumption DEF Fits, Ready
<1>8. Stage(o, nodes', arrays, freed)
  BY <1>3, <1>4, <1>5, <1>6 DEF Stage
<1>9. o.pc \in ArrayPcs
  BY <1>6 DEF ArrayPcs
<1> QED BY <1>1, <1>3, <1>4, <1>5, <1>6, <1>7, <1>8, <1>9, FieldStep

LEMMA FirstCountStep ==
  ASSUME Sound, Undisturbed, NEW t \in Threads, FirstCount(t)
  PROVE  Sound' /\ Undisturbed'
<1> PICK p : p = op[t].ptr
  OBVIOUS
<1> PICK old : old = nodes[p]
  OBVIOUS
<1>1. op[t].pc = "first_count" /\ op[t].pc \in AddPcs \ {"store"}
  BY DEF FirstCount, AddPcs, ArrayPcs
<1>2. /\ op[t] \in BindOps /\ p \in DOMAIN nodes /\ old \in Node /\ nodes \in Seq(Node)
      /\ Fits(old, arrays) /\ Stage(op[t], nodes, arrays, freed) /\ Ready(old, arrays, freed)
  BY <1>1, Adding
<1>3. old.m_listeners # Null /\ old.n_listeners = 0
  BY <1>1, <1>2 DEF Stage, ArrayPcs
<1>4. nodes' = [nodes EXCEPT ![p] = old]
  <2>1. [old EXCEPT !.n_listeners = 0] = old
    BY <1>2, <1>3 DEF Node
  <2> QED BY <2>1 DEF FirstCount
<1>5. /\ op' = GoesOn(t, "full") /\ nodes'[p] = old
      /\ UNCHANGED <<typeTree, val, trees, arrays, freed, misused, queue, fire, history, called>>
  BY <1>2, <1>4 DEF FirstCount
<1>6. PICK o \in BindOps : /\ o.pc = "full" /\ o.ptr = p /\ o.event = op[t].event
                           /\ op' = [op EXCEPT ![t] = o]
  BY <1>2, <1>5, GoesOnOps DEF Pcs, AddPcs, ArrayPcs
<1>7. Stage(o, nodes', arrays, freed)
  BY <1>3, <1>5, <1>6 DEF Stage
<1>8. o.pc \in ArrayPcs /\ o.pc # "store"
  BY <1>6 DEF ArrayPcs
<1> QED BY <1>1, <1>2, <1>4, <1>5, <1>6, <1>7, <1>8, FieldStep

LEMMA DoubleStep ==
  ASSUME Sound, Undisturbed, NEW t \in Threads, Double(t)
  PROVE  Sound' /\ Undisturbed'
<1> PICK p : p = op[t].ptr
  OBVIOUS
<1> PICK old : old = nodes[p]
  OBVIOUS
<1>1. op[t].pc = "double" /\ op[t].pc \in AddPcs \ {"store"}
  BY DEF Double, AddPcs, ArrayPcs
<1>2. /\ op[t] \in BindOps /\ p \in DOMAIN nodes /\ old \in Node /\ nodes \in Seq(Node)
      /\ Fits(old, arrays) /\ Stage(op[t], nodes, arrays, freed) /\ Ready(old, arrays, freed)
  BY <1>1, Adding
<1>3. /\ old.m_listeners # Null /\ old.n_alloc = old.n_listeners /\ old.n_alloc # 0
      /\ old.m_listeners \notin freed
      /\ DOMAIN arrays[old.m_listeners] = 1..old.n_listeners
      /\ old.n_listeners \in Nat
  BY <1>1, <1>2 DEF Stage, ArrayPcs, Ready, Full, Node
<1>4. PICK node \in Node :
        /\ node.m_listeners = old.m_listeners /\ node.n_listeners = old.n_listeners
        /\ node.n_alloc = 2 * old.n_listeners
        /\ nodes' = [nodes EXCEPT ![p] = node]
  <2>1. PICK n \in Nat : n = 2 * old.n_alloc /\ n = 2 * old.n_listeners
    BY <1>3
  <2>2. PICK node : node = [old EXCEPT !.n_alloc = n]
    OBVIOUS
  <2>3. /\ node \in Node /\ node.m_listeners = old.m_listeners
        /\ node.n_listeners = old.n_listeners /\ node.n_alloc = n
    BY <1>2, <2>2 DEF Node
  <2> QED BY <2>1, <2>2, <2>3 DEF Double
<1>5. /\ op' = GoesOn(t, "realloc") /\ nodes'[p] = node
      /\ UNCHANGED <<typeTree, val, trees, arrays, freed, misused, queue, fire, history, called>>
  BY <1>2, <1>4 DEF Double
<1>6. PICK o \in BindOps : /\ o.pc = "realloc" /\ o.ptr = p /\ o.event = op[t].event
                           /\ op' = [op EXCEPT ![t] = o]
  BY <1>2, <1>5, GoesOnOps DEF Pcs, AddPcs, ArrayPcs
<1>7. Fits(node, arrays)
  BY <1>2, <1>3, <1>4 DEF Fits
<1>8. Stage(o, nodes', arrays, freed)
  BY <1>3, <1>4, <1>5, <1>6 DEF Stage
<1>9. o.pc \in ArrayPcs /\ o.pc \in {"first_alloc", "realloc", "repoint"} /\ o.pc # "store"
  BY <1>6 DEF ArrayPcs
<1> QED BY <1>1, <1>3, <1>4, <1>5, <1>6, <1>7, <1>8, <1>9, FieldStep

LEMMA ReallocStep ==
  ASSUME Sound, Undisturbed, NEW t \in Threads, Realloc(t)
  PROVE  Sound' /\ Undisturbed'
<1> PICK p : p = op[t].ptr
  OBVIOUS
<1> PICK node : node = nodes[p]
  OBVIOUS
<1> PICK a : a = node.m_listeners
  OBVIOUS
<1> PICK b : b = Len(arrays) + 1
  OBVIOUS
<1> PICK new : new = Longer(arrays[a], node.n_alloc)
  OBVIOUS
<1>1. op[t].pc = "realloc" /\ op[t].pc \in AddPcs \ {"store"}
  BY DEF Realloc, AddPcs, ArrayPcs
<1>2. /\ op[t] \in BindOps /\ p \in DOMAIN nodes /\ node \in Node /\ nodes \in Seq(Node)
      /\ arrays \in Seq(Slots) /\ freed \subseteq DOMAIN arrays /\ misused = FALSE
      /\ Fits(node, arrays) /\ Stage(op[t], nodes, arrays, freed)
  BY <1>1, Adding
<1>3. /\ a # Null /\ a \notin freed /\ a \in DOMAIN arrays
      /\ DOMAIN arrays[a] = 1..node.n_listeners
      /\ node.n_listeners # 0 /\ node.n_alloc = 2 * node.n_listeners
  BY <1>1, <1>2 DEF Stage, ArrayPcs, Fits
<1>4. /\ new \in Slots /\ DOMAIN new = 1..node.n_alloc
      /\ \A i \in 1..node.n_listeners : new[i] = arrays[a][i]
  <2>1. PICK s \in Slots : s = arrays[a]
    BY <1>2, <1>3, ElementOfSeq, LenProperties
  <2>2. PICK n \in Nat : n = node.n_alloc
    BY <1>2 DEF Node
  <2>3. \A i \in 1..node.n_listeners : i \in 1..n
    <3>1. PICK k \in Nat : k = node.n_listeners
      BY <1>2 DEF Node
    <3> QED BY <1>3, <2>2, <3>1
  <2>4. new = Longer(s, n)
    BY <2>1, <2>2
  <2>5. new \in Slots /\ DOMAIN new = 1..n /\ \A i \in DOMAIN s : i \in 1..n => new[i] = s[i]
    BY <2>4, LongerAt
  <2> QED BY <1>3, <2>1, <2>2, <2>3, <2>5
<1>5. /\ arrays' = Append(arrays, new) /\ freed' = freed \cup {a} /\ misused' = FALSE
      /\ op' = [op EXCEPT ![t].pc = "repoint", ![t].array = b]
      /\ UNCHANGED <<typeTree, val, trees, nodes, queue, fire, history, called>>
  BY <1>2, <1>3 DEF Realloc, Moved
<1>6. /\ arrays' \in Seq(Slots) /\ DOMAIN arrays' = DOMAIN arrays \cup {b}
      /\ \A c \in DOMAIN arrays : arrays'[c] = arrays[c]
      /\ arrays'[b] = new /\ b \notin DOMAIN arrays /\ b \in Nat /\ b # Null
  BY <1>2, <1>4, <1>5, NewArray
<1>7. PICK o \in BindOps : /\ o.pc = "repoint" /\ o.ptr = p /\ o.event = op[t].event
                           /\ o.array = b /\ op' = [op EXCEPT ![t] = o]
  <2>1. PICK r \in BindOps : r = op[t]
    BY <1>2
  <2>2. PICK o : o = [r EXCEPT !.pc = "repoint", !.array = b]
    OBVIOUS
  <2>3. /\ o \in BindOps /\ o.pc = "repoint" /\ o.ptr = r.ptr /\ o.event = r.event
        /\ o.array = b
    BY <1>6, <2>1, <2>2 DEF BindOps, Pcs, AddPcs, ArrayPcs
  <2>4. op' = [op EXCEPT ![t] = o]
    BY <1>5, <2>1, <2>2
  <2> QED BY <2>1, <2>3, <2>4
<1>8. \A q \in DOMAIN nodes : nodes[q].m_listeners # b
  BY <1>6 DEF Undisturbed, Orderly, Fits
<1>9. Stage(o, nodes', arrays', freed')
  <2>1. o.array \in DOMAIN arrays' \ freed' /\ nodes'[o.ptr] = node
    BY <1>2, <1>3, <1>5, <1>6, <1>7
  <2>2. \A i \in 1..node.n_listeners : arrays'[b][i] = arrays'[a][i]
    BY <1>3, <1>4, <1>6
  <2>3. DOMAIN arrays'[b] = 1..node.n_alloc /\ \A q \in DOMAIN nodes' : nodes'[q].m_listeners # b
    BY <1>4, <1>5, <1>6, <1>8
  <2> QED BY <1>3, <1>7, <2>1, <2>2, <2>3 DEF Stage
<1>10. \A q \in DOMAIN nodes \ {p} :
         node.m_listeners # Null => nodes[q].m_listeners # node.m_listeners
  BY <1>2, OwnArray
<1>11. Fits(node, arrays')
  BY <1>2, <1>3, <1>6 DEF Fits
<1>12. nodes' = [nodes EXCEPT ![p] = node] /\ freed' \subseteq DOMAIN arrays'
  BY <1>2, <1>3, <1>5, <1>6
<1>13. \A i \in 1..node.n_listeners : arrays'[a][i] = arrays[a][i]
  BY <1>3, <1>6
<1>14. Adds(t, o, p, node, node)
  BY <1>1, <1>5, <1>6, <1>7, <1>9, <1>10, <1>11, <1>12, <1>13 DEF Adds, ArrayPcs
<1> QED BY <1>2, <1>14, AddStep

LEMMA RepointStep ==
  ASSUME Sound, Undisturbed, NEW t \in Threads, Repoint(t)
  PROVE  Sound' /\ Undisturbed'
<1> PICK p : p = op[t].ptr
  OBVIOUS
<1> PICK old : old = nodes[p]
  OBVIOUS
<1> PICK b : b = op[t].array
  OBVIOUS
<1>1. op[t].pc = "repoint" /\ op[t].pc \in AddPcs \ {"store"}
  BY DEF Repoint, AddPcs, ArrayPcs
<1>2. /\ op[t] \in BindOps /\ p \in DOMAIN nodes /\ old \in Node /\ nodes \in Seq(Node)
      /\ arrays \in Seq(Slots) /\ freed \subseteq DOMAIN arrays /\ misused = FALSE
      /\ Fits(old, arrays) /\ Stage(op[t], nodes, arrays, freed)
  BY <1>1, Adding
<1>3. /\ old.n_listeners # 0 /\ old.n_alloc = 2 * old.n_listeners
      /\ b \in DOMAIN arrays \ freed /\ DOMAIN arrays[b] = 1..old.n_alloc
      /\ \A n \in DOMAIN nodes : nodes[n].m_listeners # b
      /\ \A i \in 1..old.n_listeners : arrays[b][i] = arrays[old.m_listeners][i]
  BY <1>1, <1>2 DEF Stage
<1>4. b \in Nat /\ b # Null /\ old.n_listeners \in Nat
  BY <1>2, <1>3, Numbered DEF Node
<1>5. PICK node \in Node :
        /\ node.m_listeners = b /\ node.n_listeners = old.n_listeners
        /\ node.n_alloc = old.n_alloc
        /\ nodes' = [nodes EXCEPT ![p] = node]
  <2>1. PICK node : node = [old EXCEPT !.m_listeners = b]
    OBVIOUS
  <2>2. /\ node \in Node /\ node.m_listeners = b /\ node.n_listeners = old.n_listeners
        /\ node.n_alloc = old.n_alloc
    BY <1>2, <1>4, <2>1 DEF Node
  <2> QED BY <2>1, <2>2 DEF Repoint
<1>6. /\ op' = GoesOn(t, "count") /\ nodes'[p] = node
      /\ UNCHANGED <<typeTree, val, trees, arrays, freed, misused, queue, fire, history, called>>
  BY <1>2, <1>5 DEF Repoint
<1>7. PICK o \in BindOps : /\ o.pc = "count" /\ o.ptr = p /\ o.event = op[t].event
                           /\ op' = [op EXCEPT ![t] = o]
  BY <1>2, <1>6, GoesOnOps DEF Pcs, AddPcs, ArrayPcs
<1>8. Fits(node, arrays) /\ Ready(node, arrays, freed) /\ node.n_listeners < node.n_alloc
  BY <1>3, <1>4, <1>5 DEF Fits, Ready
<1>9. Stage(o, nodes', arrays, freed)
  BY <1>4, <1>5, <1>6, <1>7, <1>8 DEF Stage
<1>10. Adds(t, o, p, old, node)
  BY <1>1, <1>2, <1>3, <1>5, <1>6, <1>7, <1>8, <1>9 DEF Adds, ArrayPcs
<1> QED BY <1>10, AddStep

LEMMA CountStep ==
  ASSUME Sound, Undisturbed, NEW t \in Threads, Count(t)
  PROVE  Sound' /\ Undisturbed'
<1> PICK p : p = op[t].ptr
  OBVIOUS
<1> PICK old : old = nodes[p]
  OBVIOUS
<1> PICK i : i = old.n_listeners + 1
  OBVIOUS
<1>1. op[t].pc = "count" /\ op[t].pc \in AddPcs \ {"store"}
  BY DEF Count, AddPcs, ArrayPcs
<1>2. /\ op[t] \in BindOps /\ p \in DOMAIN nodes /\ old \in Node /\ nodes \in Seq(Node)
      /\ Fits(old, arrays) /\ Stage(op[t], nodes, arrays, freed) /\ Ready(old, arrays, freed)
  BY <1>1, Adding
<1>3. old.m_listeners # Null /\ old.n_listeners < old.n_alloc
  BY <1>1, <1>2 DEF Stage, ArrayPcs
<1>4. /\ old.n_listeners \in Nat /\ i \in Nat \ {0} /\ i <= old.n_alloc
      /\ old.n_listeners = i - 1 /\ old.m_listeners \in Nat /\ old.n_alloc \in Nat
  <2>1. old.n_listeners \in Nat /\ old.n_alloc \in Nat /\ old.m_listeners \in Nat
    BY <1>2 DEF Node
  <2> QED BY <1>3, <2>1
<1>5. PICK node \in Node :
        /\ node.m_listeners = old.m_listeners /\ node.n_listeners = i
        /\ node.n_alloc = old.n_alloc
        /\ nodes' = [nodes EXCEPT ![p] = node]
  <2>1. PICK node : node = [old EXCEPT !.n_listeners = i]
    OBVIOUS
  <2>2. /\ node \in Node /\ node.m_listeners = old.m_listeners /\ node.n_listeners = i
        /\ node.n_alloc = old.n_alloc
    BY <1>2, <1>4, <2>1 DEF Node
  <2> QED BY <2>1, <2>2 DEF Count
<1>6. /\ nodes'[p] = node
      /\ op' = [op EXCEPT ![t].pc = "store", ![t].array = old.m_listeners, ![t].slot = i]
      /\ UNCHANGED <<typeTree, val, trees, arrays, freed, misused, queue, fire, history, called>>
  BY <1>2, <1>5 DEF Count
<1>7. PICK o \in BindOps : /\ o.pc = "store" /\ o.ptr = p /\ o.event = op[t].event
                           /\ o.array = old.m_listeners /\ o.slot = i
                           /\ op' = [op EXCEPT ![t] = o]
  <2>1. PICK r \in BindOps : r = op[t]
    BY <1>2
  <2>2. PICK o : o = [r EXCEPT !.pc = "store", !.array = old.m_listeners, !.slot = i]
    OBVIOUS
  <2>4. /\ o \in BindOps /\ o.pc = "store" /\ o.ptr = r.ptr /\ o.event = r.event
        /\ o.array = old.m_listeners /\ o.slot = i
    BY <1>4, <2>1, <2>2 DEF BindOps, Pcs, AddPcs, ArrayPcs
  <2>5. op' = [op EXCEPT ![t] = o]
    BY <1>6, <2>1, <2>2
  <2> QED BY <2>1, <2>4, <2>5
<1>8. Fits(node, arrays) /\ Ready(node, arrays, freed)
  <2>1. 1..i \subseteq 1..old.n_alloc /\ old.n_alloc # 0
    BY <1>4
  <2> QED BY <1>2, <1>3, <1>5, <1>4, <2>1 DEF Fits, Ready
<1>9. Stage(o, nodes', arrays, freed)
  BY <1>3, <1>5, <1>6, <1>7, <1>4 DEF Stage
<1>10. o.pc \in ArrayPcs /\ IF o.pc = "store" THEN old.n_listeners = node.n_listeners - 1
                                                 ELSE old.n_listeners = node.n_listeners
  BY <1>5, <1>7, <1>4 DEF ArrayPcs
<1> QED BY <1>1, <1>3, <1>5, <1>6, <1>7, <1>8, <1>9, <1>10, FieldStep

LEMMA BoundNext ==
  ASSUME NEW b \in Seq(Handlers), NEW h \in Handlers, NEW c, c = Append(b, h),
         NEW i \in Nat \ {0}, Len(b) = i - 1
  PROVE  Len(c) = i /\ c[i] = h /\ \A j \in 1..(i - 1) : c[j] = b[j]
<1>1. Len(b) + 1 = i /\ DOMAIN b = 1..(i - 1)
  BY LenProperties
<1> QED BY <1>1, AppendAt

(* The last statement puts the handler where the next look at the node     *)
(* finds it.                                                               *)
LEMMA StoreStep ==
  ASSUME Sound, Undisturbed, NEW t \in Threads, Store(t)
  PROVE  Sound' /\ Undisturbed'
<1> PICK p : p = op[t].ptr
  OBVIOUS
<1> PICK node : node = nodes[p]
  OBVIOUS
<1> PICK a : a = node.m_listeners
  OBVIOUS
<1> PICK i : i = node.n_listeners
  OBVIOUS
<1> PICK f : f = op[t].event
  OBVIOUS
<1> PICK h : h = op[t].handler
  OBVIOUS
<1> PICK slots : slots = [arrays[a] EXCEPT ![i] = h]
  OBVIOUS
<1>1. op[t].pc = "store" /\ op[t].pc \in AddPcs /\ op[t].pc # "idle"
  BY DEF Store, AddPcs, ArrayPcs
<1>2. /\ op \in [Threads -> Ops] /\ op[t].for = "bind"
      /\ f \in Event /\ h \in Handlers /\ p \in DOMAIN nodes /\ node \in Node
      /\ HasNode(f) /\ NodeOf(f) = p
      /\ nodes \in Seq(Node) /\ arrays \in Seq(Slots) /\ misused = FALSE
      /\ \A s \in Threads \ {t} : op[s].pc = "idle"
      /\ Fits(node, arrays) /\ Stage(op[t], nodes, arrays, freed) /\ Ready(node, arrays, freed)
      /\ fire.pc \notin {"slot", "call"}
  BY <1>1, Adding
<1>3. /\ a # Null /\ a \in DOMAIN arrays \ freed /\ op[t].array = a /\ op[t].slot = i
      /\ i \in Nat \ {0} /\ i \in DOMAIN arrays[a] /\ 1..i \subseteq DOMAIN arrays[a]
  <2>1. a # Null /\ op[t].array = a /\ op[t].slot = i /\ i # 0 /\ i \in Nat
    BY <1>1, <1>2 DEF Stage, ArrayPcs, Node
  <2>2. a \in DOMAIN arrays \ freed /\ 1..i \subseteq DOMAIN arrays[a]
    BY <1>2, <2>1 DEF Fits, Ready
  <2>3. i \in Nat \ {0} /\ i \in 1..i
    BY <2>1
  <2> QED BY <2>1, <2>2, <2>3
<1>4. /\ arrays' = [arrays EXCEPT ![a] = slots] /\ misused' = FALSE
      /\ bound' = [bound EXCEPT ![f] = Append(bound[f], h)]
      /\ op' = [op EXCEPT ![t] = [pc |-> "idle"]]
      /\ UNCHANGED <<typeTree, val, trees, nodes, freed, queue, fire, binds, raised, called>>
  <2>1. Usable(a, i)
    BY <1>3 DEF Usable
  <2>2. arrays' = [arrays EXCEPT ![a][i] = h] /\ misused' = FALSE
    BY <1>2, <1>3, <2>1 DEF Store
  <2> QED BY <2>2 DEF Store, Idle
<1>5. /\ slots \in Slots /\ DOMAIN slots = DOMAIN arrays[a] /\ slots[i] = h
      /\ \A j \in DOMAIN arrays[a] \ {i} : slots[j] = arrays[a][j]
  <2>1. PICK s \in Slots : s = arrays[a]
    BY <1>2, <1>3, ElementOfSeq, LenProperties
  <2>2. s \in Seq(Handlers \cup {Null}) /\ i \in DOMAIN s /\ h \in Handlers \cup {Null}
    BY <1>2, <1>3, <2>1 DEF Slots
  <2> QED BY <2>1, <2>2, ChangeAt DEF Slots
<1>6. /\ arrays' \in Seq(Slots) /\ DOMAIN arrays' = DOMAIN arrays /\ arrays'[a] = slots
      /\ \A b \in DOMAIN arrays \ {a} : arrays'[b] = arrays[b]
  BY <1>2, <1>3, <1>4, <1>5, ChangeAt
<1>7. /\ op'[t].pc = "idle" /\ \A s \in Threads \ {t} : op'[s] = op[s]
      /\ \A s \in Threads : op'[s].pc = "idle"
      /\ op' \in [Threads -> Ops]
  BY <1>2, <1>4 DEF Ops, IdleOps
<1>8. /\ bound \in [Event -> Seq(Handlers)] /\ Len(bound[f]) = i - 1
      /\ \A j \in 1..(i - 1) : bound[f][j] = arrays[a][j]
  <2>1. Storing(p)
    BY <1>1 DEF Storing
  <2>2. Len(bound[f]) = i - 1
    BY <1>2, <2>1 DEF Undisturbed, Orderly, Counted
  <2> QED BY <1>2, <2>2 DEF Undisturbed, Listed, Sound, Shapes
<1>9. /\ bound' \in [Event -> Seq(Handlers)] /\ Len(bound'[f]) = i /\ bound'[f][i] = h
      /\ \A j \in 1..(i - 1) : bound'[f][j] = bound[f][j]
      /\ \A e \in Event \ {f} : bound'[e] = bound[e]
  <2>1. PICK b \in Seq(Handlers) : b = bound[f]
    BY <1>2, <1>8
  <2>2. PICK c \in Seq(Handlers) : c = Append(b, h)
    BY <1>2, <2>1, AppendAt
  <2>3. Len(c) = i /\ c[i] = h /\ \A j \in 1..(i - 1) : c[j] = b[j]
    <3>1. Len(b) = i - 1
      BY <1>8, <2>1
    <3>2. i \in Nat \ {0} /\ h \in Handlers
      BY <1>2, <1>3
    <3> QED BY <2>2, <3>1, <3>2, BoundNext
  <2> QED BY <1>2, <1>4, <1>8, <2>1, <2>2, <2>3
<1>10. Sound'
  <2>1. \A s \in Threads : PointerFits(s)'
    BY <1>7 DEF PointerFits, AddPcs, ArrayPcs
  <2>2. Shapes'
    BY <1>4, <1>6, <1>7, <1>9, <2>1 DEF Sound, Shapes
  <2>3. Matched'
    BY <1>1, <1>2, <1>4, <1>7, ThreadsApart DEF Sound, Matched
  <2>4. UNCHANGED <<typeTree, val, trees>>
    BY <1>4
  <2>5. NothingShared'
    BY <2>4 DEF Sound, NothingShared
  <2> QED BY <2>2, <2>3, <2>5 DEF Sound
<1>11. \A e : /\ HasTree(e)' <=> HasTree(e)
              /\ TreeOf(e)' = TreeOf(e)
              /\ HasNode(e)' <=> HasNode(e)
              /\ NodeOf(e)' = NodeOf(e)
  BY <1>4 DEF HasTree, TreeOf, HasNode, NodeOf
<1>12. OneThread' /\ \A s \in Threads : OnTheWay(s)'
  <2>1. OneThread'
    BY <1>1, <1>4, <1>7, OthersIdle DEF Undisturbed
  <2> QED BY <1>7, <2>1 DEF OnTheWay, AddPcs, ArrayPcs
<1>13. \A q \in DOMAIN nodes \ {p} : Fits(nodes[q], arrays) /\ Ready(nodes[q], arrays, freed)
                                     /\ ~InHand(q) /\ ~Storing(q)
  <2>1. \A q \in DOMAIN nodes \ {p} : ~InHand(q) /\ ~Storing(q)
    BY <1>2 DEF InHand, Storing
  <2> QED BY <2>1 DEF Undisturbed, Orderly
<1>14. Listed'
  <2> SUFFICES ASSUME NEW e \in Event
               PROVE  IF HasNode(e)'
                      THEN \A j \in 1..Len(bound'[e]) :
                             bound'[e][j] = arrays'[nodes'[NodeOf(e)'].m_listeners][j]
                      ELSE bound'[e] = <<>>
    BY DEF Listed
  <2>1. CASE e = f
    <3>1. \A j \in 1..i : bound'[f][j] = slots[j]
      <4> TAKE j \in 1..i
      <4>1. CASE j = i
        BY <1>5, <1>9, <4>1
      <4>2. CASE j # i
        <5>1. i \in Nat /\ 1..i \subseteq DOMAIN arrays[a]
          BY <1>3
        <5>2. j \in 1..(i - 1) /\ j \in DOMAIN arrays[a] \ {i}
          BY <4>2, <5>1
        <5>3. slots[j] = arrays[a][j]
          BY <1>5, <5>2
        <5>4. bound'[f][j] = bound[f][j]
          BY <1>9, <5>2
        <5>5. bound[f][j] = arrays[a][j]
          BY <1>8, <5>2
        <5> QED BY <5>3, <5>4, <5>5
      <4> QED BY <4>1, <4>2
    <3>2. HasNode(f)' /\ arrays'[nodes'[NodeOf(f)'].m_listeners] = slots
      BY <1>2, <1>4, <1>6, <1>11
    <3>3. Len(bound'[f]) = i
      BY <1>9
    <3> QED BY <2>1, <3>1, <3>2, <3>3
  <2>2. CASE e # f /\ ~HasNode(e)
    BY <1>9, <1>11, <2>2 DEF Undisturbed, Listed
  <2>3. CASE e # f /\ HasNode(e)
    <3>1. PICK q \in DOMAIN nodes \ {p} : q = NodeOf(e)
      BY <1>2, <2>3, EventsApart
    <3>2. PICK c : c = nodes[q].m_listeners
      OBVIOUS
    <3>3. \A j \in 1..Len(bound[e]) : bound[e][j] = arrays[c][j]
      BY <2>3, <3>1, <3>2 DEF Undisturbed, Listed
    <3>4. CASE c = Null
      <4>1. Len(bound[e]) = 0
        BY <1>13, <2>3, <3>1, <3>2, <3>4 DEF Fits, Undisturbed, Orderly, Counted
      <4>2. 1..0 = {}
        OBVIOUS
      <4> QED BY <1>9, <1>11, <2>3, <4>1, <4>2
    <3>5. CASE c # Null
      <4>1. c \in DOMAIN arrays
        BY <1>13, <3>2, <3>5 DEF Fits
      <4>2. c # a
        BY <1>2, <3>2, <3>5 DEF Undisturbed, Orderly, Owned
      <4> QED BY <1>4, <1>6, <1>9, <1>11, <2>3, <3>1, <3>2, <3>3, <4>1, <4>2
    <3> QED BY <3>4, <3>5
  <2> QED BY <2>1, <2>2, <2>3
<1>15. CalledSoFar'
  <2>1. \A e \in Event : /\ Len(bound'[e]) \in Nat /\ Len(bound'[e]) >= Len(bound[e])
                         /\ \A j \in 1..Len(bound[e]) : bound'[e][j] = bound[e][j]
    <3> TAKE e \in Event
    <3>1. Len(bound[e]) \in Nat
      BY <1>8, LenProperties
    <3>2. CASE e = f
      <4>1. i \in Nat /\ i >= i - 1
        BY <1>3
      <4> QED BY <1>8, <1>9, <3>2, <4>1
    <3>3. CASE e # f
      <4>1. bound'[e] = bound[e]
        BY <1>9, <3>3
      <4> QED BY <3>1, <4>1
    <3> QED BY <3>2, <3>3
  <2>2. OneThread /\ CalledSoFar
    BY DEF Undisturbed
  <2>3. \A e \in Event : HasNode(e) => HasNode(e)' /\ NodeOf(e)' = NodeOf(e)
    BY <1>11
  <2> QED BY <1>1, <1>4, <2>1, <2>2, <2>3, CalledKept
<1>16. \A q \in DOMAIN nodes : Fits(nodes[q], arrays') /\ Ready(nodes[q], arrays', freed)
  <2> TAKE q \in DOMAIN nodes
  <2>1. Fits(nodes[q], arrays) /\ Ready(nodes[q], arrays, freed)
    BY <1>2, <1>13
  <2>2. \A b \in DOMAIN arrays : DOMAIN arrays'[b] = DOMAIN arrays[b]
    BY <1>5, <1>6
  <2> QED BY <1>6, <2>1, <2>2 DEF Fits, Ready
<1>17. \A s \in Threads : Stage(op'[s], nodes', arrays', freed')
  BY <1>7, OtherStage DEF ArrayPcs
<1>18. Counted'
  <2>1. \A q : ~Storing(q)'
    BY <1>7 DEF Storing
  <2> SUFFICES ASSUME NEW e \in Event, HasNode(e)
               PROVE  Len(bound'[e]) = nodes[NodeOf(e)].n_listeners
    BY <1>4, <1>11, <2>1 DEF Counted
  <2>2. CASE e = f
    BY <1>2, <1>9, <2>2
  <2>3. CASE e # f
    <3>1. NodeOf(e) \in DOMAIN nodes \ {p}
      BY <1>2, <2>3, EventsApart
    <3>2. Len(bound[e]) = nodes[NodeOf(e)].n_listeners
      BY <1>13, <3>1 DEF Undisturbed, Orderly, Counted
    <3> QED BY <1>9, <2>3, <3>2
  <2> QED BY <2>2, <2>3
<1>19. Owned' /\ SlotTaken'
  BY <1>2, <1>4 DEF Undisturbed, Orderly, Owned, SlotTaken
<1>20. Orderly'
  BY <1>4, <1>16, <1>17, <1>18, <1>19 DEF Orderly
<1> QED BY <1>10, <1>12, <1>14, <1>15, <1>20 DEF Undisturbed

LEMMA BindSound ==
  ASSUME Sound, NEW t \in Threads, NEW e \in Event, Bind(t, e)
  PROVE  Sound'
<1> USE DEF Sound
<1>1. PICK o \in BindOps : /\ o.pc = "index" /\ o.for = "bind"
                          /\ op' = [op EXCEPT ![t] = o]
  <2>1. binds + 1 \in Handlers
    BY BusAssumption DEF Bind, Shapes, Handlers
  <2> QED BY <2>1 DEF Bind, BindOps, Pcs, Null
<1>2. /\ op \in [Threads -> Ops] /\ \A s \in Threads : PointerFits(s)
      /\ binds' \in 0..MaxBinds
      /\ UNCHANGED <<typeTree, val, trees, nodes, arrays, freed, misused, queue, fire, raised,
                     bound, called>>
      /\ t = BusThread => fire.pc = "calling"
  <2>1. op \in [Threads -> Ops] /\ (\A s \in Threads : PointerFits(s)) /\ binds \in 0..MaxBinds
    BY DEF Shapes
  <2>2. binds < MaxBinds /\ binds' = binds + 1
    BY DEF Bind
  <2>3. binds' \in 0..MaxBinds
    BY BusAssumption, <2>1, <2>2
  <2> QED BY <2>1, <2>3, ThreadsApart DEF Bind, registry
<1>3. op' \in [Threads -> Ops] /\ \A s \in Threads : PointerFits(s)'
  <2>1. op' \in [Threads -> Ops] /\ op'[t] = o /\ \A s \in Threads \ {t} : op'[s] = op[s]
    BY <1>1, <1>2 DEF Ops
  <2>2. PointerFits(t)'
    BY <1>1, <2>1 DEF PointerFits, AddPcs, ArrayPcs
  <2> QED BY <1>2, <2>1, <2>2 DEF PointerFits
<1>4. Shapes'
  BY <1>2, <1>3 DEF Shapes
<1>5. Matched'
  BY <1>1, <1>2, ThreadsApart DEF Matched, Threads
<1> QED BY <1>2, <1>4, <1>5 DEF NothingShared

LEMMA RaiseSound ==
  ASSUME Sound, NEW e \in Event, Raise(e)
  PROVE  Sound'
<1> USE DEF Sound
<1>1. queue' \in Seq(Event) /\ raised' \in 0..MaxEvents
  <2>1. queue \in Seq(Event) /\ raised \in 0..MaxEvents
    BY DEF Shapes
  <2>2. raised < MaxEvents /\ raised' = raised + 1 /\ queue' = Append(queue, e)
    BY DEF Raise
  <2> QED BY <2>1, <2>2, BusAssumption, AppendAt
<1>2. UNCHANGED <<typeTree, val, trees, nodes, arrays, freed, misused, op, fire, binds, bound,
                  called>>
  BY DEF Raise, registry
<1>3. \A s \in Threads : PointerFits(s)'
  BY <1>2 DEF PointerFits, Shapes
<1>4. Shapes'
  BY <1>1, <1>2, <1>3 DEF Shapes
<1> QED BY <1>2, <1>4 DEF NothingShared, Matched

(* A step of the bus thread that leaves the trees and the queue as they    *)
(* are.                                                                    *)
LEMMA DispatchSound ==
  ASSUME Sound, UNCHANGED <<registry, history>>,
         queue' \in Seq(Event), called' \in Seq(Handlers \cup {Null}),
         fire' \in Fires, op' \in [Threads -> Ops],
         fire'.pc \in Firing => fire'.node \in DOMAIN nodes,
         op'[Main] = op[Main],
         \/ op'[BusThread].pc = "idle" /\ fire'.pc # "lookup"
         \/ /\ op'[BusThread].pc \in {"index", "find"} /\ op'[BusThread].for = "dispatch"
            /\ fire'.pc = "lookup" /\ op'[BusThread].event = fire'.event,
         op'[BusThread].pc = "find" => op'[BusThread].ptr \in DOMAIN trees
  PROVE  Sound'
<1> USE DEF Sound
<1>1. UNCHANGED <<typeTree, val, trees, nodes, arrays, freed, binds, raised, bound>>
  BY DEF registry, history
<1>2. \A s \in Threads : PointerFits(s)'
  BY <1>1, ThreadsApart DEF PointerFits, Shapes, Threads, AddPcs, ArrayPcs
<1>3. Shapes'
  BY <1>1, <1>2 DEF Shapes
<1>4. Matched'
  BY DEF Matched
<1> QED BY <1>1, <1>3, <1>4 DEF NothingShared

LEMMA IdleOp ==
  ASSUME op \in [Threads -> Ops], NEW o, o = Idle(BusThread)
  PROVE  o \in [Threads -> Ops] /\ o[BusThread].pc = "idle" /\ o[Main] = op[Main]
BY ThreadsApart DEF Idle, Ops, IdleOps

(* The event that the bus thread is at is deleted next. *)
LEMMA DeletedNext ==
  ASSUME fire \in Fires, fire.pc # "take", NEW f, f = [fire EXCEPT !.pc = "delete"]
  PROVE  /\ f \in Fires /\ f.pc = "delete" /\ f.event = fire.event /\ f.event \in Event
         /\ f.pc \notin Firing
BY DEF Fires, Firing

LEMMA TakeEventSound ==
  ASSUME Sound, TakeEvent
  PROVE  Sound'
<1>1. /\ queue \in Seq(Event) /\ queue # <<>> /\ op \in [Threads -> Ops]
      /\ UNCHANGED <<registry, misused, history>>
      /\ queue' = Tail(queue) /\ called' = <<>>
  BY DEF TakeEvent, Sound, Shapes
<1>2. Head(queue) \in Event /\ queue' \in Seq(Event) /\ called' \in Seq(Handlers \cup {Null})
  BY <1>1, HeadTailProperties, EmptySeq
<1>3. PICK o \in DispatchOps : /\ o.pc = "index" /\ o.for = "dispatch" /\ o.event = Head(queue)
                              /\ op' = [op EXCEPT ![BusThread] = o]
  BY <1>2 DEF TakeEvent, DispatchOps, Null
<1>4. /\ op' \in [Threads -> Ops] /\ op'[Main] = op[Main] /\ op'[BusThread] = o
  BY <1>1, <1>3, ThreadsApart DEF Ops
<1>5. /\ fire' \in Fires /\ fire'.pc = "lookup" /\ fire'.event = Head(queue)
      /\ fire'.pc \notin Firing
  BY <1>2 DEF TakeEvent, Fires, Firing
<1> QED BY <1>1, <1>2, <1>3, <1>4, <1>5, DispatchSound

LEMMA DispatchTreeSound ==
  ASSUME Sound, DispatchTree
  PROVE  Sound'
<1> DEFINE n == op[BusThread].ptr
<1>1. /\ op[BusThread].pc = "val" /\ op[BusThread].for = "dispatch" /\ n \in DOMAIN val
      /\ op \in [Threads -> Ops] /\ fire \in Fires /\ fire.pc = "lookup"
      /\ fire.event = op[BusThread].event
      /\ queue \in Seq(Event) /\ called \in Seq(Handlers \cup {Null})
      /\ UNCHANGED <<registry, misused, history, queue, called>>
  BY ThreadsApart DEF DispatchTree, Is, Sound, Shapes, Matched, PointerFits
<1>2. CASE val[n] = Null
  <2>1. op' = Idle(BusThread) /\ fire' = [fire EXCEPT !.pc = "delete"]
    BY <1>2 DEF DispatchTree
  <2> QED BY <1>1, <2>1, IdleOp, DeletedNext, DispatchSound
<1>3. CASE val[n] # Null
  <2>1. op' = At(BusThread, "find", val[n]) /\ fire' = fire
    BY <1>3 DEF DispatchTree
  <2>2. val[n] \in DOMAIN trees /\ val[n] \in Nat
    BY <1>1, <1>3, Numbered DEF Sound, Shapes
  <2>3. /\ op' \in [Threads -> Ops] /\ op'[Main] = op[Main]
        /\ op'[BusThread].pc = "find" /\ op'[BusThread].ptr = val[n]
        /\ op'[BusThread].for = "dispatch" /\ op'[BusThread].event = op[BusThread].event
    <3>1. PICK m \in Nat : m = val[n]
      BY <2>2
    <3>2. op[BusThread].pc # "idle" /\ "find" \in Pcs /\ op' = At(BusThread, "find", m)
      BY <1>1, <2>1, <3>1 DEF Pcs
    <3> QED BY <1>1, <3>1, <3>2, AtOps, ThreadsApart
  <2>4. /\ fire' \in Fires /\ fire'.pc = "lookup" /\ fire'.pc \notin Firing
        /\ op'[BusThread].event = fire'.event
        /\ op'[BusThread].ptr \in DOMAIN trees
        /\ queue' \in Seq(Event) /\ called' \in Seq(Handlers \cup {Null})
    BY <1>1, <2>1, <2>2, <2>3 DEF Firing
  <2> QED BY <1>1, <2>3, <2>4, DispatchSound
<1> QED BY <1>2, <1>3

LEMMA DispatchNodeSound ==
  ASSUME Sound, DispatchNode
  PROVE  Sound'
<1> DEFINE u == op[BusThread].ptr
           id == fire.event.id
<1>1. /\ op[BusThread].pc = "find" /\ op[BusThread].for = "dispatch" /\ u \in DOMAIN trees
      /\ op \in [Threads -> Ops] /\ fire \in Fires /\ fire.pc = "lookup"
      /\ queue \in Seq(Event) /\ called \in Seq(Handlers \cup {Null})
      /\ UNCHANGED <<registry, misused, history, queue, called>>
      /\ op' = Idle(BusThread)
  BY ThreadsApart DEF DispatchNode, Is, Sound, Shapes, Matched, PointerFits
<1>2. CASE id \in DOMAIN trees[u]
  <2>1. trees[u][id] \in DOMAIN nodes /\ trees[u][id] \in Nat \ {0} /\ fire.event \in Event
    BY <1>1, <1>2, Numbered DEF Sound, Shapes, Fires, Null
  <2>2. fire' = [pc |-> "fire", event |-> fire.event, node |-> trees[u][id], i |-> 1,
                 array |-> Null]
    BY <1>2 DEF DispatchNode
  <2>3. fire' \in Fires /\ fire'.pc = "fire" /\ fire'.node \in DOMAIN nodes
    BY <2>1, <2>2 DEF Fires, Firing, Null
  <2> QED BY <1>1, <2>3, IdleOp, DispatchSound
<1>3. CASE id \notin DOMAIN trees[u]
  <2>1. fire' = [fire EXCEPT !.pc = "delete"]
    BY <1>3 DEF DispatchNode
  <2> QED BY <1>1, <2>1, IdleOp, DeletedNext, DispatchSound
<1> QED BY <1>2, <1>3

(* The bus thread between two handlers: an event's node and where it is.   *)
Loop == [pc : Firing \cup {"delete"}, event : Event, node : Nat \ {0}, i : Nat \ {0}, array : Nat]

LEMMA FireType ==
  ASSUME Sound, fire.pc \in Firing
  PROVE  /\ fire \in Loop /\ fire.event \in Event /\ fire.i \in Nat \ {0}
         /\ fire.node \in DOMAIN nodes /\ nodes[fire.node] \in Node
         /\ nodes[fire.node].n_listeners \in Nat
         /\ fire.pc # "calling" => op[BusThread].pc = "idle"
<1>1. fire \in Loop
  BY DEF Sound, Shapes, Fires, Firing, Loop
<1>2. nodes[fire.node] \in Node
  BY ElementOfSeq, LenProperties DEF Sound, Shapes
<1>3. fire.pc # "calling" => op[BusThread].pc = "idle"
  BY DEF Sound, Matched, Firing
<1> QED BY <1>1, <1>2, <1>3 DEF Sound, Shapes, Loop, Node

(* A step from one place of the loop to another or out of it. *)
LEMMA FiringSound ==
  ASSUME Sound, fire.pc \in Firing, op[BusThread].pc = "idle",
         NEW f \in Loop, fire' = f, f.node = fire.node,
         UNCHANGED <<registry, queue, op, history>>,
         called' \in Seq(Handlers \cup {Null})
  PROVE  Sound'
<1>1. queue' \in Seq(Event) /\ op' \in [Threads -> Ops]
  BY DEF Sound, Shapes
<1>2. fire' \in Fires /\ fire'.node \in DOMAIN nodes /\ fire'.pc # "lookup"
  BY FireType DEF Fires, Loop, Firing
<1> QED BY <1>1, <1>2, DispatchSound

LEMMA TestMoreSound ==
  ASSUME Sound, TestMore
  PROVE  Sound'
<1>1. /\ fire.pc = "fire" /\ fire.pc \in Firing /\ called \in Seq(Handlers \cup {Null})
      /\ UNCHANGED <<registry, queue, op, history, called>>
  BY DEF TestMore, Firing, Sound, Shapes
<1>2. PICK pc \in {"slot", "delete"} : fire' = [fire EXCEPT !.pc = pc]
  BY DEF TestMore
<1>3. fire' \in Loop /\ fire'.node = fire.node
  BY <1>1, <1>2, FireType DEF Loop, Firing
<1> QED BY <1>1, <1>3, FireType, FiringSound

LEMMA TakeSlotSound ==
  ASSUME Sound, TakeSlot
  PROVE  Sound'
<1>1. /\ fire.pc = "slot" /\ fire.pc \in Firing /\ called \in Seq(Handlers \cup {Null})
      /\ UNCHANGED <<registry, queue, op, history, called>>
  BY DEF TakeSlot, Firing, Sound, Shapes
<1>2. nodes[fire.node].m_listeners \in Nat
  BY <1>1, FireType DEF Node
<1>3. fire' \in Loop /\ fire'.node = fire.node
  BY <1>1, <1>2, FireType DEF TakeSlot, Loop, Firing
<1> QED BY <1>1, <1>3, FireType, FiringSound

LEMMA CallHandlerSound ==
  ASSUME Sound, CallHandler
  PROVE  Sound'
<1>1. /\ fire.pc = "call" /\ fire.pc \in Firing /\ called \in Seq(Handlers \cup {Null})
      /\ UNCHANGED <<registry, queue, op, history>>
  BY DEF CallHandler, Firing, Sound, Shapes
<1>2. called' \in Seq(Handlers \cup {Null})
  <2>1. PICK x : x = IF Usable(fire.array, fire.i) THEN arrays[fire.array][fire.i] ELSE Null
    OBVIOUS
  <2>2. called' = Append(called, x)
    BY <2>1 DEF CallHandler
  <2>3. CASE Usable(fire.array, fire.i)
    <3>1. fire.array \in DOMAIN arrays /\ fire.i \in DOMAIN arrays[fire.array]
      BY <2>3 DEF Usable
    <3>2. arrays[fire.array] \in Slots
      BY <3>1, ElementOfSeq, LenProperties DEF Sound, Shapes
    <3>3. x \in Handlers \cup {Null}
      BY <2>1, <2>3, <3>1, <3>2, SlotAt
    <3> QED BY <1>1, <2>2, <3>3, AppendAt
  <2>4. CASE ~Usable(fire.array, fire.i)
    <3>1. x \in Handlers \cup {Null}
      BY <2>1, <2>4
    <3> QED BY <1>1, <2>2, <3>1, AppendAt
  <2> QED BY <2>3, <2>4
<1>3. fire' \in Loop /\ fire'.node = fire.node
  BY <1>1, FireType DEF CallHandler, Loop, Firing
<1> QED BY <1>1, <1>2, <1>3, FireType, FiringSound

LEMMA HandlerReturnsSound ==
  ASSUME Sound, HandlerReturns
  PROVE  Sound'
<1>1. /\ fire.pc = "calling" /\ fire.pc \in Firing /\ called \in Seq(Handlers \cup {Null})
      /\ op[BusThread].pc = "idle" /\ UNCHANGED <<registry, queue, op, history, called>>
      /\ fire' = [fire EXCEPT !.pc = "fire", !.i = @ + 1]
  BY DEF HandlerReturns, Firing, Sound, Shapes
<1>2. PICK f \in Loop : f = fire
  BY <1>1, FireType
<1>3. fire' \in Loop /\ fire'.node = fire.node
  <2>1. f.i + 1 \in Nat \ {0}
    BY DEF Loop
  <2>2. fire' = [f EXCEPT !.pc = "fire", !.i = f.i + 1]
    BY <1>1, <1>2
  <2> QED BY <1>2, <2>1, <2>2 DEF Loop, Firing
<1> QED BY <1>1, <1>3, FiringSound

LEMMA DeleteEventSound ==
  ASSUME Sound, DeleteEvent
  PROVE  Sound'
<1>1. /\ queue \in Seq(Event) /\ called \in Seq(Handlers \cup {Null})
      /\ op \in [Threads -> Ops] /\ UNCHANGED <<registry, misused, queue, op, history, called>>
      /\ fire.pc = "delete"
  BY DEF DeleteEvent, Sound, Shapes
<1>2. fire' \in Fires /\ fire'.pc = "take" /\ fire'.pc \notin Firing
  BY DEF DeleteEvent, Fires, Firing
<1>3. op[BusThread].pc = "idle"
  BY <1>1 DEF Sound, Matched
<1> QED BY <1>1, <1>2, <1>3, DispatchSound

------------------------------------------------------------------------------
(* What the other steps do to the second part *)

LEMMA InitUndisturbed == Init => Undisturbed
<1> SUFFICES ASSUME Init PROVE Undisturbed
  OBVIOUS
<1>1. \A t \in Threads : OnTheWay(t)
  BY DEF Init, OnTheWay, AddPcs, ArrayPcs
<1>2. OneThread
  BY ThreadsApart DEF Init, OneThread
<1>3. Listed
  BY DEF Init, Listed, HasNode, HasTree
<1>4. CalledSoFar
  BY DEF Init, CalledSoFar, Firing
<1>5. \A t \in Threads : Stage(op[t], nodes, arrays, freed)
  BY OtherStage DEF Init, ArrayPcs
<1>6. DOMAIN nodes = {} /\ \A e : ~HasNode(e)
  BY DEF Init, HasNode, HasTree
<1>7. Orderly
  BY <1>5, <1>6 DEF Init, Orderly, Owned, Counted, SlotTaken
<1> QED BY <1>1, <1>2, <1>3, <1>4, <1>7 DEF Undisturbed

(* A step that leaves the trees, and what is bound, as they are. *)
LEMMA TreesKept ==
  ASSUME UNCHANGED <<registry, bound>>
  PROVE  /\ \A e : /\ HasTree(e)' <=> HasTree(e)
                   /\ TreeOf(e)' = TreeOf(e)
                   /\ HasNode(e)' <=> HasNode(e)
                   /\ NodeOf(e)' = NodeOf(e)
         /\ Listed => Listed'
         /\ \A t : OnTheWay(t) /\ op'[t] = op[t] => OnTheWay(t)'
<1>1. UNCHANGED <<typeTree, val, trees, nodes, arrays, bound>>
  BY DEF registry
<1>2. \A e : /\ HasTree(e)' <=> HasTree(e)
             /\ TreeOf(e)' = TreeOf(e)
             /\ HasNode(e)' <=> HasNode(e)
             /\ NodeOf(e)' = NodeOf(e)
  BY <1>1 DEF HasTree, TreeOf, HasNode, NodeOf
<1>3. Listed => Listed'
  BY <1>1, <1>2 DEF Listed
<1>4. \A t : OnTheWay(t) /\ op'[t] = op[t] => OnTheWay(t)'
  BY <1>1, <1>2 DEF OnTheWay
<1> QED BY <1>2, <1>3, <1>4

(* main binds before it raises anything, and the bus thread only while it  *)
(* runs a handler, when main is through with binding.                      *)
LEMMA BindUndisturbed ==
  ASSUME Sound, Undisturbed, ~Concurrent, NEW t \in Threads, NEW e \in Event, Bind(t, e)
  PROVE  Undisturbed'
<1>1. /\ UNCHANGED <<registry, misused, queue, fire, raised, bound, called>>
      /\ op \in [Threads -> Ops] /\ op[t].pc = "idle"
      /\ IF t = Main THEN raised = 0 ELSE fire.pc = "calling"
  BY DEF Bind, Sound, Shapes
<1>2. op'[t].pc = "index" /\ \A s \in Threads \ {t} : op'[s] = op[s]
  BY <1>1 DEF Bind
<1>3. OneThread'
  BY <1>1, <1>2, ThreadsApart DEF Undisturbed, OneThread
<1>4. \A s \in Threads : OnTheWay(s)'
  <2>1. \A s \in Threads \ {t} : OnTheWay(s)'
    BY <1>1, <1>2, TreesKept DEF Undisturbed
  <2>2. OnTheWay(t)'
    BY <1>2 DEF OnTheWay, AddPcs, ArrayPcs
  <2> QED BY <2>1, <2>2
<1>5. CalledSoFar'
  BY <1>1, TreesKept DEF Undisturbed, CalledSoFar
<1>6. Orderly'
  <2>1. UNCHANGED <<nodes, arrays, freed, misused, bound>>
    BY <1>1 DEF registry
  <2>2. SlotTaken'
    BY <1>1, <2>1 DEF Undisturbed, Orderly, SlotTaken
  <2>3. op[t].pc \notin ArrayPcs /\ op'[t].pc \notin ArrayPcs
    BY <1>1, <1>2 DEF ArrayPcs
  <2> QED BY <1>1, <1>2, <2>1, <2>2, <2>3, OrderKept, TreesKept DEF Undisturbed
<1> QED BY <1>1, <1>3, <1>4, <1>5, <1>6, TreesKept DEF Undisturbed

LEMMA RaiseUndisturbed ==
  ASSUME Sound, Undisturbed, NEW e \in Event, Raise(e)
  PROVE  Undisturbed'
<1>1. /\ UNCHANGED <<registry, misused, op, fire, bound, called>>
      /\ op[Main].pc = "idle" /\ raised \in Nat /\ raised' = raised + 1
  BY BusAssumption DEF Raise, Sound, Shapes
<1>2. OneThread'
  BY <1>1 DEF OneThread
<1>3. \A s \in Threads : OnTheWay(s)'
  BY <1>1, TreesKept DEF Undisturbed
<1>4. CalledSoFar'
  BY <1>1, TreesKept DEF Undisturbed, CalledSoFar
<1>5. Orderly'
  <2>1. UNCHANGED <<nodes, arrays, freed, misused, bound>>
    BY <1>1 DEF registry
  <2>2. SlotTaken'
    BY <1>1, <2>1 DEF Undisturbed, Orderly, SlotTaken
  <2>3. op[Main].pc \notin ArrayPcs /\ op'[Main].pc \notin ArrayPcs
    BY <1>1 DEF ArrayPcs
  <2> QED BY <1>1, <2>1, <2>2, <2>3, ThreadsApart, OrderKept, TreesKept DEF Undisturbed
<1> QED BY <1>1, <1>2, <1>3, <1>4, <1>5, TreesKept DEF Undisturbed

(* A step of the bus thread that leaves the trees as they are. *)
LEMMA DispatchUndisturbed ==
  ASSUME Sound, Undisturbed, UNCHANGED <<registry, misused, history>>,
         op'[Main] = op[Main], fire.pc # "take" \/ queue # <<>>,
         op[BusThread].pc \notin ArrayPcs, op'[BusThread].pc \notin ArrayPcs,
         OnTheWay(BusThread)', CalledSoFar', SlotTaken'
  PROVE  Undisturbed'
<1>1. raised # 0 /\ op[Main].pc = "idle"
  BY DEF Undisturbed, OneThread
<1>2. UNCHANGED <<registry, bound, raised, nodes, arrays, freed, misused>>
  BY DEF history, registry
<1>3. OneThread'
  BY <1>1, <1>2 DEF OneThread
<1>4. OnTheWay(Main)'
  BY <1>2, ThreadsApart, TreesKept DEF Undisturbed
<1>5. \A t \in Threads : OnTheWay(t)'
  BY <1>4 DEF Threads
<1>6. \A s \in Threads \ {BusThread} : op'[s] = op[s]
  BY DEF Threads
<1>7. Orderly'
  BY <1>2, <1>6, ThreadsApart, OrderKept, TreesKept DEF Undisturbed
<1> QED BY <1>2, <1>3, <1>5, <1>7, TreesKept DEF Undisturbed

LEMMA TakeEventUndisturbed ==
  ASSUME Sound, Undisturbed, TakeEvent
  PROVE  Undisturbed'
<1>1. /\ op \in [Threads -> Ops] /\ UNCHANGED <<registry, misused, history>>
      /\ queue # <<>> /\ called' = <<>> /\ fire.pc = "take"
  BY DEF TakeEvent, Sound, Shapes
<1>2. op'[BusThread].pc = "index" /\ op'[Main] = op[Main]
  BY <1>1, ThreadsApart DEF TakeEvent
<1>3. fire'.pc = "lookup"
  BY DEF TakeEvent
<1>4. OnTheWay(BusThread)' /\ CalledSoFar' /\ SlotTaken'
  BY <1>1, <1>2, <1>3 DEF OnTheWay, CalledSoFar, SlotTaken, Firing, AddPcs, ArrayPcs
<1>5. op[BusThread].pc = "idle"
  BY <1>1 DEF Sound, Matched
<1>6. op[BusThread].pc \notin ArrayPcs /\ op'[BusThread].pc \notin ArrayPcs
  BY <1>2, <1>5 DEF ArrayPcs
<1> QED BY <1>1, <1>2, <1>4, <1>6, DispatchUndisturbed

LEMMA DispatchTreeUndisturbed ==
  ASSUME Sound, Undisturbed, DispatchTree
  PROVE  Undisturbed'
<1> DEFINE n == op[BusThread].ptr
           e == fire.event
<1>1. /\ op[BusThread].pc = "val" /\ op[BusThread].for = "dispatch" /\ n \in DOMAIN val
      /\ op \in [Threads -> Ops] /\ fire \in Fires /\ fire.pc = "lookup"
      /\ e = op[BusThread].event /\ e \in Event
      /\ UNCHANGED <<registry, misused, history, called>> /\ called = <<>>
      /\ e.type \in DOMAIN typeTree /\ typeTree[e.type] = n
  <2>1. fire \in Fires /\ fire.pc = "lookup" /\ e = op[BusThread].event
    BY ThreadsApart DEF DispatchTree, Is, Sound, Shapes, Matched
  <2>2. e \in Event
    BY <2>1 DEF Fires
  <2> QED BY <2>1, <2>2, ThreadsApart
          DEF DispatchTree, Is, Sound, Shapes, PointerFits, Undisturbed, OnTheWay, CalledSoFar
<1>2. CASE val[n] = Null
  <2>1. op' = Idle(BusThread) /\ fire' = [fire EXCEPT !.pc = "delete"]
    BY <1>2 DEF DispatchTree
  <2>2. bound'[e] = <<>>
    BY <1>1, <1>2 DEF Undisturbed, Listed, HasNode, HasTree, history
  <2>3. op'[BusThread].pc = "idle" /\ op'[Main] = op[Main]
    BY <1>1, <2>1, IdleOp
  <2>4. fire'.pc = "delete" /\ fire'.event = e
    BY <1>1, <2>1, DeletedNext
  <2>5. CalledSoFar' /\ SlotTaken' /\ OnTheWay(BusThread)'
    BY <1>1, <2>2, <2>3, <2>4 DEF CalledSoFar, SlotTaken, OnTheWay, Firing, AddPcs, ArrayPcs
  <2>6. op[BusThread].pc \notin ArrayPcs /\ op'[BusThread].pc \notin ArrayPcs
    BY <1>1, <2>3 DEF ArrayPcs
  <2> QED BY <1>1, <2>3, <2>5, <2>6, DispatchUndisturbed
<1>3. CASE val[n] # Null
  <2>1. op' = At(BusThread, "find", val[n]) /\ fire' = fire /\ val[n] \in Nat
    BY <1>1, <1>3, Numbered DEF DispatchTree
  <2>2. /\ op'[Main] = op[Main] /\ op'[BusThread].pc = "find"
        /\ op'[BusThread].ptr = val[n] /\ op'[BusThread].event = op[BusThread].event
    <3>1. PICK m \in Nat : m = val[n]
      BY <2>1
    <3>2. op[BusThread].pc # "idle" /\ "find" \in Pcs /\ op' = At(BusThread, "find", m)
      BY <1>1, <2>1, <3>1 DEF Pcs
    <3> QED BY <1>1, <3>1, <3>2, AtOps, ThreadsApart
  <2>3. UNCHANGED <<typeTree, val>>
    BY <1>1 DEF registry
  <2>4. OnTheWay(BusThread)'
    BY <1>1, <1>3, <2>2, <2>3 DEF OnTheWay, HasTree, TreeOf, AddPcs, ArrayPcs
  <2>5. CalledSoFar' /\ SlotTaken'
    BY <1>1, <2>1 DEF CalledSoFar, SlotTaken, Firing
  <2>6. op[BusThread].pc \notin ArrayPcs /\ op'[BusThread].pc \notin ArrayPcs
    BY <1>1, <2>2 DEF ArrayPcs
  <2> QED BY <1>1, <2>2, <2>4, <2>5, <2>6, DispatchUndisturbed
<1> QED BY <1>2, <1>3

LEMMA DispatchNodeUndisturbed ==
  ASSUME Sound, Undisturbed, DispatchNode
  PROVE  Undisturbed'
<1> DEFINE u == op[BusThread].ptr
<1> PICK e : e = fire.event
  OBVIOUS
<1>1. /\ op[BusThread].pc = "find" /\ op[BusThread].for = "dispatch"
      /\ op \in [Threads -> Ops] /\ fire \in Fires /\ fire.pc = "lookup"
      /\ e = op[BusThread].event /\ e \in Event
      /\ UNCHANGED <<registry, misused, history, called>> /\ called = <<>>
      /\ HasTree(e) /\ TreeOf(e) = u
      /\ op' = Idle(BusThread)
  <2>1. fire \in Fires /\ fire.pc = "lookup" /\ e = op[BusThread].event
    BY ThreadsApart DEF DispatchNode, Is, Sound, Shapes, Matched
  <2>2. e \in Event
    BY <2>1 DEF Fires
  <2> QED BY <2>1, <2>2, ThreadsApart
          DEF DispatchNode, Is, Sound, Shapes, Undisturbed, OnTheWay, CalledSoFar
<1>2. /\ OnTheWay(BusThread)' /\ op'[Main] = op[Main]
      /\ op[BusThread].pc \notin ArrayPcs /\ op'[BusThread].pc \notin ArrayPcs
  BY <1>1, IdleOp DEF OnTheWay, AddPcs, ArrayPcs
<1>3. UNCHANGED <<registry, bound>>
  BY <1>1 DEF history
<1>4. CASE e.id \in DOMAIN trees[u]
  <2>1. HasNode(e) /\ NodeOf(e) = trees[u][e.id]
    BY <1>1, <1>4 DEF HasNode, NodeOf
  <2>2. fire' = [pc |-> "fire", event |-> e, node |-> trees[u][e.id], i |-> 1,
                 array |-> Null]
    BY <1>4 DEF DispatchNode
  <2>3. HasNode(e)' /\ NodeOf(e)' = fire'.node
    BY <1>3, <2>1, <2>2, TreesKept
  <2>4. /\ fire'.pc = "fire" /\ fire'.event = e /\ fire'.i = 1 /\ Len(called') = 0
        /\ Len(bound'[e]) \in Nat
    BY <1>1, <1>3, <2>2, LenProperties DEF Sound, Shapes
  <2>5. 1..0 = {}
    OBVIOUS
  <2>6. CalledSoFar' /\ SlotTaken'
    BY <2>3, <2>4, <2>5 DEF CalledSoFar, SlotTaken, Firing
  <2> QED BY <1>1, <1>2, <2>6, DispatchUndisturbed
<1>5. CASE e.id \notin DOMAIN trees[u]
  <2>1. fire' = [fire EXCEPT !.pc = "delete"]
    BY <1>5 DEF DispatchNode
  <2>2. bound'[e] = <<>>
    BY <1>1, <1>3, <1>5 DEF Undisturbed, Listed, HasNode
  <2>3. fire'.pc = "delete" /\ fire'.event = e
    BY <1>1, <2>1, DeletedNext
  <2>4. CalledSoFar' /\ SlotTaken'
    BY <1>1, <2>2, <2>3 DEF CalledSoFar, SlotTaken, Firing
  <2> QED BY <1>1, <1>2, <2>4, DispatchUndisturbed
<1> QED BY <1>4, <1>5

(* The node whose handlers are called, and how far the bus thread is.      *)
LEMMA FireListed ==
  ASSUME Sound, Undisturbed, fire.pc \in Firing, op[BusThread].pc = "idle",
         NEW e, e = fire.event, NEW node, node = nodes[fire.node]
  PROVE  /\ e \in Event /\ HasNode(e) /\ NodeOf(e) = fire.node /\ fire.i \in Nat \ {0}
         /\ bound[e] \in Seq(Handlers) /\ called \in Seq(Handlers \cup {Null})
         /\ Len(bound[e]) = node.n_listeners /\ Len(bound[e]) \in Nat
         /\ Len(called) = (IF fire.pc = "calling" THEN fire.i ELSE fire.i - 1)
         /\ Len(called) <= Len(bound[e])
         /\ \A i \in 1..Len(called) : called[i] = bound[e][i]
         /\ \A i \in 1..Len(bound[e]) : bound[e][i] = arrays[node.m_listeners][i]
         /\ fire.node \in DOMAIN nodes /\ node \in Node
         /\ Fits(node, arrays) /\ Ready(node, arrays, freed)
<1>1. e \in Event /\ fire.i \in Nat \ {0} /\ fire.node \in DOMAIN nodes /\ node \in Node
  BY FireType
<1>2. HasNode(e) /\ NodeOf(e) = fire.node
  BY DEF Undisturbed, CalledSoFar
<1>3. /\ Len(called) = (IF fire.pc = "calling" THEN fire.i ELSE fire.i - 1)
      /\ Len(called) <= Len(bound[e])
      /\ \A i \in 1..Len(called) : called[i] = bound[e][i]
  BY DEF Undisturbed, CalledSoFar
<1>4. /\ bound[e] \in Seq(Handlers) /\ called \in Seq(Handlers \cup {Null})
      /\ Len(bound[e]) \in Nat
  BY <1>1, LenProperties DEF Sound, Shapes
<1>5. \A i \in 1..Len(bound[e]) : bound[e][i] = arrays[node.m_listeners][i]
  BY <1>1, <1>2 DEF Undisturbed, Listed
<1>6. \A t \in Threads : op[t].pc = "idle"
  <2>1. op[Main].pc = "idle"
    BY DEF Undisturbed, OneThread, Firing
  <2> QED BY <2>1 DEF Threads
<1>7. \A n : ~Storing(n) /\ ~InHand(n)
  BY <1>6 DEF Storing, InHand
<1>8. Len(bound[e]) = node.n_listeners
  BY <1>1, <1>2, <1>7 DEF Undisturbed, Orderly, Counted
<1>9. Fits(node, arrays) /\ Ready(node, arrays, freed)
  BY <1>1, <1>7 DEF Undisturbed, Orderly
<1> QED BY <1>1, <1>2, <1>3, <1>4, <1>5, <1>8, <1>9

(* The loop goes on with the same node, and the trees stay as they are. *)
LEMMA FiringUndisturbed ==
  ASSUME Sound, Undisturbed, fire.pc \in Firing, op[BusThread].pc = "idle",
         UNCHANGED <<registry, misused, op, history>>, CalledSoFar', SlotTaken'
  PROVE  Undisturbed'
<1>1. fire.pc # "take" /\ op[BusThread].pc \notin ArrayPcs
  BY DEF Firing, ArrayPcs
<1>2. OnTheWay(BusThread)'
  BY DEF OnTheWay, AddPcs, ArrayPcs
<1> QED BY <1>1, <1>2, DispatchUndisturbed

(* The loop ends with as many handlers called as are bound by then. *)
LEMMA TestMoreUndisturbed ==
  ASSUME Sound, Undisturbed, TestMore
  PROVE  Undisturbed'
<1> PICK e : e = fire.event
  OBVIOUS
<1> PICK k : k = fire.i
  OBVIOUS
<1>1. /\ fire.pc = "fire" /\ fire.pc \in Firing
      /\ UNCHANGED <<registry, misused, op, history, called>>
      /\ fire' = [fire EXCEPT !.pc = IF k <= nodes[fire.node].n_listeners
                                     THEN "slot" ELSE "delete"]
  BY DEF TestMore, MoreListeners, Firing
<1>2. op[BusThread].pc = "idle" /\ fire \in Loop
  BY <1>1, FireType
<1>3. /\ HasNode(e) /\ NodeOf(e) = fire.node /\ k \in Nat \ {0}
      /\ bound[e] \in Seq(Handlers) /\ called \in Seq(Handlers \cup {Null})
      /\ Len(bound[e]) = nodes[fire.node].n_listeners /\ Len(bound[e]) \in Nat
      /\ Len(called) = k - 1 /\ Len(called) <= Len(bound[e])
      /\ \A i \in 1..Len(called) : called[i] = bound[e][i]
  BY <1>1, <1>2, FireListed
<1>4. UNCHANGED <<bound, nodes>>
  BY <1>1 DEF history, registry
<1>5. CASE k <= nodes[fire.node].n_listeners
  <2>1. fire'.pc = "slot" /\ fire'.event = e /\ fire'.node = fire.node /\ fire'.i = k
    BY <1>1, <1>2, <1>5 DEF Loop
  <2>2. HasNode(e)' /\ NodeOf(e)' = fire.node
    BY <1>1, <1>3, <1>4, TreesKept
  <2>3. CalledSoFar'
    BY <1>1, <1>3, <1>4, <2>1, <2>2 DEF CalledSoFar
  <2>4. SlotTaken'
    BY <1>4, <1>5, <2>1 DEF SlotTaken
  <2> QED BY <1>1, <1>2, <2>3, <2>4, FiringUndisturbed
<1>6. CASE ~(k <= nodes[fire.node].n_listeners)
  <2>1. fire'.pc = "delete" /\ fire'.event = e
    BY <1>1, <1>2, <1>6 DEF Loop
  <2>2. Len(called) = Len(bound[e])
    BY <1>3, <1>6
  <2>3. called = bound[e]
    <3>1. bound[e] \in Seq(Handlers \cup {Null})
      <4>1. \A i \in 1..Len(bound[e]) : bound[e][i] \in Handlers \cup {Null}
        BY <1>3, ElementOfSeq
      <4> QED BY <1>3, <4>1
    <3> QED BY <1>3, <2>2, <3>1, SeqEqual
  <2>4. CalledSoFar' /\ SlotTaken'
    BY <1>1, <1>4, <2>1, <2>3 DEF CalledSoFar, SlotTaken, Firing
  <2> QED BY <1>1, <1>2, <2>4, FiringUndisturbed
<1> QED BY <1>5, <1>6

LEMMA TakeSlotUndisturbed ==
  ASSUME Sound, Undisturbed, TakeSlot
  PROVE  Undisturbed'
<1>1. /\ fire.pc = "slot" /\ fire.pc \in Firing
      /\ UNCHANGED <<registry, misused, op, history, called>>
  BY DEF TakeSlot, Firing
<1>2. op[BusThread].pc = "idle"
  BY <1>1, FireType
<1>3. /\ fire'.pc = "call" /\ fire'.event = fire.event /\ fire'.node = fire.node
      /\ fire'.i = fire.i /\ fire'.array = nodes[fire.node].m_listeners
  BY <1>1, FireType DEF TakeSlot, Loop
<1>4. UNCHANGED <<bound, nodes>>
  BY <1>1 DEF history, registry
<1>5. CalledSoFar'
  BY <1>1, <1>3, <1>4, TreesKept DEF Undisturbed, CalledSoFar, Firing
<1>6. SlotTaken'
  BY <1>1, <1>3, <1>4 DEF Undisturbed, Orderly, SlotTaken
<1> QED BY <1>1, <1>2, <1>5, <1>6, FiringUndisturbed

(* The slot that a handler is called from is one of an array in use. *)
LEMMA CallHandlerReads ==
  ASSUME Sound, Undisturbed, fire.pc = "call",
         NEW e, e = fire.event, NEW k, k = fire.i
  PROVE  /\ Usable(fire.array, k) /\ k \in 1..Len(bound[e])
         /\ arrays[fire.array][k] = bound[e][k] /\ bound[e][k] \in Handlers
<1> PICK node : node = nodes[fire.node]
  OBVIOUS
<1>1. fire.pc \in Firing /\ op[BusThread].pc = "idle"
  BY FireType DEF Firing
<1>2. /\ k <= node.n_listeners /\ fire.array = node.m_listeners
  BY DEF Undisturbed, Orderly, SlotTaken
<1>3. /\ k \in Nat \ {0} /\ bound[e] \in Seq(Handlers)
      /\ Len(bound[e]) = node.n_listeners /\ Len(bound[e]) \in Nat
      /\ \A i \in 1..Len(bound[e]) : bound[e][i] = arrays[node.m_listeners][i]
      /\ Fits(node, arrays) /\ Ready(node, arrays, freed)
  BY <1>1, FireListed
<1>4. k \in 1..node.n_listeners /\ k \in 1..Len(bound[e])
  BY <1>2, <1>3
<1>5. node.m_listeners # Null
  BY <1>3, <1>4 DEF Fits
<1>6. node.m_listeners \in DOMAIN arrays \ freed /\ k \in DOMAIN arrays[node.m_listeners]
  BY <1>3, <1>4, <1>5 DEF Fits, Ready
<1>7. bound[e][k] \in Handlers
  BY <1>3, <1>4, ElementOfSeq
<1> QED BY <1>2, <1>3, <1>4, <1>6, <1>7 DEF Usable

LEMMA CallHandlerUndisturbed ==
  ASSUME Sound, Undisturbed, CallHandler
  PROVE  Undisturbed'
<1> PICK e : e = fire.event
  OBVIOUS
<1> PICK k : k = fire.i
  OBVIOUS
<1> PICK x : x = arrays[fire.array][fire.i]
  OBVIOUS
<1>1. /\ fire.pc = "call" /\ fire.pc \in Firing
      /\ UNCHANGED <<registry, op, history>>
  BY DEF CallHandler, Firing
<1>2. /\ Usable(fire.array, k) /\ k \in 1..Len(bound[e]) /\ x = bound[e][k] /\ x \in Handlers
  BY <1>1, CallHandlerReads
<1>3. x # Null
  BY <1>2 DEF Handlers, Null
<1>4. called' = Append(called, x) /\ UNCHANGED misused
  <2>1. misused = FALSE
    BY DEF Undisturbed, Orderly
  <2> QED BY <1>2, <1>3, <2>1 DEF CallHandler
<1>5. /\ HasNode(e) /\ NodeOf(e) = fire.node /\ k \in Nat \ {0}
      /\ called \in Seq(Handlers \cup {Null}) /\ Len(bound[e]) \in Nat
      /\ Len(called) = k - 1
      /\ \A i \in 1..(k - 1) : called[i] = bound[e][i]
  BY <1>1, FireType, FireListed
<1>6. /\ Len(called') = k /\ called'[k] = x
      /\ \A i \in 1..(k - 1) : called'[i] = called[i]
  BY <1>2, <1>4, <1>5, AppendAt
<1>7. \A i \in 1..k : called'[i] = bound[e][i]
  <2> TAKE i \in 1..k
  <2>1. i = k \/ i \in 1..(k - 1)
    BY <1>5
  <2> QED BY <1>2, <1>5, <1>6, <2>1
<1>8. fire'.pc = "calling" /\ fire'.event = e /\ fire'.node = fire.node /\ fire'.i = k
  BY <1>1, FireType DEF CallHandler, Loop
<1>9. UNCHANGED <<registry, bound>>
  BY <1>1 DEF history
<1>10. HasNode(e)' /\ NodeOf(e)' = fire.node
  BY <1>5, <1>9, TreesKept
<1>11. CalledSoFar'
  BY <1>2, <1>5, <1>6, <1>7, <1>8, <1>9, <1>10 DEF CalledSoFar
<1>12. SlotTaken'
  BY <1>8 DEF SlotTaken
<1>13. op[BusThread].pc = "idle"
  BY <1>1, FireType
<1> QED BY <1>1, <1>4, <1>11, <1>12, <1>13, FiringUndisturbed

LEMMA HandlerReturnsUndisturbed ==
  ASSUME Sound, Undisturbed, HandlerReturns
  PROVE  Undisturbed'
<1> PICK e : e = fire.event
  OBVIOUS
<1> PICK k : k = fire.i
  OBVIOUS
<1>1. /\ fire.pc = "calling" /\ op[BusThread].pc = "idle" /\ fire.pc \in Firing
      /\ UNCHANGED <<registry, misused, op, history, called>>
  BY DEF HandlerReturns, Firing
<1>2. fire'.pc = "fire" /\ fire'.event = e /\ fire'.node = fire.node /\ fire'.i = k + 1
  BY <1>1, FireType DEF HandlerReturns, Loop
<1>3. /\ HasNode(e) /\ NodeOf(e) = fire.node /\ k \in Nat
      /\ Len(called) = k /\ k <= Len(bound[e])
      /\ \A i \in 1..k : called[i] = bound[e][i]
  BY <1>1, FireListed
<1>4. UNCHANGED <<registry, bound>>
  BY <1>1 DEF history
<1>5. HasNode(e)' /\ NodeOf(e)' = fire.node
  BY <1>3, <1>4, TreesKept
<1>6. k + 1 - 1 = k
  BY <1>3
<1>7. CalledSoFar'
  BY <1>1, <1>2, <1>3, <1>4, <1>5, <1>6 DEF CalledSoFar
<1>8. SlotTaken'
  BY <1>2 DEF SlotTaken
<1> QED BY <1>1, <1>7, <1>8, FiringUndisturbed

LEMMA DeleteEventUndisturbed ==
  ASSUME Sound, Undisturbed, DeleteEvent
  PROVE  Undisturbed'
<1>1. /\ fire.pc = "delete" /\ fire'.pc = "take"
      /\ UNCHANGED <<registry, misused, op, history>>
  BY DEF DeleteEvent
<1>2. CalledSoFar' /\ SlotTaken'
  BY <1>1 DEF CalledSoFar, SlotTaken, Firing
<1>3. op[BusThread].pc = "idle"
  BY <1>1 DEF Sound, Matched
<1>4. /\ OnTheWay(BusThread)'
      /\ op[BusThread].pc \notin ArrayPcs /\ op'[BusThread].pc \notin ArrayPcs
  BY <1>1, <1>3 DEF OnTheWay, AddPcs, ArrayPcs
<1> QED BY <1>1, <1>2, <1>4, DispatchUndisturbed

------------------------------------------------------------------------------
(* A program whose main binds before the first event *)

LEMMA NextInductive ==
  ASSUME Sound, Undisturbed, ~Concurrent, [Next]_vars
  PROVE  Sound' /\ Undisturbed'
<1>1. ASSUME NEW t \in Threads, NEW e \in Event, Bind(t, e)
      PROVE  Sound' /\ Undisturbed'
  BY <1>1, BindSound, BindUndisturbed
<1>2. ASSUME NEW t \in Threads, FindType(t) \/ BindTree(t) \/ BindNode(t)
      PROVE  Sound' /\ Undisturbed'
  BY <1>2, FindTypeSound, FindTypeUndisturbed, BindTreeSound, BindTreeUndisturbed,
     BindNodeSound, BindNodeUndisturbed
<1>3. ASSUME NEW t \in Threads, NewType(t) \/ NewTree(t) \/ NewNode(t)
      PROVE  Sound' /\ Undisturbed'
  BY <1>3, NewTypeStep, NewTreeStep, NewNodeStep
<1>4. ASSUME NEW t \in Threads,
             TestListeners(t) \/ FirstArray(t) \/ FirstAlloc(t) \/ FirstCount(t)
      PROVE  Sound' /\ Undisturbed'
  BY <1>4, TestListenersStep, FirstArrayStep, FirstAllocStep, FirstCountStep
<1>5. ASSUME NEW t \in Threads, TestFull(t) \/ Double(t) \/ Realloc(t) \/ Repoint(t)
      PROVE  Sound' /\ Undisturbed'
  BY <1>5, TestFullStep, DoubleStep, ReallocStep, RepointStep
<1>6. ASSUME NEW t \in Threads, Count(t) \/ Store(t)
      PROVE  Sound' /\ Undisturbed'
  BY <1>6, CountStep, StoreStep
<1>7. ASSUME NEW e \in Event, Raise(e)
      PROVE  Sound' /\ Undisturbed'
  BY <1>7, RaiseSound, RaiseUndisturbed
<1>8. CASE TakeEvent \/ DispatchTree \/ DispatchNode
  BY <1>8, TakeEventSound, TakeEventUndisturbed, DispatchTreeSound, DispatchTreeUndisturbed,
     DispatchNodeSound, DispatchNodeUndisturbed
<1>9. CASE TestMore \/ TakeSlot \/ CallHandler
  BY <1>9, TestMoreSound, TestMoreUndisturbed, TakeSlotSound, TakeSlotUndisturbed,
     CallHandlerSound, CallHandlerUndisturbed
<1>10. CASE HandlerReturns \/ DeleteEvent
  BY <1>10, HandlerReturnsSound, HandlerReturnsUndisturbed, DeleteEventSound,
     DeleteEventUndisturbed
<1>11. CASE UNCHANGED vars
  <2>1. UNCHANGED <<typeTree, val, trees, nodes, arrays, freed, misused, queue, op, fire, binds,
                    raised, bound, called>>
    BY <1>11 DEF vars, registry, history
  <2>2. Sound'
    BY <2>1 DEF Sound, Shapes, PointerFits, NothingShared, Matched
  <2>3. UNCHANGED <<registry, bound>>
    BY <1>11 DEF vars, history
  <2>4. OneThread'
    BY <2>1 DEF Undisturbed, OneThread
  <2>5. CalledSoFar'
    BY <2>1, <2>3, TreesKept DEF Undisturbed, CalledSoFar
  <2>6. Listed' /\ \A t \in Threads : OnTheWay(t)'
    BY <2>1, <2>3, TreesKept DEF Undisturbed
  <2>7. \A n : (InHand(n)' <=> InHand(n)) /\ (Storing(n)' <=> Storing(n))
    BY <2>1 DEF InHand, Storing
  <2>8. Owned' /\ SlotTaken' /\ misused' = FALSE
    BY <2>1 DEF Undisturbed, Orderly, Owned, SlotTaken
  <2>9. Counted'
    BY <2>1, <2>3, <2>7, TreesKept DEF Undisturbed, Orderly, Counted
  <2>10. \A n \in DOMAIN nodes' :
           Fits(nodes'[n], arrays') /\ (InHand(n)' \/ Ready(nodes'[n], arrays', freed'))
    BY <2>1, <2>7 DEF Undisturbed, Orderly
  <2>11. \A t \in Threads : Stage(op'[t], nodes', arrays', freed')
    BY <2>1 DEF Undisturbed, Orderly
  <2>12. Orderly'
    BY <2>8, <2>9, <2>10, <2>11 DEF Orderly
  <2> QED BY <2>2, <2>4, <2>5, <2>6, <2>12 DEF Undisturbed
<1> QED BY <1>1, <1>2, <1>3, <1>4, <1>5, <1>6, <1>7, <1>8, <1>9, <1>10, <1>11 DEF Next

LEMMA Inductive ==
  ASSUME ~Concurrent
  PROVE  Spec => [](Sound /\ Undisturbed)
<1>1. Init => Sound /\ Undisturbed
  BY InitSound, InitUndisturbed
<1>2. Sound /\ Undisturbed /\ [Next]_vars => Sound' /\ Undisturbed'
  BY NextInductive
<1> QED BY <1>1, <1>2, PTL DEF Spec

(* If main binds only before the first event, the trees lead to nodes and  *)
(* the nodes to arrays that are there, as TypeOK says, between any two     *)
(* statements of BUS_BIND and of a dispatch.                               *)
THEOREM BusTypes ==
  ASSUME ~Concurrent
  PROVE  Spec => []TypeOK
<1>1. Sound /\ Undisturbed => TypeOK
  <2> SUFFICES ASSUME Sound, Undisturbed PROVE TypeOK
    OBVIOUS
  <2>1. \A t \in DOMAIN trees : DOMAIN trees[t] \subseteq Ids
    <3> TAKE t \in DOMAIN trees
    <3>1. trees[t] \in UNION {[I -> Nat] : I \in SUBSET Ids}
      BY ElementOfSeq, LenProperties DEF Sound, Shapes
    <3> QED BY <3>1
  <2>2. \A n \in DOMAIN nodes :
          /\ nodes[n].m_listeners \in DOMAIN arrays \cup {Null}
          /\ nodes[n].n_listeners <= nodes[n].n_alloc
    BY DEF Undisturbed, Orderly, Fits
  <2>3. \A e \in Event : \A i \in DOMAIN bound[e] : bound[e][i] \in Handlers
    BY ElementOfSeq, LenProperties DEF Sound, Shapes
  <2> QED BY <2>1, <2>2, <2>3 DEF Sound, Shapes, TypeOK
<1> QED BY <1>1, Inductive, PTL

(* Under the same condition no handler is read from or written to an array *)
(* that realloc has freed or a slot that is not there, and none is called  *)
(* that is not set, however often the handlers that an event calls grow    *)
(* the array that they are called from.  Of binds on two threads at once   *)
(* nothing of the kind holds.                                              *)
THEOREM NeverStale ==
  ASSUME ~Concurrent
  PROVE  Spec => []NoStaleArray
<1>1. Undisturbed => NoStaleArray
  BY DEF Undisturbed, Orderly, NoStaleArray
<1> QED BY <1>1, Inductive, PTL

(* Under the same condition no bind is lost: while nobody binds to an      *)
(* event, a lookup finds its handlers in the order in which they were      *)
(* bound.  It is false of a main that binds later (the run bus_shared).    *)
THEOREM NoBindLost ==
  ASSUME ~Concurrent
  PROVE  Spec => []BindsAreFound
<1>1. ASSUME Sound, Undisturbed, NEW e \in Event, ~BeingBound(e)
      PROVE  Found(e) = bound[e]
  <2>1. bound[e] \in Seq(Handlers) /\ Len(bound[e]) \in Nat
    BY <1>1, LenProperties DEF Sound, Shapes
  <2>2. CASE ~HasNode(e)
    <3>1. bound[e] = <<>>
      BY <1>1, <2>2 DEF Undisturbed, Listed
    <3>2. Found(e) = <<>>
      <4>1. NewNodeRec.m_listeners = Null
        BY DEF NewNodeRec
      <4> QED BY <2>2, <4>1 DEF Found, HasNode, HasTree, TreeOf, Null
    <3> QED BY <3>1, <3>2
  <2>3. CASE HasNode(e)
    <3> DEFINE node == nodes[NodeOf(e)]
               a == node.m_listeners
    <3>1. Found(e) = IF a = Null THEN <<>> ELSE [i \in 1..node.n_listeners |-> arrays[a][i]]
      BY <2>3 DEF Found, HasNode, HasTree, NodeOf, TreeOf
    <3>2. ~Storing(NodeOf(e))
      <4> SUFFICES ASSUME NEW t \in Threads, op[t].pc = "store", op[t].ptr = NodeOf(e)
                   PROVE  FALSE
        BY DEF Storing
      <4>1. op[t].pc \in AddPcs /\ op[t].pc # "idle"
        BY DEF AddPcs, ArrayPcs
      <4>2. /\ op[t].for = "bind" /\ op[t].event \in Event
            /\ HasNode(op[t].event) /\ NodeOf(op[t].event) = NodeOf(e)
        BY <1>1, <4>1, Adding
      <4>3. op[t].event = e
        BY <1>1, <2>3, <4>2, EventsApart
      <4> QED BY <1>1, <4>1, <4>2, <4>3 DEF BeingBound
    <3>3. /\ Len(bound[e]) = node.n_listeners
          /\ \A i \in 1..node.n_listeners : bound[e][i] = arrays[a][i]
      BY <1>1, <2>3, <3>2 DEF Undisturbed, Orderly, Counted, Listed
    <3>4. CASE a = Null
      <4>1. Fits(node, arrays)
        BY <1>1, <2>3, EventsApart DEF Undisturbed, Orderly
      <4>2. node.n_listeners = 0
        BY <3>4, <4>1 DEF Fits
      <4> QED BY <2>1, <3>1, <3>3, <3>4, <4>2, EmptySeq
    <3>5. CASE a # Null
      <4>1. bound[e] = [i \in 1..Len(bound[e]) |-> bound[e][i]]
        BY <2>1
      <4> HIDE DEF a, node
      <4> QED BY <3>1, <3>3, <3>5, <4>1
    <3> QED BY <3>4, <3>5
  <2> QED BY <2>2, <2>3
<1>2. Sound /\ Undisturbed => BindsAreFound
  BY <1>1 DEF BindsAreFound
<1> QED BY <1>2, Inductive, PTL

(* bus.h:20, under the same condition: an event calls every handler bound  *)
(* to it, once and in order, those that its handlers bind to it included.  *)
THEOREM AllWaitingAreCalled ==
  ASSUME ~Concurrent
  PROVE  Spec => []AllWaitingCalled
<1>1. Undisturbed => AllWaitingCalled
  BY DEF Undisturbed, CalledSoFar, AllWaitingCalled
<1> QED BY <1>1, Inductive, PTL
================================================================================
