---------------------------------- MODULE Bus ----------------------------------
(***************************************************************************)
(* src/impl/bus.c: handlers bound to events and events dispatched to them. *)
(*                                                                         *)
(* The bus keeps a tree from event types to nodes, in each of which is a   *)
(* tree from event ids to nodes, in each of which is a growing array of    *)
(* handlers.  No lock protects them.  BUS_BIND changes them on the thread  *)
(* that calls it, which may be the bus thread itself, in a handler; the    *)
(* bus thread looks events up in them.  One action is one operation on a   *)
(* tree or one statement on a node or an array.                            *)
(*                                                                         *)
(* With Concurrent, main binds while the bus thread is in the trees: a     *)
(* data race, which C leaves undefined.  The actions of the two then       *)
(* interleave in any order, which is some of what can come of it: enough   *)
(* to show that a bind can be lost, and no ground for a claim that all is  *)
(* well, so every property but the refuted one is about ~Concurrent.       *)
(*                                                                         *)
(* The k-th call of BUS_BIND binds handler k.                              *)
(***************************************************************************)
EXTENDS Naturals, Sequences

CONSTANTS
  Types,         \* the event types (by their name)
  Ids,           \* the event ids
  InitialSlots,  \* 10: the size of a node's first array
  Concurrent,    \* may main bind once it has raised events?
  MaxBinds,      \* bound on the calls of BUS_BIND
  MaxEvents      \* bound on the events raised

ASSUME BusAssumption ==
  /\ InitialSlots \in Nat \ {0}
  /\ Concurrent \in BOOLEAN
  /\ MaxBinds \in Nat /\ MaxEvents \in Nat

Main == "main"
BusThread == "bus_pthread_main"
Threads == {Main, BusThread}

Null == 0
Handlers == 1..MaxBinds
Event == [type : Types, id : Ids]

VARIABLES
  typeTree,  \* m_event_tree: from types to nodes
  val,       \* val[n]: the tree in the n-th bus_event_type_node, or Null
  trees,     \* trees[t]: the t-th bus_event_tree, from ids to nodes
  nodes,     \* nodes[n]: the n-th bus_event_node
  arrays,    \* arrays[a]: the a-th array of handlers
  freed,     \* the arrays that realloc has given back
  misused,   \* memory that is not there was read or written, or null called:
             \* from then on the program is undefined
  queue,     \* m_event_queue
  op,        \* op[t]: the bind or the lookup thread t is at, or "idle"
  fire,      \* the dispatch the bus thread is at
  binds,     \* how often BUS_BIND has been called
  raised,    \* how many events were raised
  bound,     \* bound[e]: the handlers bound to e by calls that returned
  called     \* the handlers called for the current event

registry == <<typeTree, val, trees, nodes, arrays, freed>>
history == <<binds, raised, bound>>
vars == <<registry, misused, queue, op, fire, history, called>>

NewNodeRec == [m_listeners |-> Null, n_listeners |-> 0, n_alloc |-> 0]

Init ==
  /\ typeTree = <<>> /\ val = <<>> /\ trees = <<>> /\ nodes = <<>> /\ arrays = <<>>
  /\ freed = {} /\ misused = FALSE
  /\ queue = <<>>
  /\ op = [t \in Threads |-> [pc |-> "idle"]]
  /\ fire = [pc |-> "take"]
  /\ binds = 0 /\ raised = 0
  /\ bound = [e \in Event |-> <<>>]
  /\ called = <<>>

(* Thread t goes on at pc, with the pointer it has just got or without. *)
At(t, pc, p) == [op EXCEPT ![t].pc = pc, ![t].ptr = p]
GoesOn(t, pc) == [op EXCEPT ![t].pc = pc]
Idle(t) == [op EXCEPT ![t] = [pc |-> "idle"]]
Is(t, pc, for) == op[t].pc = pc /\ op[t].for = for

------------------------------------------------------------------------------
(***************************************************************************)
(* Variants with a plausible slip each; not part of the specification.     *)
(***************************************************************************)

SlipInsert(tree, k, n) == tree
SlipMoved(a) == a
SlipFullNever(node) == FALSE
SlipMoreListeners(node, i) == i < node.n_listeners

------------------------------------------------------------------------------
(* RB_INSERT of an element with key k: an equal one that is in the tree    *)
(* already stays.                                                          *)
Insert(tree, k, n) ==
  [j \in DOMAIN tree \cup {k} |-> IF j \in DOMAIN tree THEN tree[j] ELSE n]

(* bus_event_type_tree_index, for a bind and for a dispatch *)

FindType(t) ==
  /\ op[t].pc = "index"
  /\ op' = IF op[t].event.type \in DOMAIN typeTree
           THEN At(t, "val", typeTree[op[t].event.type])
           ELSE At(t, "new_type", Null)
  /\ UNCHANGED <<registry, misused, queue, fire, history, called>>

NewType(t) ==
  LET n == Len(val) + 1
  IN  /\ op[t].pc = "new_type"
      /\ val' = Append(val, Null)
      /\ typeTree' = Insert(typeTree, op[t].event.type, n)
      /\ op' = At(t, "val", n)
      /\ UNCHANGED <<trees, nodes, arrays, freed, misused, queue, fire, history, called>>

------------------------------------------------------------------------------
(* bus__bind_event__ *)

(* main binds before it raises anything, a handler on the bus thread at    *)
(* any time; with Concurrent, main at any time too.                        *)
Bind(t, e) ==
  /\ op[t].pc = "idle"
  /\ binds < MaxBinds
  /\ IF t = Main THEN Concurrent \/ raised = 0 ELSE fire.pc = "calling"
  /\ binds' = binds + 1
  /\ op' = [op EXCEPT ![t] = [pc |-> "index", for |-> "bind", event |-> e,
                              handler |-> binds + 1, ptr |-> Null,
                              array |-> Null, slot |-> 0]]
  /\ UNCHANGED <<registry, misused, queue, fire, raised, bound, called>>

(* if(!node->val) node->val = make_new_event_tree(), and node->val is read *)
(* again after it.                                                         *)
BindTree(t) ==
  /\ Is(t, "val", "bind")
  /\ op' = IF val[op[t].ptr] # Null THEN At(t, "find", val[op[t].ptr])
                                    ELSE At(t, "new_tree", op[t].ptr)
  /\ UNCHANGED <<registry, misused, queue, fire, history, called>>

NewTree(t) ==
  /\ op[t].pc = "new_tree"
  /\ trees' = Append(trees, <<>>)
  /\ val' = [val EXCEPT ![op[t].ptr] = Len(trees) + 1]
  /\ op' = At(t, "val", op[t].ptr)
  /\ UNCHANGED <<typeTree, nodes, arrays, freed, misused, queue, fire, history, called>>

(* bus_event_tree_insert_handler *)
BindNode(t) ==
  LET tr == op[t].ptr
      id == op[t].event.id
  IN  /\ Is(t, "find", "bind")
      /\ op' = IF id \in DOMAIN trees[tr] THEN At(t, "add", trees[tr][id])
                                          ELSE At(t, "new_node", tr)
      /\ UNCHANGED <<registry, misused, queue, fire, history, called>>

NewNode(t) ==
  LET n == Len(nodes) + 1
  IN  /\ op[t].pc = "new_node"
      /\ nodes' = Append(nodes, NewNodeRec)
      /\ trees' = [trees EXCEPT ![op[t].ptr] = Insert(@, op[t].event.id, n)]
      /\ op' = At(t, "add", n)
      /\ UNCHANGED <<typeTree, val, arrays, freed, misused, queue, fire, history, called>>

(* bus_event_node_add_handler: if(!node->m_listeners), ... *)
TestListeners(t) ==
  /\ op[t].pc = "add"
  /\ op' = GoesOn(t, IF nodes[op[t].ptr].m_listeners = Null THEN "first" ELSE "full")
  /\ UNCHANGED <<registry, misused, queue, fire, history, called>>

(* ... the first array, the number of its slots and that of the handlers   *)
(* in it; ...                                                              *)
FirstArray(t) ==
  /\ op[t].pc = "first"
  /\ arrays' = Append(arrays, [i \in 1..InitialSlots |-> Null])
  /\ nodes' = [nodes EXCEPT ![op[t].ptr].m_listeners = Len(arrays) + 1]
  /\ op' = GoesOn(t, "first_alloc")
  /\ UNCHANGED <<typeTree, val, trees, freed, misused, queue, fire, history, called>>

FirstAlloc(t) ==
  /\ op[t].pc = "first_alloc"
  /\ nodes' = [nodes EXCEPT ![op[t].ptr].n_alloc = InitialSlots]
  /\ op' = GoesOn(t, "first_count")
  /\ UNCHANGED <<typeTree, val, trees, arrays, freed, misused, queue, fire, history, called>>

FirstCount(t) ==
  /\ op[t].pc = "first_count"
  /\ nodes' = [nodes EXCEPT ![op[t].ptr].n_listeners = 0]
  /\ op' = GoesOn(t, "full")
  /\ UNCHANGED <<typeTree, val, trees, arrays, freed, misused, queue, fire, history, called>>

Full(node) == node.n_alloc = node.n_listeners

TestFull(t) ==
  /\ op[t].pc = "full"
  /\ op' = GoesOn(t, IF Full(nodes[op[t].ptr]) THEN "double" ELSE "count")
  /\ UNCHANGED <<registry, misused, queue, fire, history, called>>

(* ... twice as many slots if it is full, in an array that realloc gives   *)
(* back for the old one, which it copies and frees, ...                    *)
Double(t) ==
  /\ op[t].pc = "double"
  /\ nodes' = [nodes EXCEPT ![op[t].ptr].n_alloc = 2 * @]
  /\ op' = GoesOn(t, "realloc")
  /\ UNCHANGED <<typeTree, val, trees, arrays, freed, misused, queue, fire, history, called>>

Longer(slots, n) == [i \in 1..n |-> IF i \in DOMAIN slots THEN slots[i] ELSE Null]

(* Where realloc puts the array. *)
Moved(a) == Len(arrays) + 1

Realloc(t) ==
  LET node == nodes[op[t].ptr]
      a == node.m_listeners
  IN  /\ op[t].pc = "realloc"
      /\ arrays' = Append(arrays, Longer(arrays[a], node.n_alloc))
      /\ freed' = freed \cup {a}
      /\ misused' = (misused \/ a \in freed)
      /\ op' = [op EXCEPT ![t].pc = "repoint", ![t].array = Moved(a)]
      /\ UNCHANGED <<typeTree, val, trees, nodes, queue, fire, history, called>>

Repoint(t) ==
  /\ op[t].pc = "repoint"
  /\ nodes' = [nodes EXCEPT ![op[t].ptr].m_listeners = op[t].array]
  /\ op' = GoesOn(t, "count")
  /\ UNCHANGED <<typeTree, val, trees, arrays, freed, misused, queue, fire, history, called>>

(* ... and the handler in the slot behind the last one, which is counted   *)
(* before it is written.                                                   *)
Count(t) ==
  LET node == nodes[op[t].ptr]
      i == node.n_listeners + 1
  IN  /\ op[t].pc = "count"
      /\ nodes' = [nodes EXCEPT ![op[t].ptr].n_listeners = i]
      /\ op' = [op EXCEPT ![t].pc = "store", ![t].array = node.m_listeners, ![t].slot = i]
      /\ UNCHANGED <<typeTree, val, trees, arrays, freed, misused, queue, fire, history, called>>

(* Array a is allocated and has a slot i. *)
Usable(a, i) == a \in DOMAIN arrays \ freed /\ i \in DOMAIN arrays[a]

Store(t) ==
  LET a == op[t].array
      i == op[t].slot
  IN  /\ op[t].pc = "store"
      /\ arrays' = IF Usable(a, i) THEN [arrays EXCEPT ![a][i] = op[t].handler] ELSE arrays
      /\ misused' = (misused \/ ~Usable(a, i))
      /\ bound' = [bound EXCEPT ![op[t].event] = Append(@, op[t].handler)]
      /\ op' = Idle(t)
      /\ UNCHANGED <<typeTree, val, trees, nodes, freed, queue, fire, binds, raised, called>>

------------------------------------------------------------------------------
(* BUS_RAISE, and the bus thread *)

Raise(e) ==
  /\ op[Main].pc = "idle"
  /\ raised < MaxEvents
  /\ raised' = raised + 1
  /\ queue' = Append(queue, e)
  /\ UNCHANGED <<registry, misused, op, fire, binds, bound, called>>

TakeEvent ==
  /\ fire.pc = "take"
  /\ queue # <<>>
  /\ queue' = Tail(queue)
  /\ fire' = [pc |-> "lookup", event |-> Head(queue)]
  /\ op' = [op EXCEPT ![BusThread] =
              [pc |-> "index", for |-> "dispatch", event |-> Head(queue), ptr |-> Null]]
  /\ called' = <<>>
  /\ UNCHANGED <<registry, misused, history>>

(* bus_handle_event: a type without a tree or an id without a node has no  *)
(* handlers.                                                               *)
DispatchTree ==
  LET tr == val[op[BusThread].ptr]
  IN  /\ Is(BusThread, "val", "dispatch")
      /\ IF tr = Null
         THEN op' = Idle(BusThread) /\ fire' = [fire EXCEPT !.pc = "delete"]
         ELSE op' = At(BusThread, "find", tr) /\ UNCHANGED fire
      /\ UNCHANGED <<registry, misused, queue, history, called>>

DispatchNode ==
  LET tree == trees[op[BusThread].ptr]
      id == fire.event.id
  IN  /\ Is(BusThread, "find", "dispatch")
      /\ op' = Idle(BusThread)
      /\ fire' = IF id \in DOMAIN tree
                 THEN [pc |-> "fire", event |-> fire.event, node |-> tree[id], i |-> 1,
                       array |-> Null]
                 ELSE [fire EXCEPT !.pc = "delete"]
      /\ UNCHANGED <<registry, misused, queue, history, called>>

MoreListeners(node, i) == i <= node.n_listeners

(* The loop of bus_event_node_fire_event reads the bound and the array     *)
(* anew each time: the test, ...                                           *)
TestMore ==
  /\ fire.pc = "fire"
  /\ fire' = [fire EXCEPT !.pc = IF MoreListeners(nodes[fire.node], fire.i)
                                 THEN "slot" ELSE "delete"]
  /\ UNCHANGED <<registry, misused, queue, op, history, called>>

(* ... the address of the slot, ... *)
TakeSlot ==
  /\ fire.pc = "slot"
  /\ fire' = [fire EXCEPT !.pc = "call", !.array = nodes[fire.node].m_listeners]
  /\ UNCHANGED <<registry, misused, queue, op, history, called>>

(* ... and the call of the handler that is in it by then, ... *)
CallHandler ==
  LET usable == Usable(fire.array, fire.i)
      handler == IF usable THEN arrays[fire.array][fire.i] ELSE Null
  IN  /\ fire.pc = "call"
      /\ called' = Append(called, handler)
      /\ misused' = (misused \/ ~usable \/ handler = Null)
      /\ fire' = [fire EXCEPT !.pc = "calling"]
      /\ UNCHANGED <<registry, queue, op, history>>

(* ... since the handler may have bound others before it returns. *)
HandlerReturns ==
  /\ fire.pc = "calling"
  /\ op[BusThread].pc = "idle"
  /\ fire' = [fire EXCEPT !.pc = "fire", !.i = @ + 1]
  /\ UNCHANGED <<registry, misused, queue, op, history, called>>

DeleteEvent ==
  /\ fire.pc = "delete"
  /\ fire' = [pc |-> "take"]
  /\ UNCHANGED <<registry, misused, queue, op, history, called>>

Next ==
  \/ \E t \in Threads :
       \/ \E e \in Event : Bind(t, e)
       \/ FindType(t) \/ NewType(t)
       \/ BindTree(t) \/ NewTree(t) \/ BindNode(t) \/ NewNode(t)
       \/ TestListeners(t) \/ FirstArray(t) \/ FirstAlloc(t) \/ FirstCount(t)
       \/ TestFull(t) \/ Double(t) \/ Realloc(t) \/ Repoint(t)
       \/ Count(t) \/ Store(t)
  \/ \E e \in Event : Raise(e)
  \/ TakeEvent \/ DispatchTree \/ DispatchNode
  \/ TestMore \/ TakeSlot \/ CallHandler \/ HandlerReturns \/ DeleteEvent

Spec == Init /\ [][Next]_vars

------------------------------------------------------------------------------
(* Properties *)

(* The trees lead to nodes and the nodes to arrays that were allocated,    *)
(* and no node counts more listeners than slots.                           *)
TypeOK ==
  /\ DOMAIN typeTree \subseteq Types
  /\ \A ty \in DOMAIN typeTree : typeTree[ty] \in DOMAIN val
  /\ \A n \in DOMAIN val : val[n] \in DOMAIN trees \cup {Null}
  /\ \A t \in DOMAIN trees :
       DOMAIN trees[t] \subseteq Ids /\ \A id \in DOMAIN trees[t] : trees[t][id] \in DOMAIN nodes
  /\ \A n \in DOMAIN nodes :
       /\ nodes[n].m_listeners \in DOMAIN arrays \cup {Null}
       /\ nodes[n].n_listeners <= nodes[n].n_alloc
  /\ freed \subseteq DOMAIN arrays
  /\ queue \in Seq(Event)
  /\ binds \in 0..MaxBinds /\ raised \in 0..MaxEvents
  /\ \A e \in Event : \A i \in DOMAIN bound[e] : bound[e][i] \in Handlers

(* The handlers that a lookup of e finds in the trees. *)
Found(e) ==
  LET tr == IF e.type \in DOMAIN typeTree THEN val[typeTree[e.type]] ELSE Null
      node == IF tr # Null /\ e.id \in DOMAIN trees[tr]
              THEN nodes[trees[tr][e.id]] ELSE NewNodeRec
  IN  IF node.m_listeners = Null THEN <<>>
      ELSE [i \in 1..node.n_listeners |-> arrays[node.m_listeners][i]]

BeingBound(e) == \E t \in Threads : op[t].pc # "idle" /\ op[t].for = "bind" /\ op[t].event = e

(* A bind that has returned is there to be found, and in the order of the  *)
(* binds: none is lost when a type, an id or an array is made for it, or   *)
(* when another is being made; an event that a thread is binding to right  *)
(* now has an array in the making.                                         *)
BindsAreFound == \A e \in Event : BeingBound(e) \/ Found(e) = bound[e]

(* bus.h:20: an event that is processed calls all handlers waiting for its *)
(* type and id, each once and in the order of the binds, those that were   *)
(* bound by one of the handlers on the way included.                       *)
AllWaitingCalled == fire.pc = "delete" => called = bound[fire.event]

(* No handler is read from or written to an array that realloc has moved   *)
(* or to a slot that an array does not have, although a handler that binds *)
(* may grow the array that is gone through; and every slot that is called  *)
(* has been filled.                                                        *)
NoStaleArray == ~misused
================================================================================
