------------------------------- MODULE Pipeline -------------------------------
(***************************************************************************)
(* The way of a frame through the program:                                 *)
(*                                                                         *)
(*   main          reads the frame and raises a packet_event on the bus    *)
(*   bus thread    takes the event, fires the handlers bound to it and     *)
(*                 deletes it; on_packet_event__ makes a packet of it      *)
(*   chain workers take the packet, run one handler of its chain and put   *)
(*                 it back or delete it                                    *)
(*                                                                         *)
(* (socket_ss.c, bus.c, chain_ss.c, and main.c for the order in which they *)
(* start.)  The two blocking queues between the threads are instances of   *)
(* FifoQueue, which BlockingQueue implements.                              *)
(*                                                                         *)
(* The bytes of a frame are allocated once and handed on by pointer, so    *)
(* the state says what is allocated: the bytes, the events and the packets *)
(* that malloc and calloc have returned and free() has not got back.       *)
(***************************************************************************)
EXTENDS EtherChain, FiniteSets

CONSTANTS
  NWorkers,         \* the first argument of create_chain_ctx
  ThreadsMayFail,   \* may pthread_create fail for a worker?
  Heads,            \* what ether_chain_head may be after the configuration
  MaxFrames,        \* bound on the number of frames received
  None              \* the null pointer in a packet_ptr or an evt

ASSUME PipelineAssumption ==
  /\ NWorkers \in Nat
  /\ ThreadsMayFail \in BOOLEAN
  /\ Heads \subseteq Rules \cup {NoRule}
  /\ MaxFrames \in Nat

Workers == 1..NWorkers
Bus == "bus_pthread_main"

VARIABLES
  mainPc,           \* where main is
  created,          \* how many workers start_chain_ctx has tried to create
  running,          \* the workers that exist
  listeners,        \* how often on_packet_event__ is bound to packet_event
  ether_chain_head, \* of the chain set in the context
  frames,           \* frames[f]: the header of the f-th frame received
  bytes,            \* the frames whose bytes are allocated
  events,           \* the frames whose packet_event is allocated
  packet,           \* packet[p]: the packets that are allocated
  busQueue, busInto, busRc,  \* m_event_queue, and the bus thread's calls of it
  busPc,            \* where the bus thread is
  fired,            \* i of bus_event_node_fire_event
  pktQueue, pktInto, pktRc,  \* m_packet_queue_, and the workers' calls of it
  workerPc,         \* where each worker is
  effects,          \* effects[f]: the rules that acted on the bytes of frame f
  passedBy          \* passedBy[f]: the frames on which a handler was run while
                    \* the packet of f has been waiting in the queue

mainVars == <<mainPc, created, running, listeners, ether_chain_head>>
busVars == <<busPc, fired>>
heap == <<frames, bytes, events, packet>>
busQ == <<busQueue, busInto, busRc>>
pktQ == <<pktQueue, pktInto, pktRc>>
history == <<effects, passedBy>>
vars == <<mainVars, heap, busQ, busVars, pktQ, workerPc, history>>

Received == 1..Len(frames)

(* A packet is named for the frame and the firing it was made from. *)
PacketId == (1..MaxFrames) \X Nat

BusQ == INSTANCE FifoQueue WITH
  Threads <- {Bus}, Items <- 1..MaxFrames,
  contents <- busQueue, into <- busInto, rc <- busRc
PktQ == INSTANCE FifoQueue WITH
  Threads <- Workers, Items <- PacketId,
  contents <- pktQueue, into <- pktInto, rc <- pktRc

Init ==
  /\ mainPc = "starting"
  /\ created = 0
  /\ running = {}
  /\ listeners = 0
  /\ ether_chain_head \in Heads
  /\ frames = <<>>
  /\ bytes = {}
  /\ events = {}
  /\ packet = <<>>
  /\ BusQ!Init
  /\ PktQ!Init
  /\ busPc = "take"
  /\ fired = 0
  /\ workerPc = [w \in Workers |-> "take"]
  /\ effects = [f \in 1..MaxFrames |-> <<>>]
  /\ passedBy = [f \in 1..MaxFrames |-> <<>>]

------------------------------------------------------------------------------
(***************************************************************************)
(* Variants of the operations below with a plausible slip each; they are   *)
(* not part of the specification.                                          *)
(***************************************************************************)

SlipMoreWorkers == created <= NWorkers
SlipBIND(n) == n + 2
SlipReset(p) == p
SlipFreedWithEvent(f) == {f}

------------------------------------------------------------------------------
(* main *)

MoreWorkers == created < NWorkers

(* start_chain_ctx: what pthread_create returns is not looked at. *)
CreateWorker ==
  /\ mainPc = "starting"
  /\ MoreWorkers
  /\ created' = created + 1
  /\ \/ running' = running \cup {created + 1}
     \/ ThreadsMayFail /\ UNCHANGED running
  /\ UNCHANGED <<mainPc, listeners, ether_chain_head,
                 heap, busQ, busVars, pktQ, workerPc, history>>

BIND(n) == n + 1

(* BIND in start_chain_ctx, which returns; main goes on to the socket. *)
BindHandler ==
  /\ mainPc = "starting"
  /\ ~MoreWorkers
  /\ listeners' = BIND(listeners)
  /\ mainPc' = "reading"
  /\ UNCHANGED <<created, running, ether_chain_head,
                 heap, busQ, busVars, pktQ, workerPc, history>>

(* read_packet_from_socket up to the copy into data.chrs. *)
ReadPacket(h) ==
  /\ mainPc = "reading"
  /\ Len(frames) < MaxFrames
  /\ frames' = Append(frames, h)
  /\ bytes' = bytes \cup {Len(frames) + 1}
  /\ mainPc' = "raising"
  /\ UNCHANGED <<created, running, listeners, ether_chain_head, events, packet,
                 busQ, busVars, pktQ, workerPc, history>>

(* RAISE_EVENT(packet_event, new_packet_event(&data, ...)) *)
RaiseEvent ==
  /\ mainPc = "raising"
  /\ events' = events \cup {Len(frames)}
  /\ BusQ!Put(Len(frames))
  /\ mainPc' = "reading"
  /\ UNCHANGED <<created, running, listeners, ether_chain_head,
                 frames, bytes, packet, busVars, pktQ, workerPc, history>>

------------------------------------------------------------------------------
(* The bus thread *)

(* blocking_queue_take in bus_pthread_main; only BQ_OK is acted upon. *)
BusTake ==
  /\ busPc = "take"
  /\ BusQ!Get(Bus)
  /\ busPc' = "fire"
  /\ fired' = 0
  /\ UNCHANGED <<mainVars, heap, pktQ, workerPc, history>>

BusTimeout ==
  /\ busPc = "take"
  /\ BusQ!Timeout(Bus)
  /\ UNCHANGED <<mainVars, heap, busVars, pktQ, workerPc, history>>

(* One iteration of the loop of bus_event_node_fire_event: the handler     *)
(* bound is on_packet_event__, which makes a packet that shares the bytes  *)
(* with the event.                                                         *)
OnPacketEvent ==
  LET f == busInto[Bus]
      p == <<f, fired>>
      new == [next_handler |-> "BEGIN", current_chain_rule |-> ether_chain_head,
              bytes |-> f]
  IN  /\ busPc = "fire"
      /\ fired < listeners
      /\ packet' = [q \in DOMAIN packet \cup {p} |-> IF q = p THEN new ELSE packet[q]]
      /\ PktQ!Put(p)
      /\ fired' = fired + 1
      /\ UNCHANGED <<mainVars, frames, bytes, events, busQ, busPc, workerPc, history>>

(* delete_packet_data leaves the bytes to the packet. *)
FreedWithEvent(f) == {}

(* bus_event_delete *)
DeleteEvent ==
  /\ busPc = "fire"
  /\ fired >= listeners
  /\ events' = events \ {busInto[Bus]}
  /\ bytes' = bytes \ FreedWithEvent(busInto[Bus])
  /\ busPc' = "take"
  /\ UNCHANGED <<mainVars, frames, packet, busQ, fired, pktQ, workerPc, history>>

------------------------------------------------------------------------------
(* A worker: chain_thread__main__ *)

WorkerTake(w) ==
  /\ w \in running
  /\ workerPc[w] = "take"
  /\ PktQ!Get(w)
  /\ workerPc' = [workerPc EXCEPT ![w] = "handle"]
  /\ passedBy' = [passedBy EXCEPT ![packet[pktInto'[w]].bytes] = <<>>]
  /\ UNCHANGED <<mainVars, heap, busQ, busVars, effects>>

(* packet_ptr keeps pointing to the worker's last packet, and the loop     *)
(* must not look at it.                                                    *)
WorkerTimeout(w) ==
  /\ w \in running
  /\ workerPc[w] = "take"
  /\ PktQ!Timeout(w)
  /\ UNCHANGED <<mainVars, heap, busQ, busVars, workerPc, history>>

(* Some packet of frame g is in the queue. *)
Waits(g) == \E i \in DOMAIN pktQueue : packet[pktQueue[i]].bytes = g

Reset(p) == [p EXCEPT !.next_handler = "NULL"]

(* handler = next_handler; next_handler = NULL; handler(packet_ptr) *)
RunHandler(w) ==
  LET p == pktInto[w]
      reset == Reset(packet[p])
      hdlr == packet[p].next_handler
      f == packet[p].bytes
  IN  /\ w \in running
      /\ workerPc[w] = "handle"
      /\ packet' = [packet EXCEPT ![p] = Handle(reset, hdlr, frames[f])]
      /\ effects' = [effects EXCEPT ![f] = @ \o Effect(reset, hdlr, frames[f])]
      /\ passedBy' = [g \in 1..MaxFrames |-> IF Waits(g) THEN Append(passedBy[g], f)
                                                        ELSE passedBy[g]]
      /\ workerPc' = [workerPc EXCEPT ![w] = "dispose"]
      /\ UNCHANGED <<mainVars, frames, bytes, events, busQ, busVars, pktQ>>

Requeue(w) ==
  /\ w \in running
  /\ workerPc[w] = "dispose"
  /\ packet[pktInto[w]].next_handler # "NULL"
  /\ PktQ!Put(pktInto[w])
  /\ workerPc' = [workerPc EXCEPT ![w] = "take"]
  /\ UNCHANGED <<mainVars, heap, busQ, busVars, history>>

(* packet_delete: the bytes and the packet *)
PacketDelete(w) ==
  LET p == pktInto[w]
  IN  /\ w \in running
      /\ workerPc[w] = "dispose"
      /\ packet[p].next_handler = "NULL"
      /\ bytes' = bytes \ {packet[p].bytes}
      /\ packet' = [q \in DOMAIN packet \ {p} |-> packet[q]]
      /\ workerPc' = [workerPc EXCEPT ![w] = "take"]
      /\ UNCHANGED <<mainVars, frames, events, busQ, busVars, pktQ, history>>

Next ==
  \/ CreateWorker \/ BindHandler \/ RaiseEvent
  \/ \E h \in Header : ReadPacket(h)
  \/ BusTake \/ BusTimeout \/ OnPacketEvent \/ DeleteEvent
  \/ \E w \in Workers : \/ WorkerTake(w) \/ WorkerTimeout(w) \/ RunHandler(w)
                        \/ Requeue(w) \/ PacketDelete(w)

Spec == Init /\ [][Next]_vars

(* A thread that can run runs.  For the takes that is strong fairness: a   *)
(* thread at the top of its loop may time out any number of times, but it  *)
(* calls take again at once, and take returns an item that is there (the   *)
(* property EveryItemTaken of BlockingQueue).  Nothing makes frames come.  *)
Fairness ==
  /\ WF_vars(CreateWorker) /\ WF_vars(BindHandler) /\ WF_vars(RaiseEvent)
  /\ SF_vars(BusTake) /\ WF_vars(OnPacketEvent \/ DeleteEvent)
  /\ \A w \in Workers :
       /\ SF_vars(WorkerTake(w))
       /\ WF_vars(RunHandler(w) \/ Requeue(w) \/ PacketDelete(w))

FairSpec == Spec /\ Fairness

------------------------------------------------------------------------------
(* Properties *)

(* Who is where: the events and packets that are pointed to by a thread    *)
(* which will still use them.                                              *)
InBus(f) == \/ \E i \in DOMAIN busQueue : busQueue[i] = f
            \/ busPc = "fire" /\ busInto[Bus] = f
Holders(p) == {w \in running : workerPc[w] # "take" /\ pktInto[w] = p}
Places(p) == {i \in DOMAIN pktQueue : pktQueue[i] = p}

(* The threads are at a line of their program and what they hold has its   *)
(* type: no more workers than create_chain_ctx was told, one listener per  *)
(* BIND, and names of frames that were received.                           *)
TypeOK ==
  /\ mainPc \in {"starting", "reading", "raising"}
  /\ created \in 0..NWorkers
  /\ running \subseteq Workers
  /\ listeners \in {0, 1}
  /\ ether_chain_head \in Heads
  /\ frames \in Seq(Header) /\ Len(frames) <= MaxFrames
  /\ bytes \subseteq Received
  /\ events \subseteq Received
  /\ DOMAIN packet \subseteq PacketId
  /\ \A p \in DOMAIN packet : packet[p] \in Packet(Received)
  /\ busQueue \in Seq(1..MaxFrames)
  /\ busInto \in [{Bus} -> (1..MaxFrames) \cup {None}]
  /\ busRc \in [{Bus} -> {"BQ_OK", "BQ_TIMEOUT"}]
  /\ busPc \in {"take", "fire"}
  /\ fired \in 0..listeners
  /\ pktQueue \in Seq(PacketId)
  /\ pktInto \in [Workers -> PacketId \cup {None}]
  /\ pktRc \in [Workers -> {"BQ_OK", "BQ_TIMEOUT"}]
  /\ workerPc \in [Workers -> {"take", "handle", "dispose"}]
  /\ effects \in [1..MaxFrames -> Seq(Rules)]
  /\ passedBy \in [1..MaxFrames -> Seq(Received)]

(* Nothing that is freed is used again: the events on the bus, the packets *)
(* in the queue or in a worker's hands, and the bytes those packets point  *)
(* to are allocated, although the event of a packet still points to the    *)
(* same bytes and is deleted at a time of the bus thread's choosing, and   *)
(* a worker's packet_ptr still points to a packet another has deleted.     *)
NoDanglingPointer ==
  /\ \A f \in Received : InBus(f) => f \in events
  /\ \A i \in DOMAIN pktQueue : pktQueue[i] \in DOMAIN packet
  /\ \A w \in running : workerPc[w] # "take" => pktInto[w] \in DOMAIN packet
  /\ \A p \in DOMAIN packet : packet[p].bytes \in bytes

(* What is allocated is somebody's to free, and one party's only.  A       *)
(* packet is at one place of the queue or with one worker; the bytes       *)
(* belong to main until the event is raised, to the event until            *)
(* on_packet_event__ has taken them over, and then to one packet.          *)
OneOwner ==
  /\ \A f \in events : InBus(f)
  /\ \A p \in DOMAIN packet :
       Cardinality(Holders(p)) + Cardinality(Places(p)) = 1
  /\ \A f \in bytes :
       LET packets == {p \in DOMAIN packet : packet[p].bytes = f}
           before == \/ mainPc = "raising" /\ f = Len(frames)
                     \/ InBus(f) /\ ~(busPc = "fire" /\ busInto[Bus] = f /\ fired > 0)
       IN  IF before THEN packets = {} ELSE \E p \in packets : packets = {p}

(* The frame meets only rules whose meaning the code implements. *)
Meant(f) == AllImplemented(frames[f], ether_chain_head)

(* The handlers, run one by one between passages through a shared queue,   *)
(* do to a frame what the configuration means, neither less nor more: what *)
(* was done, followed by what the packet's current rule still stands for,  *)
(* is the meaning of the ethernet chain, and once the bytes are gone       *)
(* nothing is left to do.  Of the frames that meet a `return`, a           *)
(* `continue`, or a `call` whose pattern they do not match, it says        *)
(* nothing: there the code does not do what the rule means.                *)
FilteredAsConfigured ==
  /\ \A p \in DOMAIN packet :
       LET f == packet[p].bytes
           rest == IF packet[p].next_handler = "NULL" THEN <<>>
                   ELSE Meaning(frames[f])[packet[p].current_chain_rule].acts
       IN  Meant(f) => effects[f] \o rest = Meaning(frames[f])[ether_chain_head].acts
  /\ \A f \in Received \ bytes :
       Meant(f) => effects[f] = Meaning(frames[f])[ether_chain_head].acts

(* Packets take turns, whatever the number of workers: while a packet      *)
(* waits no other is run twice, so a long chain starves nobody.            *)
NobodyPassesTwice ==
  \A f \in 1..MaxFrames : \A i, j \in DOMAIN passedBy[f] :
    passedBy[f][i] = passedBy[f][j] => i = j

(* Every frame read is freed, event and bytes, whatever chain it takes, if *)
(* pthread_create has made at least one worker.                            *)
EveryFrameFreed ==
  \A f \in 1..MaxFrames :
    Len(frames) >= f ~> f \notin bytes \cup events \/ running = {}
==============================================================================
