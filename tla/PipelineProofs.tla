----------------------------- MODULE PipelineProofs -----------------------------
(***************************************************************************)
(* Theorems about Pipeline for any number of workers and frames, whichever *)
(* of the workers fail to start, and for every configuration.              *)
(***************************************************************************)
EXTENDS Pipeline, EtherChainProofs, FiniteSetTheorems

(***************************************************************************)
(* The inductive invariant follows a frame f on its way.  Until            *)
(* on_packet_event__ has run for it, main or the bus has its bytes; that   *)
(* makes its packet Pkt(f), the only one it will have, and from then on    *)
(* the packet has them.                                                    *)
(***************************************************************************)
Pkt(f) == <<f, 0>>

InQueue(p) == \E i \in DOMAIN pktQueue : pktQueue[i] = p

Before(f) ==
  \/ mainPc = "raising" /\ f = Len(frames)
  \/ InBus(f) /\ ~(busPc = "fire" /\ busInto[Bus] = f /\ fired > 0)

(* There is one listener as soon as anything is read, and a worker that    *)
(* does not exist holds nothing.                                           *)
Started ==
  /\ mainPc = "starting" => listeners = 0 /\ frames = <<>>
  /\ mainPc # "starting" => listeners = 1
  /\ mainPc = "raising" => frames # <<>>
  /\ \A w \in Workers \ running : workerPc[w] = "take"

(* An event is allocated while it is on the bus, where it is once. *)
EventsOnBus ==
  /\ \A i \in DOMAIN busQueue : busQueue[i] \in events
  /\ \A i, j \in DOMAIN busQueue : busQueue[i] = busQueue[j] => i = j
  /\ busPc = "fire" => /\ busInto[Bus] \in events
                       /\ \A i \in DOMAIN busQueue : busQueue[i] # busInto[Bus]
  /\ \A f \in events : InBus(f)
  /\ mainPc = "raising" => Len(frames) \notin events

(* A packet is allocated while it is in the queue or with a worker, and it *)
(* is at one of these places.                                              *)
PacketsOnce ==
  /\ \A i \in DOMAIN pktQueue : pktQueue[i] \in DOMAIN packet
  /\ \A i, j \in DOMAIN pktQueue : pktQueue[i] = pktQueue[j] => i = j
  /\ \A w \in Workers : workerPc[w] # "take" =>
       /\ pktInto[w] \in DOMAIN packet
       /\ ~InQueue(pktInto[w])
       /\ \A v \in Workers : workerPc[v] # "take" /\ pktInto[v] = pktInto[w] => v = w
  /\ \A p \in DOMAIN packet :
       \/ InQueue(p)
       \/ \E w \in Workers : workerPc[w] # "take" /\ pktInto[w] = p

BytesOwned ==
  /\ \A f \in Received : Before(f) => f \in bytes /\ Pkt(f) \notin DOMAIN packet
  /\ \A p \in DOMAIN packet : packet[p].bytes \in bytes /\ p = Pkt(packet[p].bytes)
  /\ \A f \in bytes : Before(f) \/ Pkt(f) \in DOMAIN packet

(* A packet asks for the handler of its rule, and for one at all until a   *)
(* handler has been run that ends its way.                                 *)
Ready ==
  /\ \A p \in DOMAIN packet : Fits(packet[p])
  /\ \A i \in DOMAIN pktQueue : packet[pktQueue[i]].next_handler # "NULL"
  /\ \A w \in Workers :
       workerPc[w] = "handle" => packet[pktInto[w]].next_handler # "NULL"

(* What was done to a frame, followed by what is left to do, is what the   *)
(* chain means, if the frame meets implemented rules only.                 *)
Intended(f) == Meaning(frames[f])[ether_chain_head].acts

AsIntended(p) ==
  LET f == packet[p].bytes
  IN  Meant(f) => /\ ImplementedLeft(packet[p], frames[f])
                  /\ effects[f] \o Left(packet[p], frames[f]) = Intended(f)

Filtered ==
  /\ \A f \in 1..MaxFrames : f \notin Received \/ Before(f) => effects[f] = <<>>
  /\ \A p \in DOMAIN packet : AsIntended(p)
  /\ \A f \in Received \ bytes : Meant(f) => effects[f] = Intended(f)

(* A frame f that was run while the packet of g waits has its packet by    *)
(* now, and unless that is deleted it is behind g's or about to be put     *)
(* there.                                                                  *)
Behind(g, f) ==
  /\ ~Before(f)
  /\ \A i, j \in DOMAIN pktQueue : pktQueue[i] = Pkt(g) /\ pktQueue[j] = Pkt(f) => i < j
  /\ \A w \in Workers : workerPc[w] = "handle" => pktInto[w] # Pkt(f)

Turns ==
  \A g \in 1..MaxFrames :
    /\ ~InQueue(Pkt(g)) => passedBy[g] = <<>>
    /\ \A m, n \in DOMAIN passedBy[g] : passedBy[g][m] = passedBy[g][n] => m = n
    /\ \A n \in DOMAIN passedBy[g] : Behind(g, passedBy[g][n])

Owned == TypeOK /\ Started /\ EventsOnBus /\ PacketsOnce /\ BytesOwned /\ Ready
IInv == Owned /\ Filtered /\ Turns

------------------------------------------------------------------------------
(* Sequences as queues *)

LEMMA AppendAt ==
  ASSUME NEW S, NEW s \in Seq(S), NEW x \in S
  PROVE  /\ Append(s, x) \in Seq(S)
         /\ Len(s) \in Nat /\ DOMAIN s = 1..Len(s)
         /\ DOMAIN Append(s, x) = 1..(Len(s) + 1) /\ Len(Append(s, x)) = Len(s) + 1
         /\ \A i \in 1..Len(s) : Append(s, x)[i] = s[i]
         /\ Append(s, x)[Len(s) + 1] = x
BY AppendProperties, LenProperties

LEMMA TailAt ==
  ASSUME NEW S, NEW s \in Seq(S), s # <<>>
  PROVE  /\ Tail(s) \in Seq(S)
         /\ Len(s) \in Nat \ {0} /\ DOMAIN s = 1..Len(s)
         /\ Head(s) \in S /\ Head(s) = s[1]
         /\ DOMAIN Tail(s) = 1..(Len(s) - 1)
         /\ \A i \in 1..(Len(s) - 1) : Tail(s)[i] = s[i + 1]
BY HeadTailProperties, LenProperties, EmptySeq

(* The frames that were received are numbered from 1. *)
LEMMA ReceivedType ==
  ASSUME TypeOK
  PROVE  Len(frames) \in Nat /\ Received = 1..Len(frames) /\ Received \subseteq 1..MaxFrames
BY PipelineAssumption DEF TypeOK, Received

------------------------------------------------------------------------------
(* Who owns what *)

LEMMA InitOwned == Init => Owned
<1> SUFFICES ASSUME Init PROVE Owned
  OBVIOUS
<1>1. TypeOK
  <2>1. /\ frames \in Seq(Header) /\ Len(frames) = 0
        /\ busQueue \in Seq(1..MaxFrames) /\ pktQueue \in Seq(PacketId)
    BY DEF Init, BusQ!Init, PktQ!Init
  <2>2. DOMAIN packet = {}
    BY DEF Init
  <2>3. effects \in [1..MaxFrames -> Seq(Rules)] /\ passedBy \in [1..MaxFrames -> Seq(Received)]
    BY DEF Init
  <2> QED BY <2>1, <2>2, <2>3, PipelineAssumption DEF Init, TypeOK, BusQ!Init, PktQ!Init
<1>2. Started /\ EventsOnBus /\ PacketsOnce /\ BytesOwned /\ Ready
  BY DEF Init, BusQ!Init, PktQ!Init, Started, EventsOnBus, PacketsOnce, BytesOwned, Ready,
         InBus, InQueue, Before, Received
<1> QED BY <1>1, <1>2 DEF Owned

LEMMA CreateWorkerOwned == Owned /\ CreateWorker => Owned'
<1> SUFFICES ASSUME Owned, CreateWorker PROVE Owned'
  OBVIOUS
<1> USE DEF Owned
<1>1. TypeOK'
  <2>1. created' \in 0..NWorkers /\ running' \subseteq Workers
    <3>1. created \in Nat /\ created + 1 \in 1..NWorkers
      BY PipelineAssumption DEF CreateWorker, MoreWorkers, TypeOK
    <3>2. running' = running \/ running' = running \cup {created + 1}
      BY DEF CreateWorker
    <3>3. created' = created + 1 /\ running \subseteq Workers
      BY DEF CreateWorker, TypeOK
    <3>4. created + 1 \in Workers
      BY <3>1 DEF Workers
    <3>5. running' \subseteq Workers
      BY <3>2, <3>3, <3>4
    <3> QED BY <3>1, <3>3, <3>5, PipelineAssumption
  <2> QED BY <2>1 DEF CreateWorker, TypeOK, heap, busQ, busVars, pktQ, history, Received
<1>2. Started' /\ EventsOnBus' /\ PacketsOnce' /\ BytesOwned' /\ Ready'
  BY DEF CreateWorker, heap, busQ, busVars, pktQ, Started, EventsOnBus, PacketsOnce,
         BytesOwned, Ready, Before, InBus, InQueue, Received
<1> QED BY <1>1, <1>2

LEMMA BindHandlerOwned == Owned /\ BindHandler => Owned'
<1> SUFFICES ASSUME Owned, BindHandler PROVE Owned'
  OBVIOUS
<1> USE DEF Owned
<1>1. TypeOK'
  BY DEF BindHandler, BIND, TypeOK, Started, heap, busQ, busVars, pktQ, history, Received
<1>2. Started' /\ EventsOnBus' /\ PacketsOnce' /\ BytesOwned' /\ Ready'
  BY DEF BindHandler, BIND, heap, busQ, busVars, pktQ, Started, EventsOnBus, PacketsOnce,
         BytesOwned, Ready, Before, InBus, InQueue, Received
<1> QED BY <1>1, <1>2

LEMMA ReadPacketOwned ==
  ASSUME Owned, NEW h \in Header, ReadPacket(h)
  PROVE  /\ Owned'
         /\ Received' = Received \cup {Len(frames')} /\ Len(frames') \notin Received
         /\ bytes' = bytes \cup {Len(frames')} /\ Len(frames') \in 1..MaxFrames
         /\ \A f \in Received : frames'[f] = frames[f]
         /\ \A f \in Received' : Before(f)' <=> f = Len(frames') \/ Before(f)
<1> USE DEF Owned
<1> DEFINE n == Len(frames) + 1
<1>1. /\ frames' \in Seq(Header) /\ Len(frames') = n /\ n \in 1..MaxFrames
      /\ Len(frames) \in Nat /\ Received' = Received \cup {n} /\ n \notin Received
      /\ Received \subseteq 1..MaxFrames /\ frames' # <<>>
      /\ \A f \in Received : frames'[f] = frames[f]
  <2>1. frames \in Seq(Header) /\ frames' = Append(frames, h) /\ Len(frames) < MaxFrames
    BY DEF ReadPacket, TypeOK
  <2>2. /\ frames' \in Seq(Header) /\ Len(frames') = n /\ Len(frames) \in Nat
        /\ \A f \in 1..Len(frames) : frames'[f] = frames[f]
    BY <2>1, AppendAt
  <2>3. frames' # <<>>
    BY <2>1, AppendProperties
  <2> QED BY <2>1, <2>2, <2>3, PipelineAssumption DEF Received
<1>2. TypeOK'
  <2>1. \A p \in DOMAIN packet : packet[p] \in Packet(Received')
    BY <1>1 DEF TypeOK, Packet
  <2>2. passedBy \in [1..MaxFrames -> Seq(Received')]
    BY <1>1 DEF TypeOK
  <2>3. bytes' = bytes \cup {n} /\ events' = events
    BY DEF ReadPacket
  <2>4. bytes \subseteq Received /\ events \subseteq Received
    BY DEF TypeOK
  <2>5. /\ frames' \in Seq(Header) /\ Len(frames') <= MaxFrames
        /\ bytes' \subseteq Received' /\ events' \subseteq Received'
    <3> HIDE DEF n
    <3> QED BY <1>1, <2>3, <2>4
  <2> QED BY <2>1, <2>2, <2>5 DEF ReadPacket, TypeOK, busQ, busVars, pktQ, history
<1>8. bytes' = bytes \cup {n}
  BY DEF ReadPacket
<1>3. \A f \in Received' : Before(f)' <=> f = n \/ Before(f)
  BY <1>1 DEF ReadPacket, Before, InBus, busQ, busVars, TypeOK, EventsOnBus
<1>4. Started'
  BY <1>1 DEF ReadPacket, Started
<1>5. EventsOnBus'
  BY <1>1 DEF ReadPacket, EventsOnBus, InBus, busQ, busVars, TypeOK
<1>6. PacketsOnce' /\ Ready'
  BY DEF ReadPacket, PacketsOnce, Ready, InQueue, pktQ
<1>7. BytesOwned'
  BY <1>1, <1>3 DEF ReadPacket, BytesOwned, TypeOK, Pkt, Packet
<1> QED BY <1>1, <1>2, <1>3, <1>4, <1>5, <1>6, <1>7, <1>8

LEMMA RaiseEventOwned ==
  ASSUME Owned, RaiseEvent
  PROVE  /\ Owned'
         /\ Received' = Received
         /\ \A f \in Received : Before(f)' <=> Before(f)
<1> USE DEF Owned
<1> DEFINE n == Len(frames)
           k == Len(busQueue) + 1
<1>1. n \in 1..MaxFrames /\ Received = 1..n /\ n \in Received /\ Received' = Received
  BY AppendAt, PipelineAssumption DEF RaiseEvent, TypeOK, Received, Started
<1>2. /\ busQueue' \in Seq(1..MaxFrames) /\ DOMAIN busQueue' = 1..k /\ busQueue'[k] = n
      /\ DOMAIN busQueue = 1..(k - 1) /\ k - 1 \in Nat
      /\ \A i \in 1..(k - 1) : busQueue'[i] = busQueue[i]
      /\ busInto' = busInto /\ busRc' = busRc
  BY <1>1, AppendAt DEF RaiseEvent, BusQ!Put, TypeOK
<1>3. /\ mainPc = "raising" /\ mainPc' = "reading" /\ n \notin events
      /\ events' = events \cup {n} /\ frames' = frames /\ bytes' = bytes /\ packet' = packet
      /\ busPc' = busPc /\ fired' = fired /\ listeners' = listeners
  BY DEF RaiseEvent, busVars, EventsOnBus
<1>4. TypeOK'
  BY <1>1, <1>2, <1>3 DEF RaiseEvent, TypeOK, busVars, pktQ, history
<1>5. \A f \in Received : InBus(f)' <=> f = n \/ InBus(f)
  BY <1>1, <1>2, <1>3, SMTT(60) DEF InBus
<1>6. EventsOnBus'
  <2>1. \A i \in 1..(k - 1) : busQueue'[i] \in events /\ busQueue'[i] # n
    BY <1>2, <1>3 DEF EventsOnBus
  <2>2. \A i, j \in 1..k : busQueue'[i] = busQueue'[j] => i = j
    BY <1>2, <2>1 DEF EventsOnBus
  <2>3. busPc = "fire" => busInto[Bus] \in events /\ busInto[Bus] # n
    BY <1>3 DEF EventsOnBus
  <2>4. \A i \in 1..k : busPc = "fire" => busQueue'[i] # busInto[Bus]
    BY <1>2, <2>3 DEF EventsOnBus
  <2>5. \A f \in events' : InBus(f)'
    BY <1>1, <1>3, <1>5 DEF EventsOnBus, TypeOK
  <2> QED BY <1>2, <1>3, <2>1, <2>2, <2>3, <2>4, <2>5 DEF EventsOnBus
<1>7. \A f \in Received : Before(f)' <=> Before(f)
  BY <1>1, <1>3, <1>5, <1>2 DEF Before, EventsOnBus
<1>8. BytesOwned'
  BY <1>1, <1>3, <1>7 DEF BytesOwned, TypeOK
<1>9. Started' /\ PacketsOnce' /\ Ready'
  BY <1>3 DEF RaiseEvent, Started, PacketsOnce, Ready, InQueue, pktQ
<1> QED BY <1>1, <1>4, <1>6, <1>7, <1>8, <1>9

LEMMA BusTakeOwned ==
  ASSUME Owned, BusTake
  PROVE  /\ Owned'
         /\ \A f \in Received : Before(f)' <=> Before(f)
<1> USE DEF Owned
<1> DEFINE n == busQueue[1]
           k == Len(busQueue)
<1>1. /\ busQueue' \in Seq(1..MaxFrames) /\ DOMAIN busQueue' = 1..(k - 1)
      /\ DOMAIN busQueue = 1..k /\ k \in Nat \ {0}
      /\ \A i \in 1..(k - 1) : busQueue'[i] = busQueue[i + 1]
      /\ n \in 1..MaxFrames /\ busInto'[Bus] = n
      /\ busInto' \in [{Bus} -> (1..MaxFrames) \cup {None}]
      /\ busRc' \in [{Bus} -> {"BQ_OK", "BQ_TIMEOUT"}]
  <2>1. /\ busQueue \in Seq(1..MaxFrames) /\ busQueue # <<>> /\ busQueue' = Tail(busQueue)
        /\ busInto' = [busInto EXCEPT ![Bus] = Head(busQueue)]
        /\ busRc' = [busRc EXCEPT ![Bus] = "BQ_OK"]
    BY DEF BusTake, BusQ!Get, TypeOK
  <2>2. Head(busQueue) = n /\ n \in 1..MaxFrames
    BY <2>1, TailAt
  <2> QED BY <2>1, <2>2, TailAt DEF TypeOK
<1>2. /\ busPc = "take" /\ busPc' = "fire" /\ fired' = 0
      /\ UNCHANGED <<mainVars, heap, pktQ, workerPc, history>>
  BY DEF BusTake
<1>3. TypeOK'
  BY <1>1, <1>2 DEF TypeOK, mainVars, heap, pktQ, history, Received
<1>4. \A f : InBus(f)' <=> InBus(f)
  <2> SUFFICES ASSUME NEW f PROVE InBus(f)' <=> InBus(f)
    OBVIOUS
  <2>1. InBus(f)' <=> f = n \/ \E i \in 1..(k - 1) : busQueue[i + 1] = f
    BY <1>1, <1>2 DEF InBus
  <2>2. InBus(f) <=> \E i \in 1..k : busQueue[i] = f
    BY <1>1, <1>2 DEF InBus
  <2>3. \A i \in 1..k : i = 1 \/ (i - 1 \in 1..(k - 1) /\ (i - 1) + 1 = i)
    BY <1>1
  <2>4. 1 \in 1..k /\ \A i \in 1..(k - 1) : i + 1 \in 1..k
    BY <1>1
  <2> QED BY <2>1, <2>2, <2>3, <2>4
<1>5. EventsOnBus'
  <2>1. \A i \in 1..(k - 1) : i + 1 \in 1..k /\ i + 1 # 1
    BY <1>1
  <2>2. 1 \in 1..k
    BY <1>1
  <2>3. n \in events /\ \A i \in 1..(k - 1) : busQueue'[i] # n /\ busQueue'[i] \in events
    BY <1>1, <2>1, <2>2, SMTT(60) DEF EventsOnBus
  <2>4. \A i, j \in 1..(k - 1) : busQueue'[i] = busQueue'[j] => i = j
    BY <1>1, <2>1 DEF EventsOnBus
  <2> QED BY <1>1, <1>2, <1>4, <2>3, <2>4 DEF EventsOnBus, mainVars, heap
<1>6. \A f \in Received : Before(f)' <=> Before(f)
  BY <1>2, <1>4 DEF Before, mainVars, heap
<1>7. BytesOwned'
  BY <1>2, <1>6 DEF BytesOwned, heap, Received, TypeOK
<1>8. Started' /\ PacketsOnce' /\ Ready'
  BY <1>2 DEF Started, PacketsOnce, Ready, InQueue, mainVars, heap, pktQ
<1> QED BY <1>3, <1>5, <1>6, <1>7, <1>8

LEMMA BusTimeoutOwned == Owned /\ BusTimeout => Owned'
<1> SUFFICES ASSUME Owned, BusTimeout PROVE Owned'
  OBVIOUS
<1> USE DEF Owned, BusTimeout, BusQ!Timeout, mainVars, heap, busVars, pktQ, history
<1>1. TypeOK'
  BY DEF TypeOK, Received
<1>2. Started' /\ EventsOnBus' /\ PacketsOnce' /\ BytesOwned' /\ Ready'
  BY DEF Started, EventsOnBus, PacketsOnce, BytesOwned, Ready, Before, InBus, InQueue, Received
<1> QED BY <1>1, <1>2

(* Whoever dispatches an event has one that was received, so the listener  *)
(* is bound by then.                                                       *)
LEMMA Firing ==
  ASSUME Owned, busPc = "fire"
  PROVE  busInto[Bus] \in events /\ busInto[Bus] \in Received /\ listeners = 1
<1>1. busInto[Bus] \in events /\ events \subseteq Received
  BY DEF Owned, EventsOnBus, TypeOK
<1>2. frames # <<>>
  <2>1. Len(<<>>) = 0 /\ 1..0 = {}
    OBVIOUS
  <2> QED BY <1>1, <2>1 DEF Received
<1> QED BY <1>1, <1>2 DEF Owned, Started

(* What putting packet p, which nobody has, into the queue does. *)
LEMMA PutPacket ==
  ASSUME TypeOK, NEW p \in PacketId, PktQ!Put(p),
         \A i, j \in DOMAIN pktQueue : pktQueue[i] = pktQueue[j] => i = j, ~InQueue(p)
  PROVE  /\ pktQueue' \in Seq(PacketId) /\ pktInto' = pktInto /\ pktRc' = pktRc
         /\ \A q : InQueue(q)' <=> q = p \/ InQueue(q)
         /\ \A i, j \in DOMAIN pktQueue' : pktQueue'[i] = pktQueue'[j] => i = j
         /\ \A i \in DOMAIN pktQueue : i \in DOMAIN pktQueue' /\ pktQueue'[i] = pktQueue[i]
         /\ \A i \in DOMAIN pktQueue' :
              \/ i \in DOMAIN pktQueue
              \/ pktQueue'[i] = p /\ \A j \in DOMAIN pktQueue : j < i
<1> DEFINE k == Len(pktQueue)
<1>1. /\ pktQueue' \in Seq(PacketId) /\ k \in Nat /\ DOMAIN pktQueue = 1..k
      /\ DOMAIN pktQueue' = 1..(k + 1) /\ pktQueue'[k + 1] = p
      /\ \A i \in 1..k : pktQueue'[i] = pktQueue[i]
      /\ pktInto' = pktInto /\ pktRc' = pktRc
  BY AppendAt DEF PktQ!Put, TypeOK
<1>2. \A i \in 1..(k + 1) : i = k + 1 \/ i \in 1..k
  BY <1>1
<1>3. \A i \in 1..k : i \in 1..(k + 1) /\ i < k + 1
  BY <1>1
<1>4. k + 1 \in 1..(k + 1)
  BY <1>1
<1> HIDE DEF k
<1>5. \A q : InQueue(q)' <=> q = p \/ InQueue(q)
  BY <1>1, <1>2, <1>3, <1>4 DEF InQueue
<1>6. \A i, j \in DOMAIN pktQueue' : pktQueue'[i] = pktQueue'[j] => i = j
  BY <1>1, <1>2 DEF InQueue
<1> QED BY <1>1, <1>2, <1>3, <1>5, <1>6

LEMMA OnPacketEventOwned ==
  ASSUME Owned, OnPacketEvent
  PROVE  LET f == busInto[Bus]
         IN  /\ Owned'
             /\ Before(f) /\ f \in Received
             /\ \A g \in Received : Before(g)' <=> Before(g) /\ g # f
             /\ DOMAIN packet' = DOMAIN packet \cup {Pkt(f)} /\ Pkt(f) \notin DOMAIN packet
             /\ PktQ!Put(Pkt(f)) /\ ~InQueue(Pkt(f)) /\ Pkt(f) \in PacketId
             /\ \A q \in DOMAIN packet : packet'[q] = packet[q]
             /\ packet'[Pkt(f)] = [next_handler |-> "BEGIN",
                                   current_chain_rule |-> ether_chain_head, bytes |-> f]
<1> USE DEF Owned
<1> DEFINE f == busInto[Bus]
           p == Pkt(f)
           new == [next_handler |-> "BEGIN", current_chain_rule |-> ether_chain_head,
                   bytes |-> f]
<1>1. f \in events /\ f \in Received /\ f \in 1..MaxFrames /\ listeners = 1 /\ busPc = "fire"
  BY Firing, ReceivedType DEF OnPacketEvent
<1>2. fired = 0
  BY <1>1 DEF OnPacketEvent, TypeOK
<1>3. p = <<f, fired>>
  BY <1>2 DEF Pkt
<1>4. /\ fired' = 1 /\ busPc' = busPc
      /\ PktQ!Put(p)
      /\ packet' = [q \in DOMAIN packet \cup {p} |-> IF q = p THEN new ELSE packet[q]]
      /\ UNCHANGED <<mainVars, frames, bytes, events, busQ, workerPc, history>>
  BY <1>2, <1>3 DEF OnPacketEvent
<1>5. Before(f)
  BY <1>1, <1>2 DEF Before, InBus
<1>6. p \notin DOMAIN packet /\ f \in bytes
  BY <1>1, <1>5 DEF BytesOwned
<1>7. p \in PacketId
  BY <1>1 DEF Pkt, PacketId
<1>8. ~InQueue(p) /\ \A w \in Workers : workerPc[w] # "take" => pktInto[w] # p
  BY <1>6 DEF PacketsOnce, InQueue
<1>9. /\ DOMAIN packet' = DOMAIN packet \cup {p}
      /\ packet'[p] = new
      /\ \A q \in DOMAIN packet : packet'[q] = packet[q]
  <2> HIDE DEF p, new
  <2> QED BY <1>4, <1>6
<1>10. new \in Packet(Received)
  BY <1>1, PipelineAssumption DEF Packet, HandlerNames, TypeOK
<1>11. /\ pktQueue' \in Seq(PacketId) /\ pktInto' = pktInto /\ pktRc' = pktRc
       /\ \A q : InQueue(q)' <=> q = p \/ InQueue(q)
       /\ \A i, j \in DOMAIN pktQueue' : pktQueue'[i] = pktQueue'[j] => i = j
       /\ \A i \in DOMAIN pktQueue : i \in DOMAIN pktQueue' /\ pktQueue'[i] = pktQueue[i]
       /\ \A i \in DOMAIN pktQueue' : i \in DOMAIN pktQueue \/ pktQueue'[i] = p
  <2> HIDE DEF p
  <2> QED BY <1>4, <1>7, <1>8, PutPacket DEF PacketsOnce
<1>12. \A g \in Received : Before(g)' <=> Before(g) /\ g # f
  <2>1. \A g \in Received : InBus(g)' <=> InBus(g)
    BY <1>4 DEF InBus, busQ
  <2>2. mainPc = "raising" => Len(frames) # f
    BY <1>1 DEF EventsOnBus
  <2> QED BY <1>1, <1>2, <1>4, <2>1, <2>2 DEF Before, mainVars, busQ
<1> HIDE DEF p, new, f
<1>13. TypeOK'
  <2>1. Received' = Received /\ DOMAIN packet' \subseteq PacketId
    BY <1>4, <1>7, <1>9 DEF TypeOK, Received
  <2>2. \A q \in DOMAIN packet' : packet'[q] \in Packet(Received)
    BY <1>9, <1>10 DEF TypeOK
  <2>3. fired' \in 0..listeners
    BY <1>1, <1>4
  <2> QED BY <1>4, <1>11, <2>1, <2>2, <2>3 DEF TypeOK, mainVars, busQ, history
<1>14. Started' /\ EventsOnBus'
  BY <1>4 DEF Started, EventsOnBus, InBus, mainVars, busQ
<1>15. PacketsOnce'
  <2>1. \A i \in DOMAIN pktQueue' : pktQueue'[i] \in DOMAIN packet'
    BY <1>9, <1>11 DEF PacketsOnce
  <2>2. \A w \in Workers : workerPc'[w] # "take" =>
          /\ pktInto'[w] \in DOMAIN packet' /\ ~InQueue(pktInto[w])'
          /\ \A v \in Workers : workerPc'[v] # "take" /\ pktInto'[v] = pktInto'[w] => v = w
    BY <1>4, <1>8, <1>9, <1>11 DEF PacketsOnce
  <2>3. \A q \in DOMAIN packet' :
          InQueue(q)' \/ \E w \in Workers : workerPc'[w] # "take" /\ pktInto'[w] = q
    BY <1>4, <1>9, <1>11 DEF PacketsOnce
  <2> QED BY <1>11, <2>1, <2>2, <2>3 DEF PacketsOnce
<1>16. BytesOwned'
  <2>1. \A g : Pkt(g) = p => g = f
    BY DEF Pkt, p
  <2>2. new.bytes = f /\ Pkt(f) = p
    BY DEF new, p
  <2>3. \A g \in Received : Before(g)' => g \in bytes /\ Pkt(g) \notin DOMAIN packet'
    BY <1>9, <1>12, <2>1 DEF BytesOwned
  <2>4. \A q \in DOMAIN packet' : packet'[q].bytes \in bytes /\ q = Pkt(packet'[q].bytes)
    BY <1>6, <1>9, <2>2 DEF BytesOwned
  <2>5. \A g \in bytes : Before(g)' \/ Pkt(g) \in DOMAIN packet'
    BY <1>9, <1>12, <2>2 DEF BytesOwned, TypeOK
  <2> QED BY <1>4, <2>3, <2>4, <2>5 DEF BytesOwned, Received
<1>17. Ready'
  <2>1. Fits(new) /\ new.next_handler # "NULL"
    BY DEF Fits, new
  <2>2. \A i \in DOMAIN pktQueue' : packet'[pktQueue'[i]].next_handler # "NULL"
    BY <1>9, <1>11, <2>1 DEF Ready, PacketsOnce
  <2>3. \A w \in Workers : workerPc'[w] = "handle" => packet'[pktInto'[w]].next_handler # "NULL"
    BY <1>4, <1>9, <1>11 DEF Ready, PacketsOnce
  <2>4. \A q \in DOMAIN packet' : Fits(packet'[q])
    BY <1>9, <2>1 DEF Ready
  <2> QED BY <2>2, <2>3, <2>4 DEF Ready
<1> QED BY <1>1, <1>4, <1>5, <1>6, <1>7, <1>8, <1>9, <1>12, <1>13, <1>14, <1>15, <1>16, <1>17
        DEF f, p, new

LEMMA DeleteEventOwned ==
  ASSUME Owned, DeleteEvent
  PROVE  /\ Owned'
         /\ \A g \in Received : Before(g)' <=> Before(g)
<1> USE DEF Owned
<1> DEFINE f == busInto[Bus]
<1>1. f \in events /\ f \in Received /\ busPc = "fire"
  BY Firing DEF DeleteEvent
<1>2. fired > 0
  BY Firing DEF DeleteEvent, TypeOK
<1>3. /\ events' = events \ {f} /\ bytes' = bytes /\ busPc' = "take"
      /\ UNCHANGED <<mainVars, frames, packet, busQ, fired, pktQ, workerPc, history>>
  BY DEF DeleteEvent, FreedWithEvent
<1>4. TypeOK'
  BY <1>3 DEF TypeOK, mainVars, busQ, pktQ, history, Received
<1>5. \A g : InBus(g)' <=> InBus(g) /\ g # f
  BY <1>1, <1>3 DEF InBus, busQ, EventsOnBus
<1>6. EventsOnBus'
  BY <1>1, <1>3, <1>5 DEF EventsOnBus, mainVars, busQ
<1>7. \A g \in Received : Before(g)' <=> Before(g)
  <2>1. mainPc = "raising" => Len(frames) # f
    BY <1>1 DEF EventsOnBus
  <2> QED BY <1>1, <1>2, <1>3, <1>5, <2>1 DEF Before, mainVars, busQ
<1>8. BytesOwned'
  BY <1>3, <1>7 DEF BytesOwned, Received, TypeOK
<1>9. Started' /\ PacketsOnce' /\ Ready'
  BY <1>3 DEF Started, PacketsOnce, Ready, InQueue, mainVars, pktQ
<1> QED BY <1>4, <1>6, <1>7, <1>8, <1>9

(* What the worker that takes a packet from the queue gets. *)
LEMMA GetPacket ==
  ASSUME TypeOK, NEW w \in Workers, PktQ!Get(w),
         \A i, j \in DOMAIN pktQueue : pktQueue[i] = pktQueue[j] => i = j
  PROVE  LET p == pktInto'[w]
         IN  /\ pktQueue' \in Seq(PacketId)
             /\ pktInto' \in [Workers -> PacketId \cup {None}]
             /\ pktRc' \in [Workers -> {"BQ_OK", "BQ_TIMEOUT"}]
             /\ \A v \in Workers \ {w} : pktInto'[v] = pktInto[v]
             /\ InQueue(p) /\ \A q : InQueue(q)' <=> InQueue(q) /\ q # p
             /\ \A i, j \in DOMAIN pktQueue' : pktQueue'[i] = pktQueue'[j] => i = j
             /\ 1 \in DOMAIN pktQueue /\ pktQueue[1] = p
             /\ DOMAIN pktQueue \subseteq Nat \ {0} /\ DOMAIN pktQueue' \subseteq Nat
             /\ \A i \in DOMAIN pktQueue' :
                  i + 1 \in DOMAIN pktQueue /\ pktQueue'[i] = pktQueue[i + 1]
<1> DEFINE k == Len(pktQueue)
           p == pktQueue[1]
<1>1. /\ pktQueue \in Seq(PacketId) /\ pktQueue # <<>> /\ pktQueue' = Tail(pktQueue)
      /\ pktInto' = [pktInto EXCEPT ![w] = Head(pktQueue)]
      /\ pktRc' = [pktRc EXCEPT ![w] = "BQ_OK"]
  BY DEF PktQ!Get, TypeOK
<1>2. /\ pktQueue' \in Seq(PacketId) /\ k \in Nat \ {0} /\ DOMAIN pktQueue = 1..k
      /\ Head(pktQueue) = p /\ p \in PacketId
      /\ DOMAIN pktQueue' = 1..(k - 1)
      /\ \A i \in 1..(k - 1) : pktQueue'[i] = pktQueue[i + 1]
  BY <1>1, TailAt
<1>3. /\ pktInto' \in [Workers -> PacketId \cup {None}] /\ pktInto'[w] = p
      /\ \A v \in Workers \ {w} : pktInto'[v] = pktInto[v]
      /\ pktRc' \in [Workers -> {"BQ_OK", "BQ_TIMEOUT"}]
  BY <1>1, <1>2 DEF TypeOK
<1>4. 1 \in 1..k /\ 1..k \subseteq Nat \ {0} /\ 1..(k - 1) \subseteq Nat
  BY <1>2
<1>5. \A i \in 1..(k - 1) : i + 1 \in 1..k /\ i + 1 # 1
  BY <1>2
<1>6. \A i \in 1..k : i = 1 \/ (i - 1 \in 1..(k - 1) /\ (i - 1) + 1 = i)
  BY <1>2
<1>7. \A q : InQueue(q)' <=> InQueue(q) /\ q # p
  <2> SUFFICES ASSUME NEW q PROVE InQueue(q)' <=> InQueue(q) /\ q # p
    OBVIOUS
  <2>1. InQueue(q)' <=> \E i \in 1..(k - 1) : pktQueue[i + 1] = q
    BY <1>2 DEF InQueue
  <2>2. InQueue(q) <=> \E i \in 1..k : pktQueue[i] = q
    BY <1>2 DEF InQueue
  <2>3. ASSUME NEW i \in 1..(k - 1) PROVE pktQueue[i + 1] # p
    BY <1>2, <1>4, <1>5
  <2> HIDE DEF k, p
  <2> QED BY <1>5, <1>6, <2>1, <2>2, <2>3 DEF p
<1>8. \A i, j \in DOMAIN pktQueue' : pktQueue'[i] = pktQueue'[j] => i = j
  BY <1>2, <1>5
<1>9. InQueue(p)
  BY <1>2, <1>4 DEF InQueue
<1> QED BY <1>2, <1>3, <1>4, <1>5, <1>7, <1>8, <1>9

LEMMA WorkerTakeOwned ==
  ASSUME Owned, NEW w \in Workers, WorkerTake(w)
  PROVE  LET p == pktInto'[w]
         IN  /\ Owned'
             /\ \A g \in Received : Before(g)' <=> Before(g)
             /\ PktQ!Get(w) /\ p \in DOMAIN packet /\ InQueue(p)
             /\ packet[p].bytes \in 1..MaxFrames /\ p = Pkt(packet[p].bytes)
<1> USE DEF Owned
<1> DEFINE p == pktInto'[w]
<1>1. PktQ!Get(w) /\ \A i, j \in DOMAIN pktQueue : pktQueue[i] = pktQueue[j] => i = j
  BY DEF WorkerTake, PacketsOnce
<1>2. /\ w \in running /\ workerPc[w] = "take"
      /\ workerPc' = [workerPc EXCEPT ![w] = "handle"]
      /\ passedBy' = [passedBy EXCEPT ![packet[p].bytes] = <<>>]
      /\ UNCHANGED <<mainVars, heap, busQ, busVars, effects>>
  BY DEF WorkerTake
<1>3. /\ pktQueue' \in Seq(PacketId)
      /\ pktInto' \in [Workers -> PacketId \cup {None}]
      /\ pktRc' \in [Workers -> {"BQ_OK", "BQ_TIMEOUT"}]
      /\ \A v \in Workers \ {w} : pktInto'[v] = pktInto[v]
      /\ InQueue(p) /\ \A q : InQueue(q)' <=> InQueue(q) /\ q # p
      /\ \A i, j \in DOMAIN pktQueue' : pktQueue'[i] = pktQueue'[j] => i = j
      /\ \A i \in DOMAIN pktQueue' :
           i + 1 \in DOMAIN pktQueue /\ pktQueue'[i] = pktQueue[i + 1]
  BY <1>1, GetPacket
<1> HIDE DEF p
<1>4. p \in DOMAIN packet
  BY <1>3 DEF PacketsOnce, InQueue
<1>5. packet[p].bytes \in 1..MaxFrames /\ p = Pkt(packet[p].bytes)
  BY <1>4, ReceivedType DEF BytesOwned, TypeOK
<1>6. /\ workerPc' \in [Workers -> {"take", "handle", "dispose"}]
      /\ workerPc'[w] = "handle"
      /\ \A v \in Workers \ {w} : workerPc'[v] = workerPc[v]
  BY <1>2 DEF TypeOK
<1>7. TypeOK'
  <2>1. passedBy' \in [1..MaxFrames -> Seq(Received)]
    BY <1>2, <1>5 DEF TypeOK
  <2> QED BY <1>2, <1>3, <1>6, <2>1 DEF TypeOK, mainVars, heap, busQ, busVars, Received
<1>8. \A g : Before(g)' <=> Before(g)
  BY <1>2 DEF Before, InBus, mainVars, heap, busQ, busVars
<1>9. Started' /\ EventsOnBus'
  BY <1>2, <1>6 DEF Started, EventsOnBus, InBus, mainVars, heap, busQ, busVars
<1>10. BytesOwned'
  BY <1>2, <1>8 DEF BytesOwned, Received, heap
<1>11. packet' = packet
  BY <1>2 DEF heap
<1>12. pktInto'[w] = p
  BY DEF p
<1>13. PacketsOnce'
  <2>1. \A i \in DOMAIN pktQueue' : pktQueue'[i] \in DOMAIN packet'
    BY <1>3, <1>11 DEF PacketsOnce
  <2>2. ASSUME NEW v \in Workers, workerPc'[v] # "take"
        PROVE  /\ pktInto'[v] \in DOMAIN packet' /\ ~InQueue(pktInto[v])'
               /\ \A u \in Workers :
                    workerPc'[u] # "take" /\ pktInto'[u] = pktInto'[v] => u = v
    <3>1. \A u \in Workers \ {w} : workerPc'[u] # "take" =>
            /\ pktInto'[u] \in DOMAIN packet /\ ~InQueue(pktInto'[u]) /\ pktInto'[u] # p
      BY <1>3, <1>6 DEF PacketsOnce
    <3>2. CASE v = w
      BY <1>3, <1>4, <1>11, <1>12, <3>1, <3>2
    <3>3. CASE v # w
      <4>1. \A u \in Workers \ {w} :
              workerPc[u] # "take" /\ pktInto[u] = pktInto[v] => u = v
        BY <1>6, <2>2, <3>3 DEF PacketsOnce
      <4> QED BY <1>3, <1>6, <1>11, <1>12, <2>2, <3>1, <3>3, <4>1
    <3> QED BY <3>2, <3>3
  <2>3. ASSUME NEW q \in DOMAIN packet'
        PROVE  InQueue(q)' \/ \E v \in Workers : workerPc'[v] # "take" /\ pktInto'[v] = q
    <3>1. CASE q = p
      BY <1>6, <1>12, <3>1
    <3>2. CASE q # p
      BY <1>2, <1>3, <1>6, <1>11, <3>2 DEF PacketsOnce
    <3> QED BY <3>1, <3>2
  <2> QED BY <1>3, <2>1, <2>2, <2>3 DEF PacketsOnce
<1>14. Ready'
  <2>1. packet[p].next_handler # "NULL"
    BY <1>3 DEF Ready, InQueue
  <2>2. \A i \in DOMAIN pktQueue' : packet[pktQueue'[i]].next_handler # "NULL"
    BY <1>3 DEF Ready
  <2>3. \A v \in Workers : workerPc'[v] = "handle" => packet[pktInto'[v]].next_handler # "NULL"
    BY <1>3, <1>6, <1>12, <2>1 DEF Ready
  <2> QED BY <1>11, <2>2, <2>3 DEF Ready
<1> QED BY <1>1, <1>3, <1>4, <1>5, <1>7, <1>8, <1>9, <1>10, <1>13, <1>14 DEF p

LEMMA WorkerTimeoutOwned == ASSUME Owned, NEW w \in Workers, WorkerTimeout(w) PROVE Owned'
<1> USE DEF Owned, WorkerTimeout, PktQ!Timeout, mainVars, heap, busQ, busVars, history
<1>1. TypeOK'
  BY DEF TypeOK, Received
<1>2. Started' /\ EventsOnBus' /\ PacketsOnce' /\ BytesOwned' /\ Ready'
  BY DEF Started, EventsOnBus, PacketsOnce, BytesOwned, Ready, Before, InBus, InQueue, Received
<1> QED BY <1>1, <1>2

(* The packet a worker has taken, up to Requeue or PacketDelete. *)
LEMMA Working ==
  ASSUME Owned, NEW w \in Workers, workerPc[w] # "take"
  PROVE  LET p == pktInto[w]
             f == packet[p].bytes
         IN  /\ p \in DOMAIN packet /\ p \in PacketId /\ packet[p] \in Packet(Received)
             /\ p = Pkt(f) /\ f \in bytes /\ f \in Received /\ f \in 1..MaxFrames
             /\ Fits(packet[p]) /\ ~InQueue(p) /\ ~Before(f)
<1> DEFINE p == pktInto[w]
<1>1. p \in DOMAIN packet /\ ~InQueue(p)
  BY DEF Owned, PacketsOnce
<1>2. /\ p \in PacketId /\ packet[p] \in Packet(Received)
      /\ packet[p].bytes \in bytes /\ packet[p].bytes \in Received
      /\ p = Pkt(packet[p].bytes) /\ Fits(packet[p])
  BY <1>1 DEF Owned, TypeOK, BytesOwned, Ready
<1>3. ~Before(packet[p].bytes) /\ packet[p].bytes \in 1..MaxFrames
  BY <1>1, <1>2, ReceivedType DEF Owned, BytesOwned
<1> QED BY <1>1, <1>2, <1>3

(* What a handler does to the packet, with Reset for the assignment that   *)
(* comes before the call.                                                  *)
LEMMA RunHandlerOwned ==
  ASSUME Owned, NEW w \in Workers, RunHandler(w)
  PROVE  LET p == pktInto[w]
             f == packet[p].bytes
             done == Effect(Reset(packet[p]), packet[p].next_handler, frames[f])
         IN  /\ Owned'
             /\ \A g : Before(g)' <=> Before(g)
             /\ DOMAIN packet' = DOMAIN packet /\ pktQueue' = pktQueue
             /\ \A q \in DOMAIN packet \ {p} : packet'[q] = packet[q]
             /\ packet'[p].bytes = f
             /\ effects' = [effects EXCEPT ![f] = @ \o done]
             /\ done \in Seq(Rules) /\ Left(packet'[p], frames[f]) \in Seq(Rules)
             /\ ImplementedLeft(packet[p], frames[f]) =>
                  /\ ImplementedLeft(packet'[p], frames[f])
                  /\ done \o Left(packet'[p], frames[f]) = Left(packet[p], frames[f])
<1> USE DEF Owned
<1> DEFINE p == pktInto[w]
           f == packet[p].bytes
           hdlr == packet[p].next_handler
           done == Effect(Reset(packet[p]), hdlr, frames[f])
           q == Handle(Reset(packet[p]), hdlr, frames[f])
<1>1. /\ workerPc[w] = "handle" /\ w \in running
      /\ workerPc' = [workerPc EXCEPT ![w] = "dispose"]
      /\ packet' = [packet EXCEPT ![p] = q]
      /\ effects' = [effects EXCEPT ![f] = @ \o done]
      /\ passedBy' = [g \in 1..MaxFrames |-> IF Waits(g) THEN Append(passedBy[g], f)
                                                        ELSE passedBy[g]]
      /\ UNCHANGED <<mainVars, frames, bytes, events, busQ, busVars, pktQ>>
  BY DEF RunHandler
<1>2. /\ p \in DOMAIN packet /\ packet[p] \in Packet(Received) /\ p \in PacketId
      /\ f \in bytes /\ f \in Received /\ f \in 1..MaxFrames /\ Fits(packet[p])
      /\ p = Pkt(f) /\ ~InQueue(p)
  BY <1>1, Working
<1>3. hdlr # "NULL"
  BY <1>1 DEF Ready
<1>4. /\ q \in Packet(Received) /\ q.bytes = f /\ Fits(q)
      /\ done \in Seq(Rules) /\ Left(q, frames[f]) \in Seq(Rules)
      /\ ImplementedLeft(packet[p], frames[f]) =>
           /\ ImplementedLeft(q, frames[f])
           /\ done \o Left(q, frames[f]) = Left(packet[p], frames[f])
  <2>1. /\ q \in Packet(Received) /\ q.bytes = f /\ Fits(q)
        /\ done \in Seq(Rules) /\ Left(q, frames[f]) \in Seq(Rules)
    BY <1>2, <1>3, HandlerKeepsPacket DEF Reset
  <2>2. ASSUME ImplementedLeft(packet[p], frames[f])
        PROVE  /\ ImplementedLeft(q, frames[f])
               /\ done \o Left(q, frames[f]) = Left(packet[p], frames[f])
    BY <1>2, <1>3, <2>2, HandlerFollowsMeaning DEF Reset
  <2> QED BY <2>1, <2>2
<1> HIDE DEF p, f, hdlr, done, q
<1>5. /\ DOMAIN packet' = DOMAIN packet /\ packet'[p] = q
      /\ \A x \in DOMAIN packet \ {p} : packet'[x] = packet[x]
  BY <1>1, <1>2
<1>6. /\ workerPc' \in [Workers -> {"take", "handle", "dispose"}]
      /\ workerPc'[w] = "dispose"
      /\ \A v \in Workers \ {w} : workerPc'[v] = workerPc[v]
  BY <1>1 DEF TypeOK
<1>7. effects' \in [1..MaxFrames -> Seq(Rules)]
  <2>1. effects[f] \o done \in Seq(Rules)
    BY <1>2, <1>4 DEF TypeOK
  <2> QED BY <1>1, <1>2, <2>1 DEF TypeOK
<1>8. passedBy' \in [1..MaxFrames -> Seq(Received)]
  <2>1. \A g \in 1..MaxFrames :
          passedBy[g] \in Seq(Received) /\ Append(passedBy[g], f) \in Seq(Received)
    BY <1>2, AppendProperties DEF TypeOK
  <2> QED BY <1>1, <2>1
<1>9. TypeOK'
  <2>1. \A x \in DOMAIN packet' : packet'[x] \in Packet(Received)
    BY <1>4, <1>5 DEF TypeOK
  <2>2. Received' = Received
    BY <1>1 DEF Received
  <2> QED BY <1>1, <1>5, <1>6, <1>7, <1>8, <2>1, <2>2 DEF TypeOK, mainVars, busQ, busVars, pktQ
<1>10. \A g : Before(g)' <=> Before(g)
  BY <1>1 DEF Before, InBus, mainVars, busQ, busVars
<1>11. Started' /\ EventsOnBus'
  BY <1>1, <1>6 DEF Started, EventsOnBus, InBus, mainVars, busQ, busVars
<1>12. PacketsOnce'
  <2>1. \A v \in Workers : workerPc'[v] # "take" <=> workerPc[v] # "take"
    BY <1>1, <1>6
  <2>2. pktQueue' = pktQueue /\ pktInto' = pktInto
    BY <1>1 DEF pktQ
  <2> QED BY <1>5, <2>1, <2>2 DEF PacketsOnce, InQueue
<1>13. BytesOwned'
  <2>1. \A x \in DOMAIN packet : packet'[x].bytes = packet[x].bytes
    BY <1>4, <1>5 DEF f
  <2> QED BY <1>1, <1>5, <1>10, <2>1 DEF BytesOwned, Received
<1>14. Ready'
  <2>1. \A x \in DOMAIN packet : Fits(packet'[x])
    BY <1>4, <1>5 DEF Ready
  <2>2. \A i \in DOMAIN pktQueue : pktQueue[i] # p /\ pktQueue[i] \in DOMAIN packet
    BY <1>2 DEF InQueue, PacketsOnce
  <2>3. \A v \in Workers \ {w} : workerPc[v] = "handle" => pktInto[v] # p
    BY <1>1 DEF PacketsOnce, p
  <2>4. \A v \in Workers : workerPc[v] = "handle" => pktInto[v] \in DOMAIN packet
    BY DEF PacketsOnce
  <2>5. \A i \in DOMAIN pktQueue : packet'[pktQueue[i]].next_handler # "NULL"
    BY <1>5, <2>2 DEF Ready
  <2>6. \A v \in Workers : workerPc'[v] = "handle" => packet'[pktInto[v]].next_handler # "NULL"
    BY <1>5, <1>6, <2>3, <2>4 DEF Ready
  <2> QED BY <1>1, <1>5, <2>1, <2>5, <2>6 DEF Ready, pktQ
<1>15. pktQueue' = pktQueue
  BY <1>1 DEF pktQ
<1> QED BY <1>1, <1>4, <1>5, <1>9, <1>10, <1>11, <1>12, <1>13, <1>14, <1>15
        DEF p, f, hdlr, done, q

LEMMA RequeueOwned ==
  ASSUME Owned, NEW w \in Workers, Requeue(w)
  PROVE  LET p == pktInto[w]
         IN  /\ Owned'
             /\ \A g : Before(g)' <=> Before(g)
             /\ PktQ!Put(p) /\ ~InQueue(p) /\ p \in PacketId
             /\ workerPc[w] # "take"
<1> USE DEF Owned
<1> DEFINE p == pktInto[w]
<1>1. /\ workerPc[w] = "dispose" /\ w \in running /\ packet[p].next_handler # "NULL"
      /\ PktQ!Put(p)
      /\ workerPc' = [workerPc EXCEPT ![w] = "take"]
      /\ UNCHANGED <<mainVars, heap, busQ, busVars, history>>
  BY DEF Requeue
<1>2. p \in DOMAIN packet /\ p \in PacketId /\ ~InQueue(p)
  BY <1>1, Working
<1>3. /\ pktQueue' \in Seq(PacketId) /\ pktInto' = pktInto /\ pktRc' = pktRc
      /\ \A q : InQueue(q)' <=> q = p \/ InQueue(q)
      /\ \A i, j \in DOMAIN pktQueue' : pktQueue'[i] = pktQueue'[j] => i = j
      /\ \A i \in DOMAIN pktQueue : i \in DOMAIN pktQueue' /\ pktQueue'[i] = pktQueue[i]
      /\ \A i \in DOMAIN pktQueue' : i \in DOMAIN pktQueue \/ pktQueue'[i] = p
  BY <1>1, <1>2, PutPacket DEF PacketsOnce
<1>4. /\ workerPc' \in [Workers -> {"take", "handle", "dispose"}]
      /\ workerPc'[w] = "take"
      /\ \A v \in Workers \ {w} : workerPc'[v] = workerPc[v]
  BY <1>1 DEF TypeOK
<1>5. TypeOK'
  BY <1>1, <1>3, <1>4 DEF TypeOK, mainVars, heap, busQ, busVars, history, Received
<1>6. \A g : Before(g)' <=> Before(g)
  BY <1>1 DEF Before, InBus, mainVars, heap, busQ, busVars
<1>7. Started' /\ EventsOnBus'
  BY <1>1, <1>4 DEF Started, EventsOnBus, InBus, mainVars, heap, busQ, busVars
<1>8. packet' = packet
  BY <1>1 DEF heap
<1>9. \A v \in Workers \ {w} : workerPc[v] # "take" => pktInto[v] # p
  BY <1>1 DEF PacketsOnce
<1>10. PacketsOnce'
  <2>1. \A i \in DOMAIN pktQueue' : pktQueue'[i] \in DOMAIN packet'
    BY <1>2, <1>3, <1>8 DEF PacketsOnce
  <2>2. \A v \in Workers : workerPc'[v] # "take" =>
          /\ pktInto'[v] \in DOMAIN packet' /\ ~InQueue(pktInto[v])'
          /\ \A u \in Workers : workerPc'[u] # "take" /\ pktInto'[u] = pktInto'[v] => u = v
    BY <1>3, <1>4, <1>8, <1>9 DEF PacketsOnce
  <2>3. \A q \in DOMAIN packet' :
          InQueue(q)' \/ \E v \in Workers : workerPc'[v] # "take" /\ pktInto'[v] = q
    BY <1>3, <1>4, <1>8 DEF PacketsOnce
  <2> QED BY <1>3, <2>1, <2>2, <2>3 DEF PacketsOnce
<1>11. BytesOwned'
  BY <1>1, <1>6 DEF BytesOwned, Received, heap
<1>12. Ready'
  BY <1>1, <1>3, <1>4, <1>8 DEF Ready
<1> QED BY <1>1, <1>2, <1>5, <1>6, <1>7, <1>10, <1>11, <1>12

LEMMA PacketDeleteOwned ==
  ASSUME Owned, NEW w \in Workers, PacketDelete(w)
  PROVE  LET p == pktInto[w]
             f == packet[p].bytes
         IN  /\ Owned'
             /\ \A g : Before(g)' <=> Before(g)
             /\ p \in DOMAIN packet /\ packet[p].next_handler = "NULL" /\ p = Pkt(f)
             /\ DOMAIN packet' = DOMAIN packet \ {p}
             /\ \A q \in DOMAIN packet' : packet'[q] = packet[q]
             /\ bytes' = bytes \ {f} /\ f \in Received
             /\ \A v \in Workers : workerPc'[v] = "handle" => workerPc[v] = "handle"
<1> USE DEF Owned
<1> DEFINE p == pktInto[w]
           f == packet[p].bytes
<1>1. /\ workerPc[w] = "dispose" /\ w \in running /\ packet[p].next_handler = "NULL"
      /\ bytes' = bytes \ {f}
      /\ packet' = [q \in DOMAIN packet \ {p} |-> packet[q]]
      /\ workerPc' = [workerPc EXCEPT ![w] = "take"]
      /\ UNCHANGED <<mainVars, frames, events, busQ, busVars, pktQ, history>>
  BY DEF PacketDelete
<1>2. p \in DOMAIN packet /\ ~InQueue(p) /\ p = Pkt(f) /\ ~Before(f) /\ f \in Received
  BY <1>1, Working
<1> HIDE DEF p, f
<1>3. DOMAIN packet' = DOMAIN packet \ {p} /\ \A q \in DOMAIN packet' : packet'[q] = packet[q]
  BY <1>1
<1>4. /\ workerPc' \in [Workers -> {"take", "handle", "dispose"}]
      /\ workerPc'[w] = "take"
      /\ \A v \in Workers \ {w} : workerPc'[v] = workerPc[v]
  BY <1>1 DEF TypeOK
<1>5. TypeOK'
  <2>1. \A q \in DOMAIN packet' : packet'[q] \in Packet(Received)
    BY <1>3 DEF TypeOK
  <2>2. DOMAIN packet' \subseteq PacketId /\ Received' = Received
    BY <1>1, <1>3 DEF TypeOK, Received
  <2>3. bytes' \subseteq Received
    BY <1>1 DEF TypeOK
  <2> QED BY <1>1, <1>4, <2>1, <2>2, <2>3 DEF TypeOK, mainVars, busQ, busVars, pktQ, history
<1>6. \A g : Before(g)' <=> Before(g)
  BY <1>1 DEF Before, InBus, mainVars, busQ, busVars
<1>7. Started' /\ EventsOnBus'
  BY <1>1, <1>4 DEF Started, EventsOnBus, InBus, mainVars, busQ, busVars
<1>8. \A v \in Workers \ {w} : workerPc[v] # "take" => pktInto[v] # p
  BY <1>1 DEF PacketsOnce, p
<1>9. \A q : InQueue(q)' <=> InQueue(q)
  BY <1>1 DEF InQueue, pktQ
<1>10. PacketsOnce'
  <2>1. \A i \in DOMAIN pktQueue : pktQueue[i] \in DOMAIN packet'
    BY <1>2, <1>3 DEF PacketsOnce, InQueue
  <2>2. \A v \in Workers : workerPc'[v] # "take" =>
          /\ pktInto[v] \in DOMAIN packet' /\ ~InQueue(pktInto[v])
          /\ \A u \in Workers : workerPc'[u] # "take" /\ pktInto[u] = pktInto[v] => u = v
    BY <1>3, <1>4, <1>8 DEF PacketsOnce
  <2>3. \A q \in DOMAIN packet' :
          InQueue(q) \/ \E v \in Workers : workerPc'[v] # "take" /\ pktInto[v] = q
    BY <1>3, <1>4 DEF PacketsOnce, p
  <2>4. pktQueue' = pktQueue /\ pktInto' = pktInto
    BY <1>1 DEF pktQ
  <2> QED BY <1>9, <2>1, <2>2, <2>3, <2>4 DEF PacketsOnce
<1>11. BytesOwned'
  <2>1. \A g \in Received : Before(g)' => g \in bytes' /\ Pkt(g) \notin DOMAIN packet'
    BY <1>1, <1>2, <1>3, <1>6 DEF BytesOwned
  <2>2. \A q \in DOMAIN packet' : packet'[q].bytes \in bytes' /\ q = Pkt(packet'[q].bytes)
    BY <1>1, <1>2, <1>3 DEF BytesOwned
  <2>3. \A g \in bytes' : Before(g)' \/ Pkt(g) \in DOMAIN packet'
    <3>1. \A g : Pkt(g) = Pkt(f) => g = f
      BY DEF Pkt
    <3> QED BY <1>1, <1>2, <1>3, <1>6, <3>1 DEF BytesOwned
  <2> QED BY <1>1, <2>1, <2>2, <2>3 DEF BytesOwned, Received
<1>12. Ready'
  <2>1. \A i \in DOMAIN pktQueue : pktQueue[i] # p /\ pktQueue[i] \in DOMAIN packet
    BY <1>2 DEF InQueue, PacketsOnce
  <2>2. \A v \in Workers : workerPc'[v] = "handle" =>
          pktInto[v] \in DOMAIN packet /\ pktInto[v] # p /\ workerPc[v] = "handle"
    BY <1>4, <1>8 DEF PacketsOnce
  <2> QED BY <1>1, <1>3, <2>1, <2>2 DEF Ready, pktQ
<1> QED BY <1>1, <1>2, <1>3, <1>4, <1>5, <1>6, <1>7, <1>10, <1>11, <1>12 DEF p, f

------------------------------------------------------------------------------
(* What was done and what is left *)

(* Two packets have different bytes. *)
LEMMA PacketsApart ==
  ASSUME Owned, NEW p \in DOMAIN packet, NEW q \in DOMAIN packet, p # q
  PROVE  packet[p].bytes # packet[q].bytes
BY DEF Owned, BytesOwned

(* Steps that leave the packets and the frames alone. *)
LEMMA FilteredStays ==
  ASSUME Owned, Filtered,
         UNCHANGED <<frames, bytes, packet, effects, ether_chain_head>>,
         \A f \in Received : Before(f)' => Before(f)
  PROVE  Filtered'
<1>1. Received' = Received
  BY DEF Received
<1>2. \A f \in 1..MaxFrames : f \notin Received' \/ Before(f)' => effects'[f] = <<>>
  BY <1>1 DEF Filtered
<1>3. /\ \A f : Meant(f)' <=> Meant(f)
      /\ \A f : Intended(f)' = Intended(f)
      /\ \A p : AsIntended(p)' <=> AsIntended(p)
  BY DEF Meant, Intended, AsIntended
<1> QED BY <1>1, <1>2, <1>3 DEF Filtered

LEMMA ReadPacketFiltered ==
  ASSUME Owned, Filtered, NEW h \in Header, ReadPacket(h)
  PROVE  Filtered'
<1> DEFINE n == Len(frames')
<1>1. /\ Received' = Received \cup {n} /\ n \notin Received /\ n \in 1..MaxFrames
      /\ bytes' = bytes \cup {n} /\ bytes \subseteq Received
      /\ \A f \in Received : frames'[f] = frames[f]
      /\ \A f \in Received' : Before(f)' <=> f = n \/ Before(f)
  BY ReadPacketOwned DEF Owned, TypeOK
<1>2. UNCHANGED <<packet, effects, ether_chain_head>>
  BY DEF ReadPacket, history
<1> HIDE DEF n
<1>3. \A f \in 1..MaxFrames : f \notin Received' \/ Before(f)' => effects'[f] = <<>>
  BY <1>1, <1>2 DEF Filtered
<1>4. \A p \in DOMAIN packet : packet[p].bytes \in Received
  BY DEF Owned, BytesOwned, TypeOK
<1>5. \A f \in Received : (Meant(f)' <=> Meant(f)) /\ Intended(f)' = Intended(f)
  BY <1>1, <1>2 DEF Meant, Intended
<1>6. \A p \in DOMAIN packet : AsIntended(p)'
  <2>1. \A p \in DOMAIN packet : AsIntended(p)
    BY DEF Filtered
  <2> QED BY <1>1, <1>2, <1>4, <1>5, <2>1 DEF AsIntended
<1>7. \A f \in Received' \ bytes' : f \in Received \ bytes
  BY <1>1
<1>8. \A f \in Received' \ bytes' : Meant(f)' => effects'[f] = Intended(f)'
  BY <1>2, <1>5, <1>7 DEF Filtered
<1> QED BY <1>2, <1>3, <1>6, <1>8 DEF Filtered

(* The chain's first rule is one of the configuration, or null. *)
LEMMA HeadType == TypeOK => ether_chain_head \in MaybeRules
BY PipelineAssumption DEF TypeOK, MaybeRules

LEMMA OnPacketEventFiltered ==
  ASSUME Owned, Filtered, OnPacketEvent
  PROVE  Filtered'
<1> DEFINE f == busInto[Bus]
           new == [next_handler |-> "BEGIN", current_chain_rule |-> ether_chain_head,
                   bytes |-> f]
<1>1. /\ Before(f) /\ f \in Received /\ f \in 1..MaxFrames
      /\ \A g \in Received : Before(g)' <=> Before(g) /\ g # f
      /\ DOMAIN packet' = DOMAIN packet \cup {Pkt(f)}
      /\ \A q \in DOMAIN packet : packet'[q] = packet[q]
      /\ packet'[Pkt(f)] = new
  BY OnPacketEventOwned, ReceivedType DEF Owned
<1>2. UNCHANGED <<frames, bytes, effects, ether_chain_head>> /\ Received' = Received
  BY DEF OnPacketEvent, history, mainVars, Received
<1>3. effects[f] = <<>>
  BY <1>1 DEF Filtered
<1>4. /\ Left(new, frames[f]) = Intended(f) /\ new.bytes = f
      /\ Meant(f) => ImplementedLeft(new, frames[f])
  BY DEF Left, ImplementedLeft, Intended, Meant
<1>5. <<>> \o Intended(f) = Intended(f)
  BY HeadType, MeaningType, ConcatEmptySeq DEF Owned, Intended
<1> HIDE DEF f, new
<1>6. \A g \in 1..MaxFrames : g \notin Received' \/ Before(g)' => effects'[g] = <<>>
  BY <1>1, <1>2 DEF Filtered
<1>7. \A g : (Meant(g)' <=> Meant(g)) /\ Intended(g)' = Intended(g)
  BY <1>2 DEF Meant, Intended
<1>8. ASSUME NEW p \in DOMAIN packet' PROVE AsIntended(p)'
  <2>1. CASE p = Pkt(f)
    BY <1>1, <1>2, <1>3, <1>4, <1>5, <1>7, <2>1 DEF AsIntended
  <2>2. CASE p \in DOMAIN packet
    <3>1. AsIntended(p) /\ packet'[p] = packet[p]
      BY <1>1, <2>2 DEF Filtered
    <3> QED BY <1>2, <1>7, <3>1 DEF AsIntended
  <2> QED BY <1>1, <2>1, <2>2
<1> QED BY <1>2, <1>6, <1>7, <1>8 DEF Filtered

LEMMA RunHandlerFiltered ==
  ASSUME Owned, Filtered, NEW w \in Workers, RunHandler(w)
  PROVE  Filtered'
<1> DEFINE p == pktInto[w]
           f == packet[p].bytes
           done == Effect(Reset(packet[p]), packet[p].next_handler, frames[f])
           left == Left(packet'[p], frames[f])
<1>1. /\ \A g : Before(g)' <=> Before(g)
      /\ DOMAIN packet' = DOMAIN packet
      /\ \A q \in DOMAIN packet \ {p} : packet'[q] = packet[q]
      /\ packet'[p].bytes = f
      /\ effects' = [effects EXCEPT ![f] = @ \o done]
      /\ done \in Seq(Rules) /\ left \in Seq(Rules)
      /\ ImplementedLeft(packet[p], frames[f]) =>
           ImplementedLeft(packet'[p], frames[f]) /\ done \o left = Left(packet[p], frames[f])
  BY RunHandlerOwned
<1>2. workerPc[w] # "take" /\ UNCHANGED <<frames, bytes, ether_chain_head>>
  BY DEF RunHandler, mainVars
<1>3. p \in DOMAIN packet /\ f \in bytes /\ f \in Received /\ f \in 1..MaxFrames /\ ~Before(f)
  BY <1>2, Working
<1>4. effects \in [1..MaxFrames -> Seq(Rules)]
  BY DEF Owned, TypeOK
<1> HIDE DEF done, left
<1>5. ASSUME Meant(f)
      PROVE  effects'[f] \o left = Intended(f) /\ ImplementedLeft(packet'[p], frames[f])
  <2>1. (effects[f] \o done) \o left = effects[f] \o (done \o left)
    <3>1. effects[f] \in Seq(Rules)
      BY <1>3, <1>4
    <3>2. done \in Seq(Rules) /\ left \in Seq(Rules)
      BY <1>1
    <3>3. \A x, y, z \in Seq(Rules) : (x \o y) \o z = x \o (y \o z)
      BY ConcatAssociative
    <3> QED BY <3>1, <3>2, <3>3
  <2>2. effects'[f] = effects[f] \o done
    BY <1>1, <1>3, <1>4
  <2>3. /\ effects[f] \o Left(packet[p], frames[f]) = Intended(f)
        /\ ImplementedLeft(packet[p], frames[f])
    BY <1>3, <1>5 DEF Filtered, AsIntended
  <2> QED BY <1>1, <2>1, <2>2, <2>3
<1>6. \A g \in 1..MaxFrames \ {f} : effects'[g] = effects[g]
  BY <1>1, <1>4
<1>7. ASSUME NEW q \in DOMAIN packet \ {p}
      PROVE  /\ packet'[q] = packet[q]
             /\ packet[q].bytes \in 1..MaxFrames \ {f}
  <2>1. packet[q].bytes \in Received
    BY DEF Owned, BytesOwned, TypeOK
  <2> QED BY <1>1, <1>3, <2>1, PacketsApart, ReceivedType DEF Owned
<1>8. left = Left(packet'[p], frames[f])
  BY DEF left
<1> HIDE DEF p, f
<1>9. Received' = Received
  BY <1>2 DEF Received
<1>10. \A g \in 1..MaxFrames : g \notin Received' \/ Before(g)' => effects'[g] = <<>>
  BY <1>1, <1>3, <1>6, <1>9 DEF Filtered
<1>11. \A g : (Meant(g)' <=> Meant(g)) /\ Intended(g)' = Intended(g)
  BY <1>2 DEF Meant, Intended
<1>12. ASSUME NEW q \in DOMAIN packet' PROVE AsIntended(q)'
  <2>1. CASE q = p
    BY <1>1, <1>2, <1>5, <1>8, <1>11, <2>1 DEF AsIntended
  <2>2. CASE q # p
    <3>1. /\ packet'[q] = packet[q] /\ q \in DOMAIN packet
          /\ effects'[packet[q].bytes] = effects[packet[q].bytes]
      BY <1>1, <1>6, <1>7, <2>2
    <3>2. AsIntended(q)
      BY <3>1 DEF Filtered
    <3> QED BY <1>2, <1>11, <3>1, <3>2 DEF AsIntended
  <2> QED BY <2>1, <2>2
<1>13. \A g \in Received \ bytes : Meant(g) => effects'[g] = Intended(g)
  <2>1. \A g \in Received \ bytes : g \in 1..MaxFrames \ {f}
    BY <1>3, ReceivedType DEF Owned
  <2> QED BY <1>6, <2>1 DEF Filtered
<1> QED BY <1>2, <1>9, <1>10, <1>11, <1>12, <1>13 DEF Filtered

LEMMA PacketDeleteFiltered ==
  ASSUME Owned, Filtered, NEW w \in Workers, PacketDelete(w)
  PROVE  Filtered'
<1> DEFINE p == pktInto[w]
           f == packet[p].bytes
<1>1. /\ \A g : Before(g)' <=> Before(g)
      /\ p \in DOMAIN packet /\ packet[p].next_handler = "NULL"
      /\ DOMAIN packet' = DOMAIN packet \ {p}
      /\ \A q \in DOMAIN packet' : packet'[q] = packet[q]
      /\ bytes' = bytes \ {f} /\ f \in Received
  BY PacketDeleteOwned
<1>2. UNCHANGED <<frames, effects, ether_chain_head>> /\ Received' = Received
  BY DEF PacketDelete, mainVars, history, Received
<1>3. ASSUME Meant(f) PROVE effects[f] = Intended(f)
  <2>1. effects[f] \o <<>> = Intended(f)
    BY <1>1, <1>3 DEF Filtered, AsIntended, Left
  <2>2. effects[f] \in Seq(Rules)
    BY <1>1, ReceivedType DEF Owned, TypeOK
  <2> QED BY <2>1, <2>2, ConcatEmptySeq
<1> HIDE DEF p, f
<1>4. \A g : (Meant(g)' <=> Meant(g)) /\ Intended(g)' = Intended(g)
  BY <1>2 DEF Meant, Intended
<1>5. \A g \in Received \ bytes' : Meant(g) => effects[g] = Intended(g)
  BY <1>1, <1>3 DEF Filtered
<1>6. ASSUME NEW q \in DOMAIN packet' PROVE AsIntended(q)'
  <2>1. AsIntended(q) /\ packet'[q] = packet[q]
    BY <1>1 DEF Filtered
  <2> QED BY <1>2, <1>4, <2>1 DEF AsIntended
<1>7. \A g \in 1..MaxFrames : g \notin Received' \/ Before(g)' => effects'[g] = <<>>
  BY <1>1, <1>2 DEF Filtered
<1> QED BY <1>2, <1>4, <1>5, <1>6, <1>7 DEF Filtered

------------------------------------------------------------------------------
(* Taking turns *)

LEMMA PassedType ==
  ASSUME TypeOK, NEW g \in 1..MaxFrames
  PROVE  /\ passedBy[g] \in Seq(Received)
         /\ \A n \in DOMAIN passedBy[g] : passedBy[g][n] \in Received
BY ElementOfSeq, LenProperties DEF TypeOK

(* Steps that leave the packet queue alone and run no handler. *)
LEMMA TurnsStay ==
  ASSUME Owned, Turns, UNCHANGED <<pktQueue, pktInto, passedBy>>,
         \A f \in Received : Before(f)' => Before(f),
         \A w \in Workers : workerPc'[w] = "handle" => workerPc[w] = "handle"
  PROVE  Turns'
<1> SUFFICES ASSUME NEW g \in 1..MaxFrames
             PROVE  \A n \in DOMAIN passedBy[g] : Behind(g, passedBy[g][n])'
  BY DEF Turns, InQueue
<1> QED BY PassedType DEF Turns, Behind, Owned

(* A packet nobody has goes to the back of the queue. *)
LEMMA PutTurns ==
  ASSUME Owned, Turns, NEW p \in PacketId, PktQ!Put(p), ~InQueue(p),
         UNCHANGED passedBy,
         \A f \in Received : Before(f)' => Before(f),
         \A w \in Workers : workerPc'[w] = "handle" => workerPc[w] = "handle"
  PROVE  Turns'
<1>1. /\ pktInto' = pktInto
      /\ \A q : InQueue(q)' <=> q = p \/ InQueue(q)
      /\ \A i \in DOMAIN pktQueue : pktQueue'[i] = pktQueue[i]
      /\ \A i \in DOMAIN pktQueue' :
           \/ i \in DOMAIN pktQueue
           \/ pktQueue'[i] = p /\ \A j \in DOMAIN pktQueue : j < i
  BY PutPacket DEF Owned, PacketsOnce
<1> SUFFICES ASSUME NEW g \in 1..MaxFrames
             PROVE  \A n \in DOMAIN passedBy[g] : Behind(g, passedBy[g][n])'
  BY <1>1 DEF Turns
<1>2. ASSUME NEW n \in DOMAIN passedBy[g] PROVE Behind(g, passedBy[g][n])'
  <2>1. PICK f \in Received : f = passedBy[g][n] /\ Behind(g, f)
    BY PassedType DEF Turns, Owned
  <2>2. InQueue(Pkt(g))
    BY <1>2 DEF Turns
  <2>3. Pkt(g) # p
    BY <2>2
  <2>4. ASSUME NEW i \in DOMAIN pktQueue', NEW j \in DOMAIN pktQueue',
               pktQueue'[i] = Pkt(g), pktQueue'[j] = Pkt(f)
        PROVE  i < j
    <3>1. i \in DOMAIN pktQueue
      BY <1>1, <2>3, <2>4
    <3> QED BY <1>1, <2>1, <2>4, <3>1 DEF Behind
  <2>5. ~Before(f)' /\ \A w \in Workers : workerPc'[w] = "handle" => pktInto'[w] # Pkt(f)
    BY <1>1, <2>1 DEF Behind
  <2>6. passedBy'[g][n] = f
    BY <2>1
  <2> QED BY <2>4, <2>5, <2>6 DEF Behind
<1> QED BY <1>2

LEMMA WorkerTakeTurns ==
  ASSUME Owned, Turns, NEW w \in Workers, WorkerTake(w)
  PROVE  Turns'
<1> DEFINE p == pktInto'[w]
           g0 == packet[p].bytes
<1>1. /\ \A g \in Received : Before(g)' <=> Before(g)
      /\ PktQ!Get(w) /\ p \in DOMAIN packet /\ InQueue(p)
      /\ g0 \in 1..MaxFrames /\ p = Pkt(g0)
  BY WorkerTakeOwned
<1>2. /\ passedBy' = [passedBy EXCEPT ![g0] = <<>>]
      /\ workerPc' = [workerPc EXCEPT ![w] = "handle"]
      /\ passedBy \in [1..MaxFrames -> Seq(Received)]
      /\ workerPc \in [Workers -> {"take", "handle", "dispose"}]
  BY DEF WorkerTake, Owned, TypeOK
<1>3. /\ \A v \in Workers \ {w} : pktInto'[v] = pktInto[v]
      /\ \A q : InQueue(q)' <=> InQueue(q) /\ q # p
      /\ 1 \in DOMAIN pktQueue /\ pktQueue[1] = p
      /\ DOMAIN pktQueue \subseteq Nat \ {0} /\ DOMAIN pktQueue' \subseteq Nat
      /\ \A i \in DOMAIN pktQueue' : i + 1 \in DOMAIN pktQueue /\ pktQueue'[i] = pktQueue[i + 1]
  BY <1>1, GetPacket DEF Owned, PacketsOnce
<1>4. pktInto'[w] = p
  OBVIOUS
<1> HIDE DEF p, g0
<1>5. passedBy'[g0] = <<>> /\ \A g \in 1..MaxFrames \ {g0} : passedBy'[g] = passedBy[g]
  BY <1>1, <1>2
<1>6. \A v \in Workers \ {w} : workerPc'[v] = workerPc[v]
  BY <1>2
<1>7. ASSUME NEW g \in 1..MaxFrames, g # g0, NEW n \in DOMAIN passedBy[g]
      PROVE  Behind(g, passedBy[g][n])'
  <2>1. PICK f \in Received : f = passedBy[g][n] /\ Behind(g, f)
    BY PassedType DEF Turns, Owned
  <2>2. InQueue(Pkt(g))
    BY <1>7 DEF Turns
  <2>3. ASSUME NEW i \in DOMAIN pktQueue', NEW j \in DOMAIN pktQueue',
               pktQueue'[i] = Pkt(g), pktQueue'[j] = Pkt(f)
        PROVE  i < j
    <3>1. i + 1 < j + 1 /\ i \in Nat /\ j \in Nat
      BY <1>3, <2>1, <2>3 DEF Behind
    <3> QED BY <3>1
  <2>4. p # Pkt(f)
    <3> SUFFICES ASSUME p = Pkt(f) PROVE FALSE
      OBVIOUS
    <3>1. PICK i \in DOMAIN pktQueue : pktQueue[i] = Pkt(g)
      BY <2>2 DEF InQueue
    <3>2. i < 1 /\ i \in Nat \ {0}
      BY <1>3, <2>1, <3>1 DEF Behind
    <3> QED BY <3>2
  <2>5. ~Before(f)' /\ \A v \in Workers : workerPc'[v] = "handle" => pktInto'[v] # Pkt(f)
    BY <1>1, <1>3, <1>4, <1>6, <2>1, <2>4 DEF Behind
  <2>6. passedBy'[g][n] = f
    BY <1>5, <1>7, <2>1
  <2> QED BY <2>3, <2>5, <2>6 DEF Behind
<1>8. ASSUME NEW g \in 1..MaxFrames
      PROVE  /\ ~InQueue(Pkt(g))' => passedBy'[g] = <<>>
             /\ \A m, n \in DOMAIN passedBy'[g] :
                  passedBy'[g][m] = passedBy'[g][n] => m = n
             /\ \A n \in DOMAIN passedBy'[g] : Behind(g, passedBy[g][n])'
  <2>1. CASE g = g0
    <3>1. DOMAIN passedBy'[g] = {}
      BY <1>5, <2>1
    <3> QED BY <1>5, <2>1, <3>1
  <2>2. CASE g # g0
    <3>1. Pkt(g) # p
      BY <1>1, <2>2 DEF Pkt
    <3>2. passedBy'[g] = passedBy[g]
      BY <1>5, <2>2
    <3>3. ~InQueue(Pkt(g))' => passedBy'[g] = <<>>
      BY <1>3, <3>1, <3>2 DEF Turns
    <3>4. \A m, n \in DOMAIN passedBy'[g] : passedBy'[g][m] = passedBy'[g][n] => m = n
      BY <3>2 DEF Turns
    <3>5. \A n \in DOMAIN passedBy'[g] : Behind(g, passedBy[g][n])'
      <4>1. \A n \in DOMAIN passedBy[g] : Behind(g, passedBy[g][n])'
        BY <1>7, <2>2
      <4> QED BY <3>2, <4>1
    <3> QED BY <3>3, <3>4, <3>5
  <2> QED BY <2>1, <2>2
<1> QED BY <1>8 DEF Turns

LEMMA RunHandlerTurns ==
  ASSUME Owned, Turns, NEW w \in Workers, RunHandler(w)
  PROVE  Turns'
<1>0. PICK p, f : p = pktInto[w] /\ f = packet[p].bytes
  OBVIOUS
<1>1. /\ \A g : Before(g)' <=> Before(g)
      /\ pktQueue' = pktQueue
  BY RunHandlerOwned
<1>2. /\ workerPc[w] = "handle" /\ pktInto' = pktInto
      /\ workerPc' = [workerPc EXCEPT ![w] = "dispose"]
      /\ passedBy' = [g \in 1..MaxFrames |-> IF Waits(g) THEN Append(passedBy[g], f)
                                                        ELSE passedBy[g]]
      /\ workerPc \in [Workers -> {"take", "handle", "dispose"}]
  BY <1>0 DEF RunHandler, pktQ, Owned, TypeOK
<1>3. f \in Received /\ ~Before(f) /\ p = Pkt(f) /\ ~InQueue(p)
  BY <1>0, <1>2, Working
<1>4. \A g \in 1..MaxFrames : Waits(g) <=> InQueue(Pkt(g))
  <2>1. \A i \in DOMAIN pktQueue : pktQueue[i] = Pkt(packet[pktQueue[i]].bytes)
    BY DEF Owned, PacketsOnce, BytesOwned
  <2>2. \A g : \A i \in DOMAIN pktQueue : packet[pktQueue[i]].bytes = g <=> pktQueue[i] = Pkt(g)
    BY <2>1 DEF Pkt
  <2> QED BY <2>2 DEF Waits, InQueue
<1>5. \A v \in Workers \ {w} : workerPc[v] = "handle" => pktInto[v] # p
  BY <1>0, <1>2 DEF Owned, PacketsOnce
<1>6. \A v \in Workers : workerPc'[v] = "handle" => workerPc[v] = "handle" /\ pktInto[v] # p
  BY <1>2, <1>5
<1>8. ASSUME NEW g \in 1..MaxFrames
      PROVE  /\ ~InQueue(Pkt(g))' => passedBy'[g] = <<>>
             /\ \A m, n \in DOMAIN passedBy'[g] :
                  passedBy'[g][m] = passedBy'[g][n] => m = n
             /\ \A n \in DOMAIN passedBy'[g] : Behind(g, passedBy[g][n])'
  <2> DEFINE s == passedBy[g]
             k == Len(s)
  <2>1. /\ s \in Seq(Received) /\ k \in Nat /\ DOMAIN s = 1..k
        /\ DOMAIN Append(s, f) = 1..(k + 1) /\ Append(s, f)[k + 1] = f
        /\ \A n \in 1..k : Append(s, f)[n] = s[n]
    BY <1>3, PassedType, AppendAt DEF Owned
  <2>2. \A n \in 1..k : Behind(g, s[n]) /\ s[n] # f
    <3>1. \A n \in 1..k : Behind(g, s[n])
      BY <2>1 DEF Turns
    <3>2. \A x : Behind(g, x) => x # f
      BY <1>0, <1>2, <1>3 DEF Behind
    <3> QED BY <3>1, <3>2
  <2>3. \A m, n \in 1..k : s[m] = s[n] => m = n
    BY <2>1 DEF Turns
  <2>4. \A x : Behind(g, x) => (\A i, j \in DOMAIN pktQueue' :
                                  pktQueue'[i] = Pkt(g) /\ pktQueue'[j] = Pkt(x) => i < j)
                               /\ ~Before(x)'
                               /\ \A v \in Workers : workerPc'[v] = "handle" => pktInto'[v] # Pkt(x)
    BY <1>1, <1>2, <1>6 DEF Behind
  <2>5. /\ \A i, j \in DOMAIN pktQueue' :
             pktQueue'[i] = Pkt(g) /\ pktQueue'[j] = Pkt(f) => i < j
        /\ ~Before(f)'
        /\ \A v \in Workers : workerPc'[v] = "handle" => pktInto'[v] # Pkt(f)
    BY <1>1, <1>2, <1>3, <1>6 DEF InQueue
  <2> HIDE DEF s, k
  <2>6. CASE Waits(g)
    <3>1. passedBy'[g] = Append(s, f)
      BY <1>2, <2>6 DEF s
    <3>2. InQueue(Pkt(g))'
      BY <1>1, <1>4, <2>6 DEF InQueue
    <3>3. \A n \in 1..(k + 1) : n = k + 1 \/ n \in 1..k
      BY <2>1
    <3>4. \A m, n \in 1..(k + 1) : passedBy'[g][m] = passedBy'[g][n] => m = n
      BY <2>1, <2>2, <2>3, <3>1, <3>3
    <3>5. ASSUME NEW n \in 1..(k + 1) PROVE Behind(g, passedBy[g][n])'
      <4>1. passedBy'[g][n] = f \/ Behind(g, passedBy'[g][n])
        BY <2>1, <2>2, <3>1, <3>3
      <4> QED BY <2>4, <2>5, <4>1 DEF Behind
    <3> QED BY <2>1, <3>1, <3>2, <3>4, <3>5
  <2>7. CASE ~Waits(g)
    <3>1. passedBy'[g] = <<>> /\ DOMAIN passedBy'[g] = {}
      BY <1>2, <1>4, <2>7 DEF Turns
    <3> QED BY <3>1
  <2> QED BY <2>6, <2>7
<1> QED BY <1>8 DEF Turns

------------------------------------------------------------------------------
(* The inductive invariant *)

LEMMA InitIInv == Init => IInv
<1> SUFFICES ASSUME Init PROVE IInv
  OBVIOUS
<1>1. Owned
  BY InitOwned
<1>2. Filtered
  BY DEF Init, Filtered, Received
<1>3. Turns
  BY DEF Init, Turns
<1> QED BY <1>1, <1>2, <1>3 DEF IInv

(* The steps that run no handler and move no packet. *)
LEMMA Elsewhere ==
  ASSUME IInv, Owned', UNCHANGED <<pktQueue, pktInto, passedBy>>,
         UNCHANGED <<frames, bytes, packet, effects, ether_chain_head>>,
         \A f \in Received : Before(f)' => Before(f),
         \A w \in Workers : workerPc'[w] = "handle" => workerPc[w] = "handle"
  PROVE  IInv'
BY FilteredStays, TurnsStay DEF IInv

LEMMA NextIInv == IInv /\ [Next]_vars => IInv'
<1> SUFFICES ASSUME IInv, [Next]_vars PROVE IInv'
  OBVIOUS
<1> USE DEF IInv
<1>1. CASE CreateWorker
  <2>1. \A f \in Received : Before(f)' => Before(f)
    BY <1>1 DEF CreateWorker, Before, InBus, heap, busQ, busVars
  <2> QED BY <1>1, <2>1, CreateWorkerOwned, Elsewhere DEF CreateWorker, heap, pktQ, history
<1>2. CASE BindHandler
  <2>1. \A f \in Received : Before(f)' => Before(f)
    BY <1>2 DEF BindHandler, Before, InBus, heap, busQ, busVars
  <2> QED BY <1>2, <2>1, BindHandlerOwned, Elsewhere DEF BindHandler, heap, pktQ, history
<1>3. CASE RaiseEvent
  BY <1>3, RaiseEventOwned, Elsewhere DEF RaiseEvent, pktQ, history
<1>4. ASSUME NEW h \in Header, ReadPacket(h) PROVE IInv'
  <2>1. Owned' /\ \A f \in Received : Before(f)' => Before(f)
    BY <1>4, ReadPacketOwned
  <2>2. Turns'
    BY <1>4, <2>1, TurnsStay DEF ReadPacket, pktQ, history
  <2> QED BY <1>4, <2>1, <2>2, ReadPacketFiltered
<1>5. CASE BusTake
  BY <1>5, BusTakeOwned, Elsewhere DEF BusTake, mainVars, heap, pktQ, history
<1>6. CASE BusTimeout
  <2>1. \A f \in Received : Before(f)' => Before(f)
    BY <1>6 DEF BusTimeout, BusQ!Timeout, Before, InBus, mainVars, heap, busVars
  <2> QED BY <1>6, <2>1, BusTimeoutOwned, Elsewhere DEF BusTimeout, mainVars, heap, pktQ, history
<1>7. CASE OnPacketEvent
  <2> DEFINE p == Pkt(busInto[Bus])
  <2>1. /\ Owned' /\ PktQ!Put(p) /\ ~InQueue(p) /\ p \in PacketId
        /\ \A g \in Received : Before(g)' => Before(g)
    BY <1>7, OnPacketEventOwned
  <2>2. UNCHANGED <<passedBy, workerPc>>
    BY <1>7 DEF OnPacketEvent, history
  <2> HIDE DEF p
  <2>3. Turns'
    BY <2>1, <2>2, PutTurns
  <2> QED BY <1>7, <2>1, <2>3, OnPacketEventFiltered
<1>8. CASE DeleteEvent
  <2>1. bytes' = bytes
    BY <1>8 DEF DeleteEvent, FreedWithEvent
  <2> QED BY <1>8, <2>1, DeleteEventOwned, Elsewhere DEF DeleteEvent, mainVars, pktQ, history
<1>9. ASSUME NEW w \in Workers, WorkerTake(w) PROVE IInv'
  <2>1. Owned' /\ \A g \in Received : Before(g)' => Before(g)
    BY <1>9, WorkerTakeOwned
  <2>2. Filtered'
    BY <1>9, <2>1, FilteredStays DEF WorkerTake, mainVars, heap
  <2> QED BY <1>9, <2>1, <2>2, WorkerTakeTurns
<1>10. ASSUME NEW w \in Workers, WorkerTimeout(w) PROVE IInv'
  <2>1. \A f \in Received : Before(f)' => Before(f)
    BY <1>10 DEF WorkerTimeout, Before, InBus, mainVars, heap, busQ, busVars
  <2> QED BY <1>10, <2>1, WorkerTimeoutOwned, Elsewhere
          DEF WorkerTimeout, PktQ!Timeout, mainVars, heap, history
<1>11. ASSUME NEW w \in Workers, RunHandler(w) PROVE IInv'
  BY <1>11, RunHandlerOwned, RunHandlerFiltered, RunHandlerTurns
<1>12. ASSUME NEW w \in Workers, Requeue(w) PROVE IInv'
  <2> DEFINE p == pktInto[w]
  <2>1. /\ Owned' /\ PktQ!Put(p) /\ ~InQueue(p) /\ p \in PacketId
        /\ \A g : Before(g)' <=> Before(g)
    BY <1>12, RequeueOwned
  <2>2. UNCHANGED <<passedBy, frames, bytes, packet, effects, ether_chain_head>>
    BY <1>12 DEF Requeue, mainVars, heap, history
  <2>3. \A v \in Workers : workerPc'[v] = "handle" => workerPc[v] = "handle"
    BY <1>12 DEF Requeue, Owned, TypeOK
  <2>4. Turns'
    <3> HIDE DEF p
    <3> QED BY <2>1, <2>2, <2>3, PutTurns
  <2> QED BY <2>1, <2>2, <2>4, FilteredStays
<1>13. ASSUME NEW w \in Workers, PacketDelete(w) PROVE IInv'
  <2>1. /\ Owned' /\ \A g : Before(g)' <=> Before(g)
        /\ \A v \in Workers : workerPc'[v] = "handle" => workerPc[v] = "handle"
    BY <1>13, PacketDeleteOwned
  <2>2. Turns'
    BY <1>13, <2>1, TurnsStay DEF PacketDelete, pktQ, history
  <2> QED BY <1>13, <2>1, <2>2, PacketDeleteFiltered
<1>14. CASE UNCHANGED vars
  <2>1. Owned'
    <3>1. TypeOK'
      BY <1>14 DEF Owned, TypeOK, vars, mainVars, heap, busQ, busVars, pktQ, history, Received
    <3>2. Started' /\ EventsOnBus' /\ PacketsOnce' /\ BytesOwned' /\ Ready'
      BY <1>14 DEF Owned, vars, mainVars, heap, busQ, busVars, pktQ, Started, EventsOnBus,
                   PacketsOnce, BytesOwned, Ready, Before, InBus, InQueue, Received
    <3> QED BY <3>1, <3>2 DEF Owned
  <2>2. \A f \in Received : Before(f)' => Before(f)
    BY <1>14 DEF vars, mainVars, heap, busQ, busVars, Before, InBus
  <2> QED BY <1>14, <2>1, <2>2, Elsewhere DEF vars, mainVars, heap, pktQ, history
<1> QED BY <1>1, <1>2, <1>3, <1>4, <1>5, <1>6, <1>7, <1>8, <1>9, <1>10, <1>11, <1>12,
           <1>13, <1>14 DEF Next

LEMMA Inductive == Spec => []IInv
BY InitIInv, NextIInv, PTL DEF Spec

------------------------------------------------------------------------------
(* The properties *)

(* In every state the threads of the program and what they hold have the   *)
(* types that TypeOK gives them.                                           *)
THEOREM PipelineTypes == Spec => []TypeOK
<1>1. IInv => TypeOK
  BY DEF IInv, Owned
<1> QED BY <1>1, Inductive, PTL

(* What a thread will still use has not been freed: events on the bus,     *)
(* packets in the queue and with workers, and the bytes they point to.     *)
THEOREM NothingDangles == Spec => []NoDanglingPointer
<1>1. IInv => NoDanglingPointer
  <2> SUFFICES ASSUME IInv PROVE NoDanglingPointer
    OBVIOUS
  <2> USE DEF IInv, Owned
  <2>1. \A f \in Received : InBus(f) => f \in events
    BY DEF InBus, EventsOnBus
  <2>2. \A w \in running : workerPc[w] # "take" => pktInto[w] \in DOMAIN packet
    BY DEF PacketsOnce, TypeOK
  <2> QED BY <2>1, <2>2 DEF NoDanglingPointer, PacketsOnce, BytesOwned
<1> QED BY <1>1, Inductive, PTL

(* A packet is at one place, counted over the queue and the workers. *)
LEMMA OnePlace ==
  ASSUME Owned, NEW p \in DOMAIN packet
  PROVE  Cardinality(Holders(p)) + Cardinality(Places(p)) = 1
<1> USE DEF Owned
<1>1. \A v, w \in Holders(p) : v = w
  BY DEF Holders, PacketsOnce, TypeOK
<1>2. \A i, j \in Places(p) : i = j
  BY DEF Places, PacketsOnce
<1>3. Holders(p) # {} => Places(p) = {}
  BY DEF Holders, Places, PacketsOnce, InQueue, TypeOK
<1>4. Holders(p) # {} \/ Places(p) # {}
  BY DEF Holders, Places, PacketsOnce, InQueue, Started
<1>5. CASE Holders(p) # {}
  <2>1. PICK w : Holders(p) = {w}
    BY <1>1, <1>5
  <2> QED BY <1>3, <1>5, <2>1, FS_EmptySet, FS_Singleton
<1>6. CASE Holders(p) = {}
  <2>1. PICK i : Places(p) = {i}
    BY <1>2, <1>4, <1>6
  <2>2. Cardinality(Places(p)) = 1
    BY <2>1, FS_Singleton
  <2>3. Cardinality(Holders(p)) = 0
    BY <1>6, FS_EmptySet
  <2> QED BY <2>2, <2>3
<1> QED BY <1>5, <1>6

(* What is allocated has one owner, who will free it: a packet is at one   *)
(* place, and bytes are main's, an event's or one packet's.                *)
THEOREM OwnedOnce == Spec => []OneOwner
<1>1. IInv => OneOwner
  <2> SUFFICES ASSUME IInv PROVE OneOwner
    OBVIOUS
  <2> USE DEF IInv, Owned
  <2>1. \A f \in events : InBus(f)
    BY DEF EventsOnBus
  <2>2. \A p \in DOMAIN packet : Cardinality(Holders(p)) + Cardinality(Places(p)) = 1
    BY OnePlace
  <2>3. ASSUME NEW f \in bytes
        PROVE  LET packets == {p \in DOMAIN packet : packet[p].bytes = f}
               IN  IF Before(f) THEN packets = {} ELSE \E p \in packets : packets = {p}
    <3> DEFINE packets == {p \in DOMAIN packet : packet[p].bytes = f}
    <3>1. f \in Received
      BY DEF TypeOK
    <3>2. \A p \in packets : p = Pkt(f)
      BY DEF BytesOwned
    <3>3. CASE Before(f)
      BY <3>1, <3>2, <3>3 DEF BytesOwned
    <3>4. CASE ~Before(f)
      <4>1. Pkt(f) \in DOMAIN packet /\ Pkt(f) = Pkt(packet[Pkt(f)].bytes)
        BY <3>4 DEF BytesOwned
      <4>2. packet[Pkt(f)].bytes = f
        BY <4>1 DEF Pkt
      <4>3. Pkt(f) \in packets
        BY <4>1, <4>2
      <4>4. packets = {Pkt(f)}
        BY <3>2, <4>3
      <4> QED BY <3>4, <4>3, <4>4
    <3> QED BY <3>3, <3>4
  <2> QED BY <2>1, <2>2, <2>3 DEF OneOwner, Before
<1> QED BY <1>1, Inductive, PTL

(* Every frame that meets implemented rules only gets what the             *)
(* configuration means, whatever its chain, the number of workers and the  *)
(* order of their steps: nothing is done twice, nothing is left out.       *)
THEOREM ConfiguredForAllChains == Spec => []FilteredAsConfigured
<1>1. IInv => FilteredAsConfigured
  BY DEF IInv, Filtered, FilteredAsConfigured, AsIntended, Intended, Left
<1> QED BY <1>1, Inductive, PTL

(* While a packet waits no other is run twice, with any number of workers  *)
(* and packets.                                                            *)
THEOREM PacketsTakeTurns == Spec => []NobodyPassesTwice
<1>1. IInv => NobodyPassesTwice
  BY DEF IInv, Turns, NobodyPassesTwice
<1> QED BY <1>1, Inductive, PTL
================================================================================
