-------------------------- MODULE BlockingQueueProofs --------------------------
(***************************************************************************)
(* Theorems about BlockingQueue for any number of threads and items, any   *)
(* MaxAdds, and with or without spurious wake-ups, and about the time that *)
(* Deadline sets a wait to.                                                *)
(***************************************************************************)
EXTENDS BlockingQueue, Deadline, TLAPS, FiniteSetTheorems, SequenceTheorems

(* The list from the head to the dummy: its nodes are consecutive, carry   *)
(* an item each, and the dummy is the node calloc returned last.           *)
ListShape ==
  /\ head <= tail
  /\ tail = alloc
  /\ \A n \in head..(tail - 1) : mem[n].next = n + 1 /\ mem[n].data \in Items

(* The local `garbage` is set exactly while its free() is outstanding. *)
GarbageHeld ==
  \A t \in Threads : garbage[t] # NullNode <=> pc[t] = "freeing"

ListInv == TypeOK /\ ListShape /\ GarbageHeld

------------------------------------------------------------------------------
(* What a signal does, whoever it wakes. *)

(* pthread_cond_signal moves at most threads that are at `from`, to `to`.  *)
LEMMA SignalMoves ==
  ASSUME NEW p \in [Threads -> PC], NEW from \in PC, NEW to \in PC,
         Signal(from, to, p)
  PROVE  /\ pc' \in [Threads -> PC]
         /\ \A t \in Threads : \/ pc'[t] = p[t]
                               \/ p[t] = from /\ pc'[t] = to
<1>1. CASE \E w \in Threads : p[w] = from
  BY <1>1 DEF Signal
<1>2. CASE ~ \E w \in Threads : p[w] = from
  BY <1>2 DEF Signal
<1> QED BY <1>1, <1>2

(* The threads of the constants are threads, and the codes are distinct.   *)
LEMMA Roles ==
  /\ Adders \subseteq Threads /\ Takers \subseteq Threads /\ Digesters \subseteq Threads
  /\ Takers \cap Digesters = {}
  /\ MaxAdds \in Nat /\ IsFiniteSet(Threads)
BY QueueAssumption

------------------------------------------------------------------------------
(* Types and the shape of the list *)

LEMMA InitListInv == Init => ListInv
<1> SUFFICES ASSUME Init PROVE ListInv
  OBVIOUS
<1>1. TypeOK
  <2>1. mem \in [1..alloc -> Node]
    BY 1..1 = {1} DEF Init, Node, NewNode, NullNode
  <2>2. alloc \in Nat /\ head \in 1..alloc /\ tail \in 1..alloc
    BY DEF Init
  <2>3. garbage \in [Threads -> 0..alloc]
    BY DEF Init, NullNode
  <2>4. pc \in [Threads -> PC]
    BY DEF Init, PC
  <2> QED BY <2>1, <2>2, <2>3, <2>4 DEF Init, TypeOK
<1>2. ListShape
  BY DEF Init, ListShape
<1>3. GarbageHeld
  BY DEF Init, GarbageHeld
<1> QED BY <1>1, <1>2, <1>3 DEF ListInv

LEMMA AddListInv ==
  ASSUME ListInv, NEW t \in Adders, NEW x \in Items, Add(t, x)
  PROVE  ListInv'
<1> USE Roles DEF ListInv
<1>1. alloc' = alloc + 1 /\ mem' = Linked(x) /\ alloc \in Nat /\ tail = alloc
  BY DEF Add, TypeOK, ListShape
<1>2. mem' \in [1..alloc' -> Node]
  BY <1>1 DEF Linked, TypeOK, Node, NewNode, NullNode
<1>3. mem'[tail] = [data |-> x, next |-> alloc + 1] /\ tail' = alloc + 1
  BY <1>1 DEF Add, Linked, TypeOK
<1>4. /\ pc' \in [Threads -> PC]
      /\ \A u \in Threads : pc'[u] = "freeing" <=> pc[u] = "freeing"
  <2>1. pc \in [Threads -> PC] /\ Signal("waiting", "woken", pc)
    BY DEF Add, TypeOK
  <2>2. "waiting" \in PC /\ "woken" \in PC
    BY DEF PC
  <2> QED BY <2>1, <2>2, SignalMoves
<1>5. TypeOK'
  BY <1>1, <1>2, <1>3, <1>4 DEF Add, TypeOK, results
<1>6. ListShape'
  <2>1. head' = head /\ head' <= tail' /\ tail' = alloc'
    BY <1>1, <1>3 DEF Add, ListShape, TypeOK
  <2>2. ASSUME NEW n \in head'..(tail' - 1)
        PROVE  mem'[n].next = n + 1 /\ mem'[n].data \in Items
    <3>1. n \in 1..alloc
      BY <2>1, <1>1, <1>3 DEF TypeOK
    <3>2. CASE n = tail
      BY <3>2, <1>3, <1>1
    <3>3. CASE n # tail
      <4>1. mem'[n] = mem[n] /\ n \in head..(tail - 1)
        BY <3>1, <3>3, <2>1, <1>1, <1>3 DEF Linked, TypeOK
      <4> QED BY <4>1 DEF ListShape
    <3> QED BY <3>2, <3>3
  <2> QED BY <2>1, <2>2 DEF ListShape
<1>7. GarbageHeld'
  BY <1>4 DEF Add, GarbageHeld
<1> QED BY <1>5, <1>6, <1>7

(* A take that finds an item, whether it waited or not. *)
LEMMA TakeHeadListInv ==
  ASSUME ListInv, ~Empty, NEW t \in Takers, TakeHead(t)
  PROVE  /\ ListInv'
         /\ head' = head + 1
         /\ head \in 1..alloc
<1> USE Roles DEF ListInv
<1>1. head \in head..(tail - 1) /\ head \in 1..alloc /\ tail = alloc /\ alloc \in Nat
  BY DEF Empty, TypeOK, ListShape
<1>2. head' = head + 1 /\ mem[head].data \in Items
  BY <1>1 DEF TakeHead, Depletes, ListShape
<1>3. /\ pc' \in [Threads -> PC]
      /\ \A u \in Threads : pc'[u] = "freeing" <=> u = t \/ pc[u] = "freeing"
  <2> DEFINE p == [pc EXCEPT ![t] = "freeing"]
  <2>1. /\ p \in [Threads -> PC]
        /\ \A u \in Threads : p[u] = "freeing" <=> u = t \/ pc[u] = "freeing"
    BY DEF TypeOK, PC
  <2> HIDE DEF p
  <2>2. CASE head' = tail
    <3>1. Signal("digest_waiting", "digest_woken", p)
      BY <2>2 DEF TakeHead, Depletes, p
    <3>2. "digest_waiting" \in PC /\ "digest_woken" \in PC
      BY DEF PC
    <3> QED BY <2>1, <3>1, <3>2, SignalMoves
  <2>3. CASE head' # tail
    BY <2>1, <2>3 DEF TakeHead, Depletes, p
  <2> QED BY <2>2, <2>3
<1>4. TypeOK'
  <2>1. head' \in 1..alloc' /\ UNCHANGED <<alloc, mem, tail, freed, aborted>>
    BY <1>1, <1>2 DEF TakeHead, Depletes
  <2>2. garbage' \in [Threads -> 0..alloc']
    BY <1>1, <2>1 DEF TakeHead, Depletes, TypeOK
  <2>3. into' \in [Threads -> Items \cup {None}]
    BY <1>2 DEF TakeHead, Depletes, TypeOK
  <2>4. rc' \in [Threads -> {"BQ_OK", "BQ_TIMEOUT"}]
    BY DEF TakeHead, Depletes, TypeOK
  <2> QED BY <1>3, <2>1, <2>2, <2>3, <2>4 DEF TypeOK
<1>5. ListShape'
  BY <1>1, <1>2 DEF TakeHead, Depletes, ListShape, TypeOK
<1>6. GarbageHeld'
  BY <1>1, <1>3 DEF TakeHead, Depletes, GarbageHeld, TypeOK, NullNode
<1> QED BY <1>1, <1>2, <1>4, <1>5, <1>6

(* Every other step leaves the list and what the takers got alone. *)
Quiet ==
  \/ \E t \in Takers : TakeWait(t) \/ TakeAbort(t) \/ TakeExpired(t) \/ TakeFree(t)
  \/ \E t \in Digesters : DigestWait(t) \/ DigestReturn(t)
  \/ \E t \in Threads : EndWait(t) \/ WakeSpuriously(t)

LEMMA QuietListInv ==
  ASSUME ListInv, Quiet
  PROVE  ListInv' /\ UNCHANGED list
<1> USE Roles DEF ListInv
<1>1. UNCHANGED list
  BY DEF Quiet, TakeWait, TakeAbort, TakeExpired, TakeFree, Unlinked, DigestWait,
         DigestReturn, EndWait, TimedOut, WakeSpuriously, list
<1>2. ListShape'
  BY <1>1 DEF ListShape, list
<1>3. TypeOK' /\ GarbageHeld'
  <2>1. ASSUME NEW t \in Takers, TakeWait(t) PROVE TypeOK' /\ GarbageHeld'
    BY <2>1 DEF TakeWait, TypeOK, GarbageHeld, PC, list, results
  <2>2. ASSUME NEW t \in Takers, TakeAbort(t) PROVE TypeOK' /\ GarbageHeld'
    BY <2>2 DEF TakeAbort, TypeOK, GarbageHeld, list, results
  <2>3. ASSUME NEW t \in Takers, TakeExpired(t) PROVE TypeOK' /\ GarbageHeld'
    BY <2>3 DEF TakeExpired, TypeOK, GarbageHeld, PC, list
  <2>4. ASSUME NEW t \in Takers, TakeFree(t) PROVE TypeOK' /\ GarbageHeld'
    <3>1. garbage[t] \in 1..alloc
      BY <2>4 DEF TakeFree, Unlinked, TypeOK, GarbageHeld, NullNode
    <3>2. /\ freed' \in SUBSET (1..alloc)
          /\ pc' \in [Threads -> PC]
      BY <2>4, <3>1 DEF TakeFree, Unlinked, TypeOK, PC
    <3>3. garbage' \in [Threads -> 0..alloc]
      BY <2>4, NullNode \in 0..alloc DEF TakeFree, Unlinked, TypeOK, NullNode
    <3>5. TypeOK'
      BY <2>4, <3>2, <3>3 DEF TakeFree, Unlinked, TypeOK, list, results
    <3>4. GarbageHeld'
      BY <2>4 DEF TakeFree, Unlinked, TypeOK, GarbageHeld, NullNode
    <3> QED BY <3>4, <3>5
  <2>5. ASSUME NEW t \in Digesters, DigestWait(t) PROVE TypeOK' /\ GarbageHeld'
    BY <2>5 DEF DigestWait, TypeOK, GarbageHeld, PC, list, results
  <2>6. ASSUME NEW t \in Digesters, DigestReturn(t) PROVE TypeOK' /\ GarbageHeld'
    BY <2>6 DEF DigestReturn, TypeOK, GarbageHeld, PC, list
  <2>7. ASSUME NEW t \in Threads, EndWait(t) \/ WakeSpuriously(t)
        PROVE  TypeOK' /\ GarbageHeld'
    BY <2>7 DEF EndWait, TimedOut, WakeSpuriously, TypeOK, GarbageHeld, PC, list, results
  <2> QED BY <2>1, <2>2, <2>3, <2>4, <2>5, <2>6, <2>7 DEF Quiet
<1> QED BY <1>1, <1>2, <1>3

(* The three kinds of step, and none of them. *)
Takes(t) == TakeHead(t) /\ ~Empty /\ (TakeNow(t) \/ TakeWoken(t))

LEMMA Steps ==
  ASSUME [Next]_vars
  PROVE  \/ \E t \in Adders, x \in Items : Add(t, x)
         \/ \E t \in Takers : Takes(t)
         \/ Quiet
         \/ UNCHANGED vars
BY DEF Next, Takes, Quiet, TakeNow, TakeWoken

LEMMA StepListInv == ListInv /\ [Next]_vars => ListInv'
<1> SUFFICES ASSUME ListInv, [Next]_vars PROVE ListInv'
  OBVIOUS
<1>1. ASSUME NEW t \in Adders, NEW x \in Items, Add(t, x) PROVE ListInv'
  BY <1>1, AddListInv
<1>2. ASSUME NEW t \in Takers, Takes(t) PROVE ListInv'
  BY <1>2, TakeHeadListInv DEF Takes
<1>3. CASE Quiet
  BY <1>3, QuietListInv
<1>4. CASE UNCHANGED vars
  BY <1>4 DEF vars, list, results, ListInv, TypeOK, ListShape, GarbageHeld
<1> QED BY <1>1, <1>2, <1>3, <1>4, Steps

(* The list is well formed in every reachable state. *)
LEMMA ListInvariant == Spec => []ListInv
BY InitListInv, StepListInv, PTL DEF Spec

(* Every pointer is null or a node of the list's allocation, whatever the  *)
(* threads do.                                                             *)
THEOREM TypeCorrect == Spec => []TypeOK
<1>1. ListInv => TypeOK
  BY DEF ListInv
<1> QED BY <1>1, ListInvariant, PTL

------------------------------------------------------------------------------
(* Memory *)

(* What the property says, thread by thread: what is freed or held is      *)
(* behind the head, no two threads hold the same node and none a freed     *)
(* one, and what is behind the head is freed or held.                      *)
MemoryInv ==
  /\ \A n \in freed : n < head
  /\ \A t \in Threads : garbage[t] < head /\ garbage[t] \notin freed
  /\ \A t, u \in Threads : garbage[t] = garbage[u] /\ t # u => garbage[t] = NullNode
  /\ \A n \in 1..(head - 1) : n \in freed \/ \E t \in Threads : garbage[t] = n

LEMMA MemoryImplies ==
  ASSUME ListInv, MemoryInv
  PROVE  NodesAccountedFor
<1> USE DEF ListInv
<1>1. freed \cap (head..tail) = {}
  BY DEF MemoryInv, TypeOK
<1>2. ASSUME NEW n \in (1..alloc) \ (head..tail)
      PROVE  LET holders == {t \in Threads : garbage[t] = n}
             IN  IF n \in freed THEN holders = {} ELSE \E t \in Threads : holders = {t}
  <2>1. n \in 1..(head - 1) /\ n # NullNode
    BY DEF TypeOK, ListShape, NullNode
  <2>2. CASE n \in freed
    BY <2>2 DEF MemoryInv
  <2>3. CASE n \notin freed
    <3>1. PICK t \in Threads : garbage[t] = n
      BY <2>1, <2>3 DEF MemoryInv
    <3>2. \A u \in Threads : garbage[u] = n => u = t
      BY <2>1, <3>1 DEF MemoryInv
    <3> QED BY <2>3, <3>1, <3>2
  <2> QED BY <2>2, <2>3
<1> QED BY <1>1, <1>2 DEF NodesAccountedFor

LEMMA StepMemory == ListInv /\ MemoryInv /\ [Next]_vars => MemoryInv'
<1> SUFFICES ASSUME ListInv, MemoryInv, [Next]_vars PROVE MemoryInv'
  OBVIOUS
<1> USE Roles DEF ListInv
<1>1. ASSUME NEW t \in Adders, NEW x \in Items, Add(t, x) PROVE MemoryInv'
  BY <1>1 DEF Add, MemoryInv
<1>2. ASSUME NEW t \in Takers, Takes(t) PROVE MemoryInv'
  <2>1. head' = head + 1 /\ head \in 1..alloc /\ alloc \in Nat
    BY <1>2, TakeHeadListInv DEF Takes, TypeOK
  <2>2. /\ garbage' = [garbage EXCEPT ![t] = head]
        /\ freed' = freed
        /\ garbage \in [Threads -> 0..alloc]
        /\ freed \in SUBSET (1..alloc)
    BY <1>2 DEF Takes, TakeHead, Depletes, TypeOK
  <2>3. garbage[t] = NullNode
    BY <1>2 DEF Takes, TakeNow, TakeWoken, GarbageHeld
  <2>4. \A n \in freed' : n < head'
    BY <2>1, <2>2 DEF MemoryInv
  <2>5. \A u \in Threads : garbage'[u] < head' /\ garbage'[u] \notin freed'
    BY <2>1, <2>2 DEF MemoryInv
  <2>6. \A u, v \in Threads : garbage'[u] = garbage'[v] /\ u # v => garbage'[u] = NullNode
    BY <2>1, <2>2 DEF MemoryInv
  <2>7. ASSUME NEW n \in 1..(head' - 1)
        PROVE  n \in freed' \/ \E u \in Threads : garbage'[u] = n
    <3>1. CASE n = head
      BY <3>1, <2>2
    <3>2. CASE n # head
      <4>1. n \in 1..(head - 1)
        BY <3>2, <2>1
      <4>2. CASE n \in freed
        BY <4>2, <2>2
      <4>3. CASE n \notin freed
        <5>1. PICK u \in Threads : garbage[u] = n
          BY <4>1, <4>3 DEF MemoryInv
        <5>2. u # t
          BY <5>1, <4>1, <2>3 DEF NullNode
        <5> QED BY <5>1, <5>2, <2>2
      <4> QED BY <4>2, <4>3
    <3> QED BY <3>1, <3>2
  <2> QED BY <2>4, <2>5, <2>6, <2>7 DEF MemoryInv
<1>3. CASE Quiet
  <2>1. ASSUME NEW t \in Takers, TakeFree(t) PROVE MemoryInv'
    <3>1. /\ garbage' = [garbage EXCEPT ![t] = NullNode]
          /\ freed' = freed \cup {garbage[t]}
          /\ head' = head
          /\ garbage \in [Threads -> 0..alloc]
          /\ freed \in SUBSET (1..alloc)
          /\ head \in 1..alloc /\ alloc \in Nat
          /\ garbage[t] # NullNode
      BY <2>1 DEF TakeFree, Unlinked, TypeOK, list, GarbageHeld
    <3>2. \A n \in freed' : n < head'
      BY <3>1 DEF MemoryInv
    <3>3. ASSUME NEW u \in Threads
          PROVE  garbage'[u] < head' /\ garbage'[u] \notin freed'
      <4>1. CASE u = t
        BY <4>1, <3>1 DEF NullNode
      <4>2. CASE u # t
        BY <4>2, <3>1 DEF MemoryInv
      <4> QED BY <4>1, <4>2
    <3>4. \A u, v \in Threads :
            garbage'[u] = garbage'[v] /\ u # v => garbage'[u] = NullNode
      BY <3>1 DEF MemoryInv
    <3>5. \A n \in 1..(head' - 1) : n \in freed' \/ \E u \in Threads : garbage'[u] = n
      BY <3>1 DEF MemoryInv
    <3> QED BY <3>2, <3>3, <3>4, <3>5 DEF MemoryInv
  <2>2. CASE UNCHANGED <<freed, head, garbage>>
    BY <2>2 DEF MemoryInv
  <2> QED BY <1>3, <2>1, <2>2 DEF Quiet, TakeWait, TakeAbort, TakeExpired,
                                 DigestWait, DigestReturn, EndWait, TimedOut,
                                 WakeSpuriously, list, results
<1>4. CASE UNCHANGED vars
  BY <1>4 DEF vars, list, MemoryInv
<1> QED BY <1>1, <1>2, <1>3, <1>4, Steps

(* No node of the list is freed, none that has left it leaks and none is   *)
(* freed twice, for any number of takers, though the free() comes after    *)
(* the mutex is released.                                                  *)
THEOREM MemorySafe == Spec => []NodesAccountedFor
<1>1. Init => MemoryInv
  BY DEF Init, MemoryInv, NullNode
<1>2. ListInv /\ MemoryInv => NodesAccountedFor
  BY MemoryImplies
<1> QED BY <1>1, <1>2, ListInvariant, StepMemory, PTL DEF Spec

------------------------------------------------------------------------------
(* Wake-ups *)

Awake == Woken \cup Returning

(* They are finitely many threads, so their number changes by one with a   *)
(* single thread.                                                          *)
LEMMA CountAwake ==
  /\ Cardinality(Awake) \in Nat /\ Cardinality(Awake') \in Nat
  /\ \A t \in Threads \ Awake :
       Cardinality(Awake \cup {t}) = Cardinality(Awake) + 1
  /\ \A t \in Awake : Cardinality(Awake \ {t}) = Cardinality(Awake) - 1
  /\ Awake \subseteq Awake' => Cardinality(Awake) <= Cardinality(Awake')
<1>1. IsFiniteSet(Awake) /\ IsFiniteSet(Awake')
  BY Roles, FS_Subset DEF Awake, Woken, Returning
<1> QED BY <1>1, FS_CardinalityType, FS_AddElement, FS_RemoveElement, FS_Subset

(* What a take does to the threads at the first condition. *)
LEMMA TakeMoves ==
  ASSUME ListInv, NEW t \in Takers, Takes(t)
  PROVE  \A u \in Threads : \/ u = t /\ pc'[u] = "freeing"
                            \/ u # t /\ pc'[u] = pc[u]
                            \/ /\ u # t
                               /\ pc[u] = "digest_waiting" /\ pc'[u] = "digest_woken"
<1> USE Roles
<1>0. pc \in [Threads -> PC]
  BY DEF ListInv, TypeOK
<1> DEFINE p == [pc EXCEPT ![t] = "freeing"]
<1>1. p \in [Threads -> PC]
  BY <1>0 DEF PC
<1>2. \A u \in Threads : \/ pc'[u] = p[u]
                         \/ p[u] = "digest_waiting" /\ pc'[u] = "digest_woken"
  <2>1. CASE head' = tail
    <3>1. Signal("digest_waiting", "digest_woken", p)
      BY <2>1 DEF Takes, TakeHead, Depletes
    <3>2. "digest_waiting" \in PC /\ "digest_woken" \in PC
      BY DEF PC
    <3> HIDE DEF p
    <3> QED BY <1>1, <3>1, <3>2, SignalMoves
  <2>2. CASE head' # tail
    BY <2>2 DEF Takes, TakeHead, Depletes
  <2> QED BY <2>1, <2>2
<1> QED BY <1>0, <1>2

LEMMA AddWakeup ==
  ASSUME ListInv, NoLostWakeup, NEW t \in Adders, NEW x \in Items, Add(t, x)
  PROVE  NoLostWakeup'
<1> USE Roles DEF ListInv
<1>0. pc \in [Threads -> PC] /\ head \in Nat /\ tail \in Nat
  BY DEF TypeOK
<1>1. head' = head /\ tail' = tail + 1 /\ rc' = rc
  BY DEF Add, Linked, TypeOK, ListShape, results
<1>2. CASE \E w \in Threads : pc[w] = "waiting"
  <2>1. PICK w \in Threads : pc[w] = "waiting" /\ pc' = [pc EXCEPT ![w] = "woken"]
    BY <1>2 DEF Add, Signal
  <2>2. Awake' = Awake \cup {w} /\ w \notin Awake /\ Waiting # {}
    BY <1>0, <1>1, <2>1 DEF Awake, Returning, Woken, Waiting
  <2>3. tail - head <= Cardinality(Awake)
    BY <2>2 DEF NoLostWakeup, Awake
  <2>4. Cardinality(Awake') = Cardinality(Awake) + 1 /\ Cardinality(Awake) \in Nat
    BY <1>0, <2>2, CountAwake
  <2>5. tail' - head' <= Cardinality(Awake')
    BY <1>0, <1>1, <2>3, <2>4
  <2> QED BY <2>5 DEF NoLostWakeup, Awake
<1>3. CASE ~ \E w \in Threads : pc[w] = "waiting"
  <2>1. pc' = pc
    BY <1>3 DEF Add, Signal
  <2>2. Waiting' = {}
    BY <1>3, <2>1 DEF Waiting
  <2> QED BY <2>2 DEF NoLostWakeup
<1> QED BY <1>2, <1>3

LEMMA TakeWakeup ==
  ASSUME ListInv, NoLostWakeup, NEW t \in Takers, Takes(t)
  PROVE  NoLostWakeup'
<1> USE Roles DEF ListInv
<1>0. pc \in [Threads -> PC] /\ rc \in [Threads -> {"BQ_OK", "BQ_TIMEOUT"}]
      /\ head \in Nat /\ tail \in Nat
  BY DEF TypeOK
<1>1. head' = head + 1 /\ tail' = tail /\ rc' = [rc EXCEPT ![t] = "BQ_OK"]
  BY TakeHeadListInv DEF Takes, TakeHead, Depletes
<1>2. \A u \in Threads : \/ u = t /\ pc'[u] = "freeing"
                         \/ u # t /\ pc'[u] = pc[u]
                         \/ /\ u # t
                            /\ pc[u] = "digest_waiting" /\ pc'[u] = "digest_woken"
  BY TakeMoves
<1>3. \A u \in Threads : u # t => rc'[u] = rc[u]
  BY <1>0, <1>1
<1>4. Waiting' = {} \/ Waiting # {}
  BY <1>2 DEF Waiting
<1>5. Awake' = Awake \ {t}
  <2>1. \A u \in Threads : u \in Woken' <=> u \in Woken /\ u # t
    BY <1>2 DEF Woken
  <2>2. \A u \in Threads : u \in Returning' <=> u \in Returning /\ u # t
    BY <1>2, <1>3 DEF Returning
  <2>3. Awake \subseteq Threads /\ Awake' \subseteq Threads
    BY DEF Awake, Woken, Returning
  <2> QED BY <2>1, <2>2, <2>3 DEF Awake
<1>6. Cardinality(Awake') >= Cardinality(Awake) - 1
  <2>1. CASE t \in Awake
    BY <1>5, <2>1, CountAwake
  <2>2. CASE t \notin Awake
    <3>1. Awake' = Awake
      BY <1>5, <2>2
    <3> QED BY <3>1, CountAwake
  <2> QED BY <2>1, <2>2
<1>7. Waiting # {} => tail - head <= Cardinality(Awake)
  BY DEF NoLostWakeup, Awake
<1>8. Waiting' # {} => tail' - head' <= Cardinality(Awake')
  BY <1>0, <1>1, <1>4, <1>6, <1>7, CountAwake
<1> QED BY <1>8 DEF NoLostWakeup, Awake

LEMMA StepWakeup == ListInv /\ NoLostWakeup /\ [Next]_vars => NoLostWakeup'
<1> SUFFICES ASSUME ListInv, NoLostWakeup, [Next]_vars PROVE NoLostWakeup'
  OBVIOUS
<1> USE Roles DEF ListInv
<1>0. pc \in [Threads -> PC] /\ rc \in [Threads -> {"BQ_OK", "BQ_TIMEOUT"}]
      /\ head \in Nat /\ tail \in Nat
  BY DEF TypeOK
<1>1. CASE Quiet
  <2>0. head' = head /\ tail' = tail
    BY <1>1, QuietListInv DEF list
  <2>1. ASSUME NEW t \in Takers, TakeWait(t) PROVE NoLostWakeup'
    <3>1. tail' - head' = 0
      BY <1>0, <2>0, <2>1 DEF TakeWait, Empty
    <3>2. tail' - head' <= Cardinality(Awake')
      BY <3>1, CountAwake
    <3> QED BY <3>2 DEF NoLostWakeup, Awake
  <2>2. ASSUME Waiting' \subseteq Waiting, Awake \subseteq Awake' PROVE NoLostWakeup'
    <3>1. Waiting # {} => tail - head <= Cardinality(Awake)
      BY DEF NoLostWakeup, Awake
    <3>2. Waiting' # {} => tail' - head' <= Cardinality(Awake')
      BY <1>0, <2>0, <2>2, <3>1, CountAwake
    <3> QED BY <3>2 DEF NoLostWakeup, Awake
  <2>3. ASSUME NEW t \in Takers, TakeAbort(t) \/ TakeExpired(t) \/ TakeFree(t)
        PROVE  Waiting' \subseteq Waiting /\ Awake \subseteq Awake'
    BY <1>0, <2>3 DEF TakeAbort, TakeExpired, TakeFree, Waiting, Awake, Woken, Returning,
                      results
  <2>4. ASSUME NEW t \in Digesters, DigestWait(t) \/ DigestReturn(t)
        PROVE  Waiting' \subseteq Waiting /\ Awake \subseteq Awake'
    BY <1>0, <2>4 DEF DigestWait, DigestReturn, Waiting, Awake, Woken, Returning, results
  <2>5. ASSUME NEW t \in Threads, EndWait(t) \/ WakeSpuriously(t)
        PROVE  Waiting' \subseteq Waiting /\ Awake \subseteq Awake'
    BY <1>0, <2>5 DEF EndWait, TimedOut, WakeSpuriously, Waiting, Awake, Woken, Returning,
                      results
  <2> QED BY <1>1, <2>1, <2>2, <2>3, <2>4, <2>5 DEF Quiet
<1>2. CASE UNCHANGED vars
  BY <1>2 DEF vars, list, results, NoLostWakeup, Waiting, Woken, Returning
<1> QED BY <1>1, <1>2, AddWakeup, TakeWakeup, Steps

(* While a taker sleeps, every item in the queue has a taker awake that    *)
(* will look at it, for any number of adders and takers, though a timer    *)
(* that expires as a signal comes consumes it.                             *)
THEOREM WakeupsNotLost == Spec => []NoLostWakeup
<1>1. Init => NoLostWakeup
  BY DEF Init, NoLostWakeup, Waiting
<1> QED BY <1>1, ListInvariant, StepWakeup, PTL DEF Spec

------------------------------------------------------------------------------
(* The assertion *)

(* A signalled taker that would find nothing was overtaken by another. *)
Overtaken(t) == \E u \in Takers \ {t} : into[u] # None

OvertakenIfEmpty ==
  /\ AbortNeedsAnother
  /\ \A t \in Threads : pc[t] = "woken" /\ Empty => Overtaken(t)

LEMMA StepAssert == ListInv /\ OvertakenIfEmpty /\ [Next]_vars => OvertakenIfEmpty'
<1> SUFFICES ASSUME ListInv, OvertakenIfEmpty, [Next]_vars PROVE OvertakenIfEmpty'
  OBVIOUS
<1> USE Roles DEF ListInv
<1>0. pc \in [Threads -> PC] /\ into \in [Threads -> Items \cup {None}]
  BY DEF TypeOK
<1>1. ASSUME NEW t \in Adders, NEW x \in Items, Add(t, x) PROVE OvertakenIfEmpty'
  <2>1. ~Empty' /\ ~aborted'
    BY <1>1 DEF Add, Linked, Empty, TypeOK, ListShape
  <2> QED BY <2>1 DEF OvertakenIfEmpty, AbortNeedsAnother
<1>2. ASSUME NEW t \in Takers, Takes(t) PROVE OvertakenIfEmpty'
  <2>1. ~aborted'
    BY <1>2 DEF Takes, TakeHead, Depletes, TakeNow, TakeWoken
  <2>2. into'[t] # None
    <3>1. mem[head].data \in Items
      BY <1>2 DEF Takes, Empty, TypeOK, ListShape
    <3> QED BY <1>0, <1>2, <3>1, QueueAssumption DEF Takes, TakeHead
  <2>3. \A u \in Threads : pc'[u] = "woken" => u # t
    BY <1>2, TakeMoves
  <2> QED BY <2>1, <2>2, <2>3 DEF OvertakenIfEmpty, AbortNeedsAnother, Overtaken
<1>3. CASE Quiet
  <2>0. Empty' = Empty
    BY <1>3, QuietListInv DEF list, Empty
  <2>1. ASSUME NEW t \in Takers, TakeAbort(t) PROVE OvertakenIfEmpty'
    <3>1. UNCHANGED <<pc, into>> /\ Empty /\ pc[t] \in {"woken", "stirred"}
      BY <2>1 DEF TakeAbort, results
    <3>2. pc[t] = "woken" => Overtaken(t)
      BY <3>1 DEF OvertakenIfEmpty
    <3>3. AbortNeedsAnother'
      BY <3>1, <3>2 DEF AbortNeedsAnother, Overtaken
    <3> QED BY <2>0, <3>1, <3>3 DEF OvertakenIfEmpty, Overtaken
  <2>2. ASSUME into' = into, ~aborted',
               \A u \in Threads : pc'[u] = "woken" => pc[u] = "woken"
        PROVE  OvertakenIfEmpty'
    BY <2>0, <2>2 DEF OvertakenIfEmpty, AbortNeedsAnother, Overtaken
  <2>3. ASSUME NEW t \in Takers, TakeWait(t) \/ TakeExpired(t) \/ TakeFree(t)
        PROVE  OvertakenIfEmpty'
    BY <1>0, <2>2, <2>3 DEF TakeWait, TakeExpired, TakeFree, results
  <2>4. ASSUME NEW t \in Digesters, DigestWait(t) \/ DigestReturn(t)
        PROVE  OvertakenIfEmpty'
    BY <1>0, <2>2, <2>4 DEF DigestWait, DigestReturn, results
  <2>5. ASSUME NEW t \in Threads, EndWait(t) \/ WakeSpuriously(t)
        PROVE  OvertakenIfEmpty'
    BY <1>0, <2>2, <2>5 DEF EndWait, TimedOut, WakeSpuriously, results
  <2> QED BY <1>3, <2>1, <2>3, <2>4, <2>5 DEF Quiet
<1>4. CASE UNCHANGED vars
  BY <1>4 DEF vars, list, results, OvertakenIfEmpty, AbortNeedsAnother, Overtaken, Empty
<1> QED BY <1>1, <1>2, <1>3, <1>4, Steps

(* blocking_queue.c:119 fails only after a spurious wake-up or because     *)
(* another taker came first, whatever the timers do; so it holds of one    *)
(* taker on a platform without spurious wake-ups.                          *)
THEOREM AbortOnlyIfOvertaken == Spec => []AbortNeedsAnother
<1>1. Init => OvertakenIfEmpty
  BY DEF Init, OvertakenIfEmpty, AbortNeedsAnother
<1>2. OvertakenIfEmpty => AbortNeedsAnother
  BY DEF OvertakenIfEmpty
<1> QED BY <1>1, <1>2, ListInvariant, StepAssert, PTL DEF Spec

------------------------------------------------------------------------------
(* The queue that blocking_queue.h promises *)

(* The data of the nodes from h up to, and without, k. *)
LEMMA DataIsSeq ==
  ASSUME NEW m, NEW h \in Nat, NEW k \in Nat, h <= k,
         \A n \in h..(k - 1) : m[n].data \in Items,
         NEW c, c = [i \in 1..(k - h) |-> m[h + i - 1].data]
  PROVE  /\ c \in Seq(Items)
         /\ Len(c) = k - h
         /\ \A i \in 1..(k - h) : c[i] = m[h + i - 1].data
<1>1. k - h \in Nat
  OBVIOUS
<1>2. \A i \in 1..(k - h) : m[h + i - 1].data \in Items
  OBVIOUS
<1> QED BY <1>1, <1>2

LEMMA ContentsIsSeq ==
  ASSUME ListInv
  PROVE  /\ Contents \in Seq(Items)
         /\ Len(Contents) = tail - head
         /\ \A i \in 1..(tail - head) : Contents[i] = mem[head + i - 1].data
<1>1. head \in Nat /\ tail \in Nat /\ head <= tail
  BY DEF ListInv, TypeOK, ListShape
<1>2. \A n \in head..(tail - 1) : mem[n].data \in Items
  BY DEF ListInv, ListShape
<1> QED BY <1>1, <1>2, DataIsSeq DEF Contents

(* The same in the state after a step. *)
LEMMA ContentsIsSeqAfter ==
  ASSUME ListInv'
  PROVE  /\ Contents' \in Seq(Items)
         /\ Len(Contents') = tail' - head'
         /\ \A i \in 1..(tail' - head') : Contents'[i] = mem'[head' + i - 1].data
<1>1. head' \in Nat /\ tail' \in Nat /\ head' <= tail'
  BY DEF ListInv, TypeOK, ListShape
<1>2. \A n \in head'..(tail' - 1) : mem'[n].data \in Items
  BY DEF ListInv, ListShape
<1> QED BY <1>1, <1>2, DataIsSeq DEF Contents

(* An add appends its item. *)
LEMMA AddIsPut ==
  ASSUME ListInv, NEW t \in Adders, NEW x \in Items, Add(t, x)
  PROVE  Fifo!Put(x)
<1>1. ListInv'
  BY AddListInv
<1>2. /\ head' = head /\ tail' = tail + 1
      /\ \A n \in head..(tail - 1) : mem'[n] = mem[n]
      /\ mem'[tail].data = x
      /\ head \in Nat /\ tail \in Nat /\ head <= tail
  BY DEF Add, Linked, ListInv, TypeOK, ListShape
<1> DEFINE new == Append(Contents, x)
<1>3. /\ Contents' \in Seq(Items)
      /\ Len(Contents') = tail - head + 1
      /\ \A i \in 1..(tail - head + 1) : Contents'[i] = mem'[head + i - 1].data
  <2>1. /\ Contents' \in Seq(Items)
        /\ Len(Contents') = tail' - head'
        /\ \A i \in 1..(tail' - head') : Contents'[i] = mem'[head' + i - 1].data
    BY <1>1, ContentsIsSeqAfter
  <2>2. tail' - head' = tail - head + 1
    BY <1>2
  <2> QED BY <2>1, <2>2, <1>2
<1>4. /\ new \in Seq(Items)
      /\ Len(new) = tail - head + 1
      /\ \A i \in 1..(tail - head) : new[i] = mem[head + i - 1].data
      /\ new[tail - head + 1] = x
  BY ContentsIsSeq, AppendProperties
<1>5. ASSUME NEW i \in 1..(tail - head + 1) PROVE Contents'[i] = new[i]
  <2>1. CASE i = tail - head + 1
    <3>1. head + i - 1 = tail
      BY <1>2, <2>1
    <3> QED BY <1>2, <1>3, <1>4, <2>1, <3>1
  <2>2. CASE i # tail - head + 1
    <3>1. i \in 1..(tail - head) /\ head + i - 1 \in head..(tail - 1)
      BY <1>2, <2>2
    <3> QED BY <1>2, <1>3, <1>4, <3>1
  <2> QED BY <2>1, <2>2
<1>6. Contents' = new
  <2> HIDE DEF new
  <2> QED BY <1>3, <1>4, <1>5, SeqEqual
<1> QED BY <1>6 DEF Fifo!Put, Add, results

(* A take that finds an item gets the oldest. *)
LEMMA TakeIsGet ==
  ASSUME ListInv, NEW t \in Takers, Takes(t)
  PROVE  Fifo!Get(t)
<1>1. ListInv' /\ head' = head + 1
  BY TakeHeadListInv DEF Takes
<1>2. /\ tail' = tail /\ mem' = mem
      /\ head \in Nat /\ tail \in Nat /\ head < tail
  BY DEF Takes, TakeHead, Depletes, ListInv, TypeOK, ListShape, Empty
<1>3. Contents \in Seq(Items) /\ Len(Contents) = tail - head /\ Contents # <<>>
  BY <1>2, ContentsIsSeq
<1>4. Head(Contents) = mem[head].data
  <2>1. Contents[1] = mem[head + 1 - 1].data /\ head + 1 - 1 = head
    BY <1>2, ContentsIsSeq
  <2> QED BY <1>3, <2>1
<1>5. /\ Contents' \in Seq(Items)
      /\ Len(Contents') = tail - head - 1
      /\ \A i \in 1..(tail - head - 1) : Contents'[i] = mem[head + i].data
  <2>1. /\ Contents' \in Seq(Items)
        /\ Len(Contents') = tail' - head'
        /\ \A i \in 1..(tail' - head') : Contents'[i] = mem'[head' + i - 1].data
    BY <1>1, ContentsIsSeqAfter
  <2>2. tail' - head' = tail - head - 1 /\ \A i \in Int : head' + i - 1 = head + i
    BY <1>1, <1>2
  <2> QED BY <2>1, <2>2, <1>2
<1>6. /\ Tail(Contents) \in Seq(Items)
      /\ Len(Tail(Contents)) = tail - head - 1
      /\ \A i \in 1..(tail - head - 1) : Tail(Contents)[i] = mem[head + i].data
  <2>1. /\ Tail(Contents) \in Seq(Items)
        /\ Len(Tail(Contents)) = tail - head - 1
        /\ \A i \in 1..(tail - head - 1) : Tail(Contents)[i] = Contents[i + 1]
    BY <1>3, HeadTailProperties
  <2>2. ASSUME NEW i \in 1..(tail - head - 1) PROVE Contents[i + 1] = mem[head + i].data
    <3>1. i + 1 \in 1..(tail - head) /\ head + (i + 1) - 1 = head + i
      BY <1>2
    <3> QED BY <3>1, ContentsIsSeq
  <2> QED BY <2>1, <2>2
<1>7. Contents' = Tail(Contents)
  BY <1>5, <1>6, SeqEqual
<1> QED BY <1>3, <1>4, <1>7 DEF Fifo!Get, Takes, TakeHead, Depletes

(* Every other step is a timeout, the end of a wait_digest, or nothing.    *)
LEMMA QuietIsReturn ==
  ASSUME ListInv, Quiet
  PROVE  [Fifo!Next]_<<Contents, into, rc>>
<1> USE Roles
<1>1. Contents' = Contents
  BY QuietListInv DEF list, Contents
<1>2. ASSUME NEW t \in Takers, TakeExpired(t) PROVE Fifo!Timeout(t)
  BY <1>1, <1>2 DEF TakeExpired, Fifo!Timeout
<1>3. ASSUME NEW t \in Digesters, DigestReturn(t)
      PROVE  Fifo!Timeout(t) \/ Fifo!Digested(t)
  BY <1>1, <1>3 DEF DigestReturn, Fifo!Timeout, Fifo!Digested
<1>4. CASE UNCHANGED <<into, rc>>
  BY <1>1, <1>4
<1>5. \/ \E t \in Takers : TakeExpired(t)
      \/ \E t \in Digesters : DigestReturn(t)
      \/ UNCHANGED <<into, rc>>
  BY DEF Quiet, TakeWait, TakeAbort, TakeFree, Unlinked, DigestWait, EndWait, TimedOut,
         WakeSpuriously, results
<1> QED BY <1>2, <1>3, <1>4, <1>5 DEF Fifo!Next

(* The linked list under its mutex implements the queue blocking_queue.h   *)
(* promises: each item to one taker, oldest first, and nothing handed out  *)
(* by a call that timed out.                                               *)
THEOREM QueueIsFifo == Spec => ImplementsFifo
<1>1. Init => Fifo!Init
  <2> SUFFICES ASSUME Init PROVE Fifo!Init
    OBVIOUS
  <2>1. Contents = <<>>
    BY InitListInv, ContentsIsSeq DEF Init
  <2> QED BY <2>1 DEF Init, Fifo!Init
<1>2. ListInv /\ [Next]_vars => [Fifo!Next]_<<Contents, into, rc>>
  <2> SUFFICES ASSUME ListInv, [Next]_vars PROVE [Fifo!Next]_<<Contents, into, rc>>
    OBVIOUS
  <2>1. ASSUME NEW t \in Adders, NEW x \in Items, Add(t, x) PROVE Fifo!Next
    BY <2>1, AddIsPut DEF Fifo!Next
  <2>2. ASSUME NEW t \in Takers, Takes(t) PROVE Fifo!Next
    BY <2>2, TakeIsGet, Roles DEF Fifo!Next
  <2>3. CASE Quiet
    BY <2>3, QuietIsReturn
  <2>4. CASE UNCHANGED vars
    BY <2>4 DEF vars, list, results, Contents
  <2> QED BY <2>1, <2>2, <2>3, <2>4, Steps
<1> QED BY <1>1, <1>2, ListInvariant, PTL DEF Spec, ImplementsFifo, Fifo!Spec, Fifo!fifoVars

------------------------------------------------------------------------------
(* The queue is digested *)

(* Who waits in the second condition has called blocking_queue_wait_digest. *)
OnlyDigesters == \A t \in Threads : pc[t] = "digest_waiting" => t \in Digesters

Digesting == {t \in Digesters : pc[t] = "digest_waiting"}

LEMMA StepOnlyDigesters == ListInv /\ OnlyDigesters /\ [Next]_vars => OnlyDigesters'
<1> SUFFICES ASSUME ListInv, OnlyDigesters, [Next]_vars, NEW w \in Threads,
                    pc'[w] = "digest_waiting", pc[w] # "digest_waiting"
             PROVE  w \in Digesters
  BY DEF OnlyDigesters
<1> USE Roles DEF ListInv, TypeOK
<1>1. ASSUME NEW t \in Adders, NEW x \in Items, Add(t, x) PROVE FALSE
  BY <1>1, SignalMoves DEF Add, PC
<1>2. ASSUME NEW t \in Takers, Takes(t) PROVE FALSE
  <2>1. PICK p : p = [pc EXCEPT ![t] = "freeing"]
    OBVIOUS
  <2>2. p \in [Threads -> PC] /\ p[w] # "digest_waiting"
    BY <2>1 DEF PC
  <2>3. Signal("digest_waiting", "digest_woken", p) \/ pc' = p
    BY <1>2, <2>1 DEF Takes, TakeHead
  <2> QED BY <2>2, <2>3, SignalMoves DEF PC
<1>3. CASE Quiet
  BY <1>3 DEF Quiet, TakeWait, TakeAbort, TakeExpired, TakeFree, DigestWait, DigestReturn,
              EndWait, TimedOut, WakeSpuriously
<1>4. CASE UNCHANGED vars
  BY <1>4 DEF vars
<1> QED BY <1>1, <1>2, <1>3, <1>4, Steps

(* The take that leaves the list empty signals the second condition, and   *)
(* no other step wakes anyone there.                                       *)
LEMMA StepDigested ==
  ASSUME ListInv, OnlyDigesters, [Next]_vars
  PROVE  (\E t \in Digesting : pc'[t] = "digest_woken")
           <=> (head # tail /\ head' = tail' /\ Digesting # {})
<1> USE Roles DEF ListInv, Digesting
<1>1. ASSUME NEW t \in Adders, NEW x \in Items, Add(t, x)
      PROVE  /\ ~ \E w \in Digesting : pc'[w] = "digest_woken"
             /\ head' # tail'
  <2>1. head' = head /\ tail' = alloc + 1
    BY <1>1, AddListInv DEF Add, TypeOK, ListShape
  <2>2. head' # tail'
    BY <2>1 DEF TypeOK, ListShape
  <2>3. pc \in [Threads -> PC] /\ Signal("waiting", "woken", pc)
    BY <1>1 DEF Add, TypeOK
  <2> QED BY <2>2, <2>3, SignalMoves DEF PC
<1>2. ASSUME NEW t \in Takers, Takes(t)
      PROVE  (\E w \in Digesting : pc'[w] = "digest_woken")
               <=> (head # tail /\ head' = tail' /\ Digesting # {})
  <2>1. PICK p : p = [pc EXCEPT ![t] = "freeing"]
    OBVIOUS
  <2>2. /\ p \in [Threads -> PC] /\ pc[t] \in {"idle", "woken", "stirred"}
        /\ \A w \in Threads : p[w] = "digest_waiting" <=> pc[w] = "digest_waiting"
    BY <1>2, <2>1 DEF TypeOK, PC, Takes, TakeNow, TakeWoken
  <2>3. head # tail /\ (head' = tail' <=> Depletes)
    BY <1>2 DEF Takes, TakeHead, Depletes, Empty
  <2>4. CASE Depletes
    <3>1. Signal("digest_waiting", "digest_woken", p)
      BY <1>2, <2>1, <2>4 DEF Takes, TakeHead
    <3>2. CASE Digesting = {}
      BY <3>2
    <3>3. CASE Digesting # {}
      <4>1. \E w \in Threads : p[w] = "digest_waiting"
        BY <2>2, <3>3
      <4>2. PICK w \in Threads : p[w] = "digest_waiting" /\ pc' = [p EXCEPT ![w] = "digest_woken"]
        BY <3>1, <4>1 DEF Signal
      <4>3. w \in Digesting /\ pc'[w] = "digest_woken"
        BY <2>2, <4>2 DEF OnlyDigesters
      <4> QED BY <2>3, <2>4, <4>3
    <3> QED BY <3>2, <3>3
  <2>5. CASE ~Depletes
    <3>1. pc' = p
      BY <1>2, <2>1, <2>5 DEF Takes, TakeHead
    <3>2. \A w \in Digesting : pc'[w] # "digest_woken"
      BY <2>2, <3>1
    <3> QED BY <2>3, <2>5, <3>2
  <2> QED BY <2>4, <2>5
<1>3. CASE Quiet
  <2>1. head' = head /\ tail' = tail
    BY <1>3, QuietListInv DEF list
  <2>2. \A w \in Digesting : pc'[w] # "digest_woken"
    BY <1>3 DEF Quiet, TakeWait, TakeAbort, TakeExpired, TakeFree, DigestWait, DigestReturn,
                EndWait, TimedOut, WakeSpuriously, TypeOK
  <2> QED BY <2>1, <2>2
<1>4. CASE UNCHANGED vars
  BY <1>4 DEF vars, list
<1> QED BY <1>1, <1>2, <1>3, <1>4, Steps

(* The take that empties the list signals one of those that wait for the   *)
(* queue to be digested, and nothing else signals them, for any number of  *)
(* callers and whatever else ends their waits.                             *)
THEOREM DigestedByTheLastTake == Spec => DigestedWhenDepleted
<1> DEFINE Woke == LET waiting == {t \in Digesters : pc[t] = "digest_waiting"}
                       depleted == head # tail /\ head' = tail'
                   IN  (\E t \in waiting : pc'[t] = "digest_woken")
                          <=> (depleted /\ waiting # {})
<1>1. Init => OnlyDigesters
  BY DEF Init, OnlyDigesters
<1>2. ListInv /\ OnlyDigesters /\ [Next]_vars => [Woke]_vars
  BY StepDigested DEF Digesting
<1> QED BY <1>1, <1>2, ListInvariant, StepOnlyDigesters, PTL DEF Spec, DigestedWhenDepleted

------------------------------------------------------------------------------
(* Deadline *)

(* Unless the sum, of signed numbers, overflows (from a timeout of three   *)
(* hundred years on), there is one time that can result, it is one that    *)
(* timedwait accepts, its nanoseconds less than a second, and it is now    *)
(* and so many milliseconds, neither sooner nor later.                     *)
THEOREM DeadlineExact ==
  ASSUME Second \in Nat \ {0}, Million \in Nat,
         NEW now \in Timespec, NEW millis \in Nat, Fits(now, millis)
  PROVE  \E then \in Timespec : /\ millis_in_future(now, millis) = {then}
                               /\ Instant(then) = Instant(now) + millis * Million
<1> DEFINE m == millis * Million
           n == now.tv_nsec + m
           q == n \div Second
           r == n % Second
<1>1. now.tv_sec \in Nat /\ now.tv_nsec \in Nat
  BY DEF Timespec
<1>2. m \in Nat
  OBVIOUS
<1>3. n \in Nat
  <2> HIDE DEF m
  <2> QED BY <1>1, <1>2
<1>4. Sums(now, millis) = {n}
  BY DEF Sums
<1>5. q \in Nat /\ r \in 0..(Second - 1) /\ n = Second * q + r
  <2> HIDE DEF n
  <2> QED BY <1>3
<1> DEFINE then == [tv_sec |-> now.tv_sec + q, tv_nsec |-> r]
<1>6. millis_in_future(now, millis) = {then}
  BY <1>4 DEF millis_in_future
<1>7. then \in Timespec
  <2> HIDE DEF q, r
  <2> QED BY <1>1, <1>5 DEF Timespec
<1>8. Instant(then) = (now.tv_sec + q) * Second + r
  BY DEF Instant
<1>9. (now.tv_sec + q) * Second + r = now.tv_sec * Second + n
  <2> HIDE DEF n, q, r
  <2>1. (now.tv_sec + q) * Second = now.tv_sec * Second + Second * q
    BY <1>1, <1>5
  <2> QED BY <2>1, <1>1, <1>3, <1>5
<1>10. now.tv_sec * Second + n = Instant(now) + m
  <2> HIDE DEF m
  <2> QED BY <1>1, <1>2 DEF Instant
<1>11. Instant(then) = Instant(now) + m
  <2> HIDE DEF then, n, m, q, r
  <2> QED BY <1>8, <1>9, <1>10
<1> HIDE DEF then
<1> QED BY <1>6, <1>7, <1>11
==============================================================================
