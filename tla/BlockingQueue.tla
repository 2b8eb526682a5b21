---------------------------- MODULE BlockingQueue ----------------------------
(***************************************************************************)
(* src/impl/blocking_queue.c: a linked list with a dummy last node, one    *)
(* mutex and two condition variables.                                      *)
(*                                                                         *)
(* Everything a call does between pthread_mutex_lock and either            *)
(* pthread_mutex_unlock or the release inside pthread_cond_timedwait is    *)
(* one action: the mutex makes it one.  A thread that waits leaves the     *)
(* mutex, so the waits, the wake-ups, the expiry of a timer and the        *)
(* free() after the unlock are actions of their own.                       *)
(*                                                                         *)
(* Nodes are numbered in the order of calloc; NullNode is the null pointer.*)
(***************************************************************************)
EXTENDS Integers, Sequences, FiniteSets

CONSTANTS
  Threads,          \* the threads of the process
  Adders,           \* those that call blocking_queue_add
  Takers,           \* those that call blocking_queue_take
  Digesters,        \* those that call blocking_queue_wait_digest
  Items,            \* the pointers that are added
  None,             \* what an out parameter holds before the first take
  MaxAdds,          \* bound on the number of adds
  SpuriousWakeups   \* may pthread_cond_timedwait return without a signal?

ASSUME QueueAssumption ==
  /\ Adders \subseteq Threads
  /\ Takers \subseteq Threads
  /\ Digesters \subseteq Threads
  /\ Takers \cap Digesters = {}
  /\ IsFiniteSet(Threads)
  /\ None \notin Items
  /\ MaxAdds \in Nat
  /\ SpuriousWakeups \in BOOLEAN

VARIABLES
  alloc,    \* how many list nodes calloc has returned so far
  mem,      \* mem[n]: the fields of node n
  freed,    \* the nodes given back to free()
  head,     \* _m_head
  tail,     \* _m_tail, the dummy node
  pc,       \* where each thread is
  garbage,  \* garbage[t]: the local of blocking_queue_take
  into,     \* into[t]: what the last take of t stored through its parameter
  rc,       \* rc[t]: what the last call of t returned
  aborted   \* the assert of blocking_queue_take failed: the process is gone

list == <<alloc, mem, head, tail>>
results == <<into, rc>>
vars == <<alloc, mem, freed, head, tail, pc, garbage, into, rc, aborted>>

NullNode == 0
Node == [data : Items \cup {None}, next : Nat]
NewNode == [data |-> None, next |-> NullNode]

(* A wait ends by a signal (woken), by nothing at all (stirred) or by its  *)
(* timer (expired); then the thread is on its way to get the mutex back.   *)
PC == {"idle", "waiting", "woken", "stirred", "expired", "freeing",
       "digest_waiting", "digest_woken", "digest_stirred", "digest_expired"}

Empty == head = tail

(* The threads blocked in the first condition variable, and those that a   *)
(* signal has woken from it and that have not got the mutex back.          *)
Waiting == {t \in Threads : pc[t] = "waiting"}
Woken == {t \in Threads : pc[t] = "woken"}

(* The takers whose last wait timed out and that have not called again.    *)
Returning ==
  {t \in Threads : \/ pc[t] = "expired"
                   \/ t \in Takers /\ pc[t] = "idle" /\ rc[t] = "BQ_TIMEOUT"}

Init ==
  /\ alloc = 1
  /\ mem = [n \in {1} |-> NewNode]
  /\ freed = {}
  /\ head = 1
  /\ tail = 1
  /\ pc = [t \in Threads |-> "idle"]
  /\ garbage = [t \in Threads |-> NullNode]
  /\ into = [t \in Threads |-> None]
  /\ rc = [t \in Threads |-> "BQ_OK"]
  /\ aborted = FALSE

------------------------------------------------------------------------------

(***************************************************************************)
(* Variants of the operations below with a plausible slip each.  They are  *)
(* not part of the specification: a property is worth checking if it fails *)
(* when one of them takes the place of the operation.                      *)
(***************************************************************************)

SlipSignalNobody(from, to, p) == pc' = p

SlipLinkedDataInDummy(x) ==
  [n \in 1..(alloc + 1) |->
     IF n = alloc + 1 THEN [data |-> x, next |-> NullNode]
     ELSE IF n = tail THEN [data |-> None, next |-> alloc + 1]
     ELSE mem[n]]

SlipLinkedNoNext(x) ==
  [n \in 1..(alloc + 1) |->
     IF n = alloc + 1 THEN NewNode
     ELSE IF n = tail THEN [data |-> x, next |-> NullNode]
     ELSE mem[n]]

SlipTimedOut == "woken"
SlipDepletes == TRUE
SlipUnlinked(t) == mem[garbage[t]].next

------------------------------------------------------------------------------

(* pthread_cond_signal on a condition whose waiters are at `from`: one of  *)
(* them, if there is one, goes to `to` to get the mutex back.  `p` is the  *)
(* program counter with the signalling thread already advanced.            *)
Signal(from, to, p) ==
  IF \E w \in Threads : p[w] = from
  THEN \E w \in Threads : p[w] = from /\ pc' = [p EXCEPT ![w] = to]
  ELSE pc' = p

(* The dummy becomes the node of x and a new dummy is linked behind it. *)
Linked(x) ==
  [n \in 1..(alloc + 1) |->
     IF n = alloc + 1 THEN NewNode
     ELSE IF n = tail THEN [data |-> x, next |-> alloc + 1]
     ELSE mem[n]]

Add(t, x) ==
  /\ ~aborted
  /\ pc[t] = "idle"
  /\ alloc <= MaxAdds
  /\ alloc' = alloc + 1
  /\ mem' = Linked(x)
  /\ tail' = mem'[tail].next
  /\ Signal("waiting", "woken", pc)
  /\ UNCHANGED <<freed, head, garbage, results, aborted>>

(* The head that is taken is the last item. *)
Depletes == mem[head].next = tail

(* From the assertion to the unlock. *)
TakeHead(t) ==
  /\ into' = [into EXCEPT ![t] = mem[head].data]
  /\ garbage' = [garbage EXCEPT ![t] = head]
  /\ head' = mem[head].next
  /\ rc' = [rc EXCEPT ![t] = "BQ_OK"]
  /\ LET p == [pc EXCEPT ![t] = "freeing"]
     IN  IF Depletes THEN Signal("digest_waiting", "digest_woken", p)
                     ELSE pc' = p
  /\ UNCHANGED <<alloc, mem, tail, freed, aborted>>

(* A take that finds an item does not wait... *)
TakeNow(t) ==
  /\ ~aborted
  /\ pc[t] = "idle"
  /\ ~Empty
  /\ TakeHead(t)

(* ... and one that finds none waits, once: there is no loop. *)
TakeWait(t) ==
  /\ ~aborted
  /\ pc[t] = "idle"
  /\ Empty
  /\ pc' = [pc EXCEPT ![t] = "waiting"]
  /\ UNCHANGED <<list, freed, garbage, results, aborted>>

TakeWoken(t) ==
  /\ ~aborted
  /\ pc[t] \in {"woken", "stirred"}
  /\ ~Empty
  /\ TakeHead(t)

(* assert(queue->_m_head != queue->_m_tail) fails. *)
TakeAbort(t) ==
  /\ ~aborted
  /\ pc[t] \in {"woken", "stirred"}
  /\ Empty
  /\ aborted' = TRUE
  /\ UNCHANGED <<list, freed, pc, garbage, results>>

(* The timer ends the wait: BQ_TIMEOUT, whatever is in the queue by now. *)
TakeExpired(t) ==
  /\ ~aborted
  /\ pc[t] = "expired"
  /\ pc' = [pc EXCEPT ![t] = "idle"]
  /\ rc' = [rc EXCEPT ![t] = "BQ_TIMEOUT"]
  /\ UNCHANGED <<list, freed, garbage, into, aborted>>

Unlinked(t) == garbage[t]

(* The old head is freed after the unlock. *)
TakeFree(t) ==
  /\ ~aborted
  /\ pc[t] = "freeing"
  /\ freed' = freed \cup {Unlinked(t)}
  /\ garbage' = [garbage EXCEPT ![t] = NullNode]
  /\ pc' = [pc EXCEPT ![t] = "idle"]
  /\ UNCHANGED <<list, results, aborted>>

(* blocking_queue_wait_digest waits without looking at the list. *)
DigestWait(t) ==
  /\ ~aborted
  /\ pc[t] = "idle"
  /\ pc' = [pc EXCEPT ![t] = "digest_waiting"]
  /\ UNCHANGED <<list, freed, garbage, results, aborted>>

DigestReturn(t) ==
  /\ ~aborted
  /\ pc[t] \in {"digest_woken", "digest_stirred", "digest_expired"}
  /\ pc' = [pc EXCEPT ![t] = "idle"]
  /\ rc' = [rc EXCEPT ![t] = IF pc[t] = "digest_expired" THEN "BQ_TIMEOUT"
                                                         ELSE "BQ_OK"]
  /\ UNCHANGED <<list, freed, garbage, into, aborted>>

(* Where ETIMEDOUT leads a take *)
TimedOut == "expired"

(* A wait may end by its timer, and a timer that expires as the signal     *)
(* comes may still make timedwait return ETIMEDOUT: the thread has then    *)
(* consumed a signal that nobody else gets.                                *)
EndWait(t) ==
  /\ ~aborted
  /\ \/ pc[t] \in {"waiting", "woken"} /\ pc' = [pc EXCEPT ![t] = TimedOut]
     \/ /\ pc[t] \in {"digest_waiting", "digest_woken"}
        /\ pc' = [pc EXCEPT ![t] = "digest_expired"]
  /\ UNCHANGED <<list, freed, garbage, results, aborted>>

(* timedwait may also return 0 with no signal sent. *)
WakeSpuriously(t) ==
  /\ SpuriousWakeups
  /\ ~aborted
  /\ \/ pc[t] = "waiting" /\ pc' = [pc EXCEPT ![t] = "stirred"]
     \/ pc[t] = "digest_waiting" /\ pc' = [pc EXCEPT ![t] = "digest_stirred"]
  /\ UNCHANGED <<list, freed, garbage, results, aborted>>

Next ==
  \/ \E t \in Adders, x \in Items : Add(t, x)
  \/ \E t \in Takers : \/ TakeNow(t) \/ TakeWait(t) \/ TakeWoken(t)
                       \/ TakeAbort(t) \/ TakeExpired(t) \/ TakeFree(t)
  \/ \E t \in Digesters : DigestWait(t) \/ DigestReturn(t)
  \/ \E t \in Threads : EndWait(t) \/ WakeSpuriously(t)

Spec == Init /\ [][Next]_vars

(* A taker is a `while(1)` around blocking_queue_take, so it calls again   *)
(* and again, and a thread that is free to run runs.  Nothing is assumed   *)
(* of the adders, and not even that a timer ends a wait.                   *)
TakerFairness ==
  \A t \in Takers :
    WF_vars(TakeNow(t) \/ TakeWoken(t) \/ TakeExpired(t) \/ TakeFree(t))

FairSpec == Spec /\ TakerFairness

------------------------------------------------------------------------------
(* Properties *)

(* Every pointer of the list is null or a node that calloc returned, every *)
(* thread is at a line of blocking_queue.c, and a call returns one of the  *)
(* two codes of blocking_queue.h (other errors of timedwait need a bad     *)
(* timespec, and the timeouts of bus.c:201 and chain_ss.c:22, of seconds   *)
(* and minutes, give a good one: see Deadline).                            *)
TypeOK ==
  /\ alloc \in Nat
  /\ mem \in [1..alloc -> Node]
  /\ freed \in SUBSET (1..alloc)
  /\ head \in 1..alloc
  /\ tail \in 1..alloc
  /\ pc \in [Threads -> PC]
  /\ garbage \in [Threads -> 0..alloc]
  /\ into \in [Threads -> Items \cup {None}]
  /\ rc \in [Threads -> {"BQ_OK", "BQ_TIMEOUT"}]
  /\ aborted \in BOOLEAN

(* The data in the list from the head up to, and without, the dummy. *)
Contents == [i \in 1..(tail - head) |-> mem[head + i - 1].data]

Fifo == INSTANCE FifoQueue WITH contents <- Contents

(* The list behaves as the queue blocking_queue.h promises: exactly-once,  *)
(* oldest-first delivery to however many takers, whatever the interleaving *)
(* of adds, waits, wake-ups and expired timers.                            *)
ImplementsFifo == Fifo!Spec

(* Memory of the list: no node between the head and the dummy is ever      *)
(* freed, and each node that has left the list is either freed or in the   *)
(* hands of the one thread that will free it, so none leaks and none is    *)
(* freed twice (the free() is outside the mutex).                          *)
NodesAccountedFor ==
  /\ freed \cap (head..tail) = {}
  /\ \A n \in (1..alloc) \ (head..tail) :
       LET holders == {t \in Threads : garbage[t] = n}
       IN  IF n \in freed THEN holders = {} ELSE \E t \in Threads : holders = {t}

(* No wake-up is lost: while some taker sleeps, every item in the queue    *)
(* has a taker of its own that is awake and will look at the list, woken   *)
(* by the signal of blocking_queue_add, or back from a wait that timed out *)
(* (and may have consumed that signal) and about to call again.            *)
NoLostWakeup ==
  Waiting # {} => tail - head <= Cardinality(Woken \cup Returning)

(* What the assertion of blocking_queue.c:119 says of the callers: a woken *)
(* taker finds an item.                                                    *)
AssertHolds == ~aborted

(* The assertion fails only after a spurious wake-up, which the `if` of    *)
(* blocking_queue.c:101 does not guard against, or because a taker other   *)
(* than the woken one got the item: never by a timer, whenever it expires. *)
AbortNeedsAnother ==
  aborted =>
    \E t \in Takers : \/ pc[t] = "stirred"
                      \/ pc[t] = "woken" /\ \E u \in Takers \ {t} : into[u] # None

(* Every item added is taken unless the assertion ends the process,        *)
(* relying only on takers that keep calling: neither a timer nor a second  *)
(* add has to help the taker that a signal was meant for.                  *)
EveryItemTaken == \A n \in 1..MaxAdds : alloc > n ~> head > n \/ aborted

(* The take that leaves the list empty wakes one of those that wait for    *)
(* the queue to be digested, if any waits, and nothing else signals them   *)
(* (their waits may also end by a timer or spuriously).                    *)
DigestedWhenDepleted ==
  [][LET waiting == {t \in Digesters : pc[t] = "digest_waiting"}
         depleted == head # tail /\ head' = tail'
     IN  (\E t \in waiting : pc'[t] = "digest_woken") <=> (depleted /\ waiting # {})]_vars

(* blocking_queue.h:49-50 says of blocking_queue_wait_digest that it has   *)
(* no effect if the queue is empty: then no caller may be put to sleep.    *)
NoEffectWhenEmpty ==
  [][\A t \in Digesters : pc[t] = "idle" /\ pc'[t] = "digest_waiting" => ~Empty]_vars
==============================================================================
