------------------------------ MODULE FifoQueue ------------------------------
(***************************************************************************)
(* What blocking_queue.h promises the threads that share a queue: an item  *)
(* that is added is handed to exactly one taker, items leave in the order  *)
(* in which they were added, and a take that does not hand out an item     *)
(* says so (BQ_TIMEOUT) and leaves the caller's variable alone.            *)
(*                                                                         *)
(* The module knows nothing of the linked list, the mutex or the condition *)
(* variables: BlockingQueue.tla has those and implements this module.      *)
(***************************************************************************)
EXTENDS Naturals, Sequences

CONSTANTS
  Threads,  \* the threads that call the queue
  Items,    \* the pointers that are added to it
  None      \* NULL: the content of an out parameter nothing was stored in

VARIABLES
  contents, \* the items in the queue, oldest first
  into,     \* into[t]: what the last take of t stored through its out parameter
  rc        \* rc[t]: what the last call of t returned

fifoVars == <<contents, into, rc>>

Init ==
  /\ contents = <<>>
  /\ into = [t \in Threads |-> None]
  /\ rc = [t \in Threads |-> "BQ_OK"]

(* Not part of the specification: a stack. *)
SlipPut(x) ==
  /\ contents' = <<x>> \o contents
  /\ UNCHANGED <<into, rc>>

(* An item goes to the back. *)
Put(x) ==
  /\ contents' = Append(contents, x)
  /\ UNCHANGED <<into, rc>>

(* The oldest item goes to t. *)
Get(t) ==
  /\ contents # <<>>
  /\ contents' = Tail(contents)
  /\ into' = [into EXCEPT ![t] = Head(contents)]
  /\ rc' = [rc EXCEPT ![t] = "BQ_OK"]

(* A take or a wait of t gives up: the queue and the variable of the       *)
(* caller are left alone.                                                  *)
Timeout(t) ==
  /\ rc' = [rc EXCEPT ![t] = "BQ_TIMEOUT"]
  /\ UNCHANGED <<contents, into>>

(* A wait of t for the queue to be digested returns; it takes nothing. *)
Digested(t) ==
  /\ rc' = [rc EXCEPT ![t] = "BQ_OK"]
  /\ UNCHANGED <<contents, into>>

Next ==
  \/ \E x \in Items : Put(x)
  \/ \E t \in Threads : Get(t) \/ Timeout(t) \/ Digested(t)

Spec == Init /\ [][Next]_fifoVars
==============================================================================
