--------------------------- MODULE MCBlockingQueue ---------------------------
(***************************************************************************)
(* BlockingQueue for TLC.  Threads are model values; w1 and w2 stand for   *)
(* chain workers (they take, and w1 also adds, as a worker does with a     *)
(* packet whose chain goes on), main for a thread that only adds, d1 for a *)
(* caller of blocking_queue_wait_digest.                                   *)
(***************************************************************************)
EXTENDS BlockingQueue, TLC
==============================================================================
