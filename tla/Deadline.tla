------------------------------- MODULE Deadline -------------------------------
(***************************************************************************)
(* millis_in_future of src/impl/blocking_queue.c: the absolute time at     *)
(* which pthread_cond_timedwait gives up.  The sum is one of signed long   *)
(* longs, whose overflow is undefined, and is stored in a uint64_t.        *)
(* BlockingQueue has no clock: there a timer may expire at any time.       *)
(***************************************************************************)
EXTENDS Integers

CONSTANTS
  Width,    \* 2^64: the numbers that a uint64_t can hold
  Second,   \* 10^9 nanoseconds
  Million   \* those of a millisecond

Timespec == [tv_sec : Nat, tv_nsec : 0..(Second - 1)]

(* A timespec and the nanoseconds since the epoch that it stands for *)
Instant(ts) == ts.tv_sec * Second + ts.tv_nsec

(* The sum fits a signed long long. *)
Fits(now, millis) == 2 * (now.tv_nsec + millis * Million) < Width

(* What `nsec` may hold: the sum, or anything where it overflows. *)
Sums(now, millis) ==
  IF Fits(now, millis) THEN {now.tv_nsec + millis * Million} ELSE 0..(Width - 1)

(* The times that may result *)
millis_in_future(now, millis) ==
  {[tv_sec |-> now.tv_sec + nsec \div Second, tv_nsec |-> nsec % Second] :
     nsec \in Sums(now, millis)}
===============================================================================
