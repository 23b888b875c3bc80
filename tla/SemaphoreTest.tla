--------------------------- MODULE SemaphoreTest ---------------------------
(***************************************************************************)
(* The test program of class Semaphore (functionality/semaphore.cpp:       *)
(* 107-167), over the first-in first-out semaphore that the class          *)
(* implements.  Each thread acquires a unit of one semaphore, sets its     *)
(* flag and gives a unit to the other.  main gives the units in segments,  *)
(* acquires as many from the other semaphore after each, and counts flags. *)
(***************************************************************************)
EXTENDS Naturals, Sequences, FiniteSets

CONSTANTS
  main_thread, Workers,
  Segmentations   (* values of give_segments, each with a unit per worker  *)

VARIABLES
  give_segments,
  segment,        (* the loop variable of main                             *)
  num_true,
  place,          (* where main is                                         *)
  worker, flags,  (* where the threads are, and whose flag is set          *)
  from_available, from_waiting, from_inside,   (* threads_acquire_from     *)
  to_available, to_waiting, to_inside          (* threads_give_to          *)

From == INSTANCE FifoSemaphore WITH
  Threads <- Workers, Requests <- {1}, Gifts <- 0..Cardinality(Workers), Initial <- 0,
  available <- from_available, waiting <- from_waiting, inside <- from_inside

To == INSTANCE FifoSemaphore WITH
  Threads <- {main_thread}, Requests <- 0..Cardinality(Workers), Gifts <- {1}, Initial <- 0,
  available <- to_available, waiting <- to_waiting, inside <- to_inside

acquire_from == <<from_available, from_waiting, from_inside>>
give_to      == <<to_available, to_waiting, to_inside>>
counting     == <<give_segments, segment, num_true>>
vars == <<counting, place, worker, flags, acquire_from, give_to>>

Init ==
  /\ give_segments \in Segmentations
  /\ segment = 1 /\ num_true = 0 /\ place = "give"
  /\ worker = [t \in Workers |-> "acquire"]
  /\ flags = {}
  /\ From!Init /\ To!Init

-----------------------------------------------------------------------------
(* test *)

Goto(t, from, to) == worker[t] = from /\ worker' = [worker EXCEPT ![t] = to]

Acquire(t) ==
  /\ Goto(t, "acquire", "acquired")
  /\ From!AcquireAtOnce(t, 1) \/ From!AcquireLater(t, 1)
  /\ UNCHANGED <<counting, place, flags, give_to>>

Acquired(t) ==
  /\ Goto(t, "acquired", "flag")
  /\ From!Return(t)
  /\ UNCHANGED <<counting, place, flags, give_to>>

SetFlag(t) ==
  /\ Goto(t, "flag", "give")
  /\ flags' = flags \cup {t}
  /\ UNCHANGED <<counting, place, acquire_from, give_to>>

Give(t) ==
  /\ Goto(t, "give", "ended")
  /\ To!Give(1)
  /\ UNCHANGED <<counting, place, flags, acquire_from>>

-----------------------------------------------------------------------------
(* main *)

MainGoto(from, to) == place = from /\ place' = to

MainGive ==
  /\ MainGoto("give", "acquire")
  /\ From!Give(give_segments[segment])
  /\ UNCHANGED <<counting, worker, flags, give_to>>

MainAcquire ==
  /\ MainGoto("acquire", "acquired")
  /\ \/ To!AcquireAtOnce(main_thread, give_segments[segment])
     \/ To!AcquireLater(main_thread, give_segments[segment])
  /\ UNCHANGED <<counting, worker, flags, acquire_from>>

MainAcquired ==
  /\ MainGoto("acquired", "count")
  /\ To!Return(main_thread)
  /\ num_true' = num_true + give_segments[segment]
  /\ UNCHANGED <<give_segments, segment, worker, flags, acquire_from>>

n_are_true(n) == Cardinality(flags) = n

(* The loop ends with the segments or the first count that is wrong. *)
Count ==
  /\ MainGoto("count",
       IF n_are_true(num_true) /\ segment < Len(give_segments) THEN "give" ELSE "join")
  /\ segment' = segment + 1
  /\ UNCHANGED <<give_segments, num_true, worker, flags, acquire_from, give_to>>

Join ==
  /\ MainGoto("join", "ended")
  /\ \A t \in Workers : worker[t] = "ended"
  /\ UNCHANGED <<counting, worker, flags, acquire_from, give_to>>

Next ==
  \/ \E t \in Workers : Acquire(t) \/ Acquired(t) \/ SetFlag(t) \/ Give(t)
  \/ MainGive \/ MainAcquire \/ MainAcquired \/ Count \/ Join

(* Every thread is scheduled; none takes more than a few steps. *)
Spec == Init /\ [][Next]_vars /\ WF_vars(Next)

-----------------------------------------------------------------------------

(* After each segment exactly as many threads have come through as units   *)
(* have been given (semaphore.cpp:153, 163: "Some thread might have        *)
(* unblocked too soon or too late?").                                      *)
Passed == place = "count" => n_are_true(num_true)
=============================================================================
