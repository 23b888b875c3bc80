--------------------------- MODULE UnitSemaphore ---------------------------
(***************************************************************************)
(* FifoSemaphore as its callers in this program use it: every acquire and  *)
(* every give is for one unit.  An acquire that need not wait returns at   *)
(* once; a give either releases the first thread in line or adds a unit.   *)
(***************************************************************************)
EXTENDS Naturals, Sequences

CONSTANTS Threads, Initial

VARIABLES
  available,   (* units nobody holds                                       *)
  waiting,     (* the threads that wait for a unit, in order               *)
  inside       (* the threads inside an acquire that did not return at once*)

vars == <<available, waiting, inside>>

Members(queue) == {queue[i] : i \in 1..Len(queue)}

Init == available = Initial /\ waiting = <<>> /\ inside = {}

AcquireAtOnce(t) ==
  /\ t \notin inside
  /\ waiting = <<>> /\ available > 0
  /\ available' = available - 1
  /\ UNCHANGED <<waiting, inside>>

AcquireLater(t) ==
  /\ t \notin inside
  /\ waiting # <<>> \/ available = 0
  /\ waiting' = Append(waiting, t)
  /\ inside' = inside \cup {t}
  /\ UNCHANGED available

AddUnit ==
  /\ waiting = <<>>
  /\ available' = available + 1
  /\ UNCHANGED <<waiting, inside>>

Release ==
  /\ waiting # <<>>
  /\ waiting' = Tail(waiting)
  /\ UNCHANGED <<available, inside>>

Give == AddUnit \/ Release

Return(t) ==
  /\ t \in inside \ Members(waiting)
  /\ inside' = inside \ {t}
  /\ UNCHANGED <<available, waiting>>

Next == Give \/ \E t \in Threads : AcquireAtOnce(t) \/ AcquireLater(t) \/ Return(t)

Spec == Init /\ [][Next]_vars
=============================================================================
