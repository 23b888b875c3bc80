--------------------------- MODULE FifoSemaphore ---------------------------
(***************************************************************************)
(* What class Semaphore promises, in atomic steps: a counting semaphore    *)
(* whose callers are served strictly in the order of their calls.  A caller*)
(* waits if anyone waits before it or it cannot have its units at once;    *)
(* give serves the longest front of the queue that the units allow.        *)
(***************************************************************************)
EXTENDS SemaphoreOps

CONSTANTS Threads, Requests, Gifts, Initial

VARIABLES
  available,   (* units nobody holds                                    *)
  waiting,     (* the callers that have not got their units, in order   *)
  inside       (* the callers of acquire that have not yet returned     *)

vars == <<available, waiting, inside>>

Init == available = Initial /\ waiting = <<>> /\ inside = {}

AcquireAtOnce(t, n) ==
  /\ t \notin inside
  /\ waiting = <<>> /\ n <= available
  /\ available' = available - n
  /\ inside' = inside \cup {t}
  /\ UNCHANGED waiting

AcquireLater(t, n) ==
  /\ t \notin inside
  /\ waiting # <<>> \/ n > available
  /\ waiting' = Append(waiting, [thread |-> t, resources_needed |-> n])
  /\ inside' = inside \cup {t}
  /\ UNCHANGED available

Give(n) ==
  LET units  == available + n
      served == ServedCount(waiting, units)
  IN  /\ available' = units - NeedOfFirst(served, waiting)
      /\ waiting' = SubSeq(waiting, served + 1, Len(waiting))
      /\ UNCHANGED inside

Return(t) ==
  /\ t \in inside \ ThreadsOf(waiting)
  /\ inside' = inside \ {t}
  /\ UNCHANGED <<available, waiting>>

Next ==
  \/ \E t \in Threads, n \in Requests : AcquireAtOnce(t, n) \/ AcquireLater(t, n)
  \/ \E n \in Gifts : Give(n)
  \/ \E t \in Threads : Return(t)

Spec == Init /\ [][Next]_vars

FairSpec == Spec /\ \A t \in Threads : WF_vars(Return(t))
=============================================================================
