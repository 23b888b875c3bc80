-------------------------- MODULE BlockerContract --------------------------
(***************************************************************************)
(* What a ThreadBlocker promises its callers, in atomic steps: a binary    *)
(* permit.  unblock_other sets the permit, a call of block_this ends only  *)
(* by using it up, and while the permit is there some blocked call ends.   *)
(* ThreadBlocker.tla is shown to implement this; Semaphore.tla relies on   *)
(* it.                                                                     *)
(***************************************************************************)
CONSTANT Threads

VARIABLES
  permit,   (* an unblock_other that no block_this has used up yet *)
  blocked   (* the threads inside block_this                       *)

vars == <<permit, blocked>>

Init == permit = FALSE /\ blocked = {}

Enter(t) ==
  /\ t \notin blocked
  /\ blocked' = blocked \cup {t}
  /\ UNCHANGED permit

(* Permits do not add up: a second unblock_other before a return is lost. *)
Unblock ==
  /\ permit' = TRUE
  /\ UNCHANGED blocked

Return(t) ==
  /\ t \in blocked
  /\ permit
  /\ permit' = FALSE
  /\ blocked' = blocked \ {t}

Next == Unblock \/ \E t \in Threads : Enter(t) \/ Return(t)

SafetySpec == Init /\ [][Next]_vars

Spec == SafetySpec /\ WF_vars(\E t \in Threads : Return(t))
=============================================================================
