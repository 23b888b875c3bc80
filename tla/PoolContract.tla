---------------------------- MODULE PoolContract ----------------------------
(***************************************************************************)
(* What an ObjectPool promises, in atomic steps: a first-in first-out queue*)
(* shared by threads that add, take if there is something, or wait until   *)
(* there is.                                                               *)
(***************************************************************************)
EXTENDS Naturals, Sequences

CONSTANTS Threads, Adders, Checkers, Waiters

VARIABLES
  queue,   (* the objects in the pool, oldest first                        *)
  added,   (* objects are numbered in the order in which they are added    *)
  call     (* what each thread is doing: nothing, one of the calls, or     *)
           (* returning from one                                           *)

vars == <<queue, added, call>>

Init ==
  /\ queue = <<>>
  /\ added = 0
  /\ call = [t \in Threads |-> "none"]

Step(t, from, to) == call[t] = from /\ call' = [call EXCEPT ![t] = to]

Call(t) ==
  /\ \/ t \in Adders /\ Step(t, "none", "add")
     \/ t \in Checkers /\ Step(t, "none", "check")
     \/ t \in Waiters /\ Step(t, "none", "wait")
  /\ UNCHANGED <<queue, added>>

Add(t) ==
  /\ Step(t, "add", "return")
  /\ added' = added + 1
  /\ queue' = Append(queue, added + 1)

Take(t, from) ==
  /\ queue # <<>>
  /\ Step(t, from, "return")
  /\ queue' = Tail(queue)
  /\ UNCHANGED added

CheckMiss(t) ==
  /\ queue = <<>>
  /\ Step(t, "check", "return")
  /\ UNCHANGED <<queue, added>>

Return(t) ==
  /\ Step(t, "return", "none")
  /\ UNCHANGED <<queue, added>>

Next ==
  \E t \in Threads :
    \/ Call(t) \/ Return(t)
    \/ Add(t) \/ Take(t, "check") \/ CheckMiss(t) \/ Take(t, "wait")

Spec == Init /\ [][Next]_vars
=============================================================================
