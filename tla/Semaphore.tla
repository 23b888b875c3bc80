----------------------------- MODULE Semaphore -----------------------------
(***************************************************************************)
(* class Semaphore (functionality/semaphore.cpp): a counter and a queue of *)
(* waiting threads behind a mutex; each waiting thread sleeps on a         *)
(* ThreadBlocker of its own.                                               *)
(*                                                                         *)
(* A call and its locking of mutex_ptr are one step: what a thread does    *)
(* before it has the mutex no other thread can see.  The blocker of a      *)
(* queue entry is the binary permit of BlockerContract: it is created with *)
(* the entry and shared by all copies of the entry, so one flag per thread *)
(* models it.                                                              *)
(***************************************************************************)
EXTENDS SemaphoreOps

CONSTANTS
  Threads,     (* the threads that call acquire and give            *)
  NoThread,    (* the mutex is free                                 *)
  Requests,    (* the arguments of acquire                          *)
  Gifts,       (* the arguments of give                             *)
  Initial,     (* the argument of the constructor                   *)
  MaxGiven     (* bound: units given in one behaviour               *)

ASSUME ThreadAssumption == NoThread \notin Threads

ASSUME UnitsAssumption ==
  /\ Requests \subseteq Nat
  /\ Gifts \subseteq Nat
  /\ Initial \in Nat
  /\ MaxGiven \in Nat

VARIABLES
  mutex,
  resources,
  waiting_threads,
  thread_should_continue,   (* the flag of each thread's last blocker     *)
  pc,
  amount,                   (* the argument of each thread's last acquire *)
  given,                    (* history: units given                       *)
  acquired                  (* history: units acquire has returned with   *)

vars == <<mutex, resources, waiting_threads, thread_should_continue, pc,
          amount, given, acquired>>

Labels == {"idle", "acquire", "block", "acquire_return", "give"}

(* The constructor's give runs before any other thread has the semaphore. *)
Init ==
  /\ mutex = NoThread
  /\ resources = Initial
  /\ waiting_threads = <<>>
  /\ thread_should_continue = [t \in Threads |-> FALSE]
  /\ pc = [t \in Threads |-> "idle"]
  /\ amount = [t \in Threads |-> 0]
  /\ given = 0
  /\ acquired = 0

Goto(t, from, to) == pc[t] = from /\ pc' = [pc EXCEPT ![t] = to]

Lock(t) == mutex = NoThread /\ mutex' = t

Unlock(t) == mutex = t /\ mutex' = NoThread

has_queued_threads == Len(waiting_threads) > 0

-----------------------------------------------------------------------------
(* acquire *)

AcquireLock(t, n) ==
  /\ Goto(t, "idle", "acquire")
  /\ Lock(t)
  /\ amount' = [amount EXCEPT ![t] = n]
  /\ UNCHANGED <<resources, waiting_threads, thread_should_continue, given, acquired>>

(* create_entry, add_back and the unlock. *)
AcquireEnqueue(t) ==
  /\ has_queued_threads \/ resources < amount[t]
  /\ Goto(t, "acquire", "block")
  /\ Unlock(t)
  /\ waiting_threads' =
       Append(waiting_threads, [thread |-> t, resources_needed |-> amount[t]])
  /\ thread_should_continue' = [thread_should_continue EXCEPT ![t] = FALSE]
  /\ UNCHANGED <<resources, amount, given, acquired>>

TakeUnits(t) ==
  /\ Goto(t, "acquire", "acquire_return")
  /\ Unlock(t)
  /\ resources' = resources - amount[t]
  /\ UNCHANGED <<waiting_threads, thread_should_continue, amount, given, acquired>>

(* The units are taken past the queue. *)
AcquireOvertaking(t) == resources >= amount[t] /\ TakeUnits(t)

(* The units are taken although there are not enough. *)
AcquireOverdrawn(t) == ~has_queued_threads /\ TakeUnits(t)

AcquireFast(t) ==
  /\ ~has_queued_threads
  /\ resources >= amount[t]
  /\ TakeUnits(t)

(* acquire returns, on the slow path when block_this does. *)
AcquireReturn(t) ==
  /\ \/ Goto(t, "acquire_return", "idle")
     \/ Goto(t, "block", "idle") /\ thread_should_continue[t]
  /\ thread_should_continue' = [thread_should_continue EXCEPT ![t] = FALSE]
  /\ acquired' = acquired + amount[t]
  /\ UNCHANGED <<mutex, resources, waiting_threads, amount, given>>

-----------------------------------------------------------------------------
(* give *)

GiveLock(t, n) ==
  /\ given + n <= MaxGiven
  /\ Goto(t, "idle", "give")
  /\ Lock(t)
  /\ resources' = resources + n
  /\ given' = given + n
  /\ UNCHANGED <<waiting_threads, thread_should_continue, amount, acquired>>

HeadServable ==
  has_queued_threads /\ Head(waiting_threads).resources_needed <= resources

Serve(t, left, flag) ==
  /\ pc[t] = "give"
  /\ waiting_threads' = Tail(waiting_threads)
  /\ resources' = left
  /\ thread_should_continue' =
       [thread_should_continue EXCEPT ![Head(waiting_threads).thread] = flag]
  /\ UNCHANGED <<mutex, pc, amount, given, acquired>>

UnitsLeft == resources - Head(waiting_threads).resources_needed

(* attempt_unblock leaves the counter as it is. *)
UnblockForFree(t) == HeadServable /\ Serve(t, resources, TRUE)

(* The flag is that of a copy of the blocker, which nobody sleeps on. *)
UnblockCopy(t) == HeadServable /\ Serve(t, UnitsLeft, FALSE)

(* attempt_unblock with < for <=: the last units stay unused. *)
UnblockStrict(t) ==
  /\ has_queued_threads
  /\ Head(waiting_threads).resources_needed < resources
  /\ Serve(t, UnitsLeft, TRUE)

(* attempt_unblock, when it unblocks a thread. *)
Unblock(t) == HeadServable /\ Serve(t, UnitsLeft, TRUE)

(* give leaves after one attempt. *)
GiveUnlockEarly(t) ==
  /\ Goto(t, "give", "idle")
  /\ Unlock(t)
  /\ UNCHANGED <<resources, waiting_threads, thread_should_continue, amount,
                 given, acquired>>

(* attempt_unblock has returned false: the loop and the lock_guard's scope *)
(* end.                                                                    *)
GiveUnlock(t) ==
  /\ ~HeadServable
  /\ Goto(t, "give", "idle")
  /\ Unlock(t)
  /\ UNCHANGED <<resources, waiting_threads, thread_should_continue, amount,
                 given, acquired>>

-----------------------------------------------------------------------------

(* The steps a thread takes inside a call. *)
Progress(t) ==
  \/ AcquireEnqueue(t) \/ AcquireFast(t) \/ AcquireReturn(t)
  \/ Unblock(t) \/ GiveUnlock(t)

Next ==
  \E t \in Threads :
    \/ \E n \in Requests : AcquireLock(t, n)
    \/ \E n \in Gifts : GiveLock(t, n)
    \/ Progress(t)

Spec == Init /\ [][Next]_vars

(* Threads are scheduled; nobody has to call acquire or give, and no order *)
(* is assumed among those that compete for the mutex.                      *)
FairSpec == Spec /\ \A t \in Threads : WF_vars(Progress(t))

-----------------------------------------------------------------------------

(* Threads that have their units, with acquire still to return. *)
Granted ==
  {t \in Threads : \/ pc[t] = "acquire_return"
                   \/ pc[t] = "block" /\ thread_should_continue[t]}

Queued == ThreadsOf(waiting_threads)

(* u is served before t: it is in the queue, and t is not or is behind it. *)
Before(u, t) ==
  \E i \in DOMAIN waiting_threads :
    /\ waiting_threads[i].thread = u
    /\ \A j \in 1..i : waiting_threads[j].thread # t

Affordable(t) ==
  \E i \in DOMAIN waiting_threads :
    /\ waiting_threads[i].thread = t
    /\ NeedOfFirst(i, waiting_threads) <= resources

TypeOK ==
  /\ mutex \in Threads \cup {NoThread}
  /\ resources \in Nat
  /\ waiting_threads \in Seq(Entries(Threads, Requests))
  /\ thread_should_continue \in [Threads -> BOOLEAN]
  /\ pc \in [Threads -> Labels]
  /\ amount \in [Threads -> Requests \cup {0}]
  /\ given \in Nat
  /\ acquired \in Nat

(* No unit is lost or made up: what the constructor and give have put in   *)
(* is in the counter, or with a thread that acquire has returned to or is  *)
(* about to (semaphore.cpp:35, 43, 67).                                    *)
Conservation ==
  Initial + given =
    resources + acquired + SumFunction([t \in Granted |-> amount[t]])

(* give stops only when the next thread in line cannot be served, and no   *)
(* acquire changes that: outside a give, nobody waits for units that are   *)
(* there (semaphore.cpp:27, 46-49).                                        *)
NoServableHead == (\A t \in Threads : pc[t] # "give") => ~HeadServable

(* A thread that sleeps in acquire is in the queue or has been released,   *)
(* never neither (it would sleep for ever) and never both (it would be     *)
(* released twice), and it is in the queue once (semaphore.cpp:28-32,      *)
(* 66-68).                                                                 *)
SleeperQueuedOrReleased ==
  /\ \A t \in Threads :
       pc[t] = "block" => (t \in Queued <=> ~thread_should_continue[t])
  /\ \A i, j \in DOMAIN waiting_threads :
       waiting_threads[i].thread = waiting_threads[j].thread => i = j

(* First come, first served: a thread gets its units only when nobody in   *)
(* the queue came before it, however few units it asks for                 *)
(* (semaphore.cpp:27, 63-66).                                              *)
NoOvertaking ==
  [][\A t, u \in Threads :
       t \notin Granted /\ t \in Granted' => ~Before(u, t)]_vars

(* Once the units there are cover a waiting thread and all before it, its  *)
(* acquire returns: nobody can take those units away (semaphore.cpp:24-50).*)
AffordableWaiterReturns ==
  \A t \in Threads : Affordable(t) ~> pc[t] = "idle"

-----------------------------------------------------------------------------

(* The threads that the give in progress is going to release, or none:     *)
(* seen from outside, give serves them all at once when it locks the mutex.*)
ToServe == ServedCount(waiting_threads, resources)

Fifo == INSTANCE FifoSemaphore WITH
  available <- resources - NeedOfFirst(ToServe, waiting_threads),
  waiting   <- SubSeq(waiting_threads, ToServe + 1, Len(waiting_threads)),
  inside    <- {t \in Threads : pc[t] \in {"block", "acquire_return"}}

(* The class is a first-in first-out counting semaphore with atomic        *)
(* operations, in which every granted acquire returns (semaphore.cpp:24-50)*)
ImplementsFifo == Fifo!FairSpec
=============================================================================
