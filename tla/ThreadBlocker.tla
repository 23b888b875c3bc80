--------------------------- MODULE ThreadBlocker ---------------------------
(***************************************************************************)
(* class ThreadBlocker (functionality/thread_blocker.cpp): a mutex, a      *)
(* condition variable and the flag thread_should_continue.  Any thread may *)
(* call block_this and unblock_other, any number of times and at once.     *)
(*                                                                         *)
(* The mutex is an owner.  The wait set of the condition variable is the   *)
(* set of threads at "block_wait": wait() releases the mutex and joins the *)
(* set in one step, notify_one removes one member, and a member may also   *)
(* leave it without a notification.                                        *)
(***************************************************************************)
EXTENDS Naturals, FiniteSets

CONSTANTS
  Threads,      (* the threads that use the blocker                       *)
  NoThread,     (* the mutex is free                                      *)
  MaxUnblocks   (* bound: calls of unblock_other in one behaviour         *)

ASSUME NoThreadAssumption == NoThread \notin Threads

ASSUME BoundAssumption == MaxUnblocks \in Nat

VARIABLES
  thread_should_continue,
  mutex,
  pc,
  unblocked,    (* history: times unblock_other has set the flag          *)
  returned      (* history: times block_this has used the flag up         *)

vars == <<thread_should_continue, mutex, pc, unblocked, returned>>

BlockLabels ==
  {"block_lock", "block_test", "block_sleep", "block_wait", "block_relock"}

Labels == BlockLabels \cup
  {"idle", "block_unlock", "unblock_lock", "unblock_set", "unblock_notify"}

Init ==
  /\ thread_should_continue = FALSE
  /\ mutex = NoThread
  /\ pc = [t \in Threads |-> "idle"]
  /\ unblocked = 0
  /\ returned = 0

Goto(t, from, to) == pc[t] = from /\ pc' = [pc EXCEPT ![t] = to]

Lock(t) == mutex = NoThread /\ mutex' = t

Unlock(t) == mutex = t /\ mutex' = NoThread

History == <<unblocked, returned>>

-----------------------------------------------------------------------------
(* block_this *)

CallBlock(t) ==
  /\ Goto(t, "idle", "block_lock")
  /\ UNCHANGED <<thread_should_continue, mutex, History>>

BlockLock(t) ==
  /\ Goto(t, "block_lock", "block_test")
  /\ Lock(t)
  /\ UNCHANGED <<thread_should_continue, History>>

(* cond_var_ptr->wait(ul, pred) is: while(!pred()) wait(ul). *)
BlockTestFalse(t) ==
  /\ ~thread_should_continue
  /\ Goto(t, "block_test", "block_sleep")
  /\ UNCHANGED <<thread_should_continue, mutex, History>>

BlockSleep(t) ==
  /\ Goto(t, "block_sleep", "block_wait")
  /\ Unlock(t)
  /\ UNCHANGED <<thread_should_continue, History>>

SpuriousWakeup(t) ==
  /\ Goto(t, "block_wait", "block_relock")
  /\ UNCHANGED <<thread_should_continue, mutex, History>>

(* The woken thread trusts the notification and does not test again. *)
BlockRelockNoRetest(t) ==
  /\ Goto(t, "block_relock", "block_unlock")
  /\ Lock(t)
  /\ thread_should_continue' = FALSE
  /\ returned' = returned + 1
  /\ UNCHANGED unblocked

BlockRelock(t) ==
  /\ Goto(t, "block_relock", "block_test")
  /\ Lock(t)
  /\ UNCHANGED <<thread_should_continue, History>>

(* The flag is not reset once it has been seen. *)
BlockTestTrueNoReset(t) ==
  /\ thread_should_continue
  /\ Goto(t, "block_test", "block_unlock")
  /\ returned' = returned + 1
  /\ UNCHANGED <<thread_should_continue, mutex, unblocked>>

BlockTestTrue(t) ==
  /\ thread_should_continue
  /\ Goto(t, "block_test", "block_unlock")
  /\ thread_should_continue' = FALSE
  /\ returned' = returned + 1
  /\ UNCHANGED <<mutex, unblocked>>

BlockUnlock(t) ==
  /\ Goto(t, "block_unlock", "idle")
  /\ Unlock(t)
  /\ UNCHANGED <<thread_should_continue, History>>

-----------------------------------------------------------------------------
(* unblock_other *)

UnblocksPending == {t \in Threads : pc[t] \in {"unblock_lock", "unblock_set"}}

CallUnblock(t) ==
  /\ unblocked + Cardinality(UnblocksPending) < MaxUnblocks
  /\ Goto(t, "idle", "unblock_lock")
  /\ UNCHANGED <<thread_should_continue, mutex, History>>

(* The flag is set without the mutex. *)
UnblockUnlocked(t) ==
  /\ Goto(t, "unblock_lock", "unblock_notify")
  /\ thread_should_continue' = TRUE
  /\ unblocked' = unblocked + 1
  /\ UNCHANGED <<mutex, returned>>

UnblockLock(t) ==
  /\ Goto(t, "unblock_lock", "unblock_set")
  /\ Lock(t)
  /\ UNCHANGED <<thread_should_continue, History>>

(* The lock_guard's scope ends before notify_one. *)
UnblockSet(t) ==
  /\ Goto(t, "unblock_set", "unblock_notify")
  /\ Unlock(t)
  /\ thread_should_continue' = TRUE
  /\ unblocked' = unblocked + 1
  /\ UNCHANGED returned

UnblockNotify(t) ==
  /\ pc[t] = "unblock_notify"
  /\ \/ \E w \in Threads :
          /\ pc[w] = "block_wait"
          /\ pc' = [pc EXCEPT ![t] = "idle", ![w] = "block_relock"]
     \/ /\ \A w \in Threads : pc[w] # "block_wait"
        /\ pc' = [pc EXCEPT ![t] = "idle"]
  /\ UNCHANGED <<thread_should_continue, mutex, History>>

-----------------------------------------------------------------------------

(* The steps a thread takes inside a call, which it takes if it can. *)
Progress(t) ==
  \/ BlockLock(t) \/ BlockTestFalse(t) \/ BlockSleep(t) \/ BlockRelock(t)
  \/ BlockTestTrue(t) \/ BlockUnlock(t)
  \/ UnblockLock(t) \/ UnblockSet(t) \/ UnblockNotify(t)

Next == \E t \in Threads :
          CallBlock(t) \/ CallUnblock(t) \/ SpuriousWakeup(t) \/ Progress(t)

Spec == Init /\ [][Next]_vars

(* Threads are scheduled; nobody has to call and nobody has to wake early. *)
FairSpec == Spec /\ \A t \in Threads : WF_vars(Progress(t))

-----------------------------------------------------------------------------

TypeOK ==
  /\ thread_should_continue \in BOOLEAN
  /\ mutex \in Threads \cup {NoThread}
  /\ pc \in [Threads -> Labels]
  /\ unblocked \in Nat
  /\ returned \in 0..unblocked

(* No wake-up is lost: while the flag is set and a thread sleeps in the    *)
(* condition variable, a notification is still to come or a thread that    *)
(* will test the flag is already awake.  (thread_blocker.cpp:13, 20-25:    *)
(* the flag is set under the mutex, the notification is sent without it.)  *)
NoLostWakeup ==
  (thread_should_continue /\ \E w \in Threads : pc[w] = "block_wait")
    => \E t \in Threads :
         pc[t] \in {"unblock_notify", "block_relock", "block_test"}

(* A call of block_this ends only for an unblock_other of its own: returns *)
(* and the permit still there never outnumber the unblocks, whatever the   *)
(* spurious wake-ups (thread_blocker.cpp:13-14).                           *)
ReturnsWithinUnblocks ==
  returned + (IF thread_should_continue THEN 1 ELSE 0) <= unblocked

(* The blocker is a binary permit for its callers, and while the permit is *)
(* there and threads are blocked some block_this ends (thread_blocker.cpp: *)
(* 10-26).                                                                 *)
Contract == INSTANCE BlockerContract WITH
  permit  <- thread_should_continue,
  blocked <- {t \in Threads : pc[t] \in BlockLabels}

ImplementsContract == Contract!Spec
=============================================================================
