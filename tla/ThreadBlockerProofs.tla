------------------------ MODULE ThreadBlockerProofs ------------------------
(***************************************************************************)
(* ThreadBlocker for any number of threads and of calls.                   *)
(***************************************************************************)
EXTENDS ThreadBlocker, TLAPS

(* The labels at which a thread holds the blocker's mutex. *)
Holding == {"block_test", "block_sleep", "block_unlock", "unblock_set"}

Types ==
  /\ thread_should_continue \in BOOLEAN
  /\ mutex \in Threads \cup {NoThread}
  /\ pc \in [Threads -> Labels]
  /\ unblocked \in Nat
  /\ returned \in Nat

(* Whoever is inside a critical section owns the mutex: two threads never  *)
(* are inside at once.                                                     *)
HoldersOwnMutex == \A t \in Threads : pc[t] \in Holding => mutex = t

(* The flag stays false between the test and the sleep. *)
SleepersSawFalse ==
  \A t \in Threads : pc[t] = "block_sleep" => ~thread_should_continue

IInv ==
  /\ Types
  /\ HoldersOwnMutex
  /\ SleepersSawFalse
  /\ NoLostWakeup
  /\ ReturnsWithinUnblocks

-----------------------------------------------------------------------------

(* The invariant holds when the blocker has just been constructed. *)
LEMMA InitIInv == Init => IInv
<1> SUFFICES ASSUME Init PROVE IInv
  OBVIOUS
<1>1. ~thread_should_continue
  BY DEF Init
<1>2. Types
  BY DEF Init, Types, Labels
<1>3. HoldersOwnMutex
  BY DEF Init, HoldersOwnMutex, Holding
<1>4. SleepersSawFalse /\ NoLostWakeup
  BY <1>1 DEF SleepersSawFalse, NoLostWakeup
<1>5. ReturnsWithinUnblocks
  BY <1>1 DEF Init, ReturnsWithinUnblocks
<1> QED BY <1>2, <1>3, <1>4, <1>5 DEF IInv

(* No step of block_this or unblock_other breaks the invariant. *)
LEMMA NextIInv == IInv /\ [Next]_vars => IInv'
<1> SUFFICES ASSUME IInv, [Next]_vars PROVE IInv'
  OBVIOUS
<1> USE NoThreadAssumption
    DEF IInv, Types, HoldersOwnMutex, SleepersSawFalse, NoLostWakeup,
        ReturnsWithinUnblocks, Holding, Labels, BlockLabels, Goto, Lock,
        Unlock, History
<1>1. CASE UNCHANGED vars
  BY <1>1 DEF vars
<1>2. ASSUME NEW t \in Threads, CallBlock(t) PROVE IInv'
  BY <1>2 DEF CallBlock
<1>3. ASSUME NEW t \in Threads, CallUnblock(t) PROVE IInv'
  BY <1>3 DEF CallUnblock
<1>4. ASSUME NEW t \in Threads, SpuriousWakeup(t) PROVE IInv'
  BY <1>4 DEF SpuriousWakeup
<1>5. ASSUME NEW t \in Threads, BlockLock(t) PROVE IInv'
  BY <1>5 DEF BlockLock
<1>6. ASSUME NEW t \in Threads, BlockTestFalse(t) PROVE IInv'
  BY <1>6 DEF BlockTestFalse
<1>7. ASSUME NEW t \in Threads, BlockSleep(t) PROVE IInv'
  BY <1>7 DEF BlockSleep
<1>8. ASSUME NEW t \in Threads, BlockRelock(t) PROVE IInv'
  BY <1>8 DEF BlockRelock
<1>9. ASSUME NEW t \in Threads, BlockTestTrue(t) PROVE IInv'
  <2>1. thread_should_continue /\ ~thread_should_continue'
    BY <1>9 DEF BlockTestTrue
  <2>2. ReturnsWithinUnblocks'
    <3>1. returned + 1 <= unblocked
      BY <2>1
    <3>2. returned' = returned + 1 /\ unblocked' = unblocked
      BY <1>9 DEF BlockTestTrue
    <3> QED BY <2>1, <3>1, <3>2
  <2>3. Types'
    <3>1. thread_should_continue' \in BOOLEAN
      BY <1>9 DEF BlockTestTrue
    <3>2. pc' \in [Threads -> Labels] /\ mutex' = mutex
      BY <1>9 DEF BlockTestTrue
    <3>3. unblocked' = unblocked /\ returned' = returned + 1
      BY <1>9 DEF BlockTestTrue
    <3> QED BY <3>1, <3>2, <3>3
  <2>4. HoldersOwnMutex' /\ SleepersSawFalse' /\ NoLostWakeup'
    BY <1>9, <2>1 DEF BlockTestTrue
  <2> QED BY <2>2, <2>3, <2>4
<1>10. ASSUME NEW t \in Threads, BlockUnlock(t) PROVE IInv'
  BY <1>10 DEF BlockUnlock
<1>11. ASSUME NEW t \in Threads, UnblockLock(t) PROVE IInv'
  BY <1>11 DEF UnblockLock
<1>12. ASSUME NEW t \in Threads, UnblockSet(t) PROVE IInv'
  BY <1>12 DEF UnblockSet
<1>13. ASSUME NEW t \in Threads, UnblockNotify(t) PROVE IInv'
  <2>1. ASSUME NEW w \in Threads, pc[w] = "block_wait", pc[t] = "unblock_notify",
               pc' = [pc EXCEPT ![t] = "idle", ![w] = "block_relock"]
        PROVE  IInv'
    <3>1. UNCHANGED <<thread_should_continue, mutex, unblocked, returned>>
      BY <1>13 DEF UnblockNotify
    <3>2. pc' = [s \in Threads |-> IF s = w THEN "block_relock"
                                   ELSE IF s = t THEN "idle" ELSE pc[s]]
      BY <2>1
    <3> QED BY <2>1, <3>1, <3>2
  <2>2. CASE \A w \in Threads : pc[w] # "block_wait"
    BY <1>13, <2>2 DEF UnblockNotify
  <2> QED BY <1>13, <2>1, <2>2 DEF UnblockNotify
<1> QED
  BY <1>1, <1>2, <1>3, <1>4, <1>5, <1>6, <1>7, <1>8, <1>9, <1>10, <1>11,
     <1>12, <1>13
  DEF Next, Progress

(* The invariant of the whole class, for any set of threads. *)
LEMMA Invariance == Spec => []IInv
BY InitIInv, NextIInv, PTL DEF Spec

(* Every variable keeps its type, and block_this never returns more often  *)
(* than unblock_other was called.                                          *)
THEOREM TypeCorrect == Spec => []TypeOK
<1>1. IInv => TypeOK
  BY DEF IInv, Types, ReturnsWithinUnblocks, TypeOK
<1> QED BY <1>1, Invariance, PTL

(* Whatever threads block, unblock and wake spuriously, no wake-up is lost *)
(* (thread_blocker.cpp:10-26).                                             *)
THEOREM WakeupsAreKept == Spec => []NoLostWakeup
BY Invariance, PTL DEF IInv

(* Each return of block_this has an unblock_other of its own               *)
(* (thread_blocker.cpp:13-14).                                             *)
THEOREM ReturnsAreEarned == Spec => []ReturnsWithinUnblocks
BY Invariance, PTL DEF IInv

-----------------------------------------------------------------------------

(* The threads inside block_this, as the contract sees them. *)
Blocked == {t \in Threads : pc[t] \in BlockLabels}

(* One step of the class is a step of the contract or none at all. *)
LEMMA StepRefines == IInv /\ [Next]_vars => [Contract!Next]_(Contract!vars)
<1> SUFFICES ASSUME IInv, [Next]_vars
             PROVE  Contract!Next \/ UNCHANGED <<thread_should_continue, Blocked>>
  BY DEF Contract!vars, Blocked
<1> DEFINE Unseen == UNCHANGED <<thread_should_continue, Blocked>>
<1> USE DEF IInv, Types, Goto, Labels, BlockLabels, History
<1>1. CASE UNCHANGED vars
  BY <1>1 DEF vars, Blocked
<1>2. ASSUME NEW t \in Threads, CallBlock(t) PROVE Contract!Enter(t)
  <2>1. Blocked' = Blocked \cup {t} /\ t \notin Blocked
    BY <1>2 DEF CallBlock, Blocked
  <2> QED BY <1>2, <2>1 DEF CallBlock, Contract!Enter, Blocked
<1>3. ASSUME NEW t \in Threads, BlockTestTrue(t) PROVE Contract!Return(t)
  <2>1. Blocked' = Blocked \ {t} /\ t \in Blocked
    BY <1>3 DEF BlockTestTrue, Blocked
  <2> QED BY <1>3, <2>1 DEF BlockTestTrue, Contract!Return, Blocked
<1>4. ASSUME NEW t \in Threads, UnblockSet(t) PROVE Contract!Unblock
  <2>1. Blocked' = Blocked
    BY <1>4 DEF UnblockSet, Blocked
  <2> QED BY <1>4, <2>1 DEF UnblockSet, Contract!Unblock, Blocked
<1>5. ASSUME NEW t \in Threads,
             CallUnblock(t) \/ SpuriousWakeup(t) \/ BlockLock(t)
               \/ BlockTestFalse(t) \/ BlockSleep(t) \/ BlockRelock(t)
               \/ BlockUnlock(t) \/ UnblockLock(t)
      PROVE  Unseen
  BY <1>5
     DEF CallUnblock, SpuriousWakeup, BlockLock, BlockTestFalse, BlockSleep,
         BlockRelock, BlockUnlock, UnblockLock, Blocked
<1>6. ASSUME NEW t \in Threads, UnblockNotify(t) PROVE Unseen
  <2>1. thread_should_continue' = thread_should_continue
    BY <1>6 DEF UnblockNotify
  <2>2. \A s \in Threads : pc'[s] \in BlockLabels <=> pc[s] \in BlockLabels
    BY <1>6 DEF UnblockNotify
  <2> QED BY <2>1, <2>2 DEF Blocked
<1> QED
  BY <1>1, <1>2, <1>3, <1>4, <1>5, <1>6 DEF Next, Progress, Contract!Next

(* The class implements the binary permit, for any number of threads and   *)
(* calls: block_this ends only by using up a permit, and only unblock_other*)
(* grants one.  (That a blocked call does end is liveness, and a run's.)   *)
THEOREM ImplementsPermit == Spec => Contract!SafetySpec
<1>1. Init => Contract!Init
  BY DEF Init, Contract!Init, BlockLabels
<1> QED BY <1>1, StepRefines, Invariance, PTL DEF Spec, Contract!SafetySpec
=============================================================================
