-------------------------- MODULE SemaphoreProofs --------------------------
(***************************************************************************)
(* Semaphore for any number of threads, any requests and any gifts:        *)
(*   - its type and safety invariants, and that nobody is overtaken;       *)
(*   - what the operators of SemaphoreOps compute: a sum over a finite set *)
(*     or over the first entries of a queue, and how many can be served;   *)
(*   - that the class is a FifoSemaphore, and that no unit is lost;        *)
(*   - that, one unit at a time, it is a UnitSemaphore, which is what      *)
(*     ObjectPool is built from.                                           *)
(***************************************************************************)
EXTENDS Semaphore, SequenceTheorems, FiniteSetTheorems, WellFoundedInduction, TLAPS

(* The thread inside a critical section, and only it, owns the mutex. *)
OwnerInside ==
  \A t \in Threads : pc[t] \in {"acquire", "give"} <=> mutex = t

AmountRequested ==
  \A t \in Threads : pc[t] = "acquire" => amount[t] \in Requests

(* The queue holds sleeping threads only, *)
QueuedAsleep ==
  \A i \in 1..Len(waiting_threads) :
    /\ pc[waiting_threads[i].thread] = "block"
    /\ ~thread_should_continue[waiting_threads[i].thread]

(* each of them once, *)
QueuedOnce ==
  \A i, j \in 1..Len(waiting_threads) :
    waiting_threads[i].thread = waiting_threads[j].thread => i = j

(* and all that have not been released. *)
SleepersKept ==
  \A t \in Threads :
    pc[t] = "block" /\ ~thread_should_continue[t] =>
      \E i \in 1..Len(waiting_threads) : waiting_threads[i].thread = t

IInv ==
  /\ TypeOK
  /\ OwnerInside
  /\ AmountRequested
  /\ QueuedAsleep
  /\ QueuedOnce
  /\ SleepersKept
  /\ NoServableHead

-----------------------------------------------------------------------------

(* A queue entry names a thread and asks for a number of units. *)
LEMMA EntryTypes ==
  ASSUME TypeOK, NEW i \in 1..Len(waiting_threads)
  PROVE  /\ waiting_threads[i].thread \in Threads
         /\ waiting_threads[i].resources_needed \in Requests
         /\ waiting_threads[i].resources_needed \in Nat
<1>1. waiting_threads[i] \in Entries(Threads, Requests)
  BY ElementOfSeq DEF TypeOK
<1> QED BY <1>1, UnitsAssumption DEF Entries

(* What attempt_unblock does to the queue: the first entry goes and the    *)
(* others move up.                                                         *)
LEMMA QueueTail ==
  ASSUME TypeOK, has_queued_threads
  PROVE  /\ Head(waiting_threads) = waiting_threads[1]
         /\ 1 \in 1..Len(waiting_threads)
         /\ Tail(waiting_threads) \in Seq(Entries(Threads, Requests))
         /\ Len(Tail(waiting_threads)) = Len(waiting_threads) - 1
         /\ \A i \in 1..Len(waiting_threads) - 1 :
              /\ Tail(waiting_threads)[i] = waiting_threads[i + 1]
              /\ i + 1 \in 1..Len(waiting_threads)
<1>1. waiting_threads \in Seq(Entries(Threads, Requests)) /\ waiting_threads # <<>>
  BY EmptySeq DEF TypeOK, has_queued_threads
<1>2. Len(waiting_threads) \in Nat /\ Len(waiting_threads) > 0
  BY <1>1, LenProperties DEF has_queued_threads
<1> QED BY <1>1, <1>2, HeadTailProperties

LEMMA InitIInv == Init => IInv
<1> SUFFICES ASSUME Init PROVE IInv
  OBVIOUS
<1>1. waiting_threads = <<>> /\ Len(waiting_threads) = 0
  BY DEF Init
<1>2. TypeOK
  <2>1. waiting_threads \in Seq(Entries(Threads, Requests))
    BY <1>1, EmptySeq
  <2> QED BY <2>1, UnitsAssumption DEF Init, TypeOK, Labels
<1>3. OwnerInside /\ AmountRequested /\ SleepersKept
  BY ThreadAssumption DEF Init, OwnerInside, AmountRequested, SleepersKept
<1>4. QueuedAsleep /\ QueuedOnce /\ NoServableHead
  BY <1>1
     DEF QueuedAsleep, QueuedOnce, NoServableHead, HeadServable, has_queued_threads
<1> QED BY <1>2, <1>3, <1>4 DEF IInv

-----------------------------------------------------------------------------

LEMMA AcquireLockIInv ==
  ASSUME IInv, NEW t \in Threads, NEW n \in Requests, AcquireLock(t, n)
  PROVE  IInv'
<1> USE DEF IInv, Goto, Lock, AcquireLock
<1>1. TypeOK'
  BY UnitsAssumption DEF TypeOK, Labels
<1>2. OwnerInside'
  BY ThreadAssumption DEF TypeOK, OwnerInside
<1>3. AmountRequested'
  BY DEF TypeOK, AmountRequested
<1>4. QueuedAsleep' /\ QueuedOnce' /\ SleepersKept'
  BY EntryTypes DEF TypeOK, QueuedAsleep, QueuedOnce, SleepersKept
<1>5. NoServableHead'
  BY DEF TypeOK, NoServableHead, HeadServable, has_queued_threads
<1> QED BY <1>1, <1>2, <1>3, <1>4, <1>5

LEMMA AcquireEnqueueIInv ==
  ASSUME IInv, NEW t \in Threads, AcquireEnqueue(t)
  PROVE  IInv'
<1> DEFINE entry == [thread |-> t, resources_needed |-> amount[t]]
           n     == Len(waiting_threads)
<1> USE DEF IInv, Goto, Unlock
<1>1. entry \in Entries(Threads, Requests)
  BY DEF AcquireEnqueue, AmountRequested, Entries
<1>2. /\ n \in Nat
      /\ waiting_threads' = Append(waiting_threads, entry)
      /\ waiting_threads' \in Seq(Entries(Threads, Requests))
      /\ Len(waiting_threads') = n + 1
      /\ \A i \in 1..n : waiting_threads'[i] = waiting_threads[i]
      /\ waiting_threads'[n + 1] = entry
  BY <1>1, AppendProperties, LenProperties DEF AcquireEnqueue, TypeOK
<1>3. /\ pc' = [pc EXCEPT ![t] = "block"] /\ pc[t] = "acquire"
      /\ thread_should_continue' = [thread_should_continue EXCEPT ![t] = FALSE]
  BY DEF AcquireEnqueue
<1>4. \A i \in 1..n : waiting_threads[i].thread \in Threads \ {t}
  BY <1>3, EntryTypes DEF QueuedAsleep
<1>5. TypeOK'
  BY <1>2, <1>3 DEF AcquireEnqueue, TypeOK, Labels
<1>6. OwnerInside' /\ AmountRequested'
  BY ThreadAssumption DEF AcquireEnqueue, TypeOK, OwnerInside, AmountRequested
<1>7. QueuedAsleep'
  <2> SUFFICES ASSUME NEW i \in 1..n + 1
               PROVE  /\ pc'[waiting_threads'[i].thread] = "block"
                      /\ ~thread_should_continue'[waiting_threads'[i].thread]
    BY <1>2 DEF QueuedAsleep
  <2>1. CASE i = n + 1
    BY <1>2, <1>3, <2>1 DEF TypeOK
  <2>2. CASE i \in 1..n
    BY <1>2, <1>3, <1>4, <2>2 DEF TypeOK, QueuedAsleep
  <2> QED BY <1>2, <2>1, <2>2
<1>8. QueuedOnce'
  BY <1>2, <1>4 DEF QueuedOnce
<1>9. SleepersKept'
  <2> SUFFICES ASSUME NEW s \in Threads, pc'[s] = "block",
                      ~thread_should_continue'[s]
               PROVE  \E i \in 1..n + 1 : waiting_threads'[i].thread = s
    BY <1>2 DEF SleepersKept
  <2>1. CASE s = t
    BY <1>2, <2>1
  <2>2. CASE s # t
    <3>1. PICK i \in 1..n : waiting_threads[i].thread = s
      BY <1>3, <2>2 DEF TypeOK, SleepersKept
    <3> QED BY <1>2, <3>1
  <2> QED BY <2>1, <2>2
<1>10. NoServableHead'
  <2>1. Head(waiting_threads') = waiting_threads'[1] /\ resources' = resources
    BY <1>2 DEF AcquireEnqueue
  <2>2. CASE n = 0
    <3>1. resources < amount[t] /\ amount[t] \in Nat /\ resources \in Nat
      <4>1. resources < amount[t]
        BY <2>2 DEF AcquireEnqueue, has_queued_threads
      <4>2. amount[t] \in Requests
        BY <1>3 DEF AmountRequested
      <4> QED BY <4>1, <4>2, UnitsAssumption DEF TypeOK
    <3>2. Head(waiting_threads').resources_needed = amount[t]
      BY <1>2, <2>1, <2>2
    <3> QED BY <2>1, <3>1, <3>2 DEF NoServableHead, HeadServable
  <2>3. CASE n > 0
    <3>1. waiting_threads'[1] = Head(waiting_threads)
      BY <1>2, <2>3, QueueTail DEF has_queued_threads
    <3>2. \A s \in Threads : pc[s] # "give"
      BY <1>3 DEF OwnerInside
    <3>3. ~HeadServable /\ has_queued_threads
      BY <2>3, <3>2 DEF NoServableHead, has_queued_threads
    <3> QED BY <2>1, <3>1, <3>3 DEF NoServableHead, HeadServable
  <2> QED BY <1>2, <2>2, <2>3
<1> QED BY <1>5, <1>6, <1>7, <1>8, <1>9, <1>10

LEMMA AcquireFastIInv ==
  ASSUME IInv, NEW t \in Threads, AcquireFast(t)
  PROVE  IInv'
<1> USE DEF IInv, Goto, Unlock, AcquireFast, TakeUnits
<1>1. amount[t] \in Nat /\ resources \in Nat
  BY UnitsAssumption DEF AmountRequested, TypeOK
<1>2. TypeOK'
  BY <1>1 DEF TypeOK, Labels
<1>3. OwnerInside' /\ AmountRequested'
  BY ThreadAssumption DEF TypeOK, OwnerInside, AmountRequested
<1>4. QueuedAsleep' /\ QueuedOnce' /\ SleepersKept'
  BY EntryTypes DEF TypeOK, QueuedAsleep, QueuedOnce, SleepersKept
<1>5. NoServableHead'
  BY DEF NoServableHead, HeadServable, has_queued_threads
<1> QED BY <1>2, <1>3, <1>4, <1>5

LEMMA AcquireReturnIInv ==
  ASSUME IInv, NEW t \in Threads, AcquireReturn(t)
  PROVE  IInv'
<1> USE DEF IInv, Goto
<1>1. /\ pc' = [pc EXCEPT ![t] = "idle"]
      /\ pc[t] \in {"acquire_return", "block"}
      /\ pc[t] = "block" => thread_should_continue[t]
      /\ thread_should_continue' = [thread_should_continue EXCEPT ![t] = FALSE]
      /\ UNCHANGED <<mutex, resources, waiting_threads, amount, given>>
  BY DEF AcquireReturn
<1>2. TypeOK'
  <2>1. amount[t] \in Nat
    <3>1. amount[t] \in Requests \/ amount[t] = 0
      BY DEF TypeOK
    <3>2. \A n \in Requests : n \in Nat
      BY UnitsAssumption
    <3> QED BY <3>1, <3>2
  <2>2. acquired' = acquired + amount[t]
    BY DEF AcquireReturn
  <2>3. acquired' \in Nat
    BY <2>1, <2>2 DEF TypeOK
  <2>4. pc' \in [Threads -> Labels]
    BY <1>1 DEF TypeOK, Labels
  <2>5. thread_should_continue' \in [Threads -> BOOLEAN]
    BY <1>1 DEF TypeOK
  <2> QED BY <1>1, <2>3, <2>4, <2>5 DEF TypeOK
<1>3. OwnerInside' /\ AmountRequested'
  BY <1>1, ThreadAssumption DEF TypeOK, OwnerInside, AmountRequested
<1>4. \A i \in 1..Len(waiting_threads) : waiting_threads[i].thread \in Threads \ {t}
  BY <1>1, EntryTypes DEF QueuedAsleep
<1>5. QueuedAsleep'
  BY <1>1, <1>4 DEF TypeOK, QueuedAsleep
<1>6. QueuedOnce' /\ SleepersKept'
  BY <1>1 DEF TypeOK, QueuedOnce, SleepersKept
<1>7. NoServableHead'
  BY <1>1 DEF TypeOK, NoServableHead, HeadServable, has_queued_threads
<1> QED BY <1>2, <1>3, <1>5, <1>6, <1>7

LEMMA GiveLockIInv ==
  ASSUME IInv, NEW t \in Threads, NEW n \in Gifts, GiveLock(t, n)
  PROVE  IInv'
<1> USE DEF IInv, Goto, Lock, GiveLock
<1>1. TypeOK'
  BY UnitsAssumption DEF TypeOK, Labels
<1>2. OwnerInside' /\ AmountRequested'
  BY ThreadAssumption DEF TypeOK, OwnerInside, AmountRequested
<1>3. QueuedAsleep' /\ QueuedOnce' /\ SleepersKept'
  BY EntryTypes DEF TypeOK, QueuedAsleep, QueuedOnce, SleepersKept
<1>4. NoServableHead'
  BY DEF TypeOK, NoServableHead
<1> QED BY <1>1, <1>2, <1>3, <1>4

LEMMA UnblockIInv ==
  ASSUME IInv, NEW t \in Threads, Unblock(t)
  PROVE  IInv'
<1> DEFINE first == waiting_threads[1].thread
           n     == Len(waiting_threads)
<1> USE DEF IInv, Unblock, Serve, HeadServable
<1>1. /\ n \in Nat /\ n > 0
      /\ Head(waiting_threads) = waiting_threads[1]
      /\ waiting_threads' \in Seq(Entries(Threads, Requests))
      /\ Len(waiting_threads') = n - 1
      /\ \A i \in 1..n - 1 : waiting_threads'[i] = waiting_threads[i + 1]
  BY QueueTail, LenProperties DEF TypeOK, has_queued_threads
<1>2. \A i \in 1..n : waiting_threads[i].thread \in Threads
  BY EntryTypes
<1>3. \A i \in 2..n : waiting_threads[i].thread # first
  BY <1>1 DEF QueuedOnce
<1>4. /\ pc' = pc /\ pc[t] = "give"
      /\ thread_should_continue' = [thread_should_continue EXCEPT ![first] = TRUE]
  BY <1>1
<1>5. TypeOK'
  <2>1. resources' \in Nat
    BY <1>1, EntryTypes DEF UnitsLeft, TypeOK
  <2> QED BY <1>1, <1>4, <2>1 DEF TypeOK
<1>6. OwnerInside' /\ AmountRequested'
  BY <1>4 DEF OwnerInside, AmountRequested
<1>7. QueuedAsleep'
  BY <1>1, <1>2, <1>3, <1>4 DEF TypeOK, QueuedAsleep
<1>8. QueuedOnce'
  BY <1>1 DEF QueuedOnce
<1>9. SleepersKept'
  <2> SUFFICES ASSUME NEW s \in Threads, pc[s] = "block",
                      ~thread_should_continue'[s]
               PROVE  \E i \in 1..n - 1 : waiting_threads'[i].thread = s
    BY <1>1, <1>4 DEF SleepersKept
  <2>1. s # first /\ ~thread_should_continue[s]
    BY <1>4 DEF TypeOK
  <2>2. PICK i \in 1..n : waiting_threads[i].thread = s
    BY <2>1 DEF SleepersKept
  <2>3. i - 1 \in 1..n - 1 /\ waiting_threads'[i - 1] = waiting_threads[i]
    BY <1>1, <2>1, <2>2
  <2> QED BY <2>2, <2>3
<1>10. NoServableHead'
  BY <1>4 DEF NoServableHead
<1> QED BY <1>5, <1>6, <1>7, <1>8, <1>9, <1>10

LEMMA GiveUnlockIInv ==
  ASSUME IInv, NEW t \in Threads, GiveUnlock(t)
  PROVE  IInv'
<1> USE DEF IInv, Goto, Unlock, GiveUnlock
<1>1. TypeOK'
  BY DEF TypeOK, Labels
<1>2. OwnerInside' /\ AmountRequested'
  BY ThreadAssumption DEF TypeOK, OwnerInside, AmountRequested
<1>3. QueuedAsleep' /\ QueuedOnce' /\ SleepersKept'
  BY EntryTypes DEF TypeOK, QueuedAsleep, QueuedOnce, SleepersKept
<1>4. NoServableHead'
  BY DEF NoServableHead, HeadServable, has_queued_threads
<1> QED BY <1>1, <1>2, <1>3, <1>4

LEMMA StutterIInv == IInv /\ UNCHANGED vars => IInv'
BY DEF IInv, vars, TypeOK, OwnerInside, AmountRequested, QueuedAsleep, QueuedOnce,
       SleepersKept, NoServableHead, HeadServable, has_queued_threads

(* The invariant of the whole class. *)
LEMMA Invariance == Spec => []IInv
<1>1. IInv /\ [Next]_vars => IInv'
  BY AcquireLockIInv, AcquireEnqueueIInv, AcquireFastIInv, AcquireReturnIInv,
     GiveLockIInv, UnblockIInv, GiveUnlockIInv, StutterIInv
  DEF Next, Progress
<1> QED BY InitIInv, <1>1, PTL DEF Spec

-----------------------------------------------------------------------------

(* The counter never becomes negative and every variable keeps its type.   *)
THEOREM TypeCorrect == Spec => []TypeOK
BY Invariance, PTL DEF IInv

(* Outside a give nobody waits for units that are there: every waiting     *)
(* thread that could be served has been (semaphore.cpp:27, 46-49).         *)
THEOREM NobodyServableWaits == Spec => []NoServableHead
BY Invariance, PTL DEF IInv

(* A sleeping thread is in the queue, once, until it is released, and then *)
(* is released for good (semaphore.cpp:28-32, 66-68).                      *)
THEOREM SleepersAccounted == Spec => []SleeperQueuedOrReleased
<1>1. IInv => SleeperQueuedOrReleased
  <2> SUFFICES ASSUME IInv PROVE SleeperQueuedOrReleased
    OBVIOUS
  <2>1. DOMAIN waiting_threads = 1..Len(waiting_threads)
    BY LenProperties DEF IInv, TypeOK
  <2> QED
    BY <2>1
    DEF IInv, TypeOK, QueuedAsleep, QueuedOnce, SleepersKept,
        SleeperQueuedOrReleased, Queued, ThreadsOf
<1> QED BY <1>1, Invariance, PTL

(* First come, first served, for every number of threads and every pattern *)
(* of requests: nobody is served past a thread still in the queue          *)
(* (semaphore.cpp:27, 63-66).                                              *)
THEOREM NobodyOvertakes == Spec => NoOvertaking
<1> DEFINE Fair ==
      \A t, u \in Threads :
        t \notin Granted /\ t \in Granted' => ~Before(u, t)
<1>1. IInv /\ [Next]_vars => Fair
  <2> SUFFICES ASSUME IInv, [Next]_vars, NEW t \in Threads, NEW u \in Threads,
                      t \notin Granted, t \in Granted', Before(u, t)
               PROVE  FALSE
    OBVIOUS
  <2>1. DOMAIN waiting_threads = 1..Len(waiting_threads) /\ Len(waiting_threads) \in Nat
    BY LenProperties DEF IInv, TypeOK
  <2>2. has_queued_threads /\ waiting_threads[1].thread # t
    BY <2>1 DEF Before, has_queued_threads
  <2> USE DEF IInv, TypeOK, Granted, Goto
  <2>3. ASSUME NEW s \in Threads, Unblock(s) PROVE FALSE
    BY <2>2, <2>3, QueueTail DEF Unblock, Serve
  <2>4. ASSUME NEW s \in Threads,
               \/ \E n \in Requests : AcquireLock(s, n)
               \/ \E n \in Gifts : GiveLock(s, n)
               \/ AcquireEnqueue(s) \/ AcquireReturn(s) \/ GiveUnlock(s)
        PROVE  FALSE
    BY <2>4 DEF AcquireLock, GiveLock, AcquireEnqueue, AcquireReturn, GiveUnlock
  <2>5. ASSUME NEW s \in Threads, AcquireFast(s) PROVE FALSE
    BY <2>2, <2>5 DEF AcquireFast
  <2>6. CASE UNCHANGED vars
    BY <2>6 DEF vars
  <2> QED BY <2>3, <2>4, <2>5, <2>6 DEF Next, Progress
<1>2. IInv /\ [Next]_vars => [Fair]_vars
  BY <1>1
<1> QED BY <1>2, Invariance, PTL DEF Spec, NoOvertaking

-----------------------------------------------------------------------------

(* Of finite sets, some are smallest. *)
LEMMA LeastSet ==
  ASSUME NEW S, IsFiniteSet(S), NEW B \in SUBSET SUBSET S, B # {}
  PROVE  \E T \in B : \A U \in B : U \subseteq T => U = T
<1>1. IsWellFoundedOn(StrictSubsetOrdering(S), FiniteSubsetsOf(S))
  BY FS_StrictSubsetOrderingWellFounded
<1>2. B \subseteq FiniteSubsetsOf(S)
  BY FS_FiniteSubsetsOfFinite
<1>3. PICK T \in B : \A U \in B : ~(<<U, T>> \in StrictSubsetOrdering(S))
  BY <1>1, <1>2, WFMin
<1> QED BY <1>3 DEF StrictSubsetOrdering

(* A nonempty set of numbers has a least one. *)
LEMMA LeastNatural ==
  ASSUME NEW T \in SUBSET Nat, T # {}
  PROVE  \E m \in T : \A k \in T : m <= k
<1>1. PICK m \in T : \A k \in T : ~(<<k, m>> \in OpToRel(<, Nat))
  <2>1. IsWellFoundedOn(OpToRel(<, Nat), Nat) /\ T \subseteq Nat
    BY NatLessThanWellFounded
  <2> QED BY <2>1, WFMin
<1>2. ASSUME NEW k \in T PROVE m <= k
  <2>1. <<k, m>> \in Nat \X Nat /\ k \in Nat /\ m \in Nat
    OBVIOUS
  <2>2. ~(k < m)
    BY <1>1, <2>1, Zenon DEF OpToRel
  <2> QED BY <2>1, <2>2
<1> QED BY <1>2

(* Induction, with a set for the property. *)
LEMMA NaturalInduction ==
  ASSUME NEW T \in SUBSET Nat, 0 \in T, \A n \in T : n + 1 \in T
  PROVE  T = Nat
<1> DEFINE Bad == Nat \ T
<1>1. SUFFICES ASSUME Bad # {} PROVE FALSE
  OBVIOUS
<1>2. PICK n \in Bad : \A k \in Bad : n <= k
  BY <1>1, LeastNatural
<1>3. n - 1 \in T
  BY <1>2
<1> QED BY <1>2, <1>3

-----------------------------------------------------------------------------

Picked(s) == CHOOSE x \in s : TRUE

(* The recursion of SumFunctionOnSet at one set, *)
SumStep(g, f, s) == IF s = {} THEN 0 ELSE f[Picked(s)] + g[s \ {Picked(s)}]

(* and at all subsets of one. *)
IsSum(g, f, S) == g = [s \in SUBSET S |-> SumStep(g, f, s)]

LEMMA PickedIn == ASSUME NEW s, s # {} PROVE Picked(s) \in s
BY DEF Picked

LEMMA SumUnfolded ==
  ASSUME NEW f, NEW S
  PROVE  SumFunctionOnSet(f, S) = (CHOOSE g : IsSum(g, f, S))[S]
BY DEF SumFunctionOnSet, FoldFunctionOnSet, MapThenFoldSet, IsSum, SumStep, Picked

LEMMA SumExists ==
  ASSUME NEW f, NEW S, IsFiniteSet(S)
  PROVE  \E g : IsSum(g, f, S)
<1> DEFINE Good(n) == \E g : \A s \in SUBSET S : Cardinality(s) <= n => g[s] = SumStep(g, f, s)
<1>1. \A s \in SUBSET S : IsFiniteSet(s) /\ Cardinality(s) \in Nat
  BY FS_Subset, FS_CardinalityType
<1>2. Good(0)
  <2>1. \A s \in SUBSET S : Cardinality(s) <= 0 => s = {}
    BY <1>1, FS_EmptySet
  <2>2. \A s \in SUBSET S : Cardinality(s) <= 0 =>
          [u \in SUBSET S |-> 0][s] = SumStep([u \in SUBSET S |-> 0], f, s)
    BY <2>1 DEF SumStep
  <2> QED BY <2>2
<1>3. ASSUME NEW n \in Nat, Good(n) PROVE Good(n + 1)
  <2>1. PICK g : \A s \in SUBSET S : Cardinality(s) <= n => g[s] = SumStep(g, f, s)
    BY <1>3
  <2> DEFINE h == [s \in SUBSET S |-> SumStep(g, f, s)]
  <2>2. ASSUME NEW s \in SUBSET S, Cardinality(s) <= n + 1
        PROVE  h[s] = SumStep(h, f, s)
    <3>1. CASE s = {}
      BY <3>1 DEF SumStep
    <3>2. CASE s # {}
      <4> DEFINE u == s \ {Picked(s)}
      <4>1. u \in SUBSET S /\ Cardinality(u) <= n
        BY <1>1, <2>2, <3>2, PickedIn, FS_RemoveElement
      <4>2. g[u] = h[u]
        BY <2>1, <4>1
      <4> HIDE DEF h
      <4>3. SumStep(g, f, s) = SumStep(h, f, s)
        BY <3>2, <4>2 DEF SumStep
      <4> QED BY <4>3 DEF h
    <3> QED BY <3>1, <3>2
  <2> QED BY <2>2
<1>4. Good(Cardinality(S))
  <2> HIDE DEF Good
  <2> DEFINE T == {n \in Nat : Good(n)}
  <2>1. T \in SUBSET Nat /\ 0 \in T /\ \A n \in T : n + 1 \in T
    BY <1>2, <1>3
  <2> HIDE DEF T
  <2>2. T = Nat
    BY <2>1, NaturalInduction
  <2> QED BY <1>1, <2>2 DEF T
<1>5. PICK g : \A s \in SUBSET S : Cardinality(s) <= Cardinality(S) => g[s] = SumStep(g, f, s)
  BY <1>4
<1>6. \A s \in SUBSET S : g[s] = SumStep(g, f, s)
  BY <1>5, FS_Subset
<1> DEFINE h == [s \in SUBSET S |-> g[s]]
<1>7. \A s \in SUBSET S : s \ {Picked(s)} \in SUBSET S
  OBVIOUS
<1>8. \A s \in SUBSET S : SumStep(h, f, s) = SumStep(g, f, s)
  BY <1>7 DEF SumStep
<1>9. h = [s \in SUBSET S |-> SumStep(h, f, s)]
  <2> HIDE DEF h
  <2>1. [s \in SUBSET S |-> SumStep(h, f, s)] = [s \in SUBSET S |-> g[s]]
    BY <1>6, <1>8
  <2> QED BY <2>1 DEF h
<1> QED BY <1>9 DEF IsSum

LEMMA SumUnique ==
  ASSUME NEW f, NEW S, NEW T, IsFiniteSet(S), IsFiniteSet(T), NEW g, NEW h,
         IsSum(g, f, S), IsSum(h, f, T), NEW s \in SUBSET (S \cap T)
  PROVE  g[s] = h[s]
<1> DEFINE B == {u \in SUBSET s : g[u] # h[u]}
<1>1. SUFFICES ASSUME B # {} PROVE FALSE
  OBVIOUS
<1>2. IsFiniteSet(s)
  BY FS_Subset
<1>3. PICK u \in B : \A v \in B : v \subseteq u => v = u
  <2>1. B \in SUBSET SUBSET s
    OBVIOUS
  <2> HIDE DEF B
  <2> QED BY <1>1, <1>2, <2>1, LeastSet
<1>4. u \in SUBSET S /\ u \in SUBSET T
  OBVIOUS
<1>5. g[u] = SumStep(g, f, u) /\ h[u] = SumStep(h, f, u)
  BY <1>4 DEF IsSum
<1>6. u # {}
  BY <1>5 DEF SumStep
<1>7. Picked(u) \in u /\ u \ {Picked(u)} \notin B
  BY <1>3, <1>6, PickedIn
<1>8. g[u \ {Picked(u)}] = h[u \ {Picked(u)}]
  BY <1>7
<1> QED BY <1>5, <1>6, <1>8 DEF SumStep

(* A sum is that of the rest and one of its members. *)
LEMMA SumRecursion ==
  ASSUME NEW f, NEW S, IsFiniteSet(S)
  PROVE  SumFunctionOnSet(f, S) =
           IF S = {} THEN 0
           ELSE f[Picked(S)] + SumFunctionOnSet(f, S \ {Picked(S)})
<1> DEFINE T == S \ {Picked(S)}
           g == CHOOSE g : IsSum(g, f, S)
           h == CHOOSE h : IsSum(h, f, T)
<1>1. IsFiniteSet(T)
  BY FS_RemoveElement
<1>2. IsSum(g, f, S) /\ IsSum(h, f, T)
  BY <1>1, SumExists
<1>3. SumFunctionOnSet(f, S) = g[S] /\ SumFunctionOnSet(f, T) = h[T]
  BY SumUnfolded
<1> HIDE DEF g, h
<1>4. g[T] = h[T]
  <2>1. T \in SUBSET (S \cap T)
    OBVIOUS
  <2> HIDE DEF T
  <2> QED BY <1>1, <1>2, <2>1, SumUnique
<1>5. S \in SUBSET S
  OBVIOUS
<1>6. g[S] = SumStep(g, f, S)
  BY <1>2, <1>5 DEF IsSum
<1> QED BY <1>3, <1>4, <1>6 DEF SumStep

LEMMA SumEmpty == ASSUME NEW f PROVE SumFunctionOnSet(f, {}) = 0
<1>1. IsFiniteSet({})
  BY FS_EmptySet
<1> QED BY <1>1, SumRecursion

LEMMA SumType ==
  ASSUME NEW f, NEW S, IsFiniteSet(S), \A x \in S : f[x] \in Nat
  PROVE  SumFunctionOnSet(f, S) \in Nat
<1> DEFINE Bad == {s \in SUBSET S : SumFunctionOnSet(f, s) \notin Nat}
<1>1. SUFFICES ASSUME Bad # {} PROVE FALSE
  OBVIOUS
<1>2. PICK s \in Bad : \A u \in Bad : u \subseteq s => u = s
  <2>1. Bad \in SUBSET SUBSET S
    OBVIOUS
  <2> HIDE DEF Bad
  <2> QED BY <1>1, <2>1, LeastSet
<1>3. IsFiniteSet(s)
  BY FS_Subset
<1>4. s # {}
  BY SumEmpty
<1>5. Picked(s) \in s /\ s \ {Picked(s)} \notin Bad
  BY <1>2, <1>4, PickedIn
<1>6. SumFunctionOnSet(f, s \ {Picked(s)}) \in Nat /\ f[Picked(s)] \in Nat
  BY <1>5
<1> QED BY <1>3, <1>4, <1>6, SumRecursion

(* Any member may be taken out first. *)
LEMMA SumRemove ==
  ASSUME NEW f, NEW S, IsFiniteSet(S), \A y \in S : f[y] \in Nat
  PROVE  \A x \in S : SumFunctionOnSet(f, S) = f[x] + SumFunctionOnSet(f, S \ {x})
<1> DEFINE Sum(s) == SumFunctionOnSet(f, s)
           Bad == {s \in SUBSET S : \E x \in s : Sum(s) # f[x] + Sum(s \ {x})}
<1>1. SUFFICES ASSUME Bad # {} PROVE FALSE
  OBVIOUS
<1>2. PICK s \in Bad : \A u \in Bad : u \subseteq s => u = s
  <2>1. Bad \in SUBSET SUBSET S
    OBVIOUS
  <2> HIDE DEF Bad
  <2> QED BY <1>1, <2>1, LeastSet
<1>3. PICK x \in s : Sum(s) # f[x] + Sum(s \ {x})
  OBVIOUS
<1> DEFINE y == Picked(s)
<1>4. \A u \in SUBSET S : IsFiniteSet(u) /\ Sum(u) \in Nat
  BY FS_Subset, SumType
<1>5. y \in s /\ Sum(s) = f[y] + Sum(s \ {y})
  BY <1>4, PickedIn, SumRecursion
<1>6. y # x
  BY <1>3, <1>5
<1>7. Sum(s \ {y}) = f[x] + Sum(s \ {x, y})
  <2>1. s \ {y} \in SUBSET S /\ s \ {y} \notin Bad /\ x \in s \ {y}
    BY <1>2, <1>5, <1>6
  <2>2. (s \ {y}) \ {x} = s \ {x, y}
    OBVIOUS
  <2> QED BY <2>1, <2>2
<1>8. Sum(s \ {x}) = f[y] + Sum(s \ {x, y})
  <2>1. s \ {x} \in SUBSET S /\ s \ {x} \notin Bad /\ y \in s \ {x}
    BY <1>2, <1>5, <1>6
  <2>2. (s \ {x}) \ {y} = s \ {x, y}
    OBVIOUS
  <2> QED BY <2>1, <2>2
<1>9. f[x] \in Nat /\ f[y] \in Nat /\ Sum(s \ {x, y}) \in Nat
  BY <1>4, <1>5
<1> HIDE DEF Sum, y
<1> QED BY <1>3, <1>5, <1>7, <1>8, <1>9

(* A sum depends on the values at its members only. *)
LEMMA SumSame ==
  ASSUME NEW f, NEW g, NEW S, IsFiniteSet(S), \A x \in S : f[x] = g[x]
  PROVE  SumFunctionOnSet(f, S) = SumFunctionOnSet(g, S)
<1> DEFINE Bad == {s \in SUBSET S : SumFunctionOnSet(f, s) # SumFunctionOnSet(g, s)}
<1>1. SUFFICES ASSUME Bad # {} PROVE FALSE
  OBVIOUS
<1>2. PICK s \in Bad : \A u \in Bad : u \subseteq s => u = s
  <2>1. Bad \in SUBSET SUBSET S
    OBVIOUS
  <2> HIDE DEF Bad
  <2> QED BY <1>1, <2>1, LeastSet
<1>3. IsFiniteSet(s)
  BY FS_Subset
<1>4. s # {}
  BY SumEmpty
<1>5. Picked(s) \in s /\ s \ {Picked(s)} \notin Bad
  BY <1>2, <1>4, PickedIn
<1>6. /\ f[Picked(s)] = g[Picked(s)]
      /\ SumFunctionOnSet(f, s \ {Picked(s)}) = SumFunctionOnSet(g, s \ {Picked(s)})
  BY <1>5
<1> QED BY <1>3, <1>4, <1>6, SumRecursion

-----------------------------------------------------------------------------
(* SumFunction, for functions whose domain is finite. *)

(* Any function that agrees with it on its domain has the same sum there. *)
LEMMA SumOfFunction ==
  ASSUME NEW S, IsFiniteSet(S), NEW f, DOMAIN f = S, NEW g, \A x \in S : f[x] = g[x]
  PROVE  SumFunction(f) = SumFunctionOnSet(g, S)
BY SumSame DEF SumFunction

-----------------------------------------------------------------------------

IsQueue(q) == q \in Seq(Entries(Threads, Requests))

LEMMA QueueTypes ==
  ASSUME NEW q, IsQueue(q)
  PROVE  /\ Len(q) \in Nat
         /\ \A i \in 1..Len(q) : /\ q[i].resources_needed \in Nat
                                 /\ q[i].thread \in Threads
<1>1. \A i \in 1..Len(q) : q[i] \in Entries(Threads, Requests)
  BY ElementOfSeq DEF IsQueue
<1> QED BY <1>1, LenProperties, UnitsAssumption DEF IsQueue, Entries

(* What entry i needs, as one function for all prefixes of the queue. *)
NeedOf(q) == [i \in 1..Len(q) |-> q[i].resources_needed]

LEMMA NeedIsSum ==
  ASSUME NEW q, IsQueue(q), NEW k \in 0..Len(q)
  PROVE  /\ IsFiniteSet(1..k)
         /\ NeedOfFirst(k, q) = SumFunctionOnSet(NeedOf(q), 1..k)
         /\ \A i \in 1..k : NeedOf(q)[i] = q[i].resources_needed /\ NeedOf(q)[i] \in Nat
<1> DEFINE f == [i \in 1..k |-> q[i].resources_needed]
<1>1. IsFiniteSet(1..k)
  BY QueueTypes, FS_Interval
<1>2. \A i \in 1..k : /\ f[i] = NeedOf(q)[i]
                       /\ NeedOf(q)[i] = q[i].resources_needed /\ NeedOf(q)[i] \in Nat
  BY QueueTypes DEF NeedOf
<1>3. DOMAIN f = 1..k
  OBVIOUS
<1>4. NeedOfFirst(k, q) = SumFunction(f)
  BY DEF NeedOfFirst
<1> HIDE DEF f
<1>5. SumFunction(f) = SumFunctionOnSet(NeedOf(q), 1..k)
  BY <1>1, <1>2, <1>3, SumOfFunction
<1> QED BY <1>1, <1>2, <1>4, <1>5

LEMMA NeedTypes ==
  ASSUME NEW q, IsQueue(q), NEW k \in 0..Len(q)
  PROVE  /\ NeedOfFirst(k, q) \in Nat
         /\ k = 0 => NeedOfFirst(k, q) = 0
<1>1. SumFunctionOnSet(NeedOf(q), 1..k) \in Nat
  BY NeedIsSum, SumType
<1>2. k = 0 => 1..k = {}
  OBVIOUS
<1> QED BY <1>1, <1>2, NeedIsSum, SumEmpty

LEMMA NeedNext ==
  ASSUME NEW q, IsQueue(q), NEW k \in Nat, k < Len(q)
  PROVE  NeedOfFirst(k + 1, q) = NeedOfFirst(k, q) + q[k + 1].resources_needed
<1>1. k \in 0..Len(q) /\ k + 1 \in 0..Len(q)
  BY QueueTypes
<1>2. PICK D : D = 1..k + 1
  OBVIOUS
<1>3. k + 1 \in D /\ D \ {k + 1} = 1..k
  BY <1>2
<1>4. /\ IsFiniteSet(D) /\ \A i \in D : NeedOf(q)[i] \in Nat
      /\ NeedOf(q)[k + 1] = q[k + 1].resources_needed
      /\ NeedOfFirst(k + 1, q) = SumFunctionOnSet(NeedOf(q), D)
  BY <1>1, <1>2, <1>3, NeedIsSum
<1>5. SumFunctionOnSet(NeedOf(q), D) =
        NeedOf(q)[k + 1] + SumFunctionOnSet(NeedOf(q), D \ {k + 1})
  BY <1>3, <1>4, SumRemove
<1>6. SumFunctionOnSet(NeedOf(q), D \ {k + 1}) = NeedOfFirst(k, q)
  BY <1>1, <1>3, NeedIsSum
<1>7. NeedOf(q)[k + 1] \in Nat /\ NeedOfFirst(k, q) \in Nat
  BY <1>1, <1>3, <1>4, NeedTypes
<1> QED BY <1>4, <1>5, <1>6, <1>7

LEMMA NeedTail ==
  ASSUME NEW q, IsQueue(q), q # <<>>
  PROVE  \A k \in 0..Len(q) - 1 :
           NeedOfFirst(k + 1, q) = q[1].resources_needed + NeedOfFirst(k, Tail(q))
<1> DEFINE Good == {k \in Nat : k < Len(q) =>
      NeedOfFirst(k + 1, q) = q[1].resources_needed + NeedOfFirst(k, Tail(q))}
<1>1. /\ IsQueue(Tail(q)) /\ Len(q) > 0 /\ Len(Tail(q)) = Len(q) - 1
      /\ \A i \in 1..Len(q) - 1 : Tail(q)[i] = q[i + 1]
  BY HeadTailProperties, EmptySeq DEF IsQueue
<1>2. 0 \in Good
  <2>1. NeedOfFirst(0 + 1, q) = NeedOfFirst(0, q) + q[0 + 1].resources_needed
    BY <1>1, NeedNext
  <2>2. NeedOfFirst(0, q) = 0 /\ NeedOfFirst(0, Tail(q)) = 0
    BY <1>1, NeedTypes, QueueTypes
  <2> QED BY <1>1, <2>1, <2>2, QueueTypes
<1>3. ASSUME NEW k \in Good PROVE k + 1 \in Good
  <2>1. SUFFICES ASSUME k + 1 < Len(q)
                 PROVE  NeedOfFirst(k + 1 + 1, q)
                          = q[1].resources_needed + NeedOfFirst(k + 1, Tail(q))
    OBVIOUS
  <2>2. k \in Nat /\ Len(q) \in Nat /\ k < Len(q) /\ k < Len(Tail(q))
    BY <1>1, <2>1, QueueTypes
  <2>3. NeedOfFirst(k + 1 + 1, q) = NeedOfFirst(k + 1, q) + q[k + 1 + 1].resources_needed
    BY <2>1, NeedNext
  <2>4. NeedOfFirst(k + 1, Tail(q)) = NeedOfFirst(k, Tail(q)) + Tail(q)[k + 1].resources_needed
    BY <1>1, <2>2, NeedNext
  <2>5. Tail(q)[k + 1] = q[k + 1 + 1]
    BY <1>1, <2>1, <2>2
  <2>6. NeedOfFirst(k + 1, q) = q[1].resources_needed + NeedOfFirst(k, Tail(q))
    BY <1>3, <2>2
  <2>7. /\ NeedOfFirst(k, Tail(q)) \in Nat /\ q[1].resources_needed \in Nat
        /\ q[k + 1 + 1].resources_needed \in Nat
    <3>1. k \in 0..Len(Tail(q)) /\ 1 \in 1..Len(q) /\ k + 1 + 1 \in 1..Len(q)
      BY <1>1, <2>1, <2>2
    <3> QED BY <1>1, <3>1, NeedTypes, QueueTypes
  <2> HIDE DEF Good
  <2> QED BY <2>2, <2>3, <2>4, <2>5, <2>6, <2>7
<1>4. Good = Nat
  <2>1. Good \in SUBSET Nat
    OBVIOUS
  <2> HIDE DEF Good
  <2> QED BY <1>2, <1>3, <2>1, NaturalInduction
<1> TAKE k \in 0..Len(q) - 1
<1>5. k \in Nat /\ k < Len(q)
  BY QueueTypes
<1>6. k \in Good
  BY <1>4, <1>5
<1> QED BY <1>5, <1>6

-----------------------------------------------------------------------------

LEMMA MaxProperty ==
  ASSUME NEW n \in Nat, NEW S \in SUBSET (0..n), S # {}
  PROVE  Max(S) \in S /\ \A k \in S : k <= Max(S)
<1> DEFINE B == {i \in 0..n : n - i \in S}
<1>1. B \in SUBSET Nat /\ B # {}
  <2>1. PICK k \in S : TRUE
    OBVIOUS
  <2>2. n - k \in 0..n /\ n - (n - k) = k
    OBVIOUS
  <2>3. n - k \in B
    BY <2>1, <2>2
  <2>4. \A i \in B : i \in Nat
    OBVIOUS
  <2> HIDE DEF B
  <2> QED BY <2>3, <2>4
<1>2. PICK i \in B : \A j \in B : i <= j
  <2> HIDE DEF B
  <2> QED BY <1>1, LeastNatural
<1>3. ASSUME NEW k \in S PROVE n - i >= k
  <2>1. k \in 0..n /\ n - k \in 0..n /\ n - (n - k) = k
    OBVIOUS
  <2>2. n - k \in B
    BY <2>1
  <2>3. i <= n - k /\ i \in 0..n
    BY <1>2, <2>2
  <2> QED BY <2>1, <2>3
<1>4. \E m \in S : \A k \in S : m >= k
  BY <1>2, <1>3
<1> QED BY <1>4 DEF Max

LEMMA ServedProperties ==
  ASSUME NEW q, IsQueue(q), NEW r \in Nat
  PROVE  /\ ServedCount(q, r) \in 0..Len(q)
         /\ NeedOfFirst(ServedCount(q, r), q) <= r
         /\ \A k \in 0..Len(q) : NeedOfFirst(k, q) <= r => k <= ServedCount(q, r)
<1> DEFINE S == {k \in 0..Len(q) : NeedOfFirst(k, q) <= r}
<1>1. Len(q) \in Nat /\ 0 \in S
  BY QueueTypes, NeedTypes
<1>2. Max(S) \in S /\ \A k \in S : k <= Max(S)
  <2>1. S \in SUBSET (0..Len(q)) /\ S # {}
    BY <1>1
  <2> HIDE DEF S
  <2> QED BY <1>1, <2>1, MaxProperty
<1>3. ServedCount(q, r) = Max(S)
  BY DEF ServedCount
<1> HIDE DEF S
<1>4. ServedCount(q, r) \in S /\ \A k \in S : k <= ServedCount(q, r)
  BY <1>2, <1>3
<1> QED BY <1>4 DEF S

LEMMA ServedNone ==
  ASSUME NEW q, IsQueue(q), NEW r \in Nat, Len(q) > 0 => q[1].resources_needed > r
  PROVE  ServedCount(q, r) = 0 /\ NeedOfFirst(ServedCount(q, r), q) = 0
<1> DEFINE m == ServedCount(q, r)
<1>1. m \in 0..Len(q) /\ NeedOfFirst(m, q) <= r /\ Len(q) \in Nat
  BY ServedProperties, QueueTypes
<1>2. ASSUME m > 0 PROVE FALSE
  <2>1. q # <<>> /\ m - 1 \in 0..Len(q) - 1 /\ Len(q) > 0
    BY <1>1, <1>2
  <2> HIDE DEF m
  <2>2. NeedOfFirst((m - 1) + 1, q) = q[1].resources_needed + NeedOfFirst(m - 1, Tail(q))
    BY <2>1, NeedTail
  <2>3. (m - 1) + 1 = m
    BY <1>1
  <2>4. IsQueue(Tail(q)) /\ Len(Tail(q)) = Len(q) - 1
    BY <2>1, HeadTailProperties DEF IsQueue
  <2>5. m - 1 \in 0..Len(Tail(q)) /\ 1 \in 1..Len(q)
    BY <1>1, <2>1, <2>4
  <2>6. NeedOfFirst(m - 1, Tail(q)) \in Nat
    BY <2>4, <2>5, NeedTypes
  <2>7. q[1].resources_needed \in Nat
    BY <2>5, QueueTypes
  <2> QED BY <1>1, <2>1, <2>2, <2>3, <2>6, <2>7
<1>3. m = 0
  BY <1>1, <1>2
<1> QED BY <1>1, <1>3, NeedTypes

LEMMA ServedTail ==
  ASSUME NEW q, IsQueue(q), q # <<>>, NEW r \in Nat, q[1].resources_needed <= r
  PROVE  /\ ServedCount(q, r) > 0
         /\ ServedCount(Tail(q), r - q[1].resources_needed) = ServedCount(q, r) - 1
         /\ NeedOfFirst(ServedCount(q, r), q) =
              q[1].resources_needed + NeedOfFirst(ServedCount(q, r) - 1, Tail(q))
<1> DEFINE h == q[1].resources_needed
           m == ServedCount(q, r)
           n == ServedCount(Tail(q), r - h)
<1>1. /\ IsQueue(Tail(q)) /\ Len(Tail(q)) = Len(q) - 1 /\ Len(q) \in Nat
      /\ 1 \in 1..Len(q) /\ h \in Nat /\ r - h \in Nat
  <2>1. IsQueue(Tail(q)) /\ Len(Tail(q)) = Len(q) - 1 /\ 1 \in 1..Len(q)
    BY HeadTailProperties, EmptySeq DEF IsQueue
  <2> QED BY <2>1, QueueTypes
<1>2. /\ m \in 0..Len(q) /\ NeedOfFirst(m, q) <= r
      /\ \A k \in 0..Len(q) : NeedOfFirst(k, q) <= r => k <= m
  BY ServedProperties
<1>3. /\ n \in 0..Len(q) - 1 /\ NeedOfFirst(n, Tail(q)) <= r - h
      /\ \A k \in 0..Len(q) - 1 : NeedOfFirst(k, Tail(q)) <= r - h => k <= n
  BY <1>1, ServedProperties
<1>4. \A k \in 0..Len(q) - 1 : /\ NeedOfFirst(k + 1, q) = h + NeedOfFirst(k, Tail(q))
                                /\ NeedOfFirst(k, Tail(q)) \in Nat
  BY <1>1, NeedTail, NeedTypes
<1> HIDE DEF h, m, n
<1>5. n + 1 <= m
  <2>1. n + 1 \in 0..Len(q) /\ NeedOfFirst(n + 1, q) <= r
    BY <1>1, <1>3, <1>4
  <2> QED BY <1>2, <2>1
<1>6. m - 1 <= n
  <2>1. m - 1 \in 0..Len(q) - 1 /\ (m - 1) + 1 = m
    BY <1>1, <1>2, <1>3, <1>5
  <2>2. NeedOfFirst(m, q) = h + NeedOfFirst(m - 1, Tail(q))
    BY <1>4, <2>1
  <2>3. NeedOfFirst(m - 1, Tail(q)) \in Nat
    BY <1>4, <2>1
  <2>4. NeedOfFirst(m - 1, Tail(q)) <= r - h
    BY <1>1, <1>2, <2>2, <2>3
  <2> QED BY <1>3, <2>1, <2>4
<1>7. n = m - 1 /\ m > 0 /\ m - 1 \in 0..Len(q) - 1 /\ (m - 1) + 1 = m
  BY <1>2, <1>3, <1>5, <1>6
<1>8. NeedOfFirst(m, q) = h + NeedOfFirst(m - 1, Tail(q))
  BY <1>4, <1>7
<1> QED BY <1>7, <1>8 DEF h, m, n

-----------------------------------------------------------------------------

LEMMA SameOperators ==
  /\ \A k, q : Fifo!NeedOfFirst(k, q) = NeedOfFirst(k, q)
  /\ \A q, r : Fifo!ServedCount(q, r) = ServedCount(q, r)
  /\ \A q : Fifo!ThreadsOf(q) = ThreadsOf(q)
<1>1. \A k, q : Fifo!NeedOfFirst(k, q) = NeedOfFirst(k, q)
  BY DEF Fifo!NeedOfFirst, NeedOfFirst, Fifo!SumFunction, SumFunction,
         Fifo!SumFunctionOnSet, SumFunctionOnSet, Fifo!FoldFunctionOnSet, FoldFunctionOnSet,
         Fifo!MapThenFoldSet, MapThenFoldSet
<1>2. \A q, r : Fifo!ServedCount(q, r) = ServedCount(q, r)
  BY <1>1 DEF Fifo!ServedCount, ServedCount, Fifo!Max, Max
<1>3. \A q : Fifo!ThreadsOf(q) = ThreadsOf(q)
  BY DEF Fifo!ThreadsOf, ThreadsOf
<1> QED BY <1>1, <1>2, <1>3

-----------------------------------------------------------------------------

(* If the first entry cannot be served, none is; *)
LEMMA NobodyServed ==
  ASSUME NEW q, IsQueue(q), NEW r \in Nat,
         ~(Len(q) > 0 /\ Head(q).resources_needed <= r)
  PROVE  /\ r - NeedOfFirst(ServedCount(q, r), q) = r
         /\ SubSeq(q, ServedCount(q, r) + 1, Len(q)) = q
<1>1. ServedCount(q, r) = 0 /\ NeedOfFirst(ServedCount(q, r), q) = 0
  <2>1. Len(q) > 0 => Head(q) = q[1] /\ q[1].resources_needed \in Nat
    BY QueueTypes
  <2>2. Len(q) > 0 => q[1].resources_needed > r
    BY <2>1
  <2> QED BY <2>2, ServedNone
<1>2. SubSeq(q, 1, Len(q)) = q
  BY SubSeqFull DEF IsQueue
<1> QED BY <1>1, <1>2

(* if it can, serving it first changes nothing: the same entries remain,   *)
(* and the same units.                                                     *)
LEMMA FirstServed ==
  ASSUME NEW q, IsQueue(q), q # <<>>, NEW r \in Nat, q[1].resources_needed <= r
  PROVE  LET rest == Tail(q)
             left == r - q[1].resources_needed
         IN  /\ r - NeedOfFirst(ServedCount(q, r), q)
                  = left - NeedOfFirst(ServedCount(rest, left), rest)
             /\ SubSeq(q, ServedCount(q, r) + 1, Len(q))
                  = SubSeq(rest, ServedCount(rest, left) + 1, Len(rest))
<1> DEFINE rest == Tail(q)
           h    == q[1].resources_needed
           left == r - h
           m    == ServedCount(q, r)
           n    == Len(q)
<1>1. /\ IsQueue(rest) /\ Len(rest) = n - 1 /\ n \in Nat /\ h \in Nat
      /\ \A i \in 1..n - 1 : rest[i] = q[i + 1]
  <2>1. /\ IsQueue(rest) /\ Len(rest) = n - 1 /\ 1 \in 1..n
        /\ \A i \in 1..n - 1 : rest[i] = q[i + 1]
    BY HeadTailProperties, EmptySeq DEF IsQueue
  <2> QED BY <2>1, QueueTypes
<1>2. /\ m > 0 /\ ServedCount(rest, left) = m - 1
      /\ NeedOfFirst(m, q) = h + NeedOfFirst(m - 1, rest)
  BY ServedTail
<1>3. m \in 1..n /\ m - 1 \in 0..Len(rest)
  <2>1. m \in 0..n
    BY ServedProperties
  <2> HIDE DEF m, n, rest
  <2> QED BY <1>1, <1>2, <2>1
<1>4. NeedOfFirst(m - 1, rest) \in Nat
  BY <1>1, <1>3, NeedTypes
<1> HIDE DEF rest, h, m, n
<1>5. r - NeedOfFirst(m, q) = left - NeedOfFirst(m - 1, rest)
  BY <1>1, <1>2, <1>4
<1>6. SubSeq(q, m + 1, n) = SubSeq(rest, m, n - 1)
  <2>1. rest = SubSeq(q, 2, n)
    BY TailIsSubSeq DEF IsQueue, rest, n
  <2>2. CASE m = n
    <3>1. m + 1 \in Int /\ n \in Int /\ n - 1 \in Int /\ n < m + 1 /\ n - 1 < m
      BY <1>1, <2>2
    <3> QED BY <2>2, <3>1, SubSeqEmpty
  <2>3. CASE m < n
    <3>1. /\ 2 \in 1..n /\ n \in 1..n
          /\ m \in 1..n - 2 + 1 /\ n - 1 \in 1..n - 2 + 1
          /\ 2 + m - 1 = m + 1 /\ 2 + (n - 1) - 1 = n
      BY <1>1, <1>3, <2>3
    <3>2. SubSeq(SubSeq(q, 2, n), m, n - 1) = SubSeq(q, 2 + m - 1, 2 + (n - 1) - 1)
      BY <3>1, SubSeqOfSubSeq DEF IsQueue, n
    <3> QED BY <2>1, <3>1, <3>2
  <2> QED BY <1>1, <1>3, <2>2, <2>3
<1>7. Len(rest) = n - 1 /\ (m - 1) + 1 = m
  BY <1>1, <1>3
<1>8. /\ r - NeedOfFirst(m, q) = left - NeedOfFirst(ServedCount(rest, left), rest)
      /\ SubSeq(q, m + 1, n) = SubSeq(rest, ServedCount(rest, left) + 1, Len(rest))
  BY <1>2, <1>5, <1>6, <1>7
<1> QED BY <1>8 DEF rest, h, m, n

-----------------------------------------------------------------------------

Available == resources - NeedOfFirst(ToServe, waiting_threads)
Waiting   == SubSeq(waiting_threads, ToServe + 1, Len(waiting_threads))
Inside    == {t \in Threads : pc[t] \in {"block", "acquire_return"}}

(* While nobody gives, nobody is going to be served. *)
LEMMA OutsideGive ==
  ASSUME TypeOK, ~HeadServable
  PROVE  Available = resources /\ Waiting = waiting_threads
<1>1. PICK q, r : q = waiting_threads /\ r = resources
  OBVIOUS
<1>2. IsQueue(q) /\ r \in Nat /\ ~(Len(q) > 0 /\ Head(q).resources_needed <= r)
  BY <1>1 DEF IsQueue, TypeOK, HeadServable, has_queued_threads
<1>3. /\ r - NeedOfFirst(ServedCount(q, r), q) = r
      /\ SubSeq(q, ServedCount(q, r) + 1, Len(q)) = q
  BY <1>2, NobodyServed
<1> QED BY <1>1, <1>3 DEF Available, Waiting, ToServe

LEMMA OutsideGiveNext ==
  ASSUME TypeOK', ~HeadServable'
  PROVE  Available' = resources' /\ Waiting' = waiting_threads'
<1>1. PICK q, r : q = waiting_threads' /\ r = resources'
  OBVIOUS
<1>2. IsQueue(q) /\ r \in Nat /\ ~(Len(q) > 0 /\ Head(q).resources_needed <= r)
  BY <1>1 DEF IsQueue, TypeOK, HeadServable, has_queued_threads
<1>3. /\ r - NeedOfFirst(ServedCount(q, r), q) = r
      /\ SubSeq(q, ServedCount(q, r) + 1, Len(q)) = q
  BY <1>2, NobodyServed
<1> QED BY <1>1, <1>3 DEF Available, Waiting, ToServe

LEMMA FifoInit == Init => Fifo!Init
<1> SUFFICES ASSUME Init PROVE Fifo!Init
  OBVIOUS
<1>1. TypeOK /\ ~HeadServable
  BY InitIInv DEF IInv, Init, HeadServable, has_queued_threads
<1>2. Available = Initial /\ Waiting = <<>> /\ Inside = {}
  BY <1>1, OutsideGive DEF Init, Inside
<1> QED BY <1>2 DEF Fifo!Init, Available, Waiting, Inside

LEMMA LockedOutsideGive ==
  ASSUME IInv, NEW t \in Threads, pc[t] # "give", mutex \in {t, NoThread}
  PROVE  Available = resources /\ Waiting = waiting_threads
<1>1. \A u \in Threads : pc[u] # "give"
  BY ThreadAssumption DEF IInv, OwnerInside
<1> QED BY <1>1, OutsideGive DEF IInv, NoServableHead

LEMMA FifoAcquireLock ==
  ASSUME IInv, NEW t \in Threads, NEW n \in Requests, AcquireLock(t, n)
  PROVE  UNCHANGED <<Available, Waiting, Inside>>
BY DEF IInv, TypeOK, AcquireLock, Goto, Available, Waiting, ToServe, Inside

LEMMA FifoGiveUnlock ==
  ASSUME IInv, NEW t \in Threads, GiveUnlock(t)
  PROVE  UNCHANGED <<Available, Waiting, Inside>>
BY DEF IInv, TypeOK, GiveUnlock, Goto, Available, Waiting, ToServe, Inside

LEMMA FifoStutter ==
  ASSUME UNCHANGED vars
  PROVE  UNCHANGED <<Available, Waiting, Inside>>
BY DEF vars, Available, Waiting, ToServe, Inside

(* The call is granted or queued when it has the mutex, not when it locks. *)
LEMMA FifoAcquireFast ==
  ASSUME IInv, NEW t \in Threads, AcquireFast(t), NEW n, n = amount[t]
  PROVE  Fifo!AcquireAtOnce(t, n)
<1>1. pc[t] = "acquire" /\ mutex = t
  BY DEF AcquireFast, TakeUnits, Goto, Unlock
<1>2. Available = resources /\ Waiting = waiting_threads
  BY <1>1, LockedOutsideGive
<1>3. waiting_threads = <<>>
  <2>1. waiting_threads \in Seq(Entries(Threads, Requests)) /\ ~(Len(waiting_threads) > 0)
    BY DEF IInv, TypeOK, AcquireFast, has_queued_threads
  <2> QED BY <2>1, EmptySeq
<1>4. /\ pc'[t] = "acquire_return" /\ mutex' = NoThread
      /\ pc' = [pc EXCEPT ![t] = "acquire_return"]
      /\ resources' = resources - amount[t] /\ amount[t] <= resources
      /\ waiting_threads' = waiting_threads
  BY DEF IInv, TypeOK, AcquireFast, TakeUnits, Goto, Unlock
<1>5. IInv'
  BY AcquireFastIInv
<1>6. Available' = resources' /\ Waiting' = waiting_threads'
  <2>1. ~HeadServable'
    BY <1>3, <1>4 DEF HeadServable, has_queued_threads
  <2> QED BY <1>5, <2>1, OutsideGiveNext DEF IInv
<1>7. t \notin Inside /\ Inside' = Inside \cup {t}
  BY <1>1, <1>4 DEF IInv, TypeOK, Inside
<1> QED BY <1>2, <1>3, <1>4, <1>6, <1>7
        DEF Fifo!AcquireAtOnce, Available, Waiting, Inside

LEMMA FifoAcquireEnqueue ==
  ASSUME IInv, NEW t \in Threads, AcquireEnqueue(t), NEW n, n = amount[t]
  PROVE  Fifo!AcquireLater(t, n)
<1>1. pc[t] = "acquire" /\ mutex = t
  BY DEF AcquireEnqueue, Goto, Unlock
<1>2. Available = resources /\ Waiting = waiting_threads
  BY <1>1, LockedOutsideGive
<1>3. /\ pc' = [pc EXCEPT ![t] = "block"] /\ mutex' = NoThread
      /\ waiting_threads' =
           Append(waiting_threads, [thread |-> t, resources_needed |-> amount[t]])
      /\ resources' = resources
  BY DEF AcquireEnqueue, Goto, Unlock
<1>4. IInv' /\ pc'[t] # "give"
  BY <1>3, AcquireEnqueueIInv DEF IInv, TypeOK
<1>5. Available' = resources' /\ Waiting' = waiting_threads'
  <2>1. \A u \in Threads : pc'[u] # "give"
    BY <1>3, <1>4, ThreadAssumption DEF IInv, OwnerInside
  <2>2. ~HeadServable'
    BY <1>4, <2>1 DEF IInv, NoServableHead
  <2> QED BY <1>4, <2>2, OutsideGiveNext DEF IInv
<1>6. waiting_threads # <<>> \/ amount[t] > resources
  <2>1. waiting_threads = <<>> => ~has_queued_threads
    BY DEF has_queued_threads
  <2>2. amount[t] \in Nat /\ resources \in Nat
    BY <1>1, UnitsAssumption DEF IInv, AmountRequested, TypeOK
  <2> QED BY <2>1, <2>2 DEF AcquireEnqueue
<1>7. t \notin Inside /\ Inside' = Inside \cup {t}
  BY <1>1, <1>3 DEF IInv, TypeOK, Inside
<1> QED BY <1>2, <1>3, <1>5, <1>6, <1>7
        DEF Fifo!AcquireLater, Available, Waiting, Inside

LEMMA FifoGiveLock ==
  ASSUME IInv, NEW t \in Threads, NEW n \in Gifts, GiveLock(t, n)
  PROVE  Fifo!Give(n)
<1>1. pc[t] = "idle" /\ mutex = NoThread
  BY DEF GiveLock, Goto, Lock
<1>2. Available = resources /\ Waiting = waiting_threads
  BY <1>1, LockedOutsideGive
<1>3. waiting_threads' = waiting_threads /\ resources' = resources + n
  BY DEF GiveLock
<1>4. Inside' = Inside
  BY DEF IInv, TypeOK, GiveLock, Goto, Inside
<1>5. PICK q, r : q = waiting_threads /\ r = resources + n
  OBVIOUS
<1>6. /\ Available' = r - NeedOfFirst(ServedCount(q, r), q)
      /\ Waiting' = SubSeq(q, ServedCount(q, r) + 1, Len(q))
  BY <1>3, <1>5 DEF Available, Waiting, ToServe
<1>7. Available + n = r /\ Waiting = q
  BY <1>2, <1>5
<1>8. PICK m : m = Fifo!ServedCount(q, r)
  OBVIOUS
<1>9. m = ServedCount(q, r) /\ Fifo!NeedOfFirst(m, q) = NeedOfFirst(m, q)
  BY <1>8, SameOperators
<1>10. Available' = r - Fifo!NeedOfFirst(m, q) /\ Waiting' = SubSeq(q, m + 1, Len(q))
  BY <1>6, <1>9
<1>11. PICK a, w : a = Available /\ w = Waiting
  OBVIOUS
<1>12. a + n = r /\ w = q
  BY <1>7, <1>11
<1>13. /\ Available' = (a + n) - Fifo!NeedOfFirst(Fifo!ServedCount(w, a + n), w)
       /\ Waiting' = SubSeq(w, Fifo!ServedCount(w, a + n) + 1, Len(w))
  BY <1>8, <1>10, <1>12, Zenon
<1>14. UNCHANGED {u \in Threads : pc[u] \in {"block", "acquire_return"}}
  BY <1>4 DEF Inside
<1> QED BY <1>11, <1>13, <1>14, Zenon DEF Fifo!Give, Available, Waiting

LEMMA FifoUnblock ==
  ASSUME IInv, NEW t \in Threads, Unblock(t)
  PROVE  UNCHANGED <<Available, Waiting, Inside>>
<1>1. PICK q, r : q = waiting_threads /\ r = resources
  OBVIOUS
<1>2. /\ IsQueue(q) /\ r \in Nat /\ q # <<>>
      /\ Head(q) = q[1] /\ q[1].resources_needed <= r
      /\ waiting_threads' = Tail(q) /\ resources' = r - q[1].resources_needed
  BY <1>1, QueueTail, EmptySeq
     DEF IInv, TypeOK, IsQueue, Unblock, Serve, UnitsLeft, HeadServable, has_queued_threads
<1>3. Available' = Available /\ Waiting' = Waiting
  BY <1>1, <1>2, FirstServed DEF Available, Waiting, ToServe
<1>4. Inside' = Inside
  BY DEF Unblock, Serve, Inside
<1> QED BY <1>3, <1>4

LEMMA FifoAcquireReturn ==
  ASSUME IInv, NEW t \in Threads, AcquireReturn(t)
  PROVE  Fifo!Return(t)
<1>1. /\ pc' = [pc EXCEPT ![t] = "idle"]
      /\ pc[t] \in {"acquire_return", "block"}
      /\ pc[t] = "block" => thread_should_continue[t]
      /\ UNCHANGED <<resources, waiting_threads>>
  BY DEF AcquireReturn, Goto
<1>2. Available' = Available /\ Waiting' = Waiting
  BY <1>1 DEF Available, Waiting, ToServe
<1>3. t \in Inside /\ Inside' = Inside \ {t}
  BY <1>1 DEF IInv, TypeOK, Inside
<1>4. t \notin ThreadsOf(Waiting)
  <2>1. /\ ToServe \in 0..Len(waiting_threads) /\ Len(waiting_threads) \in Nat
        /\ waiting_threads \in Seq(Entries(Threads, Requests))
    <3>1. PICK q, r : q = waiting_threads /\ r = resources
      OBVIOUS
    <3>2. IsQueue(q) /\ r \in Nat
      BY <3>1 DEF IInv, TypeOK, IsQueue
    <3> QED BY <3>1, <3>2, ServedProperties, QueueTypes DEF ToServe, IsQueue
  <2> DEFINE m == ToServe
             n == Len(waiting_threads)
  <2> HIDE DEF m
  <2>2. \A i \in 1..n : waiting_threads[i] \in Entries(Threads, Requests)
    BY <2>1, ElementOfSeq
  <2>3. m \in 0..n /\ n \in Nat
    BY <2>1 DEF m
  <2> HIDE DEF n
  <2>4. /\ Waiting \in Seq(Entries(Threads, Requests))
        /\ Len(Waiting) = n - m
        /\ \A i \in 1..n - m : Waiting[i] = waiting_threads[m + i]
    <3>1. \A i \in m + 1..n : waiting_threads[i] \in Entries(Threads, Requests)
      BY <2>2, <2>3 DEF n
    <3>2. m + 1 \in Int /\ n \in Int
      BY <2>3
    <3>3. PICK q : q = waiting_threads
      OBVIOUS
    <3>4. Waiting = SubSeq(q, m + 1, n)
      BY <3>3 DEF Waiting, m, n
    <3>5. PICK a \in Int, b \in Int : a = m + 1 /\ b = n
      BY <3>2
    <3>6. /\ SubSeq(q, a, b) \in Seq(Entries(Threads, Requests))
          /\ Len(SubSeq(q, a, b)) = IF a <= b THEN b - a + 1 ELSE 0
          /\ \A i \in 1..b - a + 1 : SubSeq(q, a, b)[i] = q[a + i - 1]
      BY <3>1, <3>3, <3>5, SubSeqProperties
    <3>7. \A i \in 1..n - m : (m + 1) + i - 1 = m + i
      BY <2>3
    <3> QED BY <2>3, <3>3, <3>4, <3>5, <3>6, <3>7
  <2>5. SUFFICES ASSUME NEW i \in DOMAIN Waiting, Waiting[i].thread = t PROVE FALSE
    BY DEF ThreadsOf
  <2>6. i \in 1..n - m
    BY <2>4, <2>5, LenProperties
  <2>7. m + i \in 1..n /\ waiting_threads[m + i].thread = t
    BY <2>3, <2>4, <2>5, <2>6
  <2> QED BY <1>1, <2>7 DEF IInv, QueuedAsleep, n
<1> QED BY <1>2, <1>3, <1>4, SameOperators
        DEF Fifo!Return, Available, Waiting, Inside

(* Every step of the class is a step of FifoSemaphore or changes nothing   *)
(* that its callers can see.                                               *)
THEOREM ImplementsFifoSafety == Spec => Fifo!Spec
<1>1. IInv /\ [Next]_vars => [Fifo!Next]_(Fifo!vars)
  <2> SUFFICES ASSUME IInv, [Next]_vars PROVE [Fifo!Next]_(Fifo!vars)
    OBVIOUS
  <2>1. UNCHANGED <<Available, Waiting, Inside>> => UNCHANGED Fifo!vars
    BY DEF Fifo!vars, Available, Waiting, Inside
  <2>2. ASSUME NEW t \in Threads, NEW n \in Requests, AcquireLock(t, n)
        PROVE  UNCHANGED Fifo!vars
    BY <2>1, <2>2, FifoAcquireLock
  <2>3. ASSUME NEW t \in Threads, NEW n \in Gifts, GiveLock(t, n)
        PROVE  Fifo!Next
    BY <2>3, FifoGiveLock DEF Fifo!Next
  <2>4. ASSUME NEW t \in Threads, AcquireEnqueue(t) \/ AcquireFast(t)
        PROVE  Fifo!Next
    <3>1. PICK n \in Requests : n = amount[t]
      BY <2>4 DEF IInv, AmountRequested, AcquireEnqueue, AcquireFast, TakeUnits, Goto
    <3>2. Fifo!AcquireAtOnce(t, n) \/ Fifo!AcquireLater(t, n)
      BY <2>4, <3>1, FifoAcquireEnqueue, FifoAcquireFast
    <3> QED BY <3>2 DEF Fifo!Next
  <2>5. ASSUME NEW t \in Threads, AcquireReturn(t)
        PROVE  Fifo!Next
    BY <2>5, FifoAcquireReturn DEF Fifo!Next
  <2>6. ASSUME NEW t \in Threads, Unblock(t) \/ GiveUnlock(t)
        PROVE  UNCHANGED Fifo!vars
    BY <2>1, <2>6, FifoUnblock, FifoGiveUnlock
  <2>7. CASE UNCHANGED vars
    BY <2>1, <2>7, FifoStutter
  <2> QED BY <2>2, <2>3, <2>4, <2>5, <2>6, <2>7 DEF Next, Progress
<1> QED BY FifoInit, <1>1, Invariance, PTL DEF Spec, Fifo!Spec

-----------------------------------------------------------------------------

LEMMA SumAdd ==
  ASSUME NEW f, NEW S, IsFiniteSet(S), NEW x, x \notin S, NEW T, T = S \cup {x},
         \A y \in T : f[y] \in Nat
  PROVE  /\ IsFiniteSet(T)
         /\ SumFunctionOnSet(f, T) = f[x] + SumFunctionOnSet(f, S)
<1>1. IsFiniteSet(T)
  BY FS_AddElement
<1>2. T \ {x} = S /\ x \in T
  OBVIOUS
<1> QED BY <1>1, <1>2, SumRemove

(* The units of the threads in Granted. *)
Held == SumFunctionOnSet(amount, Granted)

(* A queued thread waits for what it asked for. *)
QueuedAmount ==
  \A i \in 1..Len(waiting_threads) :
    amount[waiting_threads[i].thread] = waiting_threads[i].resources_needed

UnitsKept ==
  /\ IsFiniteSet(Granted)
  /\ QueuedAmount
  /\ Initial + given = resources + acquired + Held

LEMMA AmountTypes == ASSUME TypeOK PROVE \A t \in Threads : amount[t] \in Nat
<1> TAKE t \in Threads
<1>1. amount[t] \in Requests \/ amount[t] = 0
  BY DEF TypeOK
<1>2. \A n \in Requests : n \in Nat
  BY UnitsAssumption
<1> QED BY <1>1, <1>2

LEMMA HeldType ==
  ASSUME TypeOK, IsFiniteSet(Granted)
  PROVE  Held \in Nat
<1>1. PICK f, S : f = amount /\ S = Granted
  OBVIOUS
<1>2. IsFiniteSet(S) /\ \A t \in S : f[t] \in Nat
  BY <1>1, AmountTypes DEF Granted
<1> QED BY <1>1, <1>2, SumType DEF Held

LEMMA SameHeld ==
  ASSUME IsFiniteSet(Granted), Granted' = Granted,
         \A t \in Granted : amount'[t] = amount[t]
  PROVE  IsFiniteSet(Granted') /\ Held' = Held
<1>1. PICK f, g, S : f = amount /\ g = amount' /\ S = Granted
  OBVIOUS
<1>2. SumFunctionOnSet(f, S) = SumFunctionOnSet(g, S)
  BY <1>1, SumSame
<1> QED BY <1>1, <1>2 DEF Held

LEMMA HeldGrows ==
  ASSUME TypeOK, IsFiniteSet(Granted), NEW t \in Threads, t \notin Granted,
         Granted' = Granted \cup {t}, amount' = amount
  PROVE  IsFiniteSet(Granted') /\ Held' = amount[t] + Held
<1>1. PICK f, S, T : f = amount /\ S = Granted /\ T = Granted'
  OBVIOUS
<1>2. \A u \in T : f[u] \in Nat
  BY <1>1, AmountTypes DEF Granted
<1>3. IsFiniteSet(T) /\ SumFunctionOnSet(f, T) = f[t] + SumFunctionOnSet(f, S)
  BY <1>1, <1>2, SumAdd
<1> QED BY <1>1, <1>3 DEF Held

LEMMA HeldShrinks ==
  ASSUME TypeOK, IsFiniteSet(Granted), NEW t \in Granted,
         Granted' = Granted \ {t}, amount' = amount
  PROVE  IsFiniteSet(Granted') /\ Held = amount[t] + Held'
<1>1. PICK f, S, T : f = amount /\ S = Granted' /\ T = Granted
  OBVIOUS
<1>2. (\A u \in T : f[u] \in Nat) /\ IsFiniteSet(S)
  BY <1>1, AmountTypes, FS_Subset DEF Granted
<1>3. SumFunctionOnSet(f, T) = f[t] + SumFunctionOnSet(f, S)
  BY <1>1, <1>2, SumAdd
<1> QED BY <1>1, <1>2, <1>3 DEF Held

LEMMA InitUnitsKept == Init => UnitsKept
<1> SUFFICES ASSUME Init PROVE UnitsKept
  OBVIOUS
<1>1. Granted = {} /\ Len(waiting_threads) = 0
  BY DEF Init, Granted
<1>2. IsFiniteSet(Granted) /\ QueuedAmount
  BY <1>1, FS_EmptySet DEF QueuedAmount
<1>3. Held = 0
  <2>1. PICK f : f = amount
    OBVIOUS
  <2>2. SumFunctionOnSet(f, {}) = 0
    BY SumEmpty
  <2> QED BY <1>1, <2>1, <2>2 DEF Held
<1> QED BY <1>2, <1>3, UnitsAssumption DEF UnitsKept, Init

LEMMA AcquireLockUnits ==
  ASSUME IInv, UnitsKept, NEW t \in Threads, NEW n \in Requests, AcquireLock(t, n)
  PROVE  UnitsKept'
<1> USE DEF IInv, UnitsKept
<1>1. /\ pc[t] = "idle" /\ pc' = [pc EXCEPT ![t] = "acquire"]
      /\ amount' = [amount EXCEPT ![t] = n]
      /\ UNCHANGED <<resources, waiting_threads, thread_should_continue, given, acquired>>
  BY DEF AcquireLock, Goto
<1>2. Granted' = Granted /\ t \notin Granted
  BY <1>1 DEF TypeOK, Granted
<1>3. IsFiniteSet(Granted') /\ Held' = Held
  BY <1>1, <1>2, SameHeld DEF TypeOK, Granted
<1>4. QueuedAmount'
  BY <1>1, EntryTypes DEF TypeOK, QueuedAsleep, QueuedAmount
<1> QED BY <1>1, <1>3, <1>4

LEMMA AcquireEnqueueUnits ==
  ASSUME IInv, UnitsKept, NEW t \in Threads, AcquireEnqueue(t)
  PROVE  UnitsKept'
<1> USE DEF IInv, UnitsKept
<1>1. /\ pc[t] = "acquire" /\ pc' = [pc EXCEPT ![t] = "block"]
      /\ thread_should_continue' = [thread_should_continue EXCEPT ![t] = FALSE]
      /\ UNCHANGED <<resources, amount, given, acquired>>
  BY DEF AcquireEnqueue, Goto
<1>2. Granted' = Granted
  BY <1>1 DEF TypeOK, Granted
<1>3. IsFiniteSet(Granted') /\ Held' = Held
  BY <1>1, <1>2, SameHeld
<1>4. QueuedAmount'
  <2> DEFINE entry == [thread |-> t, resources_needed |-> amount[t]]
             n     == Len(waiting_threads)
  <2>1. entry \in Entries(Threads, Requests)
    BY <1>1 DEF AmountRequested, Entries
  <2>2. /\ n \in Nat
        /\ Len(waiting_threads') = n + 1
        /\ \A i \in 1..n : waiting_threads'[i] = waiting_threads[i]
        /\ waiting_threads'[n + 1] = entry
    BY <2>1, AppendProperties, LenProperties DEF AcquireEnqueue, TypeOK
  <2> QED BY <1>1, <2>2 DEF QueuedAmount
<1> QED BY <1>1, <1>3, <1>4

LEMMA AcquireFastUnits ==
  ASSUME IInv, UnitsKept, NEW t \in Threads, AcquireFast(t)
  PROVE  UnitsKept'
<1> USE DEF IInv, UnitsKept
<1>1. /\ pc[t] = "acquire" /\ pc' = [pc EXCEPT ![t] = "acquire_return"]
      /\ resources' = resources - amount[t]
      /\ UNCHANGED <<waiting_threads, thread_should_continue, amount, given, acquired>>
  BY DEF AcquireFast, TakeUnits, Goto
<1>2. Granted' = Granted \cup {t} /\ t \notin Granted
  BY <1>1 DEF TypeOK, Granted
<1>3. IsFiniteSet(Granted') /\ Held' = amount[t] + Held
  BY <1>1, <1>2, HeldGrows
<1>4. QueuedAmount'
  BY <1>1 DEF QueuedAmount
<1>5. amount[t] \in Nat /\ Held \in Nat
  BY AmountTypes, HeldType
<1>6. /\ Initial \in Nat /\ resources \in Nat /\ acquired \in Nat /\ given \in Nat
      /\ Initial + given = resources + acquired + Held
  BY UnitsAssumption DEF TypeOK
<1> HIDE DEF IInv, UnitsKept
<1>7. Initial + given' = resources' + acquired' + Held'
  BY <1>1, <1>3, <1>5, <1>6
<1> QED BY <1>3, <1>4, <1>7 DEF UnitsKept

LEMMA AcquireReturnUnits ==
  ASSUME IInv, UnitsKept, NEW t \in Threads, AcquireReturn(t)
  PROVE  UnitsKept'
<1> USE DEF IInv, UnitsKept
<1>1. /\ pc' = [pc EXCEPT ![t] = "idle"]
      /\ pc[t] \in {"acquire_return", "block"}
      /\ pc[t] = "block" => thread_should_continue[t]
      /\ thread_should_continue' = [thread_should_continue EXCEPT ![t] = FALSE]
      /\ acquired' = acquired + amount[t]
      /\ UNCHANGED <<resources, waiting_threads, amount, given>>
  BY DEF AcquireReturn, Goto
<1>2. Granted' = Granted \ {t} /\ t \in Granted
  BY <1>1 DEF TypeOK, Granted
<1>3. IsFiniteSet(Granted') /\ Held = amount[t] + Held'
  BY <1>1, <1>2, HeldShrinks
<1>4. QueuedAmount'
  BY <1>1 DEF QueuedAmount
<1>5. amount[t] \in Nat /\ Held' \in Nat
  <2>1. TypeOK'
    BY AcquireReturnIInv
  <2>2. PICK f, S : f = amount' /\ S = Granted'
    OBVIOUS
  <2>3. IsFiniteSet(S) /\ \A u \in S : f[u] \in Nat
    BY <1>1, <1>2, <1>3, <2>2, AmountTypes DEF Granted
  <2> QED BY <2>2, <2>3, AmountTypes, SumType DEF Held
<1>6. /\ Initial \in Nat /\ resources \in Nat /\ acquired \in Nat /\ given \in Nat
      /\ Initial + given = resources + acquired + Held
  BY UnitsAssumption DEF TypeOK
<1> HIDE DEF IInv, UnitsKept
<1>7. Initial + given' = resources' + acquired' + Held'
  BY <1>1, <1>3, <1>5, <1>6
<1> QED BY <1>3, <1>4, <1>7 DEF UnitsKept

LEMMA GiveLockUnits ==
  ASSUME IInv, UnitsKept, NEW t \in Threads, NEW n \in Gifts, GiveLock(t, n)
  PROVE  UnitsKept'
<1> USE DEF IInv, UnitsKept
<1>1. /\ pc[t] = "idle" /\ pc' = [pc EXCEPT ![t] = "give"]
      /\ resources' = resources + n /\ given' = given + n
      /\ UNCHANGED <<waiting_threads, thread_should_continue, amount, acquired>>
  BY DEF GiveLock, Goto
<1>2. Granted' = Granted
  BY <1>1 DEF TypeOK, Granted
<1>3. IsFiniteSet(Granted') /\ Held' = Held
  BY <1>1, <1>2, SameHeld
<1>4. QueuedAmount'
  BY <1>1 DEF QueuedAmount
<1>5. n \in Nat /\ Held \in Nat
  BY UnitsAssumption, HeldType
<1>6. /\ Initial \in Nat /\ resources \in Nat /\ acquired \in Nat /\ given \in Nat
      /\ Initial + given = resources + acquired + Held
  BY UnitsAssumption DEF TypeOK
<1> HIDE DEF IInv, UnitsKept
<1>7. Initial + given' = resources' + acquired' + Held'
  BY <1>1, <1>3, <1>5, <1>6
<1> QED BY <1>3, <1>4, <1>7 DEF UnitsKept

LEMMA UnblockUnits ==
  ASSUME IInv, UnitsKept, NEW t \in Threads, Unblock(t)
  PROVE  UnitsKept'
<1> DEFINE first == waiting_threads[1].thread
           n     == Len(waiting_threads)
<1> USE DEF IInv, UnitsKept
<1>1. /\ n \in Nat /\ 1 \in 1..n /\ first \in Threads
      /\ Head(waiting_threads) = waiting_threads[1]
      /\ Len(waiting_threads') = n - 1
      /\ \A i \in 1..n - 1 : /\ i + 1 \in 1..n
                              /\ waiting_threads'[i] = waiting_threads[i + 1]
  BY QueueTail, LenProperties, EntryTypes DEF TypeOK, Unblock, Serve, HeadServable
<1>2. /\ thread_should_continue' = [thread_should_continue EXCEPT ![first] = TRUE]
      /\ resources' = resources - amount[first]
      /\ UNCHANGED <<pc, amount, given, acquired>>
  BY <1>1 DEF Unblock, Serve, UnitsLeft, QueuedAmount
<1>3. Granted' = Granted \cup {first} /\ first \notin Granted
  BY <1>1, <1>2 DEF TypeOK, QueuedAsleep, Granted
<1>4. IsFiniteSet(Granted') /\ Held' = amount[first] + Held
  BY <1>1, <1>2, <1>3, HeldGrows
<1>5. QueuedAmount'
  BY <1>1, <1>2 DEF QueuedAmount
<1>6. amount[first] \in Nat /\ Held \in Nat
  BY <1>1, AmountTypes, HeldType
<1>7. /\ Initial \in Nat /\ resources \in Nat /\ acquired \in Nat /\ given \in Nat
      /\ Initial + given = resources + acquired + Held
  BY UnitsAssumption DEF TypeOK
<1> HIDE DEF first, n, IInv, UnitsKept
<1>8. Initial + given' = resources' + acquired' + Held'
  BY <1>2, <1>4, <1>6, <1>7
<1> QED BY <1>4, <1>5, <1>8 DEF UnitsKept

LEMMA GiveUnlockUnits ==
  ASSUME IInv, UnitsKept, NEW t \in Threads, GiveUnlock(t)
  PROVE  UnitsKept'
<1> USE DEF IInv, UnitsKept
<1>1. /\ pc[t] = "give" /\ pc' = [pc EXCEPT ![t] = "idle"]
      /\ UNCHANGED <<resources, waiting_threads, thread_should_continue, amount,
                     given, acquired>>
  BY DEF GiveUnlock, Goto
<1>2. Granted' = Granted
  BY <1>1 DEF TypeOK, Granted
<1> QED BY <1>1, <1>2, SameHeld DEF QueuedAmount

LEMMA StutterUnits ==
  ASSUME UnitsKept, UNCHANGED vars
  PROVE  UnitsKept'
BY DEF UnitsKept, vars, Granted, Held, QueuedAmount

(* No unit is lost or made up, however many threads call and whatever they *)
(* ask for and give (semaphore.cpp:35, 43, 67).                            *)
THEOREM UnitsConserved == Spec => []Conservation
<1>1. IInv /\ UnitsKept /\ [Next]_vars => UnitsKept'
  BY AcquireLockUnits, AcquireEnqueueUnits, AcquireFastUnits, AcquireReturnUnits,
     GiveLockUnits, UnblockUnits, GiveUnlockUnits, StutterUnits
  DEF Next, Progress
<1>2. UnitsKept => Conservation
  <2> SUFFICES ASSUME UnitsKept PROVE Conservation
    OBVIOUS
  <2>1. PICK f, g, S : f = [t \in Granted |-> amount[t]] /\ g = amount /\ S = Granted
    OBVIOUS
  <2>2. SumFunction(f) = SumFunctionOnSet(g, S)
    BY <2>1, SumOfFunction DEF UnitsKept
  <2> QED BY <2>1, <2>2 DEF UnitsKept, Conservation, Held
<1> QED BY InitUnitsKept, <1>1, <1>2, Invariance, PTL DEF Spec

-----------------------------------------------------------------------------

OneUnitAtATime == Requests = {1} /\ Gifts = {1}

(* The thread that the give in progress is going to release, or none: seen *)
(* from outside, it is released when give locks the mutex.                 *)
ToRelease ==
  IF resources < Len(waiting_threads) THEN resources ELSE Len(waiting_threads)

(* The threads of a queue, without the first k. *)
LineOf(queue, k) == [i \in 1..Len(queue) - k |-> queue[i + k].thread]

Line == LineOf(waiting_threads, ToRelease)

Asleep == {t \in Threads : pc[t] = "block"}

Unit == INSTANCE UnitSemaphore WITH
  available <- resources - ToRelease,
  waiting   <- Line,
  inside    <- Asleep

-----------------------------------------------------------------------------

(* The threads of a queue make a sequence. *)
LEMMA LineIsSeq ==
  ASSUME NEW S, NEW N, NEW queue \in Seq(Entries(S, N)), NEW k \in 0..Len(queue)
  PROVE  /\ LineOf(queue, k) \in Seq(S)
         /\ Len(LineOf(queue, k)) = Len(queue) - k
         /\ \A i \in 1..Len(queue) - k : LineOf(queue, k)[i] = queue[i + k].thread
<1> DEFINE n == Len(queue) - k
<1>1. n \in Nat /\ k \in Nat
  BY LenProperties
<1>2. \A i \in 1..n : i + k \in 1..Len(queue)
  BY <1>1
<1>3. \A i \in 1..n : queue[i + k].thread \in S
  <2>1. \A j \in 1..Len(queue) : queue[j] \in Entries(S, N)
    BY ElementOfSeq
  <2>2. \A i \in 1..n : queue[i + k] \in Entries(S, N)
    BY <1>2, <2>1
  <2> QED BY <2>2 DEF Entries
<1>4. LineOf(queue, k) \in [1..n -> S]
  BY <1>3 DEF LineOf
<1>5. LineOf(queue, k) \in Seq(S)
  BY <1>1, <1>4, SeqDef
<1>6. DOMAIN LineOf(queue, k) = 1..n
  BY <1>4
<1>7. Len(LineOf(queue, k)) = n
  BY <1>1, <1>5, <1>6, LenProperties
<1> QED BY <1>5, <1>7 DEF LineOf

(* Every entry asks for one unit, and a give releases no more threads than *)
(* there are, with no more units than there are.                           *)
LEMMA UnitTypes ==
  ASSUME OneUnitAtATime, IInv
  PROVE  /\ Len(waiting_threads) \in Nat
         /\ resources \in Nat
         /\ ToRelease \in 0..Len(waiting_threads)
         /\ resources - ToRelease \in Nat
         /\ \A i \in 1..Len(waiting_threads) :
              /\ waiting_threads[i].resources_needed = 1
              /\ waiting_threads[i].thread \in Threads
<1>1. Len(waiting_threads) \in Nat /\ resources \in Nat
  BY LenProperties DEF IInv, TypeOK
<1>2. \A i \in 1..Len(waiting_threads) :
        /\ waiting_threads[i].resources_needed \in Requests
        /\ waiting_threads[i].thread \in Threads
  BY EntryTypes DEF IInv
<1>3. ToRelease \in 0..Len(waiting_threads) /\ resources - ToRelease \in Nat
  BY <1>1 DEF ToRelease
<1> QED BY <1>1, <1>2, <1>3 DEF OneUnitAtATime

(* Outside a give nobody is about to be released, and there are units only *)
(* if nobody waits.                                                        *)
LEMMA NothingToRelease ==
  ASSUME OneUnitAtATime, IInv, \A t \in Threads : pc[t] # "give"
  PROVE  /\ ToRelease = 0
         /\ Len(waiting_threads) = 0 \/ resources = 0
<1>1. CASE Len(waiting_threads) = 0
  BY <1>1, UnitTypes DEF ToRelease
<1>2. CASE Len(waiting_threads) # 0
  <2>1. has_queued_threads
    BY <1>2, UnitTypes DEF has_queued_threads
  <2>2. Head(waiting_threads) = waiting_threads[1] /\ 1 \in 1..Len(waiting_threads)
    BY <2>1, QueueTail DEF IInv
  <2>3. Head(waiting_threads).resources_needed = 1
    BY <2>2, UnitTypes
  <2>4. ~(1 <= resources)
    BY <2>1, <2>3 DEF IInv, NoServableHead, HeadServable
  <2> QED BY <1>2, <2>4, UnitTypes DEF ToRelease
<1> QED BY <1>1, <1>2

(* The line, as a sequence of threads. *)
LEMMA LineTypes ==
  ASSUME OneUnitAtATime, IInv
  PROVE  /\ Line \in Seq(Threads)
         /\ Len(Line) = Len(waiting_threads) - ToRelease
         /\ \A i \in 1..Len(Line) : Line[i] = waiting_threads[i + ToRelease].thread
         /\ Line = <<>> <=> Len(Line) = 0
<1>1. /\ Line \in Seq(Threads)
      /\ Len(Line) = Len(waiting_threads) - ToRelease
      /\ \A i \in 1..Len(waiting_threads) - ToRelease :
           Line[i] = waiting_threads[i + ToRelease].thread
  <2>1. waiting_threads \in Seq(Entries(Threads, Requests))
    BY DEF IInv, TypeOK
  <2>2. ToRelease \in 0..Len(waiting_threads)
    BY UnitTypes
  <2> QED BY <2>1, <2>2, LineIsSeq DEF Line
<1>2. Line = <<>> <=> Len(Line) = 0
  BY <1>1, EmptySeq
<1> QED BY <1>1, <1>2

-----------------------------------------------------------------------------

LEMMA InitUnit == ASSUME Init PROVE Unit!Init
<1>1. /\ Len(waiting_threads) = 0
      /\ waiting_threads \in Seq(Entries(Threads, Requests))
  BY EmptySeq DEF Init
<1>2. ToRelease = 0 /\ resources - ToRelease = Initial
  BY <1>1, UnitsAssumption DEF Init, ToRelease
<1>3. Line = <<>>
  <2>1. ToRelease \in 0..Len(waiting_threads)
    BY <1>1, <1>2
  <2>2. Line \in Seq(Threads) /\ Len(Line) = Len(waiting_threads) - ToRelease
    <3>1. /\ LineOf(waiting_threads, ToRelease) \in Seq(Threads)
          /\ Len(LineOf(waiting_threads, ToRelease)) = Len(waiting_threads) - ToRelease
      <4>1. waiting_threads \in Seq(Entries(Threads, Requests))
        BY <1>1
      <4> QED BY <2>1, <4>1, LineIsSeq
    <3> QED BY <3>1 DEF Line
  <2>3. Len(Line) = 0
    BY <1>1, <1>2, <2>2
  <2> QED BY <2>2, <2>3, EmptySeq
<1>4. Asleep = {}
  BY DEF Init, Asleep
<1> QED BY <1>2, <1>3, <1>4 DEF Unit!Init

(* acquire joins the line: there is no unit then, or somebody waits. *)
LEMMA EnqueueUnit ==
  ASSUME OneUnitAtATime, IInv, NEW t \in Threads, AcquireEnqueue(t)
  PROVE  Unit!AcquireLater(t)
<1> DEFINE entry == [thread |-> t, resources_needed |-> amount[t]]
           n     == Len(waiting_threads)
<1>1. pc[t] = "acquire" /\ pc' = [pc EXCEPT ![t] = "block"] /\ pc \in [Threads -> Labels]
  BY DEF AcquireEnqueue, Goto, IInv, TypeOK
<1>2. ToRelease = 0 /\ (n = 0 \/ resources = 0) /\ n \in Nat /\ resources \in Nat
  BY <1>1, NothingToRelease, UnitTypes DEF IInv, OwnerInside
<1>3. resources = 0 /\ resources' = 0
  BY <1>1, <1>2
  DEF AcquireEnqueue, has_queued_threads, IInv, AmountRequested, OneUnitAtATime
<1>4. entry \in Entries(Threads, Requests)
  BY <1>1 DEF IInv, AmountRequested, Entries
<1>5. /\ Len(waiting_threads') = n + 1
      /\ \A i \in 1..n : waiting_threads'[i] = waiting_threads[i]
      /\ waiting_threads'[n + 1] = entry
      /\ waiting_threads' \in Seq(Entries(Threads, Requests))
  BY <1>4, AppendProperties DEF AcquireEnqueue, IInv, TypeOK
<1>6. ToRelease' = 0
  BY <1>2, <1>3, <1>5 DEF ToRelease
<1>7. 0 \in 0..Len(waiting_threads')
  BY <1>2, <1>5
<1>8. /\ Line' \in Seq(Threads)
      /\ Len(Line') = n + 1
      /\ \A i \in 1..n + 1 : Line'[i] = waiting_threads'[i].thread
  <2>1. Line' = LineOf(waiting_threads', 0)
    BY <1>6 DEF Line
  <2>2. /\ LineOf(waiting_threads', 0) \in Seq(Threads)
        /\ Len(LineOf(waiting_threads', 0)) = n + 1 - 0
        /\ \A i \in 1..n + 1 - 0 :
             LineOf(waiting_threads', 0)[i] = waiting_threads'[i + 0].thread
    BY <1>5, <1>7, LineIsSeq
  <2> QED BY <1>2, <2>1, <2>2
<1>9. /\ Append(Line, t) \in Seq(Threads)
      /\ Len(Append(Line, t)) = n + 1
      /\ \A i \in 1..n : Append(Line, t)[i] = waiting_threads[i].thread
      /\ Append(Line, t)[n + 1] = t
  BY <1>2, LineTypes, AppendProperties
<1>10. Line' = Append(Line, t)
  <2>1. \A i \in 1..n + 1 : Line'[i] = Append(Line, t)[i]
    BY <1>2, <1>5, <1>8, <1>9
  <2> QED BY <1>8, <1>9, <2>1, SeqEqual
<1>11. t \notin Asleep /\ Asleep' = Asleep \cup {t}
  BY <1>1 DEF Asleep
<1> QED BY <1>2, <1>3, <1>6, <1>10, <1>11 DEF Unit!AcquireLater

(* acquire takes a unit: nobody waits. *)
LEMMA FastUnit ==
  ASSUME OneUnitAtATime, IInv, NEW t \in Threads, AcquireFast(t)
  PROVE  Unit!AcquireAtOnce(t)
<1>1. /\ pc[t] = "acquire" /\ pc' = [pc EXCEPT ![t] = "acquire_return"]
      /\ pc \in [Threads -> Labels] /\ waiting_threads' = waiting_threads
      /\ resources' = resources - amount[t] /\ resources >= amount[t]
  BY DEF AcquireFast, TakeUnits, Goto, IInv, TypeOK
<1>2. amount[t] = 1
  BY <1>1 DEF IInv, AmountRequested, OneUnitAtATime
<1>3. Len(waiting_threads) = 0 /\ resources \in Nat
  BY UnitTypes DEF AcquireFast, has_queued_threads
<1>4. ToRelease = 0 /\ ToRelease' = 0
  BY <1>1, <1>2, <1>3 DEF ToRelease
<1>5. Line = <<>> /\ Line' = Line
  BY <1>1, <1>3, <1>4, LineTypes DEF Line
<1>6. t \notin Asleep /\ Asleep' = Asleep
  BY <1>1 DEF Asleep
<1> QED BY <1>1, <1>2, <1>3, <1>4, <1>5, <1>6 DEF Unit!AcquireAtOnce

(* give, as it locks the mutex, adds the unit or releases the next thread. *)
LEMMA GiveUnit ==
  ASSUME OneUnitAtATime, IInv, NEW t \in Threads, NEW n \in Gifts, GiveLock(t, n)
  PROVE  Unit!Give
<1>1. /\ mutex = NoThread /\ pc[t] = "idle" /\ pc' = [pc EXCEPT ![t] = "give"]
      /\ pc \in [Threads -> Labels] /\ waiting_threads' = waiting_threads
      /\ resources' = resources + 1
  BY DEF GiveLock, Lock, Goto, IInv, TypeOK, OneUnitAtATime
<1>2. \A s \in Threads : pc[s] # "give"
  BY <1>1, ThreadAssumption DEF IInv, OwnerInside
<1>3. /\ ToRelease = 0 /\ (Len(waiting_threads) = 0 \/ resources = 0)
      /\ Len(waiting_threads) \in Nat /\ resources \in Nat
  BY <1>2, NothingToRelease, UnitTypes
<1>4. Asleep' = Asleep
  BY <1>1 DEF Asleep
<1>5. CASE Len(waiting_threads) = 0
  <2>1. ToRelease' = 0
    BY <1>1, <1>3, <1>5 DEF ToRelease
  <2>2. Line = <<>>
    BY <1>3, <1>5, LineTypes
  <2>3. Line' = Line
    BY <1>1, <1>3, <2>1 DEF Line
  <2> QED BY <1>1, <1>3, <1>4, <2>1, <2>2, <2>3 DEF Unit!Give, Unit!AddUnit
<1>6. CASE Len(waiting_threads) > 0
  <2>1. resources = 0 /\ ToRelease' = 1
    <3>1. resources = 0 /\ resources' = 1 /\ Len(waiting_threads) >= 1
      BY <1>1, <1>3, <1>6
    <3>2. Len(waiting_threads') = Len(waiting_threads)
      BY <1>1
    <3> QED BY <1>3, <3>1, <3>2 DEF ToRelease
  <2>2. /\ Line \in Seq(Threads) /\ Line # <<>> /\ Len(Line) = Len(waiting_threads)
        /\ \A i \in 1..Len(waiting_threads) : Line[i] = waiting_threads[i].thread
    BY <1>3, <1>6, LineTypes
  <2>3. /\ Tail(Line) \in Seq(Threads)
        /\ Len(Tail(Line)) = Len(waiting_threads) - 1
        /\ \A i \in 1..Len(waiting_threads) - 1 :
             Tail(Line)[i] = waiting_threads[i + 1].thread
    BY <1>3, <2>2, HeadTailProperties
  <2>4. Line' = LineOf(waiting_threads, 1)
    BY <1>1, <2>1 DEF Line
  <2>5. /\ LineOf(waiting_threads, 1) \in Seq(Threads)
        /\ Len(LineOf(waiting_threads, 1)) = Len(waiting_threads) - 1
        /\ \A i \in 1..Len(waiting_threads) - 1 :
             LineOf(waiting_threads, 1)[i] = waiting_threads[i + 1].thread
    <3>1. waiting_threads \in Seq(Entries(Threads, Requests))
      BY DEF IInv, TypeOK
    <3>2. 1 \in 0..Len(waiting_threads)
      BY <1>3, <1>6
    <3> QED BY <3>1, <3>2, LineIsSeq
  <2>6. Line' = Tail(Line)
    BY <2>3, <2>4, <2>5, SeqEqual
  <2> QED BY <1>1, <1>3, <1>4, <2>1, <2>2, <2>6 DEF Unit!Give, Unit!Release
<1> QED BY <1>3, <1>5, <1>6

(* The rest of give changes nothing that callers see. *)
LEMMA UnblockUnit ==
  ASSUME OneUnitAtATime, IInv, NEW t \in Threads, Unblock(t)
  PROVE  UNCHANGED Unit!vars
<1> DEFINE n == Len(waiting_threads)
<1>1. /\ has_queued_threads
      /\ waiting_threads' = Tail(waiting_threads)
      /\ resources' = UnitsLeft /\ pc' = pc
      /\ Head(waiting_threads).resources_needed <= resources
  BY DEF Unblock, Serve, HeadServable
<1>2. /\ n \in Nat /\ n > 0 /\ Head(waiting_threads) = waiting_threads[1]
      /\ Len(waiting_threads') = n - 1
      /\ \A i \in 1..n - 1 : waiting_threads'[i] = waiting_threads[i + 1]
  BY <1>1, QueueTail, UnitTypes DEF IInv, has_queued_threads
<1>3. resources' = resources - 1 /\ 1 <= resources /\ resources \in Nat
  BY <1>1, <1>2, UnitTypes DEF UnitsLeft
<1>4. ToRelease' = ToRelease - 1 /\ ToRelease \in 1..n
  BY <1>2, <1>3 DEF ToRelease
<1>5. Line' = Line
  <2>1. \A i \in 1..n - ToRelease :
          waiting_threads'[i + (ToRelease - 1)] = waiting_threads[i + ToRelease]
    <3> SUFFICES ASSUME NEW i \in 1..n - ToRelease
                 PROVE  waiting_threads'[i + (ToRelease - 1)]
                          = waiting_threads[i + ToRelease]
      OBVIOUS
    <3>1. i + (ToRelease - 1) \in 1..n - 1
      BY <1>2, <1>4
    <3>2. (i + (ToRelease - 1)) + 1 = i + ToRelease
      BY <1>2, <1>4
    <3> QED BY <1>2, <3>1, <3>2
  <2>2. (n - 1) - (ToRelease - 1) = n - ToRelease
    BY <1>2, <1>4
  <2> QED BY <1>2, <1>4, <2>1, <2>2 DEF Line, LineOf
<1>6. resources' - ToRelease' = resources - ToRelease
  BY <1>3, <1>4
<1>7. Asleep' = Asleep
  BY <1>1 DEF Asleep
<1> QED BY <1>5, <1>6, <1>7 DEF Unit!vars

(* acquire returns to a thread that has been released; on the fast path    *)
(* callers have seen the whole call already.                               *)
LEMMA ReturnUnit ==
  ASSUME OneUnitAtATime, IInv, NEW t \in Threads, AcquireReturn(t)
  PROVE  Unit!Return(t) \/ UNCHANGED Unit!vars
<1>1. /\ pc' = [pc EXCEPT ![t] = "idle"] /\ pc \in [Threads -> Labels]
      /\ waiting_threads' = waiting_threads /\ resources' = resources
      /\ pc[t] = "acquire_return" \/ (pc[t] = "block" /\ thread_should_continue[t])
  BY DEF AcquireReturn, Goto, IInv, TypeOK
<1>2. Line' = Line /\ (resources - ToRelease)' = resources - ToRelease
  BY <1>1 DEF Line, ToRelease
<1>3. CASE pc[t] = "acquire_return"
  BY <1>1, <1>2, <1>3 DEF Asleep, Unit!vars
<1>4. CASE pc[t] = "block" /\ thread_should_continue[t]
  <2>1. t \in Asleep /\ Asleep' = Asleep \ {t}
    BY <1>1, <1>4 DEF Asleep
  <2>2. \A i \in 1..Len(waiting_threads) : waiting_threads[i].thread # t
    BY <1>4 DEF IInv, QueuedAsleep
  <2>3. t \notin Unit!Members(Line)
    <3>1. \A i \in 1..Len(Line) : i + ToRelease \in 1..Len(waiting_threads)
      BY UnitTypes, LineTypes
    <3>2. \A i \in 1..Len(Line) : Line[i] # t
      BY <2>2, <3>1, LineTypes
    <3> QED BY <3>2 DEF Unit!Members
  <2> QED BY <1>2, <2>1, <2>3 DEF Unit!Return
<1> QED BY <1>1, <1>3, <1>4

(* The rest is invisible. *)
LEMMA InvisibleUnit ==
  ASSUME IInv, NEW t \in Threads,
         (\E n \in Requests : AcquireLock(t, n)) \/ GiveUnlock(t) \/ UNCHANGED vars
  PROVE  UNCHANGED Unit!vars
<1>1. UNCHANGED <<resources, waiting_threads>>
  BY DEF AcquireLock, GiveUnlock, vars
<1>2. Asleep' = Asleep
  BY DEF AcquireLock, GiveUnlock, Goto, vars, Asleep, IInv, TypeOK
<1> QED BY <1>1, <1>2 DEF Line, ToRelease, Unit!vars

-----------------------------------------------------------------------------

(* For callers that acquire and give one unit at a time, however many they *)
(* are, acquire and give are atomic: a give releases the first thread in   *)
(* line or keeps the unit, and an acquire that joins the line returns only *)
(* after it has left it (semaphore.cpp:24-76).                             *)
THEOREM ImplementsUnit ==
  ASSUME OneUnitAtATime
  PROVE  Spec => Unit!Spec
<1>1. Init => Unit!Init
  BY InitUnit
<1>2. IInv /\ [Next]_vars => [Unit!Next]_Unit!vars
  <2> SUFFICES ASSUME IInv, [Next]_vars PROVE Unit!Next \/ UNCHANGED Unit!vars
    OBVIOUS
  <2>1. CASE UNCHANGED vars
    <3>1. UNCHANGED <<resources, waiting_threads, pc>>
      BY <2>1 DEF vars
    <3> QED BY <3>1 DEF Line, ToRelease, Asleep, Unit!vars
  <2>2. ASSUME NEW t \in Threads,
               \/ \E n \in Requests : AcquireLock(t, n)
               \/ \E n \in Gifts : GiveLock(t, n)
               \/ Progress(t)
        PROVE  Unit!Next \/ UNCHANGED Unit!vars
    BY <2>2, EnqueueUnit, FastUnit, GiveUnit, UnblockUnit, ReturnUnit, InvisibleUnit
    DEF Progress, Unit!Next
  <2> QED BY <2>1, <2>2 DEF Next
<1> QED BY <1>1, <1>2, Invariance, PTL DEF Spec, Unit!Spec
=============================================================================
