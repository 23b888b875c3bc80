----------------------------- MODULE ObjectPool -----------------------------
(***************************************************************************)
(* class ObjectPool (functionality/object_pool.hpp): a deque, a semaphore  *)
(* object_availability that counts the objects in it, and a semaphore      *)
(* object_list_access that guards it.  Copies of a pool share all three.   *)
(*                                                                         *)
(* The semaphores are two instances of UnitSemaphore, which the detailed   *)
(* Semaphore implements.  Objects are numbered in the order in which they  *)
(* are put into the deque.                                                 *)
(***************************************************************************)
EXTENDS Naturals, Sequences, FiniteSets

CONSTANTS
  Adders, Checkers, Waiters,   (* the threads that call each operation     *)
  MaxObjects                   (* bound: calls of add_object               *)

Threads == Adders \cup Checkers \cup Waiters

ASSUME PoolAssumption == IsFiniteSet(Threads) /\ MaxObjects \in Nat

VARIABLES
  object_list,
  avail_units, avail_waiting,   (* object_availability                     *)
  list_units, list_waiting,     (* object_list_access                      *)
  pc,
  retrieved,    (* the object get_next_object has read, by thread          *)
  enqueued,     (* history: objects put into the deque                     *)
  delivered     (* history: the objects taken, in that order               *)

availability == <<avail_units, avail_waiting>>
access       == <<list_units, list_waiting>>
data         == <<object_list, retrieved, enqueued, delivered>>
vars         == <<availability, access, pc, data>>

InAvailability ==
  {t \in Threads :
     pc[t] \in {"check_availability_blocked", "wait_availability_blocked"}}

InAccess ==
  {t \in Threads :
     pc[t] \in {"add_list_blocked", "check_list_blocked", "wait_list_blocked"}}

Avail == INSTANCE UnitSemaphore WITH
  Initial <- 0,
  available <- avail_units, waiting <- avail_waiting, inside <- InAvailability

Access == INSTANCE UnitSemaphore WITH
  Initial <- 1,
  available <- list_units, waiting <- list_waiting, inside <- InAccess

AddLabels ==
  {"add_list_blocked", "add_enqueue", "add_give_availability", "add_give_list"}

CheckLabels ==
  {"check_list_blocked", "check_size", "check_availability",
   "check_availability_blocked", "check_front", "check_pop", "check_give_list"}

WaitLabels ==
  {"wait_availability_blocked", "wait_list", "wait_list_blocked", "wait_front",
   "wait_pop", "wait_give_list"}

Labels == {"idle"} \cup AddLabels \cup CheckLabels \cup WaitLabels

Garbage == 0   \* what reading an empty deque yields

Init ==
  /\ object_list = <<>>
  /\ pc = [t \in Threads |-> "idle"]
  /\ Avail!Init
  /\ Access!Init
  /\ retrieved = [t \in Threads |-> Garbage]
  /\ enqueued = 0
  /\ delivered = <<>>

Goto(t, from, to) == pc[t] = from /\ pc' = [pc EXCEPT ![t] = to]

(* Semaphore::acquire returns at once or leaves the thread asleep; later a *)
(* thread that has been released returns from it.                          *)
AcquireAvailability(t, from, passed, blocked) ==
  /\ \/ Goto(t, from, passed) /\ Avail!AcquireAtOnce(t)
     \/ Goto(t, from, blocked) /\ Avail!AcquireLater(t)
  /\ UNCHANGED <<access, data>>

AcquireAccess(t, from, passed, blocked) ==
  /\ \/ Goto(t, from, passed) /\ Access!AcquireAtOnce(t)
     \/ Goto(t, from, blocked) /\ Access!AcquireLater(t)
  /\ UNCHANGED <<availability, data>>

AfterAcquire ==
  [check_availability_blocked |-> "check_front",
   wait_availability_blocked  |-> "wait_list",
   add_list_blocked           |-> "add_enqueue",
   check_list_blocked         |-> "check_size",
   wait_list_blocked          |-> "wait_front"]

ResumeAvailability(t) ==
  /\ t \in InAvailability
  /\ pc' = [pc EXCEPT ![t] = AfterAcquire[@]]
  /\ Avail!Return(t)
  /\ UNCHANGED <<access, data>>

ResumeAccess(t) ==
  /\ t \in InAccess
  /\ pc' = [pc EXCEPT ![t] = AfterAcquire[@]]
  /\ Access!Return(t)
  /\ UNCHANGED <<availability, data>>

GiveAccess(t, from) ==
  /\ Goto(t, from, "idle")
  /\ Access!Give
  /\ UNCHANGED <<availability, data>>

-----------------------------------------------------------------------------
(* get_next_object: front() and pop_front() are two accesses of the deque, *)
(* undefined if it is empty.                                               *)

FrontOf(list) == IF list = <<>> THEN Garbage ELSE Head(list)

RestOf(list) == IF list = <<>> THEN <<>> ELSE Tail(list)

Front(t, from, to) ==
  /\ Goto(t, from, to)
  /\ retrieved' = [retrieved EXCEPT ![t] = FrontOf(object_list)]
  /\ UNCHANGED <<availability, access, object_list, enqueued, delivered>>

Pop(t, from, to) ==
  /\ Goto(t, from, to)
  /\ object_list' = RestOf(object_list)
  /\ delivered' = Append(delivered, retrieved[t])
  /\ UNCHANGED <<availability, access, retrieved, enqueued>>

-----------------------------------------------------------------------------
(* add_object *)

Adding == {t \in Threads : pc[t] \in {"add_list_blocked", "add_enqueue"}}

(* add_object without the list's semaphore. *)
AddUnguarded(t) ==
  /\ enqueued + Cardinality(Adding) < MaxObjects
  /\ t \in Adders
  /\ Goto(t, "idle", "add_enqueue")
  /\ UNCHANGED <<availability, access, data>>

AddObject(t) ==
  /\ enqueued + Cardinality(Adding) < MaxObjects
  /\ t \in Adders
  /\ AcquireAccess(t, "idle", "add_enqueue", "add_list_blocked")

(* The object is put at the wrong end. *)
AddEnqueueFront(t) ==
  /\ Goto(t, "add_enqueue", "add_give_availability")
  /\ enqueued' = enqueued + 1
  /\ object_list' = <<enqueued + 1>> \o object_list
  /\ UNCHANGED <<availability, access, retrieved, delivered>>

AddEnqueue(t) ==
  /\ Goto(t, "add_enqueue", "add_give_availability")
  /\ enqueued' = enqueued + 1
  /\ object_list' = Append(object_list, enqueued + 1)
  /\ UNCHANGED <<availability, access, retrieved, delivered>>

(* The unit is not given when the deque already held an object. *)
AddGiveOnlyFirst(t) ==
  /\ Goto(t, "add_give_availability", "add_give_list")
  /\ IF Len(object_list) = 1 THEN Avail!Give ELSE UNCHANGED availability
  /\ UNCHANGED <<access, data>>

AddGiveAvailability(t) ==
  /\ Goto(t, "add_give_availability", "add_give_list")
  /\ Avail!Give
  /\ UNCHANGED <<access, data>>

AddGiveList(t) == GiveAccess(t, "add_give_list")

-----------------------------------------------------------------------------
(* check_for_object *)

CheckForObject(t) ==
  /\ t \in Checkers
  /\ AcquireAccess(t, "idle", "check_size", "check_list_blocked")

CheckEmpty(t) ==
  /\ object_list = <<>>
  /\ Goto(t, "check_size", "check_give_list")
  /\ UNCHANGED <<availability, access, data>>

(* The object is taken without its unit. *)
CheckWithoutUnit(t) ==
  /\ object_list # <<>>
  /\ Goto(t, "check_size", "check_front")
  /\ UNCHANGED <<availability, access, data>>

CheckNonempty(t) ==
  /\ object_list # <<>>
  /\ Goto(t, "check_size", "check_availability")
  /\ UNCHANGED <<availability, access, data>>

CheckAcquire(t) ==
  AcquireAvailability(t, "check_availability", "check_front",
                      "check_availability_blocked")

CheckFront(t) == Front(t, "check_front", "check_pop")

CheckPop(t) == Pop(t, "check_pop", "check_give_list")

CheckGiveList(t) == GiveAccess(t, "check_give_list")

-----------------------------------------------------------------------------
(* wait_for_object *)

WaitForObject(t) ==
  /\ t \in Waiters
  /\ AcquireAvailability(t, "idle", "wait_list", "wait_availability_blocked")

WaitAcquireList(t) == AcquireAccess(t, "wait_list", "wait_front", "wait_list_blocked")

WaitFront(t) == Front(t, "wait_front", "wait_pop")

WaitPop(t) == Pop(t, "wait_pop", "wait_give_list")

(* The list's semaphore is not given back. *)
WaitKeepList(t) ==
  /\ Goto(t, "wait_give_list", "idle")
  /\ UNCHANGED <<availability, access, data>>

WaitGiveList(t) == GiveAccess(t, "wait_give_list")

-----------------------------------------------------------------------------

Progress(t) ==
  \/ ResumeAvailability(t) \/ ResumeAccess(t)
  \/ AddEnqueue(t) \/ AddGiveAvailability(t) \/ AddGiveList(t)
  \/ CheckEmpty(t) \/ CheckNonempty(t) \/ CheckAcquire(t) \/ CheckFront(t)
  \/ CheckPop(t) \/ CheckGiveList(t)
  \/ WaitAcquireList(t) \/ WaitFront(t) \/ WaitPop(t) \/ WaitGiveList(t)

Next ==
  \E t \in Threads :
    AddObject(t) \/ CheckForObject(t) \/ WaitForObject(t) \/ Progress(t)

Spec == Init /\ [][Next]_vars

(* Threads are scheduled, and a thread that a semaphore has released        *)
(* returns from acquire; nobody has to call.                                *)
FairSpec == Spec /\ \A t \in Threads : WF_vars(Progress(t))

-----------------------------------------------------------------------------

At(labels) == {t \in Threads : pc[t] \in labels}

(* Threads that hold a unit of object_availability, for an object that they *)
(* have not taken yet: on the fast path, or released and still to return.   *)
Reserved ==
  At({"check_front", "check_pop", "wait_list", "wait_list_blocked",
      "wait_front", "wait_pop"})
    \cup (InAvailability \ Avail!Members(avail_waiting))

(* Threads that hold the unit of object_list_access. *)
HoldingList ==
  At({"add_enqueue", "add_give_availability", "add_give_list", "check_size",
      "check_availability", "check_availability_blocked", "check_front",
      "check_pop", "check_give_list", "wait_front", "wait_pop",
      "wait_give_list"})
    \cup (InAccess \ Access!Members(list_waiting))

TypeOK ==
  /\ object_list \in Seq(1..enqueued)
  /\ avail_units \in Nat /\ avail_waiting \in Seq(Threads)
  /\ list_units \in {0, 1} /\ list_waiting \in Seq(Threads)
  /\ pc \in [Threads -> Labels]
  /\ retrieved \in [Threads -> 0..enqueued]
  /\ enqueued \in Nat
  /\ delivered \in Seq(1..enqueued)

(* Every object in the deque has one unit: it is in the counter, or with a *)
(* thread on its way to the object, or about to be given by the thread that*)
(* has just put the object in.  So no front() or pop_front() meets an empty*)
(* deque (object_pool.hpp:30-31, 42-44, 55-58).                            *)
Balance ==
  Len(object_list) =
    avail_units + Cardinality(Reserved) + Cardinality(At({"add_give_availability"}))

NeverPopsEmpty ==
  At({"check_front", "check_pop", "wait_front", "wait_pop"}) # {} => object_list # <<>>

(* At most one thread is inside the list at a time, through every handover *)
(* of the unit (object_pool.hpp:28, 33, 40, 48, 56, 60).                   *)
ListAccessExclusive == list_units + Cardinality(HoldingList) = 1

(* Each object is delivered to one caller, in the order of insertion, and  *)
(* none is skipped: front() and pop_front() see the same object            *)
(* (object_pool.hpp:63-74).                                                *)
DeliveredOnceInOrder == delivered \o object_list = [i \in 1..enqueued |-> i]

(* No thread sleeps in wait_for_object beside an object nobody is coming   *)
(* for, unless the thread that put it there is about to give the unit      *)
(* (object_pool.hpp:30-31, 55).                                            *)
WaitersSleepOnlyWithoutObjects ==
  (avail_waiting # <<>> /\ Len(object_list) > Cardinality(Reserved))
    => At({"add_give_availability"}) # {}

(* check_for_object waits inside the list only when every object in it has *)
(* been promised to threads that cannot get in (object_pool.hpp:42-43).    *)
CheckSleepsOnlyOnPromised ==
  \A t \in Threads :
    (pc[t] = "check_availability_blocked" /\ t \notin Reserved)
      => /\ object_list # <<>>
         /\ Reserved \subseteq Waiters
         /\ Len(object_list) = Cardinality(Reserved)

(* A check that sleeps inside the list sleeps for ever: only add_object     *)
(* could release it, and that needs the list (object_pool.hpp:28, 40-43).  *)
SleepingCheckIsNeverReleased ==
  [][\A t \in Threads :
       pc[t] = "check_availability_blocked" => pc'[t] = pc[t]]_vars

(* The pool as one queue with atomic operations: an object enters it when  *)
(* it is put into the deque and leaves it with pop_front, and a check that *)
(* finds nothing finds the deque empty.                                    *)
CallOf(label) ==
  CASE label = "idle" -> "none"
    [] label \in {"add_list_blocked", "add_enqueue"} -> "add"
    [] label \in CheckLabels \ {"check_give_list"} -> "check"
    [] label \in WaitLabels \ {"wait_give_list"} -> "wait"
    [] OTHER -> "return"

Queue == INSTANCE PoolContract WITH
  queue <- object_list,
  added <- enqueued,
  call  <- [t \in Threads |-> CallOf(pc[t])]

(* Whatever the interleaving of the three operations, callers see an atomic*)
(* first-in first-out queue (object_pool.hpp:26-74).                       *)
ImplementsQueue == Queue!Spec

(* A check sleeps inside the list. *)
CheckAsleep ==
  \E t \in Threads : pc[t] = "check_availability_blocked" /\ t \notin Reserved

(* Nothing but that can hold anyone up: otherwise every add and check, and *)
(* every wait that has a unit, returns (object_pool.hpp:26-61).            *)
ReturnsUnlessCheckSleeps ==
  \A t \in Threads :
    (pc[t] \in AddLabels \cup CheckLabels \/ t \in Reserved)
      ~> (pc[t] = "idle" \/ CheckAsleep)

(* add_object and check_for_object always return, the check with an object *)
(* or without one, also beside threads that wait (object_pool.cpp:110-116: *)
(* "have n threads wait_for_object_expected and (num_ones - n) threads     *)
(* check_for_object", then "have p threads check_for_object, expecting not *)
(* to find one").                                                          *)
AddAndCheckReturn ==
  \A t \in Threads : pc[t] \in AddLabels \cup CheckLabels ~> pc[t] = "idle"
=============================================================================
