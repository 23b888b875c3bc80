---------------------------- MODULE TestPrograms ---------------------------
(***************************************************************************)
(* The test programs of five classes:  each is built from its source file  *)
(* alone, with a macro TEST_... that lets its main in.  A behaviour is one *)
(* of them, on one schedule and one input.  The input of TwoWayMap's is    *)
(* the calls it makes, of which the code's main makes two (two_way_map.cpp:*)
(* 17, 36).                                                                *)
(***************************************************************************)
EXTENDS SocketAddress, FiniteSets

CONSTANTS
  Strings, Ints, MaxCalls,                                   (* TwoWayMap      *)
  MaxVector,                                                 (* ObjStrIterator *)
  Main, Waits, Checks, Unknown, num_ones, num_twos,          (* ObjectPool     *)
  Servers,                                                   (* SocketAgent    *)
  main_thread, Workers, Segmentations                        (* Semaphore      *)

VARIABLES
  program,
  t_to_u, u_to_t, calls,
  vector_a, remaining_to_iterate, vector_b, at,
  part, stage, started, value_found, threads_completed, completed, object_list,
  avail_units, avail_waiting, list_units, list_waiting, pc, retrieved, enqueued,
  delivered,
  coordinate_main, coordinate_threads, main, server, sender, listening, backlog,
  other_descriptor, received, success, exited,
  give_segments, segment, num_true, place, worker, flags, from_available, from_waiting,
  from_inside, to_available, to_waiting, to_inside

Map      == INSTANCE TwoWayMap WITH T <- Strings, U <- Ints
Iterator == INSTANCE ObjStrIterator
Pool     == INSTANCE ObjectPoolTest
Agent    == INSTANCE SocketAgentTest
Counter  == INSTANCE SemaphoreTest

ASSUME ConstantsAssumption == ConstantsOK

(* The keys' types tell the overloads apart; the program makes some calls. *)
ASSUME KeysAssumption == Strings \cap Ints = {} /\ MaxCalls \in Nat

(* A decimal notation has none of the separators. *)
ASSUME NotationAssumption ==
  \A d \in Descriptors : \A i \in 1..Len(to_string[d]) : to_string[d][i] # Iterator!OBJECT_SEP

(* Each round has threads of its own, the first as many as there are ones, *)
(* the second as many as there are twos (object_pool.cpp:118-138).         *)
ASSUME RoundsAssumption ==
  LET threads(r) == Waits[r] \cup Checks[r]
  IN  /\ num_ones \in Nat /\ num_twos \in Nat
      /\ IsFiniteSet(Unknown) /\ Main \notin Unknown
      /\ \A r \in 1..3 : IsFiniteSet(threads(r)) /\ Main \notin threads(r)
      /\ \A r, s \in 1..3 : r # s => threads(r) \cap threads(s) = {}
      /\ Cardinality(threads(1)) = num_ones
      /\ Cardinality(threads(2)) = num_twos

(* There is a segment to give, and none is negative (semaphore.cpp:127).   *)
ASSUME SegmentsAssumption ==
  IsFiniteSet(Workers) /\ \A s \in Segmentations : s \in Seq(Nat) /\ s # <<>>

(* 0 to 29 in the code; one alone would have nobody to talk to.            *)
ASSUME ServersAssumption ==
  Servers \subseteq Nat /\ IsFiniteSet(Servers) /\ Cardinality(Servers) > 1

map      == <<t_to_u, u_to_t, calls>>
iterator == <<vector_a, remaining_to_iterate, vector_b, at>>
pool     == <<part, stage, started, value_found, threads_completed, completed,
              object_list, avail_units, avail_waiting, list_units, list_waiting,
              pc, retrieved, enqueued, delivered>>
agent    == <<coordinate_main, coordinate_threads, main, server, sender, listening,
              backlog, other_descriptor, received, success, exited>>
counter  == <<give_segments, segment, num_true, place, worker, flags, from_available,
              from_waiting, from_inside, to_available, to_waiting, to_inside>>
vars     == <<program, map, iterator, pool, agent, counter>>

Init ==
  /\ program \in {"two_way_map", "obj_str_iterator", "object_pool", "socket_agent", "semaphore"}
  /\ Map!Init /\ calls = 0
  /\ Iterator!Init
  /\ Pool!Init
  /\ Agent!Init
  /\ Counter!Init
  /\ program # "object_pool" => part = 1
  /\ program # "semaphore" =>
       give_segments = CHOOSE segments \in Segmentations : TRUE

CallMap == calls < MaxCalls /\ calls' = calls + 1 /\ Map!Next

Next ==
  /\ UNCHANGED program
  /\ \/ program = "two_way_map" /\ CallMap /\ UNCHANGED <<iterator, pool, agent, counter>>
     \/ program = "obj_str_iterator" /\ Iterator!Next /\ UNCHANGED <<map, pool, agent, counter>>
     \/ program = "object_pool" /\ Pool!Next /\ UNCHANGED <<map, iterator, agent, counter>>
     \/ program = "socket_agent" /\ Agent!Next /\ UNCHANGED <<map, iterator, pool, counter>>
     \/ program = "semaphore" /\ Counter!Next /\ UNCHANGED <<map, iterator, pool, agent>>

(* The threads of a program are scheduled; none takes more than some steps *)
(* between the beginning of its program and the end.                       *)
Spec == Init /\ [][Next]_vars /\ WF_vars(Next)

-----------------------------------------------------------------------------

(* Looking a key up and looking the result up gives the key back, on both  *)
(* sides (two_way_map.hpp:37-48, 65-76).                                   *)
MutuallyInverse == Map!MutuallyInverse

(* put replaces the pairs of both its elements and erase removes the pair  *)
(* of its key, and nothing else (two_way_map.hpp:37-76).                   *)
ImplementsBijection == Map!ImplementsBijection

(* A vector of addresses without separators in their names comes back from *)
(* its string (obj_str_iterator.cpp:144-151).                              *)
VectorComesBack == Iterator!VectorComesBack

(* The order decides between any two addresses (socket_address.cpp:84-134).*)
OrderDecides == Iterator!OrderDecides

(* The barriers of the test of SocketAgent hold (socket_agent.cpp:539-540).*)
BarriersHold == Agent!BarriersHold

(* No schedule makes a test fail: the checks of object_pool.cpp:14, 34-36, *)
(* 177 and 184, of socket_agent.cpp:472 by the threads with numbers of one *)
(* digit (recv may split the others), and of semaphore.cpp:153 hold when   *)
(* they are made.                                                          *)
TestsPass == Pool!Passed /\ Agent!Passed /\ Counter!Passed

(* No schedule makes a test with threads hang: neither the threads that    *)
(* wait for objects while others check for them (object_pool.cpp:46-92),   *)
(* nor those that wait at a barrier, for a connection or for a message     *)
(* (socket_agent.cpp:450-481, 562-572), nor those that wait for units      *)
(* (semaphore.cpp:148-160).                                                *)
TestsEnd ==
  <>(CASE program = "object_pool"  -> stage = "ended"
       [] program = "semaphore"    -> place = "ended"
       [] program = "socket_agent" -> Agent!Ended
       [] OTHER                    -> TRUE)
=============================================================================
