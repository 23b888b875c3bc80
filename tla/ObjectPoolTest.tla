--------------------------- MODULE ObjectPoolTest --------------------------
(***************************************************************************)
(* The test program of class ObjectPool (functionality/object_pool.cpp:    *)
(* 8-196), over the detailed pool.  Its two parts use pools of their own;  *)
(* a behaviour is one of them.                                             *)
(*                                                                         *)
(* Part 1: main adds num_ones 1s and num_twos 2s; in each of three rounds  *)
(* (wait_and_check) threads wait for an object or check for one, and are   *)
(* joined: first for the ones, then for the twos, then for nothing.        *)
(* Part 2: threads wait for an object each; main adds the ones, waits until*)
(* as many threads have marked that they are done, and looks at what they  *)
(* have; then the same with the twos.                                      *)
(***************************************************************************)
EXTENDS Naturals, Sequences, FiniteSets

CONSTANTS
  Main,
  Waits, Checks,   (* part 1: the threads of each kind, by round           *)
  Unknown,         (* part 2: the threads of wait_for_object_unknown       *)
  num_ones, num_twos

VARIABLES
  part, stage,        (* which part runs, and where its main is            *)
  started,            (* the threads that have made their call             *)
  value_found,        (* part 2: what each thread has stored               *)
  threads_completed,  (* the units of that semaphore                       *)
  completed,          (* the threads that have given one                   *)
  object_list, avail_units, avail_waiting, list_units, list_waiting, pc,
  retrieved, enqueued, delivered

Pool == INSTANCE ObjectPool WITH
  Adders <- {Main},
  Checkers <- UNION {Checks[r] : r \in 1..3},
  Waiters <- (UNION {Waits[r] : r \in 1..3}) \cup Unknown,
  MaxObjects <- num_ones + num_twos

test == <<part, stage, started, value_found, threads_completed, completed>>
pool == <<object_list, avail_units, avail_waiting, list_units, list_waiting, pc,
          retrieved, enqueued, delivered>>
vars == <<test, pool>>

Nothing == 0

Init ==
  /\ part \in {1, 2}
  /\ stage = "ones"
  /\ started = {} /\ completed = {}
  /\ value_found = [t \in Unknown |-> Nothing]
  /\ threads_completed = 0
  /\ Pool!Init

(* The k-th object that main adds. *)
Value(k) == CASE k = Pool!Garbage -> Nothing [] k \in 1..num_ones -> 1 [] OTHER -> 2

Round == [round_1 |-> 1, round_2 |-> 2, round_3 |-> 3]

Waiting  == IF part = 2 THEN Unknown
            ELSE IF stage \in DOMAIN Round THEN Waits[Round[stage]] ELSE {}
Checking == IF part = 1 /\ stage \in DOMAIN Round THEN Checks[Round[stage]] ELSE {}

Finished(t) == t \in started /\ pc[t] = "idle"

-----------------------------------------------------------------------------

(* A thread of the test calls the pool. *)
Start(t) ==
  /\ t \notin started
  /\ started' = started \cup {t}
  /\ \/ t \in Waiting /\ Pool!WaitForObject(t)
     \/ t \in Checking /\ Pool!CheckForObject(t)
  /\ UNCHANGED <<part, stage, value_found, threads_completed, completed>>

PoolStep(t) == Pool!Progress(t) /\ UNCHANGED test

(* wait_for_object_unknown, after the object has come. *)
StoreValue(t) ==
  /\ Finished(t) /\ t \in Unknown
  /\ value_found[t] = Nothing
  /\ value_found' = [value_found EXCEPT ![t] = Value(retrieved[t])]
  /\ UNCHANGED <<part, stage, started, threads_completed, completed, pool>>

MarkCompleted(t) ==
  /\ t \in Unknown \ completed
  /\ value_found[t] # Nothing
  /\ completed' = completed \cup {t}
  /\ threads_completed' = threads_completed + 1
  /\ UNCHANGED <<part, stage, started, value_found, pool>>

-----------------------------------------------------------------------------
(* main *)

ToAdd == [ones |-> num_ones, twos |-> num_ones + num_twos]

Adding == stage \in DOMAIN ToAdd

MainAdd ==
  /\ Adding
  /\ enqueued < ToAdd[stage]
  /\ Pool!AddObject(Main)
  /\ UNCHANGED test

MainGoto(from, to) ==
  /\ stage = from /\ stage' = to
  /\ UNCHANGED <<part, started, value_found, completed, pool>>

AllAdded == Adding /\ enqueued = ToAdd[stage] /\ pc[Main] = "idle"

MainAdded ==
  /\ AllAdded
  /\ \/ part = 1 /\ (MainGoto("ones", "twos") \/ MainGoto("twos", "round_1"))
     \/ part = 2 /\ (MainGoto("ones", "wait_ones") \/ MainGoto("twos", "wait_twos"))
  /\ UNCHANGED threads_completed

(* The threads of wait_and_check are joined. *)
JoinRound ==
  /\ \A t \in Waiting \cup Checking : Finished(t)
  /\ \/ MainGoto("round_1", "round_2")
     \/ MainGoto("round_2", "round_3")
     \/ MainGoto("round_3", "ended")
  /\ UNCHANGED threads_completed

(* threads_completed.acquire *)
MainAcquire(n, from, to) ==
  /\ threads_completed >= n
  /\ threads_completed' = threads_completed - n
  /\ MainGoto(from, to)

(* num_vals_equal_to *)
CheckValues(from, to) == MainGoto(from, to) /\ UNCHANGED threads_completed

JoinUnknown ==
  /\ completed = Unknown
  /\ MainGoto("join", "ended")
  /\ UNCHANGED threads_completed

Next ==
  \/ \E t \in Pool!Threads : Start(t) \/ PoolStep(t) \/ StoreValue(t) \/ MarkCompleted(t)
  \/ MainAdd \/ MainAdded \/ JoinRound
  \/ MainAcquire(num_ones, "wait_ones", "check_ones") \/ CheckValues("check_ones", "twos")
  \/ MainAcquire(num_twos, "wait_twos", "check_twos") \/ CheckValues("check_twos", "join")
  \/ JoinUnknown

(* Every thread is scheduled; each makes one call. *)
Spec == Init /\ [][Next]_vars /\ WF_vars(Next)

-----------------------------------------------------------------------------

Expected == [round_1 |-> 1, round_2 |-> 2, round_3 |-> Nothing]

Equal(v) == Cardinality({t \in Unknown : value_found[t] = v})

(* Whatever the schedule, each thread gets what the test expects of it:    *)
(* first all ones, then all twos, then nothing (object_pool.cpp:109-116),  *)
(* and exactly num_ones threads have a 1 when as many have marked that they*)
(* are done (150-152).  main itself would not notice: lines 85 and 88 test *)
(* the pointer to a thread's result, which is never null.                  *)
Passed ==
  /\ \A t \in Waiting \cup Checking :
       (part = 1 /\ Finished(t)) => Value(retrieved[t]) = Expected[stage]
  /\ stage = "check_ones" => Equal(1) = num_ones /\ Equal(2) = 0
  /\ stage = "check_twos" => Equal(1) = num_ones /\ Equal(2) = num_twos
=============================================================================
