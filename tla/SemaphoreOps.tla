--------------------------- MODULE SemaphoreOps ----------------------------
(***************************************************************************)
(* Operators on a queue of waiting threads.  An entry is a record with the *)
(* fields thread and resources_needed (struct WaitingThreadEntry).         *)
(***************************************************************************)
EXTENDS Naturals, Sequences, FiniteSetsExt, SequencesExt

Entries(Threads, Requests) ==
  [thread : Threads, resources_needed : Requests]

ThreadsOf(queue) == {queue[i].thread : i \in DOMAIN queue}

(* The units that the first k entries need together. *)
NeedOfFirst(k, queue) ==
  SumFunction([i \in 1..k |-> queue[i].resources_needed])

(* How many entries can be served, from the front, with r units. *)
ServedCount(queue, r) ==
  Max({k \in 0..Len(queue) : NeedOfFirst(k, queue) <= r})
=============================================================================
