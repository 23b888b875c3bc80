-------------------------- MODULE ObjStrIterator ---------------------------
(***************************************************************************)
(* class ObjStrIterator (functionality/obj_str_iterator.cpp): a vector of  *)
(* objects becomes one string, and an iterator takes it apart again.  The  *)
(* objects are SocketAddresses, the library's only Stringable, and the     *)
(* StringWrappers of the test, which are converted to themselves.          *)
(***************************************************************************)
EXTENDS SocketAddress

CONSTANT MaxVector   (* bound: the length of the vector                    *)

OBJECT_SEP == "#"

StringWrappers == [original_string : Names]

VARIABLES
  vector_a,              (* the objects that are converted                 *)
  remaining_to_iterate,
  vector_b,              (* the strings the iterator has returned          *)
  at                     (* where the program is                           *)

vars == <<vector_a, remaining_to_iterate, vector_b, at>>

Init ==
  /\ vector_a = <<>> /\ remaining_to_iterate = <<>> /\ vector_b = <<>>
  /\ at = "fill"

Push ==
  /\ at = "fill"
  /\ Len(vector_a) < MaxVector
  /\ \E e \in Addresses \cup StringWrappers : vector_a' = Append(vector_a, e)
  /\ UNCHANGED <<remaining_to_iterate, vector_b, at>>

(* as_string is virtual. *)
represent(e) == IF e \in StringWrappers THEN e.original_string ELSE as_string(e)

(* The object that is read back in e's place. *)
read_back(s, e) == IF e \in StringWrappers THEN [original_string |-> s] ELSE from_string(s)

(* Separators between the objects only. *)
Joined(vector) ==
  FlattenSeq([k \in 1..Len(vector) |->
    represent(vector[k]) \o (IF k < Len(vector) THEN <<OBJECT_SEP>> ELSE <<>>)])

vector_to_string(vector) ==
  FlattenSeq([k \in 1..Len(vector) |-> represent(vector[k]) \o <<OBJECT_SEP>>])

Iterate ==
  /\ at = "fill"
  /\ remaining_to_iterate' = vector_to_string(vector_a)
  /\ at' = "iterate"
  /\ UNCHANGED <<vector_a, vector_b>>

(* The string need not come from vector_to_string. *)
IterateOther ==
  /\ at = "fill" /\ vector_a = <<>>
  /\ remaining_to_iterate' \in Names
  /\ at' = "iterate_other"
  /\ UNCHANGED <<vector_a, vector_b>>

has_next == remaining_to_iterate # <<>>

Iterating == at \in {"iterate", "iterate_other"}

get_next ==
  LET next_separator == Find(remaining_to_iterate, OBJECT_SEP)
  IN  /\ Iterating /\ has_next
      /\ next_separator # 0
      /\ vector_b' = Append(vector_b, SubSeq(remaining_to_iterate, 1, next_separator - 1))
      /\ remaining_to_iterate' = After(remaining_to_iterate, next_separator)
      /\ UNCHANGED <<vector_a, at>>

(* No separator is left: exit(1). *)
get_next_fails ==
  /\ Iterating /\ has_next
  /\ Find(remaining_to_iterate, OBJECT_SEP) = 0
  /\ at' = IF at = "iterate" THEN "iterate_failed" ELSE "iterate_other_failed"
  /\ UNCHANGED <<vector_a, remaining_to_iterate, vector_b>>

Finish ==
  /\ Iterating /\ ~has_next
  /\ at' = "compare"
  /\ UNCHANGED <<vector_a, remaining_to_iterate, vector_b>>

Next == Push \/ Iterate \/ IterateOther \/ get_next \/ get_next_fails \/ Finish

Spec == Init /\ [][Next]_vars

-----------------------------------------------------------------------------

Convertible(e) ==
  IF e \in StringWrappers THEN Free(e.original_string, OBJECT_SEP)
  ELSE \A s \in {e.ip, e.port}, separator \in {FIELD_SEP, OBJECT_SEP} : Free(s, separator)

(* A vector of objects whose strings have no separators of the level above *)
(* in them comes back from its string, each object in its place, even the  *)
(* empty one (obj_str_iterator.cpp:144-151 "Check that the vector is       *)
(* unchanged after conversion to and from a basic_string",                 *)
(* socket_address.cpp:15-35), and on the way the iterator never fails to   *)
(* find a separator (obj_str_iterator.cpp:15-20).                          *)
VectorComesBack ==
  (\A k \in 1..Len(vector_a) : Convertible(vector_a[k])) =>
    /\ at # "iterate_failed"
    /\ at = "compare" /\ vector_a # <<>> =>
         /\ Len(vector_b) = Len(vector_a)
         /\ \A k \in 1..Len(vector_a) : read_back(vector_b[k], vector_a[k]) = vector_a[k]

(* The order decides between any two addresses whose descriptors are too   *)
(* close to overflow (socket_address.cpp:84-134), whichever stands first.  *)
OrderDecides ==
  \A i, j \in 1..Len(vector_a) :
    (vector_a[i] \in Addresses /\ vector_a[j] \in Addresses
       /\ Close(vector_a[i], vector_a[j])) => Decided(vector_a[i], vector_a[j])
=============================================================================
