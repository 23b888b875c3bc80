----------------------------- MODULE TwoWayMap -----------------------------
(***************************************************************************)
(* class TwoWayMap<T, U> (functionality/two_way_map.hpp): two maps that    *)
(* are kept inverse to each other, so that either key finds the other.     *)
(* T and U are different types (the overloads tell them apart).            *)
(***************************************************************************)
CONSTANTS T, U

VARIABLES t_to_u, u_to_t

vars == <<t_to_u, u_to_t>>

EmptyMap == [x \in {} |-> x]

Without(map, key) == [x \in DOMAIN map \ {key} |-> map[x]]

With(map, key, value) ==
  [x \in DOMAIN map \cup {key} |-> IF x = key THEN value ELSE map[x]]

Init == t_to_u = EmptyMap /\ u_to_t = EmptyMap

-----------------------------------------------------------------------------
(* The two maps, as a pair, that a call leaves when it finds ts and us.    *)

(* The key's partner is left behind in the other map. *)
ErasedOneSided(ts, us, t) == <<Without(ts, t), us>>

(* erase does nothing if the key is missing. *)
ErasedT(ts, us, t) ==
  IF t \in DOMAIN ts THEN <<Without(ts, t), Without(us, ts[t])>> ELSE <<ts, us>>

ErasedU(ts, us, u) ==
  IF u \in DOMAIN us THEN <<Without(ts, us[u]), Without(us, u)>> ELSE <<ts, us>>

Inserted(ts, us, t, u) == <<With(ts, t, u), With(us, u, t)>>

Become(maps) == t_to_u' = maps[1] /\ u_to_t' = maps[2]

(* u's old partner is not erased. *)
PutKeepingOldT(t, u) ==
  LET cleared == ErasedT(t_to_u, u_to_t, t)
  IN  Become(Inserted(cleared[1], cleared[2], t, u))

Put(t, u) ==
  LET first  == ErasedT(t_to_u, u_to_t, t)
      second == ErasedU(first[1], first[2], u)
  IN  Become(Inserted(second[1], second[2], t, u))

EraseT(t) == Become(ErasedT(t_to_u, u_to_t, t))

EraseU(u) == Become(ErasedU(t_to_u, u_to_t, u))

GetOrDefault(map, key, default) ==
  IF key \in DOMAIN map THEN map[key] ELSE default

-----------------------------------------------------------------------------

Next ==
  \/ \E t \in T, u \in U : Put(t, u)
  \/ \E t \in T : EraseT(t)
  \/ \E u \in U : EraseU(u)

Spec == Init /\ [][Next]_vars

-----------------------------------------------------------------------------

(* Looking a key up and looking the result up gives the key back, on both  *)
(* sides: no put or erase leaves half of a pair behind                     *)
(* (two_way_map.hpp:37-48, 65-76).                                         *)
MutuallyInverse ==
  /\ \A t \in DOMAIN t_to_u : GetOrDefault(u_to_t, t_to_u[t], "missing") = t
  /\ \A u \in DOMAIN u_to_t : GetOrDefault(t_to_u, u_to_t[u], "missing") = u

Bijection == INSTANCE PartialBijection WITH
  pairs <- {<<t, t_to_u[t]>> : t \in DOMAIN t_to_u}

(* put replaces the pairs of both its elements and erase removes the pair  *)
(* of its key, and nothing else (two_way_map.hpp:37-76).                   *)
ImplementsBijection == Bijection!Spec
=============================================================================
