-------------------------- MODULE PartialBijection --------------------------
(***************************************************************************)
(* What a TwoWayMap promises: a set of pairs in which every element of     *)
(* either side occurs at most once.  A put replaces whatever pairs its two *)
(* elements were in.                                                       *)
(***************************************************************************)
CONSTANTS T, U

VARIABLE pairs

Init == pairs = {}

Put(t, u) == pairs' = {p \in pairs : p[1] # t /\ p[2] # u} \cup {<<t, u>>}

EraseT(t) == pairs' = {p \in pairs : p[1] # t}

EraseU(u) == pairs' = {p \in pairs : p[2] # u}

Next ==
  \/ \E t \in T, u \in U : Put(t, u)
  \/ \E t \in T : EraseT(t)
  \/ \E u \in U : EraseU(u)

Spec == Init /\ [][Next]_pairs
=============================================================================
