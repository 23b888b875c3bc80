-------------------------- MODULE TwoWayMapProofs --------------------------
(***************************************************************************)
(* TwoWayMap for any two disjoint sets of keys.                            *)
(***************************************************************************)
EXTENDS TwoWayMap, TLAPS

(* ts and us are maps between T and U, each the inverse of the other. *)
Inverse(ts, us) ==
  /\ DOMAIN ts \subseteq T /\ ts \in [DOMAIN ts -> U]
  /\ DOMAIN us \subseteq U /\ us \in [DOMAIN us -> T]
  /\ \A t \in DOMAIN ts : ts[t] \in DOMAIN us /\ us[ts[t]] = t
  /\ \A u \in DOMAIN us : us[u] \in DOMAIN ts /\ ts[us[u]] = u

PairsOf(ts) == {<<t, ts[t]>> : t \in DOMAIN ts}

(* erase(T) keeps the maps inverse and removes the pair of t, if any. *)
LEMMA EraseTLemma ==
  ASSUME NEW ts, NEW us, Inverse(ts, us), NEW t \in T
  PROVE  LET m == ErasedT(ts, us, t)
         IN  /\ Inverse(m[1], m[2])
             /\ t \notin DOMAIN m[1]
             /\ PairsOf(m[1]) = {p \in PairsOf(ts) : p[1] # t}
<1>1. CASE t \notin DOMAIN ts
  BY <1>1 DEF ErasedT, Inverse, PairsOf
<1>2. CASE t \in DOMAIN ts
  <2> DEFINE ts2 == Without(ts, t)
             us2 == Without(us, ts[t])
  <2>1. ErasedT(ts, us, t) = <<ts2, us2>>
    BY <1>2 DEF ErasedT
  <2>2. /\ DOMAIN ts2 = DOMAIN ts \ {t} /\ \A x \in DOMAIN ts2 : ts2[x] = ts[x]
        /\ DOMAIN us2 = DOMAIN us \ {ts[t]} /\ \A x \in DOMAIN us2 : us2[x] = us[x]
    BY DEF Without
  <2>3. ts2 \in [DOMAIN ts2 -> U] /\ us2 \in [DOMAIN us2 -> T]
    BY DEF Inverse, Without
  <2> HIDE DEF ts2, us2
  <2>4. Inverse(ts2, us2)
    BY <1>2, <2>2, <2>3 DEF Inverse
  <2>5. PairsOf(ts2) = {p \in PairsOf(ts) : p[1] # t}
    BY <2>2 DEF PairsOf
  <2> QED BY <2>1, <2>2, <2>4, <2>5
<1> QED BY <1>1, <1>2

(* erase(U) keeps the maps inverse and removes the pair of u, if any. *)
LEMMA EraseULemma ==
  ASSUME NEW ts, NEW us, Inverse(ts, us), NEW u \in U
  PROVE  LET m == ErasedU(ts, us, u)
         IN  /\ Inverse(m[1], m[2])
             /\ u \notin DOMAIN m[2]
             /\ DOMAIN m[1] \subseteq DOMAIN ts
             /\ PairsOf(m[1]) = {p \in PairsOf(ts) : p[2] # u}
<1>1. CASE u \notin DOMAIN us
  <2>1. \A t \in DOMAIN ts : ts[t] # u
    BY <1>1 DEF Inverse
  <2> QED BY <1>1, <2>1 DEF ErasedU, Inverse, PairsOf
<1>2. CASE u \in DOMAIN us
  <2> DEFINE ts2 == Without(ts, us[u])
             us2 == Without(us, u)
  <2>1. ErasedU(ts, us, u) = <<ts2, us2>>
    BY <1>2 DEF ErasedU
  <2>2. /\ DOMAIN ts2 = DOMAIN ts \ {us[u]} /\ \A x \in DOMAIN ts2 : ts2[x] = ts[x]
        /\ DOMAIN us2 = DOMAIN us \ {u} /\ \A x \in DOMAIN us2 : us2[x] = us[x]
    BY DEF Without
  <2>3. ts2 \in [DOMAIN ts2 -> U] /\ us2 \in [DOMAIN us2 -> T]
    BY DEF Inverse, Without
  <2> HIDE DEF ts2, us2
  <2>4. Inverse(ts2, us2)
    BY <1>2, <2>2, <2>3 DEF Inverse
  <2>5. \A t \in DOMAIN ts : ts[t] = u <=> t = us[u]
    BY <1>2 DEF Inverse
  <2>6. PairsOf(ts2) = {p \in PairsOf(ts) : p[2] # u}
    BY <2>2, <2>5 DEF PairsOf
  <2> QED BY <2>1, <2>2, <2>4, <2>6
<1> QED BY <1>1, <1>2

(* Inserting a pair of which neither element is there keeps the maps       *)
(* inverse.                                                                *)
LEMMA InsertLemma ==
  ASSUME NEW ts, NEW us, Inverse(ts, us), NEW t \in T, NEW u \in U,
         t \notin DOMAIN ts, u \notin DOMAIN us
  PROVE  LET m == Inserted(ts, us, t, u)
         IN  /\ Inverse(m[1], m[2])
             /\ PairsOf(m[1]) = PairsOf(ts) \cup {<<t, u>>}
<1> DEFINE ts2 == With(ts, t, u)
           us2 == With(us, u, t)
<1>1. Inserted(ts, us, t, u) = <<ts2, us2>>
  BY DEF Inserted
<1>2. /\ DOMAIN ts2 = DOMAIN ts \cup {t} /\ ts2[t] = u
      /\ \A x \in DOMAIN ts : ts2[x] = ts[x]
      /\ DOMAIN us2 = DOMAIN us \cup {u} /\ us2[u] = t
      /\ \A x \in DOMAIN us : us2[x] = us[x]
  BY DEF With
<1>3. ts2 \in [DOMAIN ts2 -> U] /\ us2 \in [DOMAIN us2 -> T]
  BY DEF Inverse, With
<1> HIDE DEF ts2, us2
<1>4. Inverse(ts2, us2)
  BY <1>2, <1>3 DEF Inverse
<1>5. PairsOf(ts2) = PairsOf(ts) \cup {<<t, u>>}
  BY <1>2 DEF PairsOf
<1> QED BY <1>1, <1>4, <1>5

IInv == Inverse(t_to_u, u_to_t)

(* Every call keeps the maps inverse and is the call of the same name on   *)
(* the set of pairs.                                                       *)
LEMMA StepLemma ==
  ASSUME IInv, Next
  PROVE  IInv' /\ Bijection!Next
<1> DEFINE pairs == PairsOf(t_to_u)
<1>1. ASSUME NEW t \in T, NEW u \in U, Put(t, u)
      PROVE  IInv' /\ PairsOf(t_to_u') =
                        {p \in pairs : p[1] # t /\ p[2] # u} \cup {<<t, u>>}
  <2> DEFINE first  == ErasedT(t_to_u, u_to_t, t)
             second == ErasedU(first[1], first[2], u)
             third  == Inserted(second[1], second[2], t, u)
  <2>1. /\ Inverse(first[1], first[2]) /\ t \notin DOMAIN first[1]
        /\ PairsOf(first[1]) = {p \in pairs : p[1] # t}
    BY EraseTLemma DEF IInv
  <2>2. t_to_u' = third[1] /\ u_to_t' = third[2]
    BY <1>1 DEF Put, Become
  <2> HIDE DEF first
  <2>3. /\ Inverse(second[1], second[2]) /\ u \notin DOMAIN second[2]
        /\ t \notin DOMAIN second[1]
        /\ PairsOf(second[1]) = {p \in PairsOf(first[1]) : p[2] # u}
    BY <2>1, EraseULemma
  <2> HIDE DEF second
  <2>4. /\ Inverse(third[1], third[2])
        /\ PairsOf(third[1]) = PairsOf(second[1]) \cup {<<t, u>>}
    BY <2>3, InsertLemma
  <2> HIDE DEF third
  <2> QED BY <2>1, <2>2, <2>3, <2>4 DEF IInv
<1>2. ASSUME NEW t \in T, EraseT(t)
      PROVE  IInv' /\ PairsOf(t_to_u') = {p \in pairs : p[1] # t}
  BY <1>2, EraseTLemma DEF EraseT, Become, IInv
<1>3. ASSUME NEW u \in U, EraseU(u)
      PROVE  IInv' /\ PairsOf(t_to_u') = {p \in pairs : p[2] # u}
  BY <1>3, EraseULemma DEF EraseU, Become, IInv
<1>4. IInv'
  BY <1>1, <1>2, <1>3 DEF Next
<1>5. Bijection!Next
  BY <1>1, <1>2, <1>3
     DEF Next, PairsOf, Bijection!Next, Bijection!Put, Bijection!EraseT,
         Bijection!EraseU
<1> QED BY <1>4, <1>5

LEMMA Invariance == Spec => []IInv
<1>1. Init => IInv
  BY DEF Init, IInv, Inverse, EmptyMap
<1>2. IInv /\ [Next]_vars => IInv'
  BY StepLemma DEF IInv, vars
<1> QED BY <1>1, <1>2, PTL DEF Spec

(* The two maps are inverse to each other after any calls, whatever the    *)
(* keys (two_way_map.hpp:37-76).                                           *)
THEOREM AlwaysInverse == Spec => []MutuallyInverse
<1>1. IInv => MutuallyInverse
  BY DEF IInv, Inverse, MutuallyInverse, GetOrDefault
<1> QED BY <1>1, Invariance, PTL

(* The class is a partial bijection, for any keys and any calls.           *)
THEOREM IsBijection == Spec => ImplementsBijection
<1>1. Init => Bijection!Init
  BY DEF Init, Bijection!Init, EmptyMap
<1>2. IInv /\ [Next]_vars => [Bijection!Next]_{<<t, t_to_u[t]>> : t \in DOMAIN t_to_u}
  BY StepLemma DEF vars
<1> QED BY <1>1, <1>2, Invariance, PTL DEF Spec, ImplementsBijection, Bijection!Spec
=============================================================================
