-------------------------- MODULE ObjectPoolProofs --------------------------
(***************************************************************************)
(* ObjectPool for any finite set of threads and any number of objects.     *)
(***************************************************************************)
EXTENDS ObjectPool, FiniteSetTheorems, SequenceTheorems, TLAPS

Members(queue) == {queue[i] : i \in 1..Len(queue)}

Distinct(queue) ==
  \A i, j \in 1..Len(queue) : queue[i] = queue[j] => i = j

(* What a semaphore of one unit at a time keeps: the threads in line are   *)
(* inside an acquire, each once, and there is a line only without units.   *)
LineInv(units, queue, inside) ==
  /\ Distinct(queue)
  /\ Members(queue) \subseteq inside
  /\ queue # <<>> => units = 0

AvailInv == LineInv(avail_units, avail_waiting, InAvailability)

AccessInv == LineInv(list_units, list_waiting, InAccess)

(* The thread that has the list has what front() has returned. *)
RetrievedIsFirst ==
  \A t \in Threads :
    pc[t] \in {"check_pop", "wait_pop"} => retrieved[t] = Head(object_list)

(* The size that check_for_object has tested does not change under it. *)
SizeStillTested ==
  At({"check_availability", "check_availability_blocked"}) # {} => object_list # <<>>

(* A check that sleeps inside the list is in line for a unit. *)
SleepingCheckInLine ==
  \A t \in Threads :
    pc[t] = "check_availability_blocked" => t \in Members(avail_waiting)

OnlyWaitersWait == \A t \in Threads : pc[t] \in WaitLabels => t \in Waiters

IInv ==
  /\ TypeOK
  /\ AvailInv /\ AccessInv
  /\ ListAccessExclusive
  /\ Balance
  /\ DeliveredOnceInOrder
  /\ RetrievedIsFirst
  /\ SizeStillTested
  /\ SleepingCheckInLine
  /\ OnlyWaitersWait

Giving == At({"add_give_availability"})

-----------------------------------------------------------------------------
(* Lines of threads *)

(* What joining the end of a line does to its members. *)
LEMMA MembersAppend ==
  ASSUME NEW queue \in Seq(Threads), NEW t \in Threads
  PROVE  /\ Append(queue, t) \in Seq(Threads)
         /\ Append(queue, t) # <<>>
         /\ Members(Append(queue, t)) = Members(queue) \cup {t}
         /\ Distinct(queue) /\ t \notin Members(queue) => Distinct(Append(queue, t))
<1> DEFINE n == Len(queue)
<1>1. /\ Append(queue, t) \in Seq(Threads)
      /\ Len(Append(queue, t)) = n + 1 /\ n \in Nat
      /\ \A i \in 1..n : Append(queue, t)[i] = queue[i]
      /\ Append(queue, t)[n + 1] = t
  BY LenProperties
<1> HIDE DEF n
<1>2. 1..n + 1 = (1..n) \cup {n + 1}
  BY <1>1
<1>3. Members(Append(queue, t)) = Members(queue) \cup {t}
  BY <1>1, <1>2 DEF Members, n
<1>4. Append(queue, t) # <<>>
  BY <1>1
<1>5. ASSUME Distinct(queue), t \notin Members(queue) PROVE Distinct(Append(queue, t))
  BY <1>1, <1>2, <1>5 DEF Distinct, Members, n
<1> QED BY <1>1, <1>3, <1>4, <1>5

(* What leaving the front of a line does to its members. *)
LEMMA MembersTail ==
  ASSUME NEW queue \in Seq(Threads), queue # <<>>, Distinct(queue)
  PROVE  /\ Tail(queue) \in Seq(Threads)
         /\ Head(queue) \in Members(queue)
         /\ Members(Tail(queue)) = Members(queue) \ {Head(queue)}
         /\ Distinct(Tail(queue))
<1> DEFINE n    == Len(queue)
           rest == Tail(queue)
<1>1. /\ rest \in Seq(Threads)
      /\ Len(rest) = n - 1 /\ n \in Nat \ {0}
      /\ \A i \in 1..n - 1 : rest[i] = queue[i + 1]
      /\ Head(queue) = queue[1]
  BY HeadTailProperties, EmptySeq
<1> HIDE DEF n, rest
<1>2. Head(queue) \in Members(queue)
  BY <1>1 DEF Members, n
<1>3. Members(rest) = Members(queue) \ {queue[1]}
  <2>1. ASSUME NEW x \in Members(rest) PROVE x \in Members(queue) \ {queue[1]}
    <3>1. PICK i \in 1..n - 1 : x = queue[i + 1]
      BY <1>1, <2>1 DEF Members
    <3>2. i + 1 \in 1..n /\ 1 \in 1..n /\ i + 1 # 1
      BY <1>1
    <3> QED BY <3>1, <3>2 DEF Members, Distinct, n
  <2>2. ASSUME NEW x \in Members(queue) \ {queue[1]} PROVE x \in Members(rest)
    <3>1. PICK i \in 1..n : x = queue[i] /\ i # 1
      BY <2>2 DEF Members, n
    <3>2. i - 1 \in 1..n - 1 /\ rest[i - 1] = queue[i]
      BY <1>1, <3>1
    <3> QED BY <1>1, <3>1, <3>2 DEF Members
  <2> QED BY <2>1, <2>2
<1>4. Distinct(rest)
  <2> SUFFICES ASSUME NEW i \in 1..n - 1, NEW j \in 1..n - 1, rest[i] = rest[j]
               PROVE  i = j
    BY <1>1 DEF Distinct
  <2>1. i + 1 \in 1..n /\ j + 1 \in 1..n /\ queue[i + 1] = queue[j + 1]
    BY <1>1
  <2> QED BY <2>1 DEF Distinct, n
<1> QED BY <1>1, <1>2, <1>3, <1>4 DEF rest

(* A thread joins a line; *)
LEMMA LineJoin ==
  ASSUME NEW units, NEW queue \in Seq(Threads), NEW inside, NEW t \in Threads,
         LineInv(units, queue, inside), t \notin inside, queue # <<>> \/ units = 0
  PROVE  /\ Append(queue, t) \in Seq(Threads)
         /\ LineInv(units, Append(queue, t), inside \cup {t})
         /\ (inside \cup {t}) \ Members(Append(queue, t)) = inside \ Members(queue)
         /\ Members(queue) \subseteq Members(Append(queue, t))
         /\ t \in Members(Append(queue, t))
BY MembersAppend DEF LineInv

(* the first in line is released; *)
LEMMA LineRelease ==
  ASSUME NEW units, NEW queue \in Seq(Threads), NEW inside,
         LineInv(units, queue, inside), queue # <<>>
  PROVE  /\ Tail(queue) \in Seq(Threads)
         /\ LineInv(units, Tail(queue), inside)
         /\ inside \ Members(Tail(queue)) = (inside \ Members(queue)) \cup {Head(queue)}
         /\ Head(queue) \in inside
         /\ Head(queue) \notin inside \ Members(queue)
BY MembersTail DEF LineInv

(* one that has been released returns. *)
LEMMA LineReturn ==
  ASSUME NEW units, NEW queue, NEW inside, NEW t,
         LineInv(units, queue, inside), t \in inside \ Members(queue)
  PROVE  /\ LineInv(units, queue, inside \ {t})
         /\ (inside \ {t}) \ Members(queue) = (inside \ Members(queue)) \ {t}
BY DEF LineInv

-----------------------------------------------------------------------------
(* Sets of threads *)

(* One thread more, *)
LEMMA CardinalityAdd ==
  ASSUME NEW S \in SUBSET Threads, NEW t \in Threads, t \notin S
  PROVE  /\ Cardinality(S) \in Nat
         /\ Cardinality(S \cup {t}) = Cardinality(S) + 1
BY PoolAssumption, FS_Subset, FS_AddElement, FS_CardinalityType

(* one thread less. *)
LEMMA CardinalityRemove ==
  ASSUME NEW S \in SUBSET Threads, NEW t \in S
  PROVE  /\ Cardinality(S) \in Nat \ {0}
         /\ Cardinality(S \ {t}) = Cardinality(S) - 1
<1>1. IsFiniteSet(S)
  BY PoolAssumption, FS_Subset
<1>2. Cardinality(S) \in Nat /\ Cardinality(S) # 0
  BY <1>1, FS_CardinalityType, FS_EmptySet
<1> QED BY <1>1, <1>2, FS_RemoveElement

(* The sets that are counted are finite. *)
LEMMA SetTypes ==
  /\ HoldingList \in SUBSET Threads /\ Cardinality(HoldingList) \in Nat
  /\ Reserved \in SUBSET Threads /\ Cardinality(Reserved) \in Nat
  /\ Giving \in SUBSET Threads /\ Cardinality(Giving) \in Nat
<1>1. /\ HoldingList \in SUBSET Threads
      /\ Reserved \in SUBSET Threads
      /\ Giving \in SUBSET Threads
  BY DEF HoldingList, Reserved, Giving, At, InAccess, InAvailability
<1> QED BY <1>1, PoolAssumption, FS_Subset, FS_CardinalityType

(* At most one thread has the list, and none while its unit is free. *)
LEMMA OneHolder ==
  ASSUME TypeOK, ListAccessExclusive, NEW t \in HoldingList
  PROVE  HoldingList = {t} /\ list_units = 0
<1>1. HoldingList \in SUBSET Threads
  BY SetTypes
<1>2. /\ Cardinality(HoldingList) \in Nat \ {0}
      /\ Cardinality(HoldingList \ {t}) = Cardinality(HoldingList) - 1
  BY <1>1, CardinalityRemove
<1>3. Cardinality(HoldingList) = 1 /\ list_units = 0
  BY <1>2 DEF ListAccessExclusive, TypeOK
<1>4. HoldingList \ {t} \in SUBSET Threads /\ Cardinality(HoldingList \ {t}) = 0
  BY <1>1, <1>2, <1>3
<1>5. HoldingList \ {t} = {}
  BY <1>4, PoolAssumption, FS_Subset, FS_EmptySet
<1> QED BY <1>3, <1>5

(* The labels of HoldingList and of Reserved, by thread. *)
LEMMA LabelsOfHolders ==
  ASSUME NEW t \in Threads
  PROVE  /\ pc[t] \in {"add_enqueue", "add_give_availability", "add_give_list",
                       "check_size", "check_availability",
                       "check_availability_blocked", "check_front", "check_pop",
                       "check_give_list", "wait_front", "wait_pop",
                       "wait_give_list"}
              => t \in HoldingList
         /\ pc[t] \in {"check_front", "check_pop", "wait_front", "wait_pop"}
              => t \in Reserved
BY DEF HoldingList, Reserved, At

(* Whoever is about to take an object finds one. *)
LEMMA NeverEmpty == ASSUME IInv PROVE NeverPopsEmpty
<1> SUFFICES ASSUME NEW t \in Threads,
                    pc[t] \in {"check_front", "check_pop", "wait_front", "wait_pop"}
             PROVE  object_list # <<>>
  BY DEF NeverPopsEmpty, At
<1>1. t \in Reserved
  BY LabelsOfHolders
<1>2. Cardinality(Reserved) \in Nat \ {0} /\ Cardinality(Giving) \in Nat
  BY <1>1, SetTypes, CardinalityRemove
<1>3. Len(object_list) # 0
  BY <1>2 DEF IInv, Balance, Giving, TypeOK
<1> QED BY <1>3

-----------------------------------------------------------------------------
(* Objects in order *)

(* Appending to the second part appends to the whole. *)
LEMMA AppendToConcat ==
  ASSUME NEW S, NEW taken \in Seq(S), NEW left \in Seq(S), NEW x \in S
  PROVE  taken \o Append(left, x) = Append(taken \o left, x)
<1> DEFINE last == <<x>>
<1>1. last \in Seq(S) /\ taken \o left \in Seq(S)
  BY ConcatProperties
<1>2. Append(left, x) = left \o last /\ Append(taken \o left, x) = (taken \o left) \o last
  BY <1>1, AppendIsConcat
<1>3. (taken \o left) \o last = taken \o (left \o last)
  BY <1>1, ConcatAssociative
<1> HIDE DEF last
<1> QED BY <1>2, <1>3

(* A new object comes last in the order of insertion. *)
LEMMA AppendInOrder ==
  ASSUME NEW n \in Nat, NEW taken \in Seq(1..n), NEW left \in Seq(1..n)
  PROVE  taken \o left = [i \in 1..n |-> i]
           => taken \o Append(left, n + 1) = [i \in 1..n + 1 |-> i]
<1> DEFINE S     == 1..n + 1
           small == [i \in 1..n |-> i]
           big   == [i \in 1..n + 1 |-> i]
<1>1. taken \in Seq(S) /\ left \in Seq(S) /\ n + 1 \in S
  BY SeqMonotonic
<1>2. small \in Seq(S) /\ big \in Seq(S) /\ Len(small) = n /\ Len(big) = n + 1
  OBVIOUS
<1>3. Append(small, n + 1) = big
  <2>1. /\ Append(small, n + 1) \in Seq(S)
        /\ Len(Append(small, n + 1)) = n + 1
        /\ \A i \in 1..n : Append(small, n + 1)[i] = small[i]
        /\ Append(small, n + 1)[n + 1] = n + 1
    BY <1>1, <1>2, AppendProperties
  <2>2. ASSUME NEW i \in 1..n + 1 PROVE Append(small, n + 1)[i] = big[i]
    <3>1. CASE i \in 1..n
      BY <2>1, <3>1
    <3>2. CASE i = n + 1
      BY <2>1, <3>2
    <3> QED BY <3>1, <3>2
  <2> QED BY <1>2, <2>1, <2>2, SeqEqual
<1> HIDE DEF S, small, big
<1>4. taken \o Append(left, n + 1) = Append(taken \o left, n + 1)
  <2>1. ASSUME NEW x \in S
        PROVE  taken \o Append(left, x) = Append(taken \o left, x)
    <3>1. taken \in Seq(S) /\ left \in Seq(S)
      BY <1>1
    <3> QED BY <3>1, AppendToConcat
  <2> QED BY <1>1, <2>1
<1> QED BY <1>3, <1>4 DEF small, big

(* Delivering the first object of the deque moves the border only. *)
LEMMA MoveFirst ==
  ASSUME NEW S, NEW taken \in Seq(S), NEW left \in Seq(S), left # <<>>
  PROVE  Append(taken, Head(left)) \o Tail(left) = taken \o left
<1> DEFINE first == <<Head(left)>>
<1>1. /\ Head(left) \in S /\ Tail(left) \in Seq(S) /\ first \in Seq(S)
      /\ Len(left) \in Nat \ {0}
  BY HeadTailProperties, EmptySeq
<1>2. Append(taken, Head(left)) = taken \o first
  BY <1>1, AppendIsConcat
<1>3. first \o Tail(left) = left
  <2>1. left = SubSeq(left, 1, Len(left)) /\ Tail(left) = SubSeq(left, 2, Len(left))
    BY SubSeqFull, TailIsSubSeq
  <2>2. 1 \in 1..Len(left) /\ Len(left) \in 1..Len(left) /\ Head(left) = left[1]
    BY <1>1
  <2>3. SubSeq(left, 1, Len(left)) = <<left[1]>> \o SubSeq(left, 1 + 1, Len(left))
    BY <2>2, SubSeqRecursiveFirst
  <2> QED BY <2>1, <2>2, <2>3
<1>4. (taken \o first) \o Tail(left) = taken \o (first \o Tail(left))
  BY <1>1, ConcatAssociative
<1> HIDE DEF first
<1> QED BY <1>2, <1>3, <1>4

-----------------------------------------------------------------------------
(* Steps *)

(* The sets of threads decide about the counters. *)
Counted ==
  /\ ListAccessExclusive
  /\ Balance

(* Steps that change no counted set keep what counts them. *)
LEMMA SameSets ==
  ASSUME Counted, HoldingList' = HoldingList, Reserved' = Reserved, Giving' = Giving,
         list_units' = list_units, avail_units' = avail_units,
         Len(object_list') = Len(object_list)
  PROVE  Counted'
BY DEF Counted, ListAccessExclusive, Balance, Giving

(* The invariant holds of a new pool. *)
LEMMA InitIInv == Init => IInv
<1> SUFFICES ASSUME Init PROVE IInv
  OBVIOUS
<1>1. /\ pc = [t \in Threads |-> "idle"] /\ object_list = <<>> /\ delivered = <<>>
      /\ enqueued = 0 /\ avail_units = 0 /\ avail_waiting = <<>>
      /\ list_units = 1 /\ list_waiting = <<>>
      /\ retrieved = [t \in Threads |-> 0]
  BY DEF Init, Avail!Init, Access!Init, Garbage
<1>2. TypeOK
  BY <1>1 DEF TypeOK, Labels
<1>3. AvailInv /\ AccessInv
  BY <1>1 DEF AvailInv, AccessInv, LineInv, Distinct, Members
<1>4. HoldingList = {} /\ Reserved = {} /\ Giving = {}
  BY <1>1 DEF HoldingList, Reserved, Giving, At, InAccess, InAvailability
<1>5. ListAccessExclusive /\ Balance
  <2>1. Cardinality({}) = 0
    BY FS_EmptySet
  <2>2. /\ Cardinality(HoldingList) = 0
        /\ Cardinality(Reserved) = 0
        /\ Cardinality(Giving) = 0
    BY <1>4, <2>1, Zenon
  <2> QED BY <1>1, <2>2 DEF ListAccessExclusive, Balance, Giving
<1>6. DeliveredOnceInOrder
  <2>1. <<>> \o <<>> = <<>> /\ [i \in 1..0 |-> i] = <<>>
    OBVIOUS
  <2> QED BY <1>1, <2>1 DEF DeliveredOnceInOrder
<1>7. RetrievedIsFirst /\ SizeStillTested /\ SleepingCheckInLine /\ OnlyWaitersWait
  BY <1>1 DEF RetrievedIsFirst, SizeStillTested, SleepingCheckInLine, OnlyWaitersWait,
              At, WaitLabels
<1> QED BY <1>2, <1>3, <1>5, <1>6, <1>7 DEF IInv

(* Asking for the list: in at once, or in line. *)
LEMMA AcquireAccessIInv ==
  ASSUME IInv, NEW t \in Threads, NEW from, NEW passed, NEW blocked,
         AcquireAccess(t, from, passed, blocked),
         <<from, passed, blocked>> \in
           {<<"idle", "add_enqueue", "add_list_blocked">>,
            <<"idle", "check_size", "check_list_blocked">>,
            <<"wait_list", "wait_front", "wait_list_blocked">>}
  PROVE  IInv'
<1> USE DEF IInv
<1>1. /\ pc[t] = from /\ pc \in [Threads -> Labels]
      /\ UNCHANGED <<availability, data>>
      /\ \/ pc' = [pc EXCEPT ![t] = passed] /\ Access!AcquireAtOnce(t)
         \/ pc' = [pc EXCEPT ![t] = blocked] /\ Access!AcquireLater(t)
  BY DEF AcquireAccess, Goto, TypeOK
<1> USE DEF availability, data
<1>2. InAvailability' = InAvailability /\ Giving' = Giving
  BY <1>1 DEF InAvailability, Giving, At
<1>3. AvailInv'
  BY <1>1, <1>2 DEF AvailInv
<1>4. Reserved' = Reserved
  BY <1>1, <1>2 DEF Reserved, At, Avail!Members
<1>5. RetrievedIsFirst' /\ SizeStillTested' /\ SleepingCheckInLine' /\ OnlyWaitersWait'
  BY <1>1 DEF RetrievedIsFirst, SizeStillTested, SleepingCheckInLine, OnlyWaitersWait,
              At, WaitLabels
<1>6. DeliveredOnceInOrder'
  BY <1>1 DEF DeliveredOnceInOrder
<1>7. CASE pc' = [pc EXCEPT ![t] = passed] /\ Access!AcquireAtOnce(t)
  <2>1. /\ list_waiting = <<>> /\ list_units > 0
        /\ list_units' = list_units - 1
        /\ list_waiting' = list_waiting /\ InAccess' = InAccess
    BY <1>7 DEF Access!AcquireAtOnce
  <2>2. TypeOK'
    BY <1>1, <1>7, <2>1 DEF TypeOK, Labels, AddLabels, CheckLabels, WaitLabels
  <2>3. AccessInv'
    BY <2>1 DEF AccessInv, LineInv
  <2>4. HoldingList' = HoldingList \cup {t} /\ t \notin HoldingList
    BY <1>1, <1>7, <2>1 DEF HoldingList, At, InAccess, Access!Members
  <2>5. Counted'
    <3>1. Cardinality(HoldingList') = Cardinality(HoldingList) + 1
      BY <2>4, SetTypes, CardinalityAdd
    <3>2. list_units' + Cardinality(HoldingList') = 1
      BY <2>1, <3>1, SetTypes DEF ListAccessExclusive, TypeOK
    <3>3. Balance'
      BY <1>1, <1>2, <1>4 DEF Balance, Giving
    <3> QED BY <3>2, <3>3 DEF Counted, ListAccessExclusive
  <2> QED BY <1>3, <1>5, <1>6, <2>2, <2>3, <2>5 DEF Counted
<1>8. CASE pc' = [pc EXCEPT ![t] = blocked] /\ Access!AcquireLater(t)
  <2>1. /\ t \notin InAccess /\ (list_waiting # <<>> \/ list_units = 0)
        /\ list_waiting' = Append(list_waiting, t) /\ list_units' = list_units
        /\ InAccess' = InAccess \cup {t}
    BY <1>8 DEF Access!AcquireLater
  <2>2. /\ list_waiting' \in Seq(Threads) /\ AccessInv'
        /\ InAccess' \ Members(list_waiting') = InAccess \ Members(list_waiting)
    BY <2>1, LineJoin DEF AccessInv, TypeOK
  <2>3. TypeOK'
    BY <1>1, <1>8, <2>1, <2>2 DEF TypeOK, Labels, AddLabels, CheckLabels, WaitLabels
  <2>4. HoldingList' = HoldingList
    BY <1>1, <1>8, <2>2 DEF HoldingList, At, Members, Access!Members
  <2>5. Counted'
    BY <1>1, <1>2, <1>4, <2>1, <2>4, SameSets DEF Counted
  <2> QED BY <1>3, <1>5, <1>6, <2>2, <2>3, <2>5 DEF Counted
<1> QED BY <1>1, <1>7, <1>8

(* A released thread enters the list. *)
LEMMA ResumeAccessIInv ==
  ASSUME IInv, NEW t \in Threads, ResumeAccess(t)
  PROVE  IInv'
<1> USE DEF IInv
<1>1. /\ t \in InAccess /\ pc \in [Threads -> Labels]
      /\ pc' = [pc EXCEPT ![t] = AfterAcquire[pc[t]]]
      /\ UNCHANGED <<availability, data>>
      /\ Access!Return(t)
  BY DEF ResumeAccess, TypeOK
<1> USE DEF availability, data
<1>2. <<pc[t], pc'[t]>> \in
        {<<"add_list_blocked", "add_enqueue">>, <<"check_list_blocked", "check_size">>,
         <<"wait_list_blocked", "wait_front">>}
  BY <1>1 DEF InAccess, AfterAcquire
<1>3. pc' = [pc EXCEPT ![t] = pc'[t]]
  BY <1>1
<1>4. /\ t \in InAccess \ Members(list_waiting)
      /\ list_units' = list_units /\ list_waiting' = list_waiting
      /\ InAccess' = InAccess \ {t}
  BY <1>1 DEF Access!Return, Access!Members, Members
<1>5. AccessInv' /\ InAccess' \ Members(list_waiting') = (InAccess \ Members(list_waiting)) \ {t}
  BY <1>4, LineReturn DEF AccessInv
<1>6. InAvailability' = InAvailability /\ Giving' = Giving
  BY <1>1, <1>2, <1>3 DEF InAvailability, Giving, At
<1>7. AvailInv'
  BY <1>1, <1>6 DEF AvailInv
<1>8. Reserved' = Reserved
  BY <1>1, <1>2, <1>3, <1>6 DEF Reserved, At, Avail!Members
<1>9. HoldingList' = HoldingList
  BY <1>1, <1>2, <1>3, <1>4, <1>5 DEF HoldingList, At, Members, Access!Members
<1>10. Counted'
  BY <1>1, <1>4, <1>6, <1>8, <1>9, SameSets DEF Counted
<1>11. TypeOK'
  BY <1>1, <1>2, <1>3, <1>4 DEF TypeOK, Labels, AddLabels, CheckLabels, WaitLabels
<1>12. RetrievedIsFirst' /\ SizeStillTested' /\ SleepingCheckInLine' /\ OnlyWaitersWait'
  BY <1>1, <1>2, <1>3
  DEF RetrievedIsFirst, SizeStillTested, SleepingCheckInLine, OnlyWaitersWait, At,
      WaitLabels
<1>13. DeliveredOnceInOrder'
  BY <1>1 DEF DeliveredOnceInOrder
<1> QED BY <1>5, <1>7, <1>10, <1>11, <1>12, <1>13 DEF Counted

(* Leaving the list: the unit stays, or goes to the first in line. *)
LEMMA GiveAccessIInv ==
  ASSUME IInv, NEW t \in Threads, NEW from, GiveAccess(t, from),
         from \in {"add_give_list", "check_give_list", "wait_give_list"}
  PROVE  IInv'
<1> USE DEF IInv
<1>1. /\ pc[t] = from /\ pc \in [Threads -> Labels]
      /\ pc' = [pc EXCEPT ![t] = "idle"]
      /\ UNCHANGED <<availability, data>>
      /\ Access!AddUnit \/ Access!Release
  BY DEF GiveAccess, Goto, TypeOK, Access!Give
<1> USE DEF availability, data
<1>2. t \in HoldingList /\ t \notin InAccess
  BY <1>1, LabelsOfHolders DEF InAccess
<1>3. HoldingList = {t} /\ list_units = 0
  BY <1>2, OneHolder
<1>4. /\ InAvailability' = InAvailability /\ Giving' = Giving
      /\ InAccess' = InAccess
  BY <1>1 DEF InAvailability, InAccess, Giving, At
<1>5. AvailInv'
  BY <1>1, <1>4 DEF AvailInv
<1>6. Reserved' = Reserved
  BY <1>1, <1>4 DEF Reserved, At, Avail!Members
<1>7. Balance'
  BY <1>1, <1>4, <1>6 DEF Balance, Giving
<1>8. RetrievedIsFirst' /\ SizeStillTested' /\ SleepingCheckInLine' /\ OnlyWaitersWait'
  BY <1>1 DEF RetrievedIsFirst, SizeStillTested, SleepingCheckInLine, OnlyWaitersWait,
              At, WaitLabels
<1>9. DeliveredOnceInOrder'
  BY <1>1 DEF DeliveredOnceInOrder
<1>10. CASE Access!AddUnit
  <2>1. /\ list_waiting = <<>> /\ list_waiting' = list_waiting
        /\ list_units' = 1
    BY <1>3, <1>10 DEF Access!AddUnit
  <2>2. TypeOK'
    BY <1>1, <2>1 DEF TypeOK, Labels
  <2>3. AccessInv'
    BY <1>4, <2>1 DEF AccessInv, LineInv
  <2>4. HoldingList' = {}
    <3>1. HoldingList' = HoldingList \ {t}
      BY <1>1, <1>2, <1>4, <2>1 DEF HoldingList, At, Access!Members
    <3> QED BY <1>3, <3>1
  <2>5. Cardinality(HoldingList') = 0
    BY <2>4, FS_EmptySet, Zenon
  <2> QED BY <1>5, <1>7, <1>8, <1>9, <2>1, <2>2, <2>3, <2>5 DEF ListAccessExclusive
<1>11. CASE Access!Release
  <2> DEFINE first == Head(list_waiting)
  <2>1. /\ list_waiting # <<>> /\ list_waiting' = Tail(list_waiting)
        /\ list_units' = list_units
    BY <1>11 DEF Access!Release
  <2>2. /\ list_waiting' \in Seq(Threads) /\ AccessInv'
        /\ InAccess' \ Members(list_waiting')
             = (InAccess \ Members(list_waiting)) \cup {first}
        /\ first \in InAccess
    BY <1>4, <2>1, LineRelease DEF AccessInv, TypeOK
  <2>3. TypeOK'
    BY <1>1, <2>1, <2>2 DEF TypeOK, Labels
  <2>4. InAccess \ Members(list_waiting) = {}
    BY <1>2, <1>3 DEF HoldingList, Members, Access!Members
  <2>5. HoldingList' = {first}
    BY <1>1, <1>3, <2>2, <2>4 DEF HoldingList, At, InAccess, Members, Access!Members
  <2>6. Cardinality(HoldingList') = 1
    BY <2>5, FS_Singleton, Zenon
  <2> QED BY <1>3, <1>5, <1>7, <1>8, <1>9, <2>1, <2>2, <2>3, <2>6 DEF ListAccessExclusive
<1> QED BY <1>1, <1>10, <1>11

(* Asking for a unit: taken at once, or in line. *)
LEMMA AcquireAvailabilityIInv ==
  ASSUME IInv, NEW t \in Threads, NEW from, NEW passed, NEW blocked,
         AcquireAvailability(t, from, passed, blocked),
         \/ /\ <<from, passed, blocked>> =
                 <<"idle", "wait_list", "wait_availability_blocked">>
            /\ t \in Waiters
         \/ <<from, passed, blocked>> =
              <<"check_availability", "check_front", "check_availability_blocked">>
  PROVE  IInv'
<1> USE DEF IInv
<1>1. /\ pc[t] = from /\ pc \in [Threads -> Labels]
      /\ UNCHANGED <<access, data>>
      /\ \/ pc' = [pc EXCEPT ![t] = passed] /\ Avail!AcquireAtOnce(t)
         \/ pc' = [pc EXCEPT ![t] = blocked] /\ Avail!AcquireLater(t)
  BY DEF AcquireAvailability, Goto, TypeOK
<1> USE DEF access, data
<1>2. InAccess' = InAccess /\ Giving' = Giving
  BY <1>1 DEF InAccess, Giving, At
<1>3. AccessInv'
  BY <1>1, <1>2 DEF AccessInv
<1>4. HoldingList' = HoldingList
  BY <1>1, <1>2 DEF HoldingList, At, Access!Members
<1>5. ListAccessExclusive'
  BY <1>1, <1>4 DEF ListAccessExclusive
<1>6. RetrievedIsFirst' /\ SizeStillTested' /\ OnlyWaitersWait'
  BY <1>1 DEF RetrievedIsFirst, SizeStillTested, OnlyWaitersWait, At, WaitLabels
<1>7. DeliveredOnceInOrder'
  BY <1>1 DEF DeliveredOnceInOrder
<1>8. CASE pc' = [pc EXCEPT ![t] = passed] /\ Avail!AcquireAtOnce(t)
  <2>1. /\ avail_waiting = <<>> /\ avail_units > 0
        /\ avail_units' = avail_units - 1
        /\ avail_waiting' = avail_waiting /\ InAvailability' = InAvailability
    BY <1>8 DEF Avail!AcquireAtOnce
  <2>2. TypeOK'
    BY <1>1, <1>8, <2>1 DEF TypeOK, Labels, AddLabels, CheckLabels, WaitLabels
  <2>3. AvailInv'
    BY <2>1 DEF AvailInv, LineInv
  <2>4. Reserved' = Reserved \cup {t} /\ t \notin Reserved
    BY <1>1, <1>8, <2>1 DEF Reserved, At, InAvailability, Avail!Members
  <2>5. Balance'
    <3>1. Cardinality(Reserved') = Cardinality(Reserved) + 1
      BY <2>4, SetTypes, CardinalityAdd
    <3>2. /\ avail_units \in Nat
          /\ Len(object_list) = avail_units + Cardinality(Reserved) + Cardinality(Giving)
      BY DEF Balance, Giving, TypeOK
    <3>3. Len(object_list') = avail_units' + Cardinality(Reserved') + Cardinality(Giving')
      BY <1>1, <1>2, <2>1, <3>1, <3>2, SetTypes
    <3> QED BY <3>3 DEF Balance, Giving
  <2>6. SleepingCheckInLine'
    BY <1>1, <1>8, <2>1 DEF SleepingCheckInLine
  <2> QED BY <1>3, <1>5, <1>6, <1>7, <2>2, <2>3, <2>5, <2>6
<1>9. CASE pc' = [pc EXCEPT ![t] = blocked] /\ Avail!AcquireLater(t)
  <2>1. /\ t \notin InAvailability /\ (avail_waiting # <<>> \/ avail_units = 0)
        /\ avail_waiting' = Append(avail_waiting, t) /\ avail_units' = avail_units
        /\ InAvailability' = InAvailability \cup {t}
    BY <1>9 DEF Avail!AcquireLater
  <2>2. /\ avail_waiting' \in Seq(Threads) /\ AvailInv'
        /\ InAvailability' \ Members(avail_waiting')
             = InAvailability \ Members(avail_waiting)
        /\ Members(avail_waiting) \subseteq Members(avail_waiting')
        /\ t \in Members(avail_waiting')
    BY <2>1, LineJoin DEF AvailInv, TypeOK
  <2>3. TypeOK'
    BY <1>1, <1>9, <2>1, <2>2 DEF TypeOK, Labels, AddLabels, CheckLabels, WaitLabels
  <2>4. Reserved' = Reserved
    BY <1>1, <1>9, <2>2 DEF Reserved, At, Members, Avail!Members
  <2>5. Balance'
    BY <1>1, <1>2, <2>1, <2>4 DEF Balance, Giving
  <2>6. SleepingCheckInLine'
    BY <1>1, <1>9, <2>2 DEF SleepingCheckInLine
  <2> QED BY <1>3, <1>5, <1>6, <1>7, <2>2, <2>3, <2>5, <2>6
<1> QED BY <1>1, <1>8, <1>9

(* A released thread goes on with its unit. *)
LEMMA ResumeAvailabilityIInv ==
  ASSUME IInv, NEW t \in Threads, ResumeAvailability(t)
  PROVE  IInv'
<1> USE DEF IInv
<1>1. /\ t \in InAvailability /\ pc \in [Threads -> Labels]
      /\ pc' = [pc EXCEPT ![t] = AfterAcquire[pc[t]]]
      /\ UNCHANGED <<access, data>>
      /\ Avail!Return(t)
  BY DEF ResumeAvailability, TypeOK
<1> USE DEF access, data
<1>2. /\ t \in InAvailability \ Members(avail_waiting)
      /\ avail_units' = avail_units /\ avail_waiting' = avail_waiting
      /\ InAvailability' = InAvailability \ {t}
  BY <1>1 DEF Avail!Return, Avail!Members, Members
<1>3. pc[t] = "wait_availability_blocked"
  BY <1>1, <1>2 DEF InAvailability, SleepingCheckInLine
<1>4. pc' = [pc EXCEPT ![t] = "wait_list"]
  BY <1>1, <1>3 DEF AfterAcquire
<1>5. /\ AvailInv'
      /\ InAvailability' \ Members(avail_waiting')
           = (InAvailability \ Members(avail_waiting)) \ {t}
  BY <1>2, LineReturn DEF AvailInv
<1>6. InAccess' = InAccess /\ Giving' = Giving
  BY <1>1, <1>3, <1>4 DEF InAccess, Giving, At
<1>7. AccessInv'
  BY <1>1, <1>6 DEF AccessInv
<1>8. HoldingList' = HoldingList
  BY <1>1, <1>3, <1>4, <1>6 DEF HoldingList, At, Access!Members
<1>9. Reserved' = Reserved
  BY <1>1, <1>2, <1>3, <1>4, <1>5 DEF Reserved, At, Members, Avail!Members
<1>10. Counted'
  BY <1>1, <1>2, <1>6, <1>8, <1>9, SameSets DEF Counted
<1>11. TypeOK'
  BY <1>1, <1>2, <1>4 DEF TypeOK, Labels, WaitLabels
<1>12. RetrievedIsFirst' /\ SizeStillTested' /\ SleepingCheckInLine' /\ OnlyWaitersWait'
  BY <1>1, <1>2, <1>3, <1>4
  DEF RetrievedIsFirst, SizeStillTested, SleepingCheckInLine, OnlyWaitersWait, At,
      WaitLabels
<1>13. DeliveredOnceInOrder'
  BY <1>1 DEF DeliveredOnceInOrder
<1> QED BY <1>5, <1>7, <1>10, <1>11, <1>12, <1>13 DEF Counted

(* An object more, and a thread that owes a unit. *)
LEMMA AddEnqueueIInv ==
  ASSUME IInv, NEW t \in Threads, AddEnqueue(t)
  PROVE  IInv'
<1> USE DEF IInv
<1>1. /\ pc[t] = "add_enqueue" /\ pc' = [pc EXCEPT ![t] = "add_give_availability"]
      /\ pc \in [Threads -> Labels]
      /\ enqueued' = enqueued + 1
      /\ object_list' = Append(object_list, enqueued + 1)
      /\ UNCHANGED <<availability, access, retrieved, delivered>>
  BY DEF AddEnqueue, Goto, TypeOK
<1> USE DEF availability, access
<1>2. InAvailability' = InAvailability /\ InAccess' = InAccess
  BY <1>1 DEF InAvailability, InAccess
<1>3. AvailInv' /\ AccessInv'
  BY <1>1, <1>2 DEF AvailInv, AccessInv
<1>4. /\ HoldingList' = HoldingList /\ Reserved' = Reserved
      /\ Giving' = Giving \cup {t} /\ t \notin Giving
  BY <1>1, <1>2 DEF HoldingList, Reserved, Giving, At, Access!Members, Avail!Members
<1>5. /\ object_list \in Seq(1..enqueued) /\ delivered \in Seq(1..enqueued)
      /\ enqueued \in Nat
  BY DEF TypeOK
<1>6. /\ object_list \in Seq(1..enqueued + 1) /\ delivered \in Seq(1..enqueued + 1)
      /\ enqueued + 1 \in 1..enqueued + 1
  BY <1>5, SeqMonotonic
<1>7. /\ object_list' \in Seq(1..enqueued + 1) /\ object_list' # <<>>
      /\ Len(object_list') = Len(object_list) + 1 /\ Len(object_list) \in Nat
  BY <1>1, <1>6, LenProperties
<1>8. TypeOK'
  <2>1. retrieved' \in [Threads -> 0..enqueued']
    BY <1>1, <1>5 DEF TypeOK
  <2> QED BY <1>1, <1>5, <1>6, <1>7, <2>1 DEF TypeOK, Labels, AddLabels
<1>9. ListAccessExclusive'
  BY <1>1, <1>4 DEF ListAccessExclusive
<1>10. Balance'
  <2>1. Cardinality(Giving') = Cardinality(Giving) + 1
    BY <1>4, SetTypes, CardinalityAdd
  <2>2. /\ avail_units \in Nat
        /\ Len(object_list) = avail_units + Cardinality(Reserved) + Cardinality(Giving)
    BY DEF Balance, Giving, TypeOK
  <2>3. Len(object_list') = avail_units' + Cardinality(Reserved') + Cardinality(Giving')
    BY <1>1, <1>4, <1>7, <2>1, <2>2, SetTypes
  <2> QED BY <2>3 DEF Balance, Giving
<1>11. DeliveredOnceInOrder'
  BY <1>1, <1>5, <1>6, AppendInOrder DEF DeliveredOnceInOrder
<1>12. HoldingList = {t}
  BY <1>1, LabelsOfHolders, OneHolder
<1>13. RetrievedIsFirst'
  <2>1. \A u \in Threads : pc'[u] \notin {"check_pop", "wait_pop"}
    BY <1>1, <1>12, LabelsOfHolders
  <2> QED BY <2>1 DEF RetrievedIsFirst
<1>14. SizeStillTested' /\ SleepingCheckInLine' /\ OnlyWaitersWait'
  BY <1>1, <1>7 DEF SizeStillTested, SleepingCheckInLine, OnlyWaitersWait, WaitLabels
<1> QED BY <1>3, <1>8, <1>9, <1>10, <1>11, <1>13, <1>14

(* The unit is given: to the counter, or to the first in line. *)
LEMMA AddGiveAvailabilityIInv ==
  ASSUME IInv, NEW t \in Threads, AddGiveAvailability(t)
  PROVE  IInv'
<1> USE DEF IInv
<1>1. /\ pc[t] = "add_give_availability" /\ pc' = [pc EXCEPT ![t] = "add_give_list"]
      /\ pc \in [Threads -> Labels]
      /\ UNCHANGED <<access, data>>
      /\ Avail!AddUnit \/ Avail!Release
  BY DEF AddGiveAvailability, Goto, Avail!Give, TypeOK
<1> USE DEF access, data
<1>2. InAvailability' = InAvailability /\ InAccess' = InAccess
  BY <1>1 DEF InAvailability, InAccess
<1>3. AccessInv'
  BY <1>1, <1>2 DEF AccessInv
<1>4. HoldingList' = HoldingList /\ Giving' = Giving \ {t} /\ t \in Giving
  BY <1>1, <1>2 DEF HoldingList, Giving, At, Access!Members
<1>5. /\ Cardinality(Giving) \in Nat \ {0}
      /\ Cardinality(Giving') = Cardinality(Giving) - 1
  BY <1>4, SetTypes, CardinalityRemove
<1>6. ListAccessExclusive'
  BY <1>1, <1>4 DEF ListAccessExclusive
<1>7. DeliveredOnceInOrder'
  BY <1>1 DEF DeliveredOnceInOrder
<1>8. RetrievedIsFirst' /\ SizeStillTested' /\ OnlyWaitersWait'
  BY <1>1 DEF RetrievedIsFirst, SizeStillTested, OnlyWaitersWait, At, WaitLabels
<1>9. SleepingCheckInLine'
  <2>1. HoldingList = {t}
    BY <1>1, LabelsOfHolders, OneHolder
  <2>2. \A u \in Threads : pc'[u] # "check_availability_blocked"
    BY <1>1, <2>1, LabelsOfHolders
  <2> QED BY <2>2 DEF SleepingCheckInLine
<1>10. CASE Avail!AddUnit
  <2>1. /\ avail_waiting = <<>> /\ avail_waiting' = avail_waiting
        /\ avail_units' = avail_units + 1
    BY <1>10 DEF Avail!AddUnit
  <2>2. TypeOK'
    BY <1>1, <2>1 DEF TypeOK, Labels, AddLabels
  <2>3. AvailInv'
    BY <1>2, <2>1 DEF AvailInv, LineInv
  <2>4. Reserved' = Reserved
    BY <1>1, <1>2, <2>1 DEF Reserved, At, Avail!Members
  <2>5. Balance'
    <3>2. /\ avail_units \in Nat
          /\ Len(object_list) = avail_units + Cardinality(Reserved) + Cardinality(Giving)
      BY DEF Balance, Giving, TypeOK
    <3>3. Len(object_list') = avail_units' + Cardinality(Reserved') + Cardinality(Giving')
      BY <1>1, <1>5, <2>1, <2>4, <3>2, SetTypes
    <3> QED BY <3>3 DEF Balance, Giving
  <2> QED BY <1>3, <1>6, <1>7, <1>8, <1>9, <2>2, <2>3, <2>5
<1>11. CASE Avail!Release
  <2> DEFINE first == Head(avail_waiting)
  <2>1. /\ avail_waiting # <<>> /\ avail_waiting' = Tail(avail_waiting)
        /\ avail_units' = avail_units
    BY <1>11 DEF Avail!Release
  <2>2. /\ avail_waiting' \in Seq(Threads) /\ AvailInv'
        /\ InAvailability' \ Members(avail_waiting')
             = (InAvailability \ Members(avail_waiting)) \cup {first}
        /\ first \in InAvailability
        /\ first \notin InAvailability \ Members(avail_waiting)
    BY <1>2, <2>1, LineRelease DEF AvailInv, TypeOK
  <2>3. TypeOK'
    BY <1>1, <2>1, <2>2 DEF TypeOK, Labels, AddLabels
  <2>4. Reserved' = Reserved \cup {first} /\ first \notin Reserved
    BY <1>1, <2>2 DEF Reserved, At, InAvailability, Members, Avail!Members
  <2>5. Balance'
    <3>1. Cardinality(Reserved') = Cardinality(Reserved) + 1
      <4>1. first \in Threads
        BY <2>2 DEF InAvailability
      <4> QED BY <2>4, <4>1, SetTypes, CardinalityAdd
    <3>2. /\ avail_units \in Nat
          /\ Len(object_list) = avail_units + Cardinality(Reserved) + Cardinality(Giving)
      BY DEF Balance, Giving, TypeOK
    <3>3. Len(object_list') = avail_units' + Cardinality(Reserved') + Cardinality(Giving')
      BY <1>1, <1>5, <2>1, <3>1, <3>2, SetTypes
    <3> QED BY <3>3 DEF Balance, Giving
  <2> QED BY <1>3, <1>6, <1>7, <1>8, <1>9, <2>2, <2>3, <2>5
<1> QED BY <1>1, <1>10, <1>11

(* The test of the deque's size. *)
LEMMA CheckSizeIInv ==
  ASSUME IInv, NEW t \in Threads, CheckEmpty(t) \/ CheckNonempty(t)
  PROVE  IInv'
<1> USE DEF IInv
<1>1. /\ pc[t] = "check_size" /\ pc \in [Threads -> Labels]
      /\ UNCHANGED <<availability, access, data>>
      /\ \/ pc' = [pc EXCEPT ![t] = "check_give_list"]
         \/ pc' = [pc EXCEPT ![t] = "check_availability"] /\ object_list # <<>>
  BY DEF CheckEmpty, CheckNonempty, Goto, TypeOK
<1> USE DEF availability, access, data
<1>2. InAvailability' = InAvailability /\ InAccess' = InAccess
  BY <1>1 DEF InAvailability, InAccess
<1>3. AvailInv' /\ AccessInv'
  BY <1>1, <1>2 DEF AvailInv, AccessInv
<1>4. HoldingList' = HoldingList /\ Reserved' = Reserved /\ Giving' = Giving
  BY <1>1, <1>2 DEF HoldingList, Reserved, Giving, At, Access!Members, Avail!Members
<1>5. Counted'
  BY <1>1, <1>4, SameSets DEF Counted
<1>6. TypeOK'
  BY <1>1 DEF TypeOK, Labels, CheckLabels
<1>7. RetrievedIsFirst' /\ SizeStillTested' /\ SleepingCheckInLine' /\ OnlyWaitersWait'
  BY <1>1 DEF RetrievedIsFirst, SizeStillTested, SleepingCheckInLine, OnlyWaitersWait,
              At, WaitLabels
<1>8. DeliveredOnceInOrder'
  BY <1>1 DEF DeliveredOnceInOrder
<1> QED BY <1>3, <1>5, <1>6, <1>7, <1>8 DEF Counted

(* front() *)
LEMMA FrontIInv ==
  ASSUME IInv, NEW t \in Threads, NEW from, NEW to, Front(t, from, to),
         <<from, to>> \in {<<"check_front", "check_pop">>, <<"wait_front", "wait_pop">>}
  PROVE  IInv'
<1> USE DEF IInv
<1>1. /\ pc[t] = from /\ pc' = [pc EXCEPT ![t] = to] /\ pc \in [Threads -> Labels]
      /\ retrieved' = [retrieved EXCEPT ![t] = FrontOf(object_list)]
      /\ UNCHANGED <<availability, access, object_list, enqueued, delivered>>
  BY DEF Front, Goto, TypeOK
<1> USE DEF availability, access
<1>2. InAvailability' = InAvailability /\ InAccess' = InAccess
  BY <1>1 DEF InAvailability, InAccess
<1>3. AvailInv' /\ AccessInv'
  BY <1>1, <1>2 DEF AvailInv, AccessInv
<1>4. HoldingList' = HoldingList /\ Reserved' = Reserved /\ Giving' = Giving
  BY <1>1, <1>2 DEF HoldingList, Reserved, Giving, At, Access!Members, Avail!Members
<1>5. Counted'
  BY <1>1, <1>4, SameSets DEF Counted
<1>6. object_list # <<>>
  BY <1>1, NeverEmpty DEF NeverPopsEmpty, At
<1>7. FrontOf(object_list) = Head(object_list) /\ Head(object_list) \in 1..enqueued
  BY <1>6, HeadTailProperties DEF FrontOf, TypeOK
<1>8. TypeOK'
  <2>1. retrieved' \in [Threads -> 0..enqueued]
    BY <1>1, <1>7 DEF TypeOK
  <2> QED BY <1>1, <2>1 DEF TypeOK, Labels, CheckLabels, WaitLabels
<1>9. RetrievedIsFirst'
  BY <1>1, <1>7 DEF RetrievedIsFirst, TypeOK
<1>10. SizeStillTested' /\ SleepingCheckInLine' /\ OnlyWaitersWait'
  BY <1>1 DEF SizeStillTested, SleepingCheckInLine, OnlyWaitersWait, At, WaitLabels
<1>11. DeliveredOnceInOrder'
  BY <1>1 DEF DeliveredOnceInOrder
<1> QED BY <1>3, <1>5, <1>8, <1>9, <1>10, <1>11 DEF Counted

(* pop_front() delivers what front() has returned. *)
LEMMA PopIInv ==
  ASSUME IInv, NEW t \in Threads, NEW from, NEW to, Pop(t, from, to),
         <<from, to>> \in {<<"check_pop", "check_give_list">>,
                           <<"wait_pop", "wait_give_list">>}
  PROVE  IInv'
<1> USE DEF IInv
<1>1. /\ pc[t] = from /\ pc' = [pc EXCEPT ![t] = to] /\ pc \in [Threads -> Labels]
      /\ object_list' = RestOf(object_list)
      /\ delivered' = Append(delivered, retrieved[t])
      /\ UNCHANGED <<availability, access, retrieved, enqueued>>
  BY DEF Pop, Goto, TypeOK
<1> USE DEF availability, access
<1>2. object_list # <<>> /\ retrieved[t] = Head(object_list)
  BY <1>1, NeverEmpty DEF NeverPopsEmpty, At, RetrievedIsFirst
<1>3. /\ object_list' = Tail(object_list)
      /\ Len(object_list') = Len(object_list) - 1 /\ Len(object_list) \in Nat
      /\ object_list' \in Seq(1..enqueued)
      /\ retrieved[t] \in 1..enqueued
      /\ delivered' \in Seq(1..enqueued)
  BY <1>1, <1>2, HeadTailProperties, LenProperties DEF RestOf, TypeOK
<1>4. InAvailability' = InAvailability /\ InAccess' = InAccess
  BY <1>1 DEF InAvailability, InAccess
<1>5. AvailInv' /\ AccessInv'
  BY <1>1, <1>4 DEF AvailInv, AccessInv
<1>6. /\ HoldingList' = HoldingList /\ Giving' = Giving
      /\ Reserved' = Reserved \ {t} /\ t \in Reserved
  BY <1>1, <1>4
  DEF HoldingList, Reserved, Giving, At, InAvailability, Access!Members, Avail!Members
<1>7. ListAccessExclusive'
  BY <1>1, <1>6 DEF ListAccessExclusive
<1>8. Balance'
  <2>1. /\ Cardinality(Reserved) \in Nat
        /\ Cardinality(Reserved') = Cardinality(Reserved) - 1
    BY <1>6, SetTypes, CardinalityRemove
  <2>2. /\ avail_units \in Nat
        /\ Len(object_list) = avail_units + Cardinality(Reserved) + Cardinality(Giving)
    BY DEF Balance, Giving, TypeOK
  <2>3. Len(object_list') = avail_units' + Cardinality(Reserved') + Cardinality(Giving')
    BY <1>1, <1>3, <1>6, <2>1, <2>2, SetTypes
  <2> QED BY <2>3 DEF Balance, Giving
<1>9. TypeOK'
  BY <1>1, <1>3 DEF TypeOK, Labels, CheckLabels, WaitLabels
<1>10. DeliveredOnceInOrder'
  <2>1. delivered \in Seq(1..enqueued) /\ object_list \in Seq(1..enqueued)
    BY DEF TypeOK
  <2>2. Append(delivered, Head(object_list)) \o Tail(object_list)
          = delivered \o object_list
    BY <1>2, <2>1, MoveFirst
  <2> QED BY <1>1, <1>2, <1>3, <2>2 DEF DeliveredOnceInOrder
<1>11. HoldingList = {t}
  BY <1>1, LabelsOfHolders, OneHolder
<1>12. RetrievedIsFirst' /\ SizeStillTested'
  <2>1. \A u \in Threads :
          pc'[u] \notin {"check_pop", "wait_pop", "check_availability",
                         "check_availability_blocked"}
    BY <1>1, <1>11, LabelsOfHolders
  <2> QED BY <2>1 DEF RetrievedIsFirst, SizeStillTested, At
<1>13. SleepingCheckInLine' /\ OnlyWaitersWait'
  BY <1>1 DEF SleepingCheckInLine, OnlyWaitersWait, WaitLabels
<1> QED BY <1>5, <1>7, <1>8, <1>9, <1>10, <1>12, <1>13

(* A step of nobody. *)
LEMMA StutterIInv == IInv /\ UNCHANGED vars => IInv'
<1> SUFFICES ASSUME IInv, UNCHANGED vars PROVE IInv'
  OBVIOUS
<1>1. /\ UNCHANGED <<object_list, avail_units, avail_waiting, list_units, list_waiting>>
      /\ UNCHANGED <<pc, retrieved, enqueued, delivered>>
  BY DEF vars, availability, access, data
<1>2. InAvailability' = InAvailability /\ InAccess' = InAccess
  BY <1>1 DEF InAvailability, InAccess
<1>3. HoldingList' = HoldingList /\ Reserved' = Reserved /\ Giving' = Giving
  BY <1>1, <1>2 DEF HoldingList, Reserved, Giving, At, Access!Members, Avail!Members
<1>4. TypeOK' /\ AvailInv' /\ AccessInv' /\ Counted'
  BY <1>1, <1>2, <1>3, SameSets DEF IInv, TypeOK, AvailInv, AccessInv, Counted
<1> QED
  BY <1>1, <1>4
  DEF IInv, Counted, DeliveredOnceInOrder, RetrievedIsFirst, SizeStillTested,
      SleepingCheckInLine, OnlyWaitersWait, At

(* The invariant of the pool. *)
LEMMA Invariance == Spec => []IInv
<1>1. ASSUME IInv, NEW t \in Threads,
             AddObject(t) \/ CheckForObject(t) \/ WaitForObject(t) \/ Progress(t)
      PROVE  IInv'
  <2>1. CASE AddObject(t) \/ CheckForObject(t) \/ WaitAcquireList(t)
    BY <1>1, <2>1, AcquireAccessIInv DEF AddObject, CheckForObject, WaitAcquireList
  <2>2. CASE WaitForObject(t) \/ CheckAcquire(t)
    BY <1>1, <2>2, AcquireAvailabilityIInv DEF WaitForObject, CheckAcquire
  <2>3. CASE ResumeAvailability(t) \/ ResumeAccess(t)
    BY <1>1, <2>3, ResumeAvailabilityIInv, ResumeAccessIInv
  <2>4. CASE AddGiveList(t) \/ CheckGiveList(t) \/ WaitGiveList(t)
    BY <1>1, <2>4, GiveAccessIInv DEF AddGiveList, CheckGiveList, WaitGiveList
  <2>5. CASE AddEnqueue(t) \/ AddGiveAvailability(t)
    BY <1>1, <2>5, AddEnqueueIInv, AddGiveAvailabilityIInv
  <2>6. CASE CheckEmpty(t) \/ CheckNonempty(t)
    BY <1>1, <2>6, CheckSizeIInv
  <2>7. CASE CheckFront(t) \/ WaitFront(t)
    BY <1>1, <2>7, FrontIInv DEF CheckFront, WaitFront
  <2>8. CASE CheckPop(t) \/ WaitPop(t)
    BY <1>1, <2>8, PopIInv DEF CheckPop, WaitPop
  <2> QED BY <1>1, <2>1, <2>2, <2>3, <2>4, <2>5, <2>6, <2>7, <2>8 DEF Progress
<1>2. IInv /\ [Next]_vars => IInv'
  BY <1>1, StutterIInv DEF Next
<1> QED BY InitIInv, <1>2, PTL DEF Spec

-----------------------------------------------------------------------------

(* Every variable of a pool keeps its type: in particular the list's unit  *)
(* is one, or none.                                                        *)
THEOREM TypeCorrect == Spec => []TypeOK
BY Invariance, PTL DEF IInv

(* For any number of adders, checkers and waiters there is one unit for    *)
(* each object (object_pool.hpp:30-31, 42-44, 55-58),                      *)
THEOREM UnitsMatchObjects == Spec => []Balance
BY Invariance, PTL DEF IInv

(* so front() and pop_front() never meet an empty deque                    *)
(* (object_pool.hpp:69-74).                                                *)
THEOREM NoEmptyPop == Spec => []NeverPopsEmpty
BY Invariance, NeverEmpty, PTL

(* One thread at a time is inside the list (object_pool.hpp:28-60).        *)
THEOREM ListIsExclusive == Spec => []ListAccessExclusive
BY Invariance, PTL DEF IInv

(* Objects are delivered once each, in the order of insertion              *)
(* (object_pool.hpp:63-74).                                                *)
THEOREM ObjectsInOrder == Spec => []DeliveredOnceInOrder
BY Invariance, PTL DEF IInv

(* A thread sleeps in wait_for_object only without an object for it, or    *)
(* with the unit on its way (object_pool.hpp:30-31, 55).                   *)
THEOREM WaitersSleepRightly == Spec => []WaitersSleepOnlyWithoutObjects
<1>1. ASSUME IInv PROVE WaitersSleepOnlyWithoutObjects
  <2> SUFFICES ASSUME avail_waiting # <<>>, Len(object_list) > Cardinality(Reserved)
               PROVE  Giving # {}
    BY DEF WaitersSleepOnlyWithoutObjects, Giving
  <2>1. avail_units = 0
    BY <1>1 DEF IInv, AvailInv, LineInv
  <2>2. Cardinality(Giving) # 0
    BY <1>1, <2>1, SetTypes DEF IInv, Balance, Giving
  <2>3. Cardinality({}) = 0
    BY FS_EmptySet
  <2> QED BY <2>2, <2>3, Zenon
<1> QED BY <1>1, Invariance, PTL

(* A check that sleeps inside the list does so beside objects that are all *)
(* promised to threads in wait_for_object (object_pool.hpp:42-43),         *)
THEOREM SleepingChecksSeePromises == Spec => []CheckSleepsOnlyOnPromised
<1>1. ASSUME IInv PROVE CheckSleepsOnlyOnPromised
  <2> SUFFICES ASSUME NEW t \in Threads, pc[t] = "check_availability_blocked"
               PROVE  /\ object_list # <<>>
                      /\ Reserved \subseteq Waiters
                      /\ Len(object_list) = Cardinality(Reserved)
    BY DEF CheckSleepsOnlyOnPromised
  <2> USE <1>1 DEF IInv
  <2>1. HoldingList = {t}
    BY LabelsOfHolders, OneHolder
  <2>2. t \in Members(avail_waiting)
    BY DEF SleepingCheckInLine
  <2>3. avail_units = 0
    BY <2>2 DEF Members, AvailInv, LineInv
  <2>4. Giving = {}
    BY <2>1, LabelsOfHolders DEF Giving, At
  <2>5. Cardinality(Giving) = 0
    BY <2>4, FS_EmptySet, Zenon
  <2>6. Len(object_list) = Cardinality(Reserved)
    BY <2>3, <2>5, SetTypes DEF Balance, Giving
  <2>7. ASSUME NEW u \in Reserved PROVE u \in Waiters
    <3>1. u \in Threads
      BY <2>7, SetTypes
    <3>2. pc[u] # "check_availability_blocked" \/ u = t
      BY <2>1, <3>1, LabelsOfHolders
    <3>3. t \notin Reserved
      BY <2>2 DEF Reserved, At, Members, Avail!Members
    <3>4. pc[u] \notin {"check_front", "check_pop"}
      BY <2>1, <3>1, LabelsOfHolders
    <3>5. pc[u] \in WaitLabels
      BY <2>7, <3>2, <3>3, <3>4 DEF Reserved, At, InAvailability, WaitLabels
    <3> QED BY <3>1, <3>5 DEF OnlyWaitersWait
  <2>8. object_list # <<>>
    BY DEF SizeStillTested, At
  <2> QED BY <2>6, <2>7, <2>8
<1> QED BY <1>1, Invariance, PTL

(* and is never released: only a thread inside the list could give it a    *)
(* unit (object_pool.hpp:28, 40-43).                                       *)
THEOREM SleepingChecksSleepOn == Spec => SleepingCheckIsNeverReleased
<1> DEFINE SleepsOn ==
      \A t \in Threads : pc[t] = "check_availability_blocked" => pc'[t] = pc[t]
<1>1. IInv /\ [Next]_vars => SleepsOn
  <2> SUFFICES ASSUME IInv, [Next]_vars, NEW t \in Threads,
                      pc[t] = "check_availability_blocked", pc'[t] # pc[t]
               PROVE  FALSE
    OBVIOUS
  <2>1. PICK u \in Threads :
          AddObject(u) \/ CheckForObject(u) \/ WaitForObject(u) \/ Progress(u)
    BY DEF Next, vars
  <2>2. t \in Members(avail_waiting) /\ pc \in [Threads -> Labels]
    BY DEF IInv, SleepingCheckInLine, TypeOK
  <2>3. ~ResumeAvailability(t)
    BY <2>2 DEF ResumeAvailability, Avail!Return, Avail!Members, Members
  <2>4. t = u
    BY <2>1, <2>2
    DEF AddObject, CheckForObject, WaitForObject, Progress, AcquireAccess,
        AcquireAvailability, Goto, ResumeAvailability, ResumeAccess, AddEnqueue,
        AddGiveAvailability, AddGiveList, GiveAccess, CheckEmpty, CheckNonempty,
        CheckAcquire, CheckFront, Front, CheckPop, Pop, CheckGiveList,
        WaitAcquireList, WaitFront, WaitPop, WaitGiveList
  <2> QED
    BY <2>1, <2>3, <2>4
    DEF AddObject, CheckForObject, WaitForObject, Progress, AcquireAccess,
        AcquireAvailability, Goto, ResumeAccess, InAccess, AddEnqueue,
        AddGiveAvailability, AddGiveList, GiveAccess, CheckEmpty, CheckNonempty,
        CheckAcquire, CheckFront, Front, CheckPop, Pop, CheckGiveList,
        WaitAcquireList, WaitFront, WaitPop, WaitGiveList
<1>2. IInv /\ [Next]_vars => [SleepsOn]_vars
  BY <1>1
<1> QED BY <1>2, Invariance, PTL DEF Spec, SleepingCheckIsNeverReleased

-----------------------------------------------------------------------------
(* The queue that callers see *)

Calls == [t \in Threads |-> CallOf(pc[t])]

(* The call that each label belongs to. *)
LEMMA CallsOfLabels ==
  /\ CallOf("idle") = "none"
  /\ \A label \in {"add_list_blocked", "add_enqueue"} : CallOf(label) = "add"
  /\ \A label \in {"check_list_blocked", "check_size", "check_availability",
                   "check_availability_blocked", "check_front", "check_pop"} :
       CallOf(label) = "check"
  /\ \A label \in {"wait_availability_blocked", "wait_list", "wait_list_blocked",
                   "wait_front", "wait_pop"} :
       CallOf(label) = "wait"
  /\ \A label \in {"add_give_availability", "add_give_list", "check_give_list",
                   "wait_give_list"} :
       CallOf(label) = "return"
BY DEF CallOf, CheckLabels, WaitLabels

(* A step of one thread is a step of its call, or is not seen. *)
LEMMA CallsMove ==
  ASSUME NEW t \in Threads, NEW to, pc' = [pc EXCEPT ![t] = to],
         pc \in [Threads -> Labels]
  PROVE  /\ Calls[t] = CallOf(pc[t])
         /\ Calls' = [Calls EXCEPT ![t] = CallOf(to)]
         /\ CallOf(to) = CallOf(pc[t]) => Calls' = Calls
<1> DEFINE next == [u \in Threads |-> IF u = t THEN CallOf(to) ELSE CallOf(pc[u])]
<1>1. \A u \in Threads : pc'[u] = IF u = t THEN to ELSE pc[u]
  OBVIOUS
<1>2. Calls' = next
  BY <1>1 DEF Calls
<1>3. next = [Calls EXCEPT ![t] = CallOf(to)]
  BY DEF Calls
<1>4. CallOf(to) = CallOf(pc[t]) => next = Calls
  BY DEF Calls
<1> QED BY <1>2, <1>3, <1>4 DEF Calls

Unseen == UNCHANGED <<object_list, enqueued, Calls>>

(* A step inside a call that leaves the deque alone is not seen. *)
LEMMA StepUnseen ==
  ASSUME IInv, NEW t \in Threads, NEW to, pc' = [pc EXCEPT ![t] = to],
         CallOf(to) = CallOf(pc[t]), UNCHANGED <<object_list, enqueued>>
  PROVE  Unseen
BY CallsMove DEF Unseen, IInv, TypeOK

(* Every step of a thread is a step of the queue or is not seen. *)
LEMMA StepRefines ==
  ASSUME IInv, NEW t \in Threads,
         AddObject(t) \/ CheckForObject(t) \/ WaitForObject(t) \/ Progress(t)
  PROVE  Queue!Next \/ Unseen
<1> USE DEF Goto, data
<1>1. pc \in [Threads -> Labels]
  BY DEF IInv, TypeOK
<1>a. ASSUME NEW from, NEW to, pc[t] = from, pc' = [pc EXCEPT ![t] = to]
      PROVE  Calls[t] = CallOf(from) /\ Calls' = [Calls EXCEPT ![t] = CallOf(to)]
  BY <1>1, <1>a, CallsMove
<1>2. CASE AddObject(t) \/ CheckForObject(t) \/ WaitForObject(t)
  <2>1. UNCHANGED <<object_list, enqueued>> /\ pc[t] = "idle"
    BY <1>2
    DEF AddObject, CheckForObject, WaitForObject, AcquireAccess, AcquireAvailability
  <2>2. CASE AddObject(t)
    <3>1. PICK to \in {"add_enqueue", "add_list_blocked"} :
            t \in Adders /\ pc' = [pc EXCEPT ![t] = to]
      BY <2>2 DEF AddObject, AcquireAccess
    <3>2. CallOf("idle") = "none" /\ CallOf(to) = "add"
      BY <3>1, CallsOfLabels
    <3>3. Calls[t] = "none" /\ Calls' = [Calls EXCEPT ![t] = "add"]
      BY <1>a, <2>1, <3>1, <3>2
    <3>4. Queue!Call(t)
      BY <2>1, <3>1, <3>3 DEF Queue!Call, Queue!Step, Calls
    <3> QED BY <3>4 DEF Queue!Next
  <2>3. CASE CheckForObject(t)
    <3>1. PICK to \in {"check_size", "check_list_blocked"} :
            t \in Checkers /\ pc' = [pc EXCEPT ![t] = to]
      BY <2>3 DEF CheckForObject, AcquireAccess
    <3>2. CallOf("idle") = "none" /\ CallOf(to) = "check"
      BY <3>1, CallsOfLabels
    <3>3. Calls[t] = "none" /\ Calls' = [Calls EXCEPT ![t] = "check"]
      BY <1>a, <2>1, <3>1, <3>2
    <3>4. Queue!Call(t)
      BY <2>1, <3>1, <3>3 DEF Queue!Call, Queue!Step, Calls
    <3> QED BY <3>4 DEF Queue!Next
  <2>4. CASE WaitForObject(t)
    <3>1. PICK to \in {"wait_list", "wait_availability_blocked"} :
            t \in Waiters /\ pc' = [pc EXCEPT ![t] = to]
      BY <2>4 DEF WaitForObject, AcquireAvailability
    <3>2. CallOf("idle") = "none" /\ CallOf(to) = "wait"
      BY <3>1, CallsOfLabels
    <3>3. Calls[t] = "none" /\ Calls' = [Calls EXCEPT ![t] = "wait"]
      BY <1>a, <2>1, <3>1, <3>2
    <3>4. Queue!Call(t)
      BY <2>1, <3>1, <3>3 DEF Queue!Call, Queue!Step, Calls
    <3> QED BY <3>4 DEF Queue!Next
  <2> QED BY <1>2, <2>2, <2>3, <2>4
<1>3. CASE AddEnqueue(t)
  <2>1. Calls[t] = "add" /\ Calls' = [Calls EXCEPT ![t] = "return"]
    <3>1. pc[t] = "add_enqueue" /\ pc' = [pc EXCEPT ![t] = "add_give_availability"]
      BY <1>3 DEF AddEnqueue
    <3>2. CallOf("add_enqueue") = "add" /\ CallOf("add_give_availability") = "return"
      BY CallsOfLabels
    <3> QED BY <1>a, <3>1, <3>2
  <2>2. Queue!Add(t)
    BY <1>3, <2>1 DEF AddEnqueue, Queue!Add, Queue!Step, Calls
  <2> QED BY <2>2 DEF Queue!Next
<1>4. CASE CheckPop(t) \/ WaitPop(t)
  <2>1. PICK from \in {"check_pop", "wait_pop"}, to \in {"check_give_list", "wait_give_list"} :
          Pop(t, from, to)
    BY <1>4 DEF CheckPop, WaitPop
  <2>2. pc[t] = from /\ pc' = [pc EXCEPT ![t] = to]
    BY <2>1 DEF Pop
  <2>3. object_list # <<>>
    BY <2>1, <2>2, NeverEmpty DEF NeverPopsEmpty, At
  <2>4. object_list' = Tail(object_list) /\ enqueued' = enqueued
    BY <2>1, <2>3 DEF Pop, RestOf
  <2>5. /\ Calls[t] = CallOf(from) /\ CallOf(from) \in {"check", "wait"}
        /\ Calls' = [Calls EXCEPT ![t] = "return"]
    <3>1. CallOf(from) \in {"check", "wait"} /\ CallOf(to) = "return"
      BY <2>1, CallsOfLabels
    <3> QED BY <1>a, <2>2, <3>1
  <2>6. Queue!Take(t, "check") \/ Queue!Take(t, "wait")
    BY <2>3, <2>4, <2>5 DEF Queue!Take, Queue!Step, Calls
  <2> QED BY <2>6 DEF Queue!Next
<1>5. CASE CheckEmpty(t)
  <2>1. Calls[t] = "check" /\ Calls' = [Calls EXCEPT ![t] = "return"]
    <3>1. pc[t] = "check_size" /\ pc' = [pc EXCEPT ![t] = "check_give_list"]
      BY <1>5 DEF CheckEmpty
    <3>2. CallOf("check_size") = "check" /\ CallOf("check_give_list") = "return"
      BY CallsOfLabels
    <3> QED BY <1>a, <3>1, <3>2
  <2>2. Queue!CheckMiss(t)
    BY <1>5, <2>1 DEF CheckEmpty, Queue!CheckMiss, Queue!Step, Calls
  <2> QED BY <2>2 DEF Queue!Next
<1>6. CASE AddGiveList(t) \/ CheckGiveList(t) \/ WaitGiveList(t)
  <2>1. PICK from \in {"add_give_list", "check_give_list", "wait_give_list"} :
          GiveAccess(t, from)
    BY <1>6 DEF AddGiveList, CheckGiveList, WaitGiveList
  <2>2. Calls[t] = "return" /\ Calls' = [Calls EXCEPT ![t] = "none"]
    <3>1. pc[t] = from /\ pc' = [pc EXCEPT ![t] = "idle"]
      BY <2>1 DEF GiveAccess
    <3>2. CallOf(from) = "return" /\ CallOf("idle") = "none"
      BY <2>1, CallsOfLabels
    <3> QED BY <1>a, <3>1, <3>2
  <2>3. Queue!Return(t)
    BY <2>1, <2>2 DEF GiveAccess, Queue!Return, Queue!Step, Calls
  <2> QED BY <2>3 DEF Queue!Next
<1>7. CASE \/ ResumeAvailability(t) \/ ResumeAccess(t)
  <2>1. /\ t \in InAvailability \cup InAccess
        /\ pc' = [pc EXCEPT ![t] = AfterAcquire[pc[t]]]
        /\ UNCHANGED <<object_list, enqueued>>
    BY <1>1, <1>7 DEF ResumeAvailability, ResumeAccess
  <2>2. CallOf(AfterAcquire[pc[t]]) = CallOf(pc[t])
    BY <2>1, CallsOfLabels DEF InAvailability, InAccess, AfterAcquire
  <2> QED BY <2>1, <2>2, StepUnseen
<1>8. CASE \/ AddGiveAvailability(t) \/ CheckNonempty(t) \/ CheckAcquire(t)
           \/ CheckFront(t) \/ WaitAcquireList(t) \/ WaitFront(t)
  <2>1. PICK to :
          /\ pc' = [pc EXCEPT ![t] = to]
          /\ CallOf(to) = CallOf(pc[t])
          /\ UNCHANGED <<object_list, enqueued>>
    BY <1>8, CallsOfLabels
    DEF AddGiveAvailability, CheckNonempty, CheckAcquire, CheckFront, WaitAcquireList,
        WaitFront, AcquireAccess, AcquireAvailability, Front
  <2> QED BY <2>1, StepUnseen
<1> QED BY <1>2, <1>3, <1>4, <1>5, <1>6, <1>7, <1>8 DEF Progress

(* For any number of adders, checkers and waiters, callers see an atomic   *)
(* first-in first-out queue: an object enters it with the push and leaves  *)
(* it with the pop of one call, and a check that comes back empty-handed   *)
(* has seen it empty (object_pool.hpp:26-74).                              *)
THEOREM IsQueue == Spec => ImplementsQueue
<1>1. Init => Queue!Init
  <2> SUFFICES ASSUME Init PROVE Queue!Init
    OBVIOUS
  <2>1. Calls = [t \in Threads |-> "none"]
    BY CallsOfLabels DEF Init, Calls
  <2> QED BY <2>1 DEF Init, Queue!Init, Calls
<1>2. IInv /\ [Next]_vars => [Queue!Next]_(Queue!vars)
  <2> SUFFICES ASSUME IInv, [Next]_vars PROVE Queue!Next \/ Unseen
    BY DEF Queue!vars, Unseen, Calls
  <2>1. UNCHANGED vars => Unseen
    BY DEF vars, data, Unseen, Calls
  <2> QED BY <2>1, StepRefines DEF Next
<1> QED BY <1>1, <1>2, Invariance, PTL DEF Spec, ImplementsQueue, Queue!Spec
=============================================================================
