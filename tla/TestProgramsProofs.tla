------------------------- MODULE TestProgramsProofs ------------------------
(***************************************************************************)
(* What the test programs check holds for any constants:  the maps of a    *)
(* TwoWayMap stay inverse, the order of addresses decides, an address and a*)
(* vector of objects come back from their strings, the two barriers of the *)
(* test of SocketAgent hold, and no schedule makes a test fail.            *)
(***************************************************************************)
EXTENDS TestPrograms, FunctionTheorems, FiniteSetTheorems, SequenceTheorems,
        WellFoundedInduction, TLAPS

Chars == DOMAIN code

-----------------------------------------------------------------------------
(* TwoWayMap *)

(* What is proved of the class holds of the map the program calls. *)
Maps == INSTANCE TwoWayMapProofs WITH T <- Strings, U <- Ints

LEMMA MapFollows == Spec => Maps!Spec
<1>1. Init => Maps!Init
  BY DEF Init, Map!Init, Maps!Init, Map!EmptyMap, Maps!EmptyMap
<1>2. Map!Next => Maps!Next
  BY DEF Map!Next, Maps!Next, Map!Put, Maps!Put, Map!EraseT, Maps!EraseT,
     Map!EraseU, Maps!EraseU, Map!Become, Maps!Become, Map!Inserted, Maps!Inserted,
     Map!ErasedT, Maps!ErasedT, Map!ErasedU, Maps!ErasedU, Map!With, Maps!With,
     Map!Without, Maps!Without
<1>3. [Next]_vars => [Maps!Next]_Maps!vars
  BY <1>2 DEF Next, CallMap, vars, map, Maps!vars
<1> QED BY <1>1, <1>3, PTL DEF Spec, Maps!Spec

(* The two maps are inverse to each other after any calls, however many and*)
(* whatever the keys (two_way_map.hpp:37-76).                              *)
THEOREM MapsStayInverse == Spec => []MutuallyInverse
<1>1. Maps!MutuallyInverse => MutuallyInverse
  BY DEF MutuallyInverse, Map!MutuallyInverse, Maps!MutuallyInverse,
     Map!GetOrDefault, Maps!GetOrDefault
<1> QED BY <1>1, MapFollows, Maps!AlwaysInverse, PTL

(* ... and every call does to the pairs what the call of a partial         *)
(* bijection does.                                                         *)
THEOREM MapIsBijection == Spec => ImplementsBijection
<1>1. Maps!ImplementsBijection => ImplementsBijection
  BY PTL DEF ImplementsBijection, Map!ImplementsBijection, Maps!ImplementsBijection,
     Map!Bijection!Spec, Maps!Bijection!Spec, Map!Bijection!Init, Maps!Bijection!Init,
     Map!Bijection!Next, Maps!Bijection!Next, Map!Bijection!Put, Maps!Bijection!Put,
     Map!Bijection!EraseT, Maps!Bijection!EraseT, Map!Bijection!EraseU,
     Maps!Bijection!EraseU
<1> QED BY <1>1, MapFollows, Maps!IsBijection, PTL

-----------------------------------------------------------------------------
(* Strings *)

(* A nonempty set of positions has a first one. *)
LEMMA MinIsFirst ==
  ASSUME NEW S \in SUBSET Nat, S # {}
  PROVE  Min(S) \in S /\ \A y \in S : Min(S) =< y
<1>1. PICK m \in S : \A y \in S : ~(<<y, m>> \in OpToRel(<, Nat))
  <2>1. IsWellFoundedOn(OpToRel(<, Nat), Nat) /\ S \subseteq Nat
    BY NatLessThanWellFounded
  <2> QED BY <2>1, WFMin
<1>2. ASSUME NEW y \in S PROVE m =< y
  <2>1. <<y, m>> \in Nat \X Nat /\ y \in Nat /\ m \in Nat
    OBVIOUS
  <2>2. ~(y < m)
    BY <1>1, <2>1, Zenon DEF OpToRel
  <2> QED BY <2>1, <2>2
<1> QED BY <1>2 DEF Min

(* Of two strings, at most one is less. *)
LEMMA StringLessAsymmetric ==
  ASSUME ConstantsOK, NEW s \in Seq(Chars), NEW t \in Seq(Chars),
         StringLess(s, t), StringLess(t, s)
  PROVE  FALSE
<1>1. Len(s) \in Nat /\ Len(t) \in Nat
  BY LenProperties
<1>2. PICK i \in 1..Len(t) :
        /\ i <= Len(s) + 1
        /\ \A j \in 1..i - 1 : s[j] = t[j]
        /\ i <= Len(s) => code[s[i]] < code[t[i]]
  BY DEF StringLess
<1>3. PICK k \in 1..Len(s) :
        /\ k <= Len(t) + 1
        /\ \A j \in 1..k - 1 : t[j] = s[j]
        /\ k <= Len(t) => code[t[k]] < code[s[k]]
  BY DEF StringLess
<1>4. \A j \in 1..Len(s) : code[s[j]] \in Int
  BY ElementOfSeq DEF ConstantsOK, Chars
<1>5. \A j \in 1..Len(t) : code[t[j]] \in Int
  BY ElementOfSeq DEF ConstantsOK, Chars
<1>6. CASE i < k
  <2>1. i \in 1..k - 1 /\ i \in 1..Len(s)
    BY <1>1, <1>6
  <2>2. t[i] = s[i] /\ code[s[i]] < code[t[i]]
    BY <1>1, <1>2, <1>3, <2>1
  <2> QED BY <1>4, <2>1, <2>2
<1>7. CASE k < i
  <2>1. k \in 1..i - 1 /\ k \in 1..Len(t)
    BY <1>1, <1>7
  <2>2. t[k] = s[k] /\ code[t[k]] < code[s[k]]
    BY <1>1, <1>2, <1>3, <2>1
  <2> QED BY <1>4, <2>1, <2>2
<1>8. CASE i = k
  BY <1>1, <1>2, <1>3, <1>4, <1>5, <1>8
<1> QED BY <1>1, <1>6, <1>7, <1>8

(* Of two different strings, one is less. *)
LEMMA StringLessTotal ==
  ASSUME ConstantsOK, NEW s \in Seq(Chars), NEW t \in Seq(Chars), s # t
  PROVE  StringLess(s, t) \/ StringLess(t, s)
<1> DEFINE differ == {i \in Nat : i \in 1..Len(s) /\ i \in 1..Len(t) /\ s[i] # t[i]}
<1>1. Len(s) \in Nat /\ Len(t) \in Nat
  BY LenProperties
<1>2. CASE differ = {}
  <2>1. \A i \in 1..Len(s) : i \in 1..Len(t) => s[i] = t[i]
    BY <1>1, <1>2
  <2>2. Len(s) # Len(t)
    BY <1>1, <2>1, SeqEqual
  <2>3. CASE Len(s) < Len(t)
    <3>1. Len(s) + 1 \in 1..Len(t) /\ \A j \in 1..(Len(s) + 1) - 1 : s[j] = t[j]
      BY <1>1, <2>1, <2>3
    <3> QED BY <1>1, <3>1 DEF StringLess
  <2>4. CASE Len(t) < Len(s)
    <3>1. Len(t) + 1 \in 1..Len(s) /\ \A j \in 1..(Len(t) + 1) - 1 : t[j] = s[j]
      BY <1>1, <2>1, <2>4
    <3> QED BY <1>1, <3>1 DEF StringLess
  <2> QED BY <1>1, <2>2, <2>3, <2>4
<1>3. CASE differ # {}
  <2>1. PICK m : m = Min(differ)
    OBVIOUS
  <2>2. m \in differ /\ \A y \in differ : m =< y
    <3>1. differ \in SUBSET Nat
      OBVIOUS
    <3> HIDE DEF differ
    <3> QED BY <1>3, <2>1, <3>1, MinIsFirst
  <2>3. m \in 1..Len(s) /\ m \in 1..Len(t) /\ s[m] # t[m]
    BY <2>2
  <2>4. \A j \in 1..m - 1 : s[j] = t[j]
    BY <1>1, <2>2, <2>3
  <2>5. s[m] \in Chars /\ t[m] \in Chars
    BY <2>3, ElementOfSeq
  <2>6. code[s[m]] < code[t[m]] \/ code[t[m]] < code[s[m]]
    BY <2>3, <2>5 DEF ConstantsOK, Chars
  <2>7. m <= Len(s) + 1 /\ m <= Len(t) + 1
    BY <1>1, <2>3
  <2> HIDE DEF differ
  <2> QED BY <2>3, <2>4, <2>6, <2>7 DEF StringLess
<1> QED BY <1>2, <1>3

-----------------------------------------------------------------------------
(* The order *)

LEMMA AddressTypes ==
  ASSUME ConstantsOK, NEW a \in Addresses
  PROVE  /\ a.ip \in Seq(Chars) /\ a.port \in Seq(Chars)
         /\ a.descriptor \in Descriptors /\ a.descriptor \in Int
         /\ a = [ip |-> a.ip, port |-> a.port, descriptor |-> a.descriptor]
         /\ has_ip_port(a) \in BOOLEAN /\ has_descriptor(a) \in BOOLEAN
<1>1. a \in [ip : Names, port : Names, descriptor : Descriptors]
  BY DEF Addresses
<1>2. a.ip \in Seq(Chars) /\ a.port \in Seq(Chars)
  BY <1>1 DEF ConstantsOK, Chars
<1>3. a.descriptor \in Descriptors /\ a.descriptor \in Int
  <2>1. a.descriptor \in Descriptors
    BY <1>1
  <2>2. Descriptors \subseteq -IntRange..IntRange - 1 /\ IntRange \in Nat
    BY Zenon DEF ConstantsOK
  <2>3. a.descriptor \in -IntRange..IntRange - 1
    BY <2>1, <2>2, Zenon
  <2>4. \A d \in -IntRange..IntRange - 1 : d \in Int
    BY <2>2
  <2> QED BY <2>1, <2>3, <2>4, Zenon
<1>4. has_ip_port(a) \in BOOLEAN /\ has_descriptor(a) \in BOOLEAN
  BY DEF has_ip_port, has_descriptor
<1> QED BY <1>1, <1>2, <1>3, <1>4

LEMMA DescriptorDecides ==
  ASSUME ConstantsOK, NEW a \in Addresses, NEW b \in Addresses, Close(a, b)
  PROVE  /\ DescriptorBefore(a, b) <=> has_descriptor(a) /\ a.descriptor < b.descriptor
         /\ DescriptorBefore(b, a) <=> has_descriptor(b) /\ b.descriptor < a.descriptor
<1>1. a.descriptor \in Int /\ b.descriptor \in Int /\ IntRange \in Nat
  BY AddressTypes DEF ConstantsOK
<1>2. /\ Wrap(a.descriptor - b.descriptor) = a.descriptor - b.descriptor
      /\ Wrap(b.descriptor - a.descriptor) = b.descriptor - a.descriptor
  BY <1>1 DEF Close, Wrap
<1> QED BY <1>1, <1>2 DEF DescriptorBefore

(* Two addresses that no step of the comparison tells apart are the same. *)
LEMMA OrderTotal ==
  ASSUME ConstantsOK, NEW a \in Addresses, NEW b \in Addresses, Close(a, b), a # b
  PROVE  Less(a, b) \/ Less(b, a)
<1> USE AddressTypes
<1>1. CASE ~SameIndicators(a, b)
  BY <1>1 DEF SameIndicators, Less, Before
<1>2. CASE SameIndicators(a, b)
  <2>1. SameIndicators(b, a)
    BY <1>2 DEF SameIndicators
  <2>2. CASE ~SameIpPort(a, b)
    <3>1. has_ip_port(a) /\ has_ip_port(b) /\ (a.ip # b.ip \/ a.port # b.port)
      BY <1>2, <2>2 DEF SameIpPort, SameIndicators
    <3>2. IpPortBefore(a, b) \/ IpPortBefore(b, a)
      BY <3>1, StringLessTotal DEF IpPortBefore
    <3> QED BY <1>2, <2>1, <3>2 DEF Less
  <2>3. CASE SameIpPort(a, b)
    <3>1. SameIpPort(b, a) /\ a.ip = b.ip /\ a.port = b.port
      BY <1>2, <2>3 DEF SameIpPort, SameIndicators, has_ip_port
    <3>2. a.descriptor # b.descriptor
      BY <3>1
    <3>3. has_descriptor(a) /\ has_descriptor(b)
      BY <1>2, <3>2 DEF SameIndicators, has_descriptor
    <3>4. DescriptorBefore(a, b) \/ DescriptorBefore(b, a)
      BY <3>2, <3>3, DescriptorDecides
    <3> QED BY <1>2, <2>1, <2>3, <3>1, <3>4 DEF Less
  <2> QED BY <2>2, <2>3
<1> QED BY <1>1, <1>2

LEMMA OrderAsymmetric ==
  ASSUME ConstantsOK, NEW a \in Addresses, NEW b \in Addresses, Close(a, b)
  PROVE  ~(Less(a, b) /\ Less(b, a))
<1> USE AddressTypes
<1>1. Before(a, b) \/ Before(b, a) => ~SameIndicators(a, b) /\ ~SameIndicators(b, a)
  BY DEF Before, SameIndicators
<1>2. ~(Before(a, b) /\ Before(b, a))
  BY DEF Before
<1>3. ~(IpPortBefore(a, b) /\ IpPortBefore(b, a))
  BY StringLessAsymmetric DEF IpPortBefore
<1>4. IpPortBefore(a, b) => ~SameIpPort(b, a) \/ ~SameIndicators(b, a)
  BY StringLessAsymmetric DEF IpPortBefore, SameIpPort, SameIndicators
<1>5. IpPortBefore(b, a) => ~SameIpPort(a, b) \/ ~SameIndicators(a, b)
  BY StringLessAsymmetric DEF IpPortBefore, SameIpPort, SameIndicators
<1>6. ~(DescriptorBefore(a, b) /\ DescriptorBefore(b, a))
  BY DescriptorDecides
<1> QED BY <1>1, <1>2, <1>3, <1>4, <1>5, <1>6 DEF Less

(* Of two addresses whose descriptors are not too far apart, exactly one   *)
(* comes first, or they are equal (socket_address.cpp:84-134).             *)
THEOREM OrderAlwaysDecides ==
  ASSUME ConstantsOK, NEW a \in Addresses, NEW b \in Addresses, Close(a, b)
  PROVE  Decided(a, b)
BY OrderTotal, OrderAsymmetric DEF Decided

-----------------------------------------------------------------------------
(* The string of an address *)

(* A part of a string is known by its length and its characters. *)
LEMMA SliceIs ==
  ASSUME NEW S, NEW s \in Seq(S), NEW t \in Seq(S), NEW k \in Nat,
         k + Len(t) <= Len(s), \A i \in 1..Len(t) : s[k + i] = t[i]
  PROVE  SubSeq(s, k + 1, k + Len(t)) = t
<1>1. Len(s) \in Nat /\ Len(t) \in Nat
  BY LenProperties
<1>2. \A i \in k + 1..k + Len(t) : s[i] \in S
  BY <1>1, ElementOfSeq
<1>3. PICK u : u = SubSeq(s, k + 1, k + Len(t))
  OBVIOUS
<1>4. /\ u \in Seq(S)
      /\ Len(u) = IF k + 1 <= k + Len(t) THEN (k + Len(t)) - (k + 1) + 1 ELSE 0
      /\ \A i \in 1..(k + Len(t)) - (k + 1) + 1 : u[i] = s[(k + 1) + i - 1]
  <2>1. PICK m \in Int, n \in Int : m = k + 1 /\ n = k + Len(t)
    BY <1>1
  <2>2. \A i \in m..n : s[i] \in S
    BY <1>2, <2>1, Zenon
  <2>3. /\ SubSeq(s, m, n) \in Seq(S)
        /\ Len(SubSeq(s, m, n)) = IF m <= n THEN n - m + 1 ELSE 0
        /\ \A i \in 1..n - m + 1 : SubSeq(s, m, n)[i] = s[m + i - 1]
    BY <2>2, SubSeqProperties
  <2> QED BY <1>3, <2>1, <2>3, Zenon
<1>5. Len(u) = Len(t) /\ \A i \in 1..Len(u) : u[i] = t[i]
  <2>1. Len(u) = Len(t) /\ (k + Len(t)) - (k + 1) + 1 = Len(t)
    BY <1>1, <1>4
  <2>2. \A i \in 1..Len(t) : (k + 1) + i - 1 = k + i
    BY <1>1
  <2>3. ASSUME NEW i \in 1..Len(t) PROVE u[i] = t[i]
    <3>1. u[i] = s[(k + 1) + i - 1]
      BY <1>4, <2>1, Zenon
    <3> QED BY <2>2, <3>1, Zenon
  <2> QED BY <2>1, <2>3, Zenon
<1>6. u = t
  BY <1>4, <1>5, SeqEqual
<1> QED BY <1>3, <1>6

(* ... and the first separator by the characters before it. *)
LEMMA FindIs ==
  ASSUME NEW S, NEW s \in Seq(S), NEW c, NEW k \in 1..Len(s),
         s[k] = c, \A i \in 1..k - 1 : s[i] # c
  PROVE  Find(s, c) = k
<1>1. Len(s) \in Nat
  BY LenProperties
<1>2. PICK found : found = {i \in 1..Len(s) : s[i] = c}
  OBVIOUS
<1>3. found \in SUBSET Nat /\ k \in found /\ \A i \in found : k =< i
  BY <1>1, <1>2
<1>4. Min(found) \in found /\ Min(found) =< k /\ Min(found) \in Nat
  BY <1>3, MinIsFirst
<1>5. Min(found) = k
  BY <1>3, <1>4
<1>6. Find(s, c) = IF found = {} THEN 0 ELSE Min(found)
  BY <1>2 DEF Find
<1> QED BY <1>3, <1>5, <1>6

(* stoi reads a decimal notation back. *)
LEMMA stoiReadsBack ==
  ASSUME ConstantsOK, NEW d \in Descriptors
  PROVE  stoi(to_string[d]) = d
<1>1. \A e \in Descriptors : to_string[e] \in Seq(Chars) /\ Len(to_string[e]) \in Nat
  BY LenProperties DEF ConstantsOK, Chars
<1>2. PICK read : read = {e \in Descriptors : IsPrefix(to_string[e], to_string[d])}
  OBVIOUS
<1>3. d \in read
  BY <1>1, <1>2 DEF IsPrefix
<1>4. \A e \in read : Len(to_string[e]) <= Len(to_string[d])
  BY <1>2 DEF IsPrefix
<1>5. ASSUME NEW e \in read, Len(to_string[d]) <= Len(to_string[e]) PROVE e = d
  <2>1. e \in Descriptors /\ Len(to_string[e]) = Len(to_string[d])
        /\ SubSeq(to_string[e], 1, Len(to_string[e])) = SubSeq(to_string[d], 1, Len(to_string[e]))
    BY <1>1, <1>2, <1>4, <1>5 DEF IsPrefix
  <2>2. /\ SubSeq(to_string[e], 1, Len(to_string[e])) = to_string[e]
        /\ SubSeq(to_string[d], 1, Len(to_string[d])) = to_string[d]
    BY <1>1, <2>1, SubSeqFull
  <2> QED BY <2>1, <2>2 DEF ConstantsOK
<1>6. \A e \in read : (\A f \in read : Len(to_string[f]) <= Len(to_string[e])) <=> e = d
  BY <1>3, <1>4, <1>5
<1>7. (CHOOSE e \in read : \A f \in read : Len(to_string[f]) <= Len(to_string[e])) = d
  BY <1>3, <1>6
<1> QED BY <1>2, <1>3, <1>7 DEF stoi

(* z is the string x followed by the string y, character by character. *)
IsConcat(S, x, y, z) ==
  /\ z \in Seq(S) /\ Len(z) = Len(x) + Len(y)
  /\ \A i \in 1..Len(x) : z[i] = x[i]
  /\ \A i \in 1..Len(y) : z[Len(x) + i] = y[i]

LEMMA ConcatIs ==
  ASSUME NEW S, NEW x \in Seq(S), NEW y \in Seq(S)
  PROVE  IsConcat(S, x, y, x \o y)
<1>1. Len(x) \in Nat /\ Len(y) \in Nat
  BY LenProperties
<1>2. /\ x \o y \in Seq(S) /\ Len(x \o y) = Len(x) + Len(y)
      /\ \A i \in 1..Len(x) + Len(y) : (x \o y)[i] = IF i <= Len(x) THEN x[i] ELSE y[i - Len(x)]
  BY ConcatProperties
<1>3. PICK z : z = x \o y
  OBVIOUS
<1>4. /\ z \in Seq(S) /\ Len(z) = Len(x) + Len(y)
      /\ \A i \in 1..Len(x) + Len(y) : z[i] = IF i <= Len(x) THEN x[i] ELSE y[i - Len(x)]
  BY <1>2, <1>3
<1>5. \A i \in 1..Len(x) : z[i] = x[i]
  <2>1. \A i \in 1..Len(x) : i \in 1..Len(x) + Len(y) /\ i <= Len(x)
    BY <1>1
  <2> QED BY <1>4, <2>1, Zenon
<1>6. ASSUME NEW i \in 1..Len(y) PROVE z[Len(x) + i] = y[i]
  <2>1. Len(x) + i \in 1..Len(x) + Len(y) /\ ~(Len(x) + i <= Len(x)) /\ (Len(x) + i) - Len(x) = i
    BY <1>1
  <2>2. z[Len(x) + i] = IF Len(x) + i <= Len(x) THEN x[Len(x) + i] ELSE y[(Len(x) + i) - Len(x)]
    BY <1>4, <2>1, Zenon
  <2> QED BY <2>1, <2>2, Zenon
<1>7. IsConcat(S, x, y, z)
  BY <1>4, <1>5, <1>6, Zenon DEF IsConcat
<1> QED BY <1>3, <1>7, Zenon

(* s is u, which has no separator c, then c, then w. *)
IsSplit(S, c, u, w, s) ==
  /\ s \in Seq(S) /\ Find(s, c) = Len(u) + 1
  /\ Len(s) = (Len(u) + 1) + Len(w)
  /\ \A i \in 1..Len(u) : s[i] = u[i]
  /\ \A i \in 1..Len(w) : s[(Len(u) + 1) + i] = w[i]
  /\ SubSeq(s, 1, (Len(u) + 1) - 1) = u
  /\ After(s, Len(u) + 1) = w

LEMMA JoinedByOne ==
  ASSUME NEW S, NEW c \in S, NEW u \in Seq(S), NEW w \in Seq(S),
         \A i \in 1..Len(u) : u[i] # c
  PROVE  IsSplit(S, c, u, w, (u \o <<c>>) \o w)
<1>1. PICK d : d = <<c>>
  OBVIOUS
<1>2. d \in Seq(S) /\ Len(d) = 1 /\ d[1] = c
  BY <1>1
<1>3. PICK v : v = u \o d
  OBVIOUS
<1>4. PICK s : s = v \o w
  OBVIOUS
<1>5. IsConcat(S, u, d, v)
  BY <1>2, <1>3, ConcatIs, Zenon
<1>6. IsConcat(S, v, w, s)
  <2>1. v \in Seq(S)
    BY <1>5 DEF IsConcat
  <2> QED BY <2>1, <1>4, ConcatIs, Zenon
<1>7. PICK m, n, k : m = Len(u) /\ n = Len(w) /\ k = m + 1
  OBVIOUS
<1>8. m \in Nat /\ n \in Nat /\ k \in Nat /\ k = m + 1
  BY <1>7, LenProperties
<1>9. /\ v \in Seq(S) /\ Len(v) = k
      /\ \A i \in 1..m : v[i] = u[i]
      /\ v[k] = c
  <2>1. 1 \in 1..Len(d)
    BY <1>2
  <2>2. Len(v) = Len(u) + 1 /\ v[Len(u) + 1] = d[1]
    BY <1>2, <1>5, <2>1, Zenon DEF IsConcat
  <2> QED BY <1>2, <1>5, <1>7, <2>2, Zenon DEF IsConcat
<1>10. /\ s \in Seq(S) /\ Len(s) = k + n
       /\ \A i \in 1..k : s[i] = v[i]
       /\ \A i \in 1..n : s[k + i] = w[i]
  BY <1>6, <1>7, <1>9, Zenon DEF IsConcat
<1>11. /\ \A i \in 1..m : i \in 1..k
       /\ k \in 1..k /\ k \in 1..k + n /\ k - 1 = m
       /\ 0 + 1 = 1 /\ 0 + m = m /\ 0 + m <= k + n /\ \A i \in 1..m : 0 + i = i
  BY <1>8
<1>12. s[k] = c /\ \A i \in 1..m : s[i] = u[i]
  BY <1>9, <1>10, <1>11, Zenon
<1>13. Find(s, c) = k
  <2>1. \A i \in 1..k - 1 : s[i] # c
    BY <1>7, <1>11, <1>12, Zenon
  <2> QED BY <1>10, <1>11, <1>12, <2>1, FindIs, Zenon
<1>14. SubSeq(s, 1, k - 1) = u
  <2>1. SubSeq(s, 0 + 1, 0 + Len(u)) = u
    <3>1. 0 \in Nat /\ 0 + Len(u) <= Len(s) /\ \A i \in 1..Len(u) : s[0 + i] = u[i]
      BY <1>7, <1>10, <1>11, <1>12, Zenon
    <3> QED BY <1>10, <3>1, SliceIs, Zenon
  <2> QED BY <1>7, <1>11, <2>1, Zenon
<1>15. After(s, k) = w
  <2>1. SubSeq(s, k + 1, k + Len(w)) = w
    <3>1. k + Len(w) <= Len(s)
      BY <1>7, <1>8, <1>10
    <3>2. \A i \in 1..Len(w) : s[k + i] = w[i]
      BY <1>7, <1>10, Zenon
    <3> QED BY <1>8, <1>10, <3>1, <3>2, SliceIs, Zenon
  <2> QED BY <1>7, <1>10, <2>1, Zenon DEF After
<1> QED BY <1>1, <1>3, <1>4, <1>7, <1>10, <1>12, <1>13, <1>14, <1>15, Zenon DEF IsSplit

(* A string in which the separator is not found has none. *)
LEMMA FreeIs ==
  ASSUME NEW S, NEW t \in Seq(S), NEW c, Free(t, c)
  PROVE  \A i \in 1..Len(t) : t[i] # c
<1>1. PICK found : found = {i \in 1..Len(t) : t[i] = c}
  OBVIOUS
<1>2. found \in SUBSET Nat /\ 0 \notin found
  BY <1>1
<1>3. found # {} => Min(found) \in found
  BY <1>2, MinIsFirst
<1>4. (IF found = {} THEN 0 ELSE Min(found)) = 0
  BY <1>1 DEF Free, Find
<1> QED BY <1>1, <1>2, <1>3, <1>4

(* An address whose names are free of the separator comes back from its    *)
(* string (socket_address.cpp:15-35, 136-148).                             *)
THEOREM RoundTrip ==
  ASSUME ConstantsOK, NEW a \in Addresses, Free(a.ip, FIELD_SEP), Free(a.port, FIELD_SEP)
  PROVE  from_string(as_string(a)) = a
<1>1. PICK S : S = Chars \cup {FIELD_SEP}
  OBVIOUS
<1>2. PICK c, ip, port, num : /\ c = FIELD_SEP /\ ip = a.ip /\ port = a.port
                              /\ num = to_string[a.descriptor]
  OBVIOUS
<1>3. c \in S /\ ip \in Seq(S) /\ port \in Seq(S) /\ num \in Seq(S)
  <2>1. a.ip \in Seq(Chars) /\ a.port \in Seq(Chars) /\ num \in Seq(Chars)
    BY <1>2, AddressTypes DEF ConstantsOK, Chars
  <2>2. Seq(Chars) \subseteq Seq(S) /\ c \in S
    BY <1>1, <1>2, SeqMonotonic
  <2> QED BY <1>2, <2>1, <2>2
<1>4. (\A i \in 1..Len(ip) : ip[i] # c) /\ (\A i \in 1..Len(port) : port[i] # c)
  BY <1>2, <1>3, FreeIs, Zenon
<1>5. PICK tail, s : tail = (port \o <<c>>) \o num /\ s = (ip \o <<c>>) \o tail
  OBVIOUS
<1>6. PICK k, l : k = Len(ip) + 1 /\ l = Len(port) + 1
  OBVIOUS
<1>7. /\ tail \in Seq(S) /\ Find(tail, c) = l /\ Len(tail) = l + Len(num)
      /\ \A i \in 1..Len(port) : tail[i] = port[i]
      /\ \A i \in 1..Len(num) : tail[l + i] = num[i]
      /\ SubSeq(tail, 1, l - 1) = port /\ After(tail, l) = num
  <2>1. IsSplit(S, c, port, num, (port \o <<c>>) \o num)
    BY <1>3, <1>4, JoinedByOne
  <2>2. IsSplit(S, c, port, num, tail)
    BY <1>5, <2>1, Zenon
  <2> QED BY <1>6, <2>2, Zenon DEF IsSplit
<1>8. /\ s \in Seq(S) /\ Find(s, c) = k /\ Len(s) = k + Len(tail)
      /\ \A i \in 1..Len(tail) : s[k + i] = tail[i]
      /\ SubSeq(s, 1, k - 1) = ip /\ After(s, k) = tail
  <2>1. IsSplit(S, c, ip, tail, (ip \o <<c>>) \o tail)
    BY <1>3, <1>4, <1>7, JoinedByOne
  <2>2. IsSplit(S, c, ip, tail, s)
    BY <1>5, <2>1, Zenon
  <2> QED BY <1>6, <2>2, Zenon DEF IsSplit
<1>9. as_string(a) = s
  BY <1>2, <1>5, Zenon DEF as_string
<1>10. stoi(num) = a.descriptor
  BY <1>2, AddressTypes, stoiReadsBack
<1>11. /\ k \in Nat /\ l \in Nat /\ Len(port) \in Nat /\ Len(num) \in Nat
       /\ k # 0 /\ l + k # k /\ (l + k) - 1 = k + Len(port) /\ (l + k) + Len(num) = Len(s)
       /\ k + Len(port) <= Len(s)
  <2>1. Len(ip) \in Nat /\ Len(port) \in Nat /\ Len(num) \in Nat
    BY <1>3, LenProperties
  <2> QED BY <1>6, <1>7, <1>8, <2>1
<1>12. SubSeq(s, k + 1, (l + k) - 1) = port /\ After(s, l + k) = num
  <2>1. \A i \in 1..Len(port) : i \in 1..Len(tail)
    BY <1>6, <1>7, <1>11
  <2>2. ASSUME NEW i \in 1..Len(port) PROVE s[k + i] = port[i]
    <3>1. tail[i] = port[i] /\ s[k + i] = tail[i]
      BY <1>7, <1>8, <2>1, Zenon
    <3> QED BY <3>1, Zenon
  <2>3. SubSeq(s, k + 1, k + Len(port)) = port
    BY <1>3, <1>8, <1>11, <2>2, SliceIs, Zenon
  <2>4. \A i \in 1..Len(num) : l + i \in 1..Len(tail) /\ k + (l + i) = (l + k) + i
    BY <1>6, <1>7, <1>11
  <2>5. ASSUME NEW i \in 1..Len(num) PROVE s[(l + k) + i] = num[i]
    <3>1. tail[l + i] = num[i] /\ s[k + (l + i)] = tail[l + i]
      BY <1>7, <1>8, <2>4, Zenon
    <3> QED BY <2>4, <3>1, Zenon
  <2>6. l + k \in Nat /\ (l + k) + Len(num) <= Len(s)
    BY <1>8, <1>11
  <2>7. SubSeq(s, (l + k) + 1, (l + k) + Len(num)) = num
    BY <1>3, <1>8, <2>5, <2>6, SliceIs, Zenon
  <2> QED BY <1>11, <2>3, <2>7, Zenon DEF After
<1>13. from_string(s) = [ip |-> ip, port |-> port, descriptor |-> a.descriptor]
  BY <1>2, <1>7, <1>8, <1>10, <1>11, <1>12, Zenon DEF from_string, initialize_SocketAddress
<1> QED BY <1>2, <1>9, <1>13, AddressTypes, Zenon

(* So two addresses never share a string, which is the key of the cache    *)
(* address_to_descriptor (socket_address.cpp:136-148,                      *)
(* socket_communicator.cpp:173-175, 186-189).                              *)
THEOREM KeysDiffer ==
  ASSUME ConstantsOK, NEW a \in Addresses, NEW b \in Addresses,
         Free(a.ip, FIELD_SEP), Free(a.port, FIELD_SEP),
         Free(b.ip, FIELD_SEP), Free(b.port, FIELD_SEP),
         as_string(a) = as_string(b)
  PROVE  a = b
<1>1. from_string(as_string(a)) = a /\ from_string(as_string(b)) = b
  BY RoundTrip
<1> QED BY <1>1

-----------------------------------------------------------------------------
(* The iterator *)

(* Induction, with a set for the property. *)
LEMMA NaturalInduction ==
  ASSUME NEW T \in SUBSET Nat, 0 \in T, \A n \in T : n + 1 \in T
  PROVE  T = Nat
<1> DEFINE Bad == Nat \ T
<1>1. SUFFICES ASSUME Bad # {} PROVE FALSE
  OBVIOUS
<1>2. PICK n \in Bad : \A k \in Bad : n <= k
  <2>1. Bad \in SUBSET Nat
    OBVIOUS
  <2> HIDE DEF Bad
  <2> QED BY <1>1, <2>1, MinIsFirst
<1>3. n - 1 \in T
  BY <1>2
<1> QED BY <1>2, <1>3

(* The recursion of FlattenSeq over the first n elements, *)
IsFlat(f, ss, n) ==
  f = [i \in 1..n |-> IF i = 1 THEN ss[i] ELSE f[i - 1] \o ss[i]]

(* which has a result. *)
LEMMA FlatExists ==
  ASSUME NEW ss, NEW n \in Nat
  PROVE  \E f : IsFlat(f, ss, n)
<1> DEFINE Good == {k \in Nat : \E f : IsFlat(f, ss, k)}
<1>1. 0 \in Good
  <2>1. PICK f : f = [i \in 1..0 |-> 0]
    OBVIOUS
  <2>2. f = [i \in 1..0 |-> IF i = 1 THEN ss[i] ELSE f[i - 1] \o ss[i]]
    BY <2>1
  <2> QED BY <2>2 DEF IsFlat
<1>2. ASSUME NEW k \in Good PROVE k + 1 \in Good
  <2>1. PICK f : IsFlat(f, ss, k)
    OBVIOUS
  <2>2. PICK g : g = [i \in 1..k + 1 |->
                        IF i <= k THEN f[i] ELSE IF i = 1 THEN ss[i] ELSE f[k] \o ss[i]]
    OBVIOUS
  <2>3. k \in Nat
    OBVIOUS
  <2>4. ASSUME NEW i \in 1..k + 1
        PROVE  g[i] = IF i = 1 THEN ss[i] ELSE g[i - 1] \o ss[i]
    <3>1. CASE i <= k
      <4>1. i \in 1..k /\ g[i] = f[i]
        BY <2>2, <2>3, <3>1
      <4>2. f[i] = IF i = 1 THEN ss[i] ELSE f[i - 1] \o ss[i]
        BY <2>1, <4>1 DEF IsFlat
      <4>3. i # 1 => g[i - 1] = f[i - 1]
        BY <2>2, <2>3, <3>1
      <4> QED BY <4>1, <4>2, <4>3
    <3>2. CASE i = k + 1
      <4>1. i # 1 => k \in 1..k + 1 /\ g[k] = f[k] /\ i - 1 = k
        BY <2>2, <2>3, <3>2
      <4> QED BY <2>2, <2>3, <3>2, <4>1
    <3> QED BY <2>3, <3>1, <3>2
  <2>5. IsFlat(g, ss, k + 1)
    BY <2>2, <2>4 DEF IsFlat
  <2> QED BY <2>3, <2>5
<1>3. Good = Nat
  <2>1. Good \in SUBSET Nat
    OBVIOUS
  <2> HIDE DEF Good
  <2> QED BY <1>1, <1>2, <2>1, NaturalInduction
<1> QED BY <1>3

(* w[k] is what remains of the flattened sequence after its first k        *)
(* elements.                                                               *)
Remainders(S, w, ss, n) ==
  /\ w \in [0..n -> Seq(S)]
  /\ w[n] = <<>>
  /\ \A k \in 0..n - 1 : w[k] = ss[k + 1] \o w[k + 1]

LEMMA FlattenRemainders ==
  ASSUME NEW S, NEW ss \in Seq(Seq(S))
  PROVE  \E w : Remainders(S, w, ss, Len(ss)) /\ w[0] = FlattenSeq(ss)
<1>0. \A p, q, r \in Seq(S) : (p \o q) \o r = p \o (q \o r)
  BY ConcatAssociative
<1>1. PICK n \in Nat : n = Len(ss)
  BY LenProperties
<1>2. PICK f : IsFlat(f, ss, n) /\ (n # 0 => FlattenSeq(ss) = f[n])
  <2>1. PICK f : f = CHOOSE g : IsFlat(g, ss, n)
    OBVIOUS
  <2>2. IsFlat(f, ss, n)
    BY <2>1, FlatExists
  <2>3. n # 0 => FlattenSeq(ss) = f[n]
    BY <1>1, <2>1 DEF FlattenSeq, IsFlat
  <2> QED BY <2>2, <2>3
<1> DEFINE Start(k) == IF k = 0 THEN <<>> ELSE f[k]
           Good == {k \in Nat : k <= n => \E w : Remainders(S, w, ss, k) /\ w[0] = Start(k)}
<1>3. 0 \in Good
  <2>1. PICK w : w = [k \in 0..0 |-> <<>>]
    OBVIOUS
  <2>2. Remainders(S, w, ss, 0) /\ w[0] = Start(0)
    <3>1. <<>> \in Seq(S)
      BY EmptySeq
    <3> QED BY <2>1, <3>1 DEF Remainders
  <2> QED BY <2>2
<1>4. ASSUME NEW k \in Good PROVE k + 1 \in Good
  <2>1. k \in Nat
    OBVIOUS
  <2>2. SUFFICES ASSUME k + 1 <= n
                 PROVE  \E w : Remainders(S, w, ss, k + 1) /\ w[0] = Start(k + 1)
    BY <2>1
  <2>3. PICK w : Remainders(S, w, ss, k) /\ w[0] = Start(k)
    BY <1>1, <2>1, <2>2
  <2> HIDE DEF Good
  <2>4. PICK x \in Seq(S) : x = ss[k + 1]
    BY <1>1, <2>1, <2>2, ElementOfSeq
  <2>5. PICK v : v = [i \in 0..k + 1 |-> IF i <= k THEN w[i] \o x ELSE <<>>]
    OBVIOUS
  <2>6. v \in [0..k + 1 -> Seq(S)] /\ v[k + 1] = <<>>
    <3>1. \A i \in 0..k : w[i] \o x \in Seq(S)
      BY <2>3, <2>4, ConcatProperties DEF Remainders
    <3>2. <<>> \in Seq(S)
      BY EmptySeq
    <3>3. \A i \in 0..k + 1 : v[i] \in Seq(S)
      BY <2>1, <2>5, <3>1, <3>2
    <3> QED BY <2>1, <2>5, <3>3
  <2>7. ASSUME NEW i \in 0..(k + 1) - 1 PROVE v[i] = ss[i + 1] \o v[i + 1]
    <3>1. i \in 0..k /\ i + 1 \in 0..k + 1 /\ v[i] = w[i] \o x
      BY <2>1, <2>5
    <3> HIDE DEF Start
    <3>2. CASE i < k
      <4>1. w[i] = ss[i + 1] \o w[i + 1]
        <5>1. i \in 0..k - 1
          BY <2>1, <3>1, <3>2
        <5> QED BY <2>3, <5>1 DEF Remainders
      <4>3. v[i + 1] = w[i + 1] \o x
        BY <2>1, <2>5, <3>1, <3>2
      <4>2. ss[i + 1] \in Seq(S) /\ w[i + 1] \in Seq(S)
        <5>1. i + 1 \in 1..Len(ss) /\ i + 1 \in 0..k
          BY <1>1, <2>1, <2>2, <3>1, <3>2
        <5> QED BY <2>3, <5>1, ElementOfSeq DEF Remainders
      <4>4. (ss[i + 1] \o w[i + 1]) \o x = ss[i + 1] \o (w[i + 1] \o x)
        BY <1>0, <4>2, Zenon
      <4> QED BY <3>1, <4>1, <4>3, <4>4, Zenon
    <3>3. CASE i = k
      <4>1. w[i] = <<>> /\ v[i + 1] = <<>> /\ ss[i + 1] = x
        BY <2>3, <2>4, <2>6, <3>3 DEF Remainders
      <4>2. <<>> \o x = x /\ x \o <<>> = x
        BY <2>4, ConcatEmptySeq
      <4>3. v[i] = <<>> \o x
        BY <3>1, <4>1, Zenon
      <4>4. ss[i + 1] \o v[i + 1] = x \o <<>>
        BY <4>1, Zenon
      <4>5. v[i] = x
        BY <4>2, <4>3, Zenon
      <4>6. ss[i + 1] \o v[i + 1] = x
        BY <4>2, <4>4, Zenon
      <4> QED BY <4>5, <4>6, Zenon
    <3>4. i < k \/ i = k
      BY <2>1, <3>1
    <3> QED BY <3>2, <3>3, <3>4, Zenon
  <2>8. v[0] = Start(k + 1)
    <3>1. v[0] = Start(k) \o x
      <4>1. 0 \in 0..k + 1 /\ 0 <= k
        BY <2>1
      <4>2. v[0] = w[0] \o x
        BY <2>5, <4>1
      <4> HIDE DEF Start
      <4> QED BY <2>3, <4>2, Zenon
    <3>2. k + 1 \in 1..n /\ k + 1 # 0 /\ (k + 1) - 1 = k /\ (k + 1 = 1 <=> k = 0)
      BY <2>1, <2>2
    <3>3. f[k + 1] = IF k + 1 = 1 THEN ss[k + 1] ELSE f[(k + 1) - 1] \o ss[k + 1]
      BY <1>2, <3>2 DEF IsFlat
    <3>4. CASE k = 0
      BY <2>4, <3>1, <3>2, <3>3, <3>4, ConcatEmptySeq
    <3>5. CASE k # 0
      BY <2>4, <3>1, <3>2, <3>3, <3>5
    <3> QED BY <3>4, <3>5
  <2> QED BY <2>6, <2>7, <2>8 DEF Remainders
<1>5. Good = Nat
  <2>1. Good \in SUBSET Nat
    OBVIOUS
  <2> HIDE DEF Good
  <2> QED BY <1>3, <1>4, <2>1, NaturalInduction
<1>6. PICK w : Remainders(S, w, ss, n) /\ w[0] = Start(n)
  <2>1. n \in Good
    BY <1>5
  <2> QED BY <2>1
<1>7. n = 0 => FlattenSeq(ss) = <<>>
  BY <1>1, EmptySeq DEF FlattenSeq
<1> QED BY <1>1, <1>2, <1>6, <1>7

(* ObjStrIterator is built from the operators of SocketAddress. *)
LEMMA SameOperators ==
  /\ Iterator!OBJECT_SEP = "#" /\ Iterator!Addresses = Addresses
  /\ \A s, c : Iterator!Find(s, c) = Find(s, c)
  /\ \A s, i : Iterator!After(s, i) = After(s, i)
  /\ \A a : Iterator!as_string(a) = as_string(a)
  /\ \A s : Iterator!from_string(s) = from_string(s)
  /\ \A a, b : Iterator!Close(a, b) = Close(a, b)
<1>1. Iterator!OBJECT_SEP = "#"
  BY DEF Iterator!OBJECT_SEP
<1>2. Iterator!Addresses = Addresses
  BY DEF Iterator!Addresses, Addresses, Iterator!NoAddress, NoAddress,
         Iterator!initialize_SocketAddress, initialize_SocketAddress,
         Iterator!NO_IP_PORT, NO_IP_PORT, Iterator!NO_DESCRIPTOR, NO_DESCRIPTOR
<1>3. \A s, c : Iterator!Find(s, c) = Find(s, c)
  BY DEF Iterator!Find, Find, Iterator!Min, Min
<1>4. \A s, i : Iterator!After(s, i) = After(s, i)
  BY DEF Iterator!After, After
<1>5. \A a : Iterator!as_string(a) = as_string(a)
  BY DEF Iterator!as_string, as_string, Iterator!FIELD_SEP, FIELD_SEP
<1>6. \A s : Iterator!stoi(s) = stoi(s)
  BY DEF Iterator!stoi, stoi, Iterator!IsPrefix, IsPrefix, Iterator!Throws, Throws
<1>7. \A s : Iterator!from_string(s) = from_string(s)
  BY <1>3, <1>4, <1>6
  DEF Iterator!from_string, from_string, Iterator!FIELD_SEP, FIELD_SEP,
      Iterator!initialize_SocketAddress, initialize_SocketAddress
<1>8. \A a, b : Iterator!Close(a, b) = Close(a, b)
  BY DEF Iterator!Close, Close
<1> QED BY <1>1, <1>2, <1>3, <1>4, <1>5, <1>7, <1>8

LEMMA SameDecided == \A a, b : Iterator!Decided(a, b) <=> Decided(a, b)
BY DEF Iterator!Decided, Decided, Iterator!Less, Less, Iterator!Before, Before,
  Iterator!has_ip_port, has_ip_port, Iterator!has_descriptor, has_descriptor,
  Iterator!SameIndicators, SameIndicators, Iterator!SameIpPort, SameIpPort,
  Iterator!IpPortBefore, IpPortBefore, Iterator!DescriptorBefore, DescriptorBefore,
  Iterator!Wrap, Wrap, Iterator!StringLess, StringLess,
  Iterator!NO_IP_PORT, NO_IP_PORT, Iterator!NO_DESCRIPTOR, NO_DESCRIPTOR

(* The objects of a vector, and their strings *)
StringWrappers == [original_string : Names]
Stringables    == Addresses \cup StringWrappers

represent(e) == IF e \in StringWrappers THEN e.original_string ELSE as_string(e)

(* The characters of a string of objects *)
Text == Chars \cup {FIELD_SEP, "#"}

Piece(e)  == represent(e) \o <<"#">>
Pieces(v) == [k \in 1..Len(v) |-> Piece(v[k])]

Convertible(e) ==
  IF e \in StringWrappers THEN Free(e.original_string, "#")
  ELSE \A s \in {e.ip, e.port}, separator \in {FIELD_SEP, "#"} : Free(s, separator)

AllConvertible == \A k \in 1..Len(vector_a) : Convertible(vector_a[k])

LEMMA SameConvertible ==
  /\ Iterator!StringWrappers = StringWrappers
  /\ \A e : Iterator!represent(e) = represent(e)
  /\ \A e : Iterator!Convertible(e) <=> Convertible(e)
<1>1. Iterator!StringWrappers = StringWrappers
  BY DEF Iterator!StringWrappers, StringWrappers
<1>2. \A e : Iterator!represent(e) = represent(e)
  BY <1>1, SameOperators DEF Iterator!represent, represent
<1>3. \A s, c : Iterator!Free(s, c) <=> Free(s, c)
  BY SameOperators DEF Iterator!Free, Free
<1>4. \A e : Iterator!Convertible(e) <=> Convertible(e)
  BY <1>1, <1>3, SameOperators DEF Iterator!Convertible, Convertible, Iterator!FIELD_SEP, FIELD_SEP
<1> QED BY <1>1, <1>2, <1>4

(* An address is no StringWrapper. *)
LEMMA NoWrapper ==
  ASSUME NEW a \in Addresses
  PROVE  a \notin StringWrappers
<1>1. DOMAIN a = {"ip", "port", "descriptor"}
  BY DEF Addresses
<1>2. \A e \in StringWrappers : DOMAIN e = {"original_string"}
  BY DEF StringWrappers
<1>3. {"ip", "port", "descriptor"} # {"original_string"}
  OBVIOUS
<1> QED BY <1>1, <1>2, <1>3

(* The string of an address is free of the separator of objects if its     *)
(* names are.                                                              *)
LEMMA StringOfAddress ==
  ASSUME NEW a \in Addresses
  PROVE  /\ as_string(a) \in Seq(Text)
         /\ Convertible(a) => \A i \in 1..Len(as_string(a)) : as_string(a)[i] # "#"
<1>1. PICK c, ip, port, num : /\ c = <<FIELD_SEP>> /\ ip = a.ip /\ port = a.port
                              /\ num = to_string[a.descriptor]
  OBVIOUS
<1>2. ConstantsOK
  BY ConstantsAssumption
<1>3. c \in Seq(Text) /\ ip \in Seq(Text) /\ port \in Seq(Text) /\ num \in Seq(Text)
  <2>1. ip \in Seq(Chars) /\ port \in Seq(Chars) /\ num \in Seq(Chars)
    BY <1>1, <1>2, AddressTypes DEF ConstantsOK, Chars
  <2>2. Seq(Chars) \subseteq Seq(Text) /\ FIELD_SEP \in Text
    BY SeqMonotonic DEF Text
  <2> QED BY <1>1, <2>1, <2>2
<1>4. PICK u, v, w, s : u = ip \o c /\ v = port \o c /\ w = v \o num /\ s = u \o w
  OBVIOUS
<1>5. IsConcat(Text, ip, c, u) /\ IsConcat(Text, port, c, v)
  BY <1>3, <1>4, ConcatIs
<1>6. IsConcat(Text, v, num, w)
  <2>1. v \in Seq(Text)
    BY <1>5 DEF IsConcat
  <2> QED BY <1>3, <1>4, <2>1, ConcatIs
<1>7. IsConcat(Text, u, w, s)
  <2>1. u \in Seq(Text) /\ w \in Seq(Text)
    BY <1>5, <1>6 DEF IsConcat
  <2> QED BY <1>4, <2>1, ConcatIs
<1>8. as_string(a) = s
  BY <1>1, <1>4 DEF as_string
<1>9. ASSUME Convertible(a) PROVE \A i \in 1..Len(s) : s[i] # "#"
  <2> DEFINE Clean(x) == \A i \in 1..Len(x) : x[i] # "#"
  <2>1. Clean(ip) /\ Clean(port)
    <3>1. Free(ip, "#") /\ Free(port, "#")
      BY <1>1, <1>9, NoWrapper DEF Convertible
    <3> QED BY <1>3, <3>1, FreeIs
  <2>2. Clean(num)
    BY <1>1, <1>2, NotationAssumption, AddressTypes, SameOperators DEF NotationAssumption
  <2>3. Clean(c)
    BY <1>1 DEF FIELD_SEP
  <2>4. ASSUME NEW x \in Seq(Text), NEW y \in Seq(Text), NEW z, IsConcat(Text, x, y, z),
               Clean(x), Clean(y)
        PROVE  Clean(z)
    <3>1. PICK m \in Nat, n \in Nat : m = Len(x) /\ n = Len(y)
      BY LenProperties
    <3>2. /\ Len(z) = m + n
          /\ \A i \in 1..m : z[i] # "#"
          /\ \A i \in 1..n : z[m + i] # "#"
      BY <2>4, <3>1 DEF IsConcat
    <3>3. ASSUME NEW i \in 1..m + n PROVE z[i] # "#"
      <4>1. CASE i <= m
        BY <3>2, <4>1
      <4>2. CASE i > m
        <5>1. i - m \in 1..n /\ m + (i - m) = i
          BY <4>2
        <5>2. z[m + (i - m)] # "#"
          BY <3>2, <5>1, Zenon
        <5> QED BY <5>1, <5>2
      <4> QED BY <4>1, <4>2
    <3> QED BY <3>2, <3>3
  <2> HIDE DEF Clean
  <2>5. Clean(u) /\ Clean(v)
    BY <1>3, <1>5, <2>1, <2>3, <2>4
  <2>6. Clean(w)
    BY <1>3, <1>5, <1>6, <2>2, <2>4, <2>5 DEF IsConcat
  <2>7. Clean(s)
    BY <1>5, <1>6, <1>7, <2>4, <2>5, <2>6 DEF IsConcat
  <2> QED BY <2>7 DEF Clean
<1> QED BY <1>7, <1>8, <1>9 DEF IsConcat

(* So is that of any object. *)
LEMMA StringOfObject ==
  ASSUME NEW e \in Stringables
  PROVE  /\ represent(e) \in Seq(Text)
         /\ Convertible(e) => \A i \in 1..Len(represent(e)) : represent(e)[i] # "#"
<1>1. CASE e \in Addresses
  <2>1. represent(e) = as_string(e)
    BY <1>1, NoWrapper DEF represent
  <2> QED BY <1>1, <2>1, StringOfAddress
<1>2. CASE e \in StringWrappers
  <2>1. PICK s : s = e.original_string /\ represent(e) = s
    BY <1>2 DEF represent
  <2>2. s \in Seq(Chars)
    BY <1>2, <2>1, ConstantsAssumption DEF ConstantsOK, Chars, StringWrappers
  <2>3. s \in Seq(Text)
    BY <2>2, SeqMonotonic DEF Text
  <2>4. Convertible(e) => Free(s, "#")
    BY <1>2, <2>1 DEF Convertible
  <2> QED BY <2>1, <2>3, <2>4, FreeIs
<1> QED BY <1>1, <1>2 DEF Stringables

LEMMA StringOfVector ==
  ASSUME NEW v \in Seq(Stringables)
  PROVE  /\ Pieces(v) \in Seq(Seq(Text)) /\ Len(Pieces(v)) = Len(v)
         /\ \A k \in 1..Len(v) : Pieces(v)[k] = Piece(v[k])
         /\ Iterator!vector_to_string(v) = FlattenSeq(Pieces(v))
<1>1. Len(v) \in Nat /\ \A k \in 1..Len(v) : v[k] \in Stringables
  BY LenProperties, ElementOfSeq
<1>2. \A k \in 1..Len(v) : Piece(v[k]) \in Seq(Text)
  <2>1. <<"#">> \in Seq(Text)
    BY DEF Text
  <2> QED BY <1>1, <2>1, StringOfObject, ConcatProperties DEF Piece
<1>3. PICK ss : ss = Pieces(v)
  OBVIOUS
<1>4. ss = [k \in 1..Len(v) |-> Piece(v[k])]
  BY <1>3 DEF Pieces
<1>5. ss \in Seq(Seq(Text)) /\ Len(ss) = Len(v) /\ \A k \in 1..Len(v) : ss[k] = Piece(v[k])
  <2>1. PICK n \in Nat : n = Len(v)
    BY <1>1
  <2>2. ss \in [1..n -> Seq(Text)]
    BY <1>2, <1>4, <2>1
  <2>3. ss \in Seq(Seq(Text)) /\ DOMAIN ss = 1..n
    BY <2>2, SeqDef
  <2>4. Len(ss) = n
    BY <2>1, <2>3, LenProperties
  <2> QED BY <1>4, <2>1, <2>3, <2>4
<1>6. Iterator!vector_to_string(v) = FlattenSeq(ss)
  <2>1. \A tt : Iterator!FlattenSeq(tt) = FlattenSeq(tt)
    BY DEF Iterator!FlattenSeq, FlattenSeq
  <2>2. [k \in 1..Len(v) |-> Iterator!represent(v[k]) \o <<Iterator!OBJECT_SEP>>] = ss
    BY <1>4, SameOperators, SameConvertible DEF Piece
  <2> QED BY <2>1, <2>2 DEF Iterator!vector_to_string
<1> QED BY <1>3, <1>5, <1>6

-----------------------------------------------------------------------------

(* Part of the way, the iterator has returned the strings of the first     *)
(* objects, and what remains is the string of the others.                  *)
Returned(n) ==
  /\ vector_b \in Seq(Seq(Text)) /\ Len(vector_b) = n
  /\ \A k \in 1..n : vector_b[k] = represent(vector_a[k])

PartOfTheWay ==
  \E w : \E n \in 0..Len(vector_a) :
    /\ Remainders(Text, w, Pieces(vector_a), Len(vector_a))
    /\ remaining_to_iterate = w[n]
    /\ Returned(n)

IteratorInv ==
  /\ vector_a \in Seq(Stringables)
  /\ at \in {"fill", "iterate", "iterate_other", "compare", "iterate_failed",
             "iterate_other_failed"}
  /\ at = "fill" => vector_b = <<>>
  /\ at \in {"iterate_other", "iterate_other_failed"} => vector_a = <<>>
  /\ AllConvertible =>
       /\ at # "iterate_failed"
       /\ at = "iterate" => PartOfTheWay
       /\ at = "compare" /\ vector_a # <<>> => Returned(Len(vector_a))

LEMMA PushStep ==
  ASSUME IteratorInv, Iterator!Push
  PROVE  IteratorInv'
<1>1. PICK a \in Stringables : vector_a' = Append(vector_a, a)
  BY SameOperators, SameConvertible DEF Iterator!Push, Stringables
<1>2. at = "fill" /\ at' = "fill" /\ vector_b' = vector_b
  BY DEF Iterator!Push
<1>3. vector_a' \in Seq(Stringables)
  BY <1>1, AppendProperties DEF IteratorInv
<1> QED BY <1>2, <1>3 DEF IteratorInv

LEMMA IterateStep ==
  ASSUME IteratorInv, Iterator!Iterate
  PROVE  IteratorInv'
<1>1. /\ at = "fill" /\ at' = "iterate" /\ vector_a' = vector_a /\ vector_b' = vector_b
      /\ remaining_to_iterate' = Iterator!vector_to_string(vector_a)
      /\ vector_a \in Seq(Stringables) /\ vector_b = <<>>
  BY DEF Iterator!Iterate, IteratorInv
<1>2. PICK v : v = vector_a /\ v \in Seq(Stringables)
  BY <1>1
<1>3. PICK w : /\ Remainders(Text, w, Pieces(v), Len(v))
               /\ w[0] = Iterator!vector_to_string(v)
  BY <1>2, StringOfVector, FlattenRemainders
<1>4. Returned(0)' /\ 0 \in 0..Len(v)
  <2>1. Len(v) \in Nat
    BY <1>2, LenProperties
  <2>2. vector_b' \in Seq(Seq(Text)) /\ Len(vector_b') = 0
    BY <1>1, EmptySeq
  <2> QED BY <2>1, <2>2 DEF Returned
<1>5. PartOfTheWay'
  BY <1>1, <1>2, <1>3, <1>4 DEF PartOfTheWay
<1> QED BY <1>1, <1>5 DEF IteratorInv

LEMMA IterateOtherStep ==
  ASSUME IteratorInv, Iterator!IterateOther
  PROVE  IteratorInv'
BY DEF Iterator!IterateOther, IteratorInv

(* What remains is empty at the end, or begins with the next object. *)
LEMMA NextPiece ==
  ASSUME vector_a \in Seq(Stringables), AllConvertible, NEW w, NEW n \in 0..Len(vector_a),
         Remainders(Text, w, Pieces(vector_a), Len(vector_a))
  PROVE  \/ n = Len(vector_a) /\ w[n] = <<>>
         \/ /\ n + 1 \in 0..Len(vector_a) /\ n + 1 \in 1..Len(vector_a)
            /\ w[n] # <<>>
            /\ IsSplit(Text, "#", represent(vector_a[n + 1]), w[n + 1], w[n])
<1>1. PICK v \in Seq(Stringables), m \in Nat : v = vector_a /\ m = Len(v)
  BY LenProperties
<1>2. CASE n = m
  BY <1>1, <1>2 DEF Remainders
<1>3. CASE n # m
  <2>1. n \in 0..m - 1 /\ n + 1 \in 0..m /\ n + 1 \in 1..m
    BY <1>1, <1>3
  <2>2. /\ w[n] = Pieces(v)[n + 1] \o w[n + 1] /\ w[n + 1] \in Seq(Text)
    BY <1>1, <2>1 DEF Remainders
  <2>3. PICK a \in Stringables : a = v[n + 1] /\ Convertible(a)
    BY <1>1, <2>1, ElementOfSeq DEF AllConvertible
  <2>4. PICK u \in Seq(Text) : u = represent(a) /\ \A i \in 1..Len(u) : u[i] # "#"
    BY <2>3, StringOfObject
  <2>5. Pieces(v)[n + 1] = u \o <<"#">>
    BY <1>1, <2>1, <2>3, <2>4, StringOfVector DEF Piece
  <2>6. "#" \in Text
    BY DEF Text
  <2>7. IsSplit(Text, "#", u, w[n + 1], (u \o <<"#">>) \o w[n + 1])
    BY <2>2, <2>4, <2>6, JoinedByOne
  <2>8. IsSplit(Text, "#", u, w[n + 1], w[n])
    BY <2>2, <2>5, <2>7, Zenon
  <2>9. w[n] # <<>>
    <3>1. PICK p \in Nat, q \in Nat : p = Len(u) /\ q = Len(w[n + 1])
      BY <2>2, <2>4, LenProperties
    <3>2. Len(w[n]) = (p + 1) + q /\ (p + 1) + q # 0
      <4>1. Len(w[n]) = (p + 1) + q
        BY <2>8, <3>1, Zenon DEF IsSplit
      <4> QED BY <4>1
    <3>3. PICK x : x = w[n] /\ Len(x) # 0
      BY <3>2, Zenon
    <3>4. x # <<>>
      BY <3>3, EmptySeq
    <3> QED BY <3>3, <3>4
  <2> QED BY <1>1, <2>1, <2>3, <2>4, <2>8, <2>9
<1> QED BY <1>2, <1>3

LEMMA GetNextStep ==
  ASSUME IteratorInv, Iterator!get_next
  PROVE  IteratorInv'
<1>1. PICK r, k : r = remaining_to_iterate /\ k = Find(r, "#")
  OBVIOUS
<1>2. /\ at \in {"iterate", "iterate_other"} /\ r # <<>>
      /\ vector_b' = Append(vector_b, SubSeq(r, 1, k - 1))
      /\ remaining_to_iterate' = After(r, k)
      /\ vector_a' = vector_a /\ at' = at
  BY <1>1, SameOperators DEF Iterator!get_next, Iterator!Iterating, Iterator!has_next
<1>3. CASE at = "iterate" /\ AllConvertible
  <2>0. PICK w : \E n \in 0..Len(vector_a) :
          Remainders(Text, w, Pieces(vector_a), Len(vector_a)) /\ r = w[n] /\ Returned(n)
    BY <1>1, <1>3 DEF IteratorInv, PartOfTheWay
  <2>1. PICK n \in 0..Len(vector_a) :
          Remainders(Text, w, Pieces(vector_a), Len(vector_a)) /\ r = w[n] /\ Returned(n)
    BY <2>0
  <2>2. /\ n + 1 \in 0..Len(vector_a) /\ n + 1 \in 1..Len(vector_a)
        /\ IsSplit(Text, "#", represent(vector_a[n + 1]), w[n + 1], w[n])
    BY <1>2, <1>3, <2>1, NextPiece DEF IteratorInv
  <2>3. PICK u \in Seq(Text) : u = represent(vector_a[n + 1])
    <3>1. vector_a[n + 1] \in Stringables
      BY <2>2, ElementOfSeq DEF IteratorInv
    <3> QED BY <3>1, StringOfObject
  <2>4. SubSeq(r, 1, k - 1) = u /\ After(r, k) = w[n + 1]
    <3>1. k = Len(u) + 1
      BY <1>1, <2>1, <2>2, <2>3 DEF IsSplit
    <3>2. SubSeq(r, 1, (Len(u) + 1) - 1) = u /\ After(r, Len(u) + 1) = w[n + 1]
      BY <2>1, <2>2, <2>3 DEF IsSplit
    <3> QED BY <3>1, <3>2, Zenon
  <2>5. Returned(n + 1)'
    <3>1. PICK b, c : b = vector_b /\ c = vector_b'
      OBVIOUS
    <3>2. b \in Seq(Seq(Text)) /\ Len(b) = n /\ \A i \in 1..n : b[i] = represent(vector_a[i])
      BY <2>1, <3>1 DEF Returned
    <3>3. c = Append(b, u)
      BY <1>2, <2>4, <3>1
    <3>4. c \in Seq(Seq(Text)) /\ Len(c) = n + 1 /\ c[n + 1] = u
          /\ \A i \in 1..n : c[i] = b[i]
      BY <3>2, <3>3, AppendProperties
    <3>5. \A i \in 1..n + 1 : c[i] = represent(vector_a[i])
      <4>1. ASSUME NEW i \in 1..n + 1 PROVE i \in 1..n \/ i = n + 1
        OBVIOUS
      <4> QED BY <2>3, <3>2, <3>4, <4>1, Zenon
    <3> QED BY <1>2, <3>1, <3>4, <3>5 DEF Returned
  <2>6. PartOfTheWay'
    <3>1. remaining_to_iterate' = w[n + 1]
      BY <1>2, <2>4
    <3> QED BY <1>2, <2>1, <2>2, <2>5, <3>1 DEF PartOfTheWay
  <2> QED BY <1>2, <1>3, <2>6 DEF IteratorInv
<1>4. CASE at = "iterate" /\ ~AllConvertible
  <2>1. ~AllConvertible'
    BY <1>2, <1>4 DEF AllConvertible
  <2> QED BY <1>2, <1>4, <2>1 DEF IteratorInv
<1>5. CASE at = "iterate_other"
  BY <1>2, <1>5 DEF IteratorInv
<1> QED BY <1>2, <1>3, <1>4, <1>5

LEMMA GetNextFailsStep ==
  ASSUME IteratorInv, Iterator!get_next_fails
  PROVE  IteratorInv'
<1>1. /\ at \in {"iterate", "iterate_other"} /\ remaining_to_iterate # <<>>
      /\ Find(remaining_to_iterate, "#") = 0
      /\ at' = IF at = "iterate" THEN "iterate_failed" ELSE "iterate_other_failed"
      /\ vector_a' = vector_a /\ vector_b' = vector_b
  BY SameOperators DEF Iterator!get_next_fails, Iterator!Iterating, Iterator!has_next
<1>2. ASSUME at = "iterate", AllConvertible PROVE FALSE
  <2>0. PICK w : \E n \in 0..Len(vector_a) :
          Remainders(Text, w, Pieces(vector_a), Len(vector_a)) /\ remaining_to_iterate = w[n]
    BY <1>2 DEF IteratorInv, PartOfTheWay
  <2>1. PICK n \in 0..Len(vector_a) :
          Remainders(Text, w, Pieces(vector_a), Len(vector_a)) /\ remaining_to_iterate = w[n]
    BY <2>0
  <2>2. /\ n + 1 \in 1..Len(vector_a)
        /\ IsSplit(Text, "#", represent(vector_a[n + 1]), w[n + 1], w[n])
    BY <1>1, <1>2, <2>1, NextPiece DEF IteratorInv
  <2>3. Len(represent(vector_a[n + 1])) \in Nat
    <3>1. vector_a[n + 1] \in Stringables
      BY <2>2, ElementOfSeq DEF IteratorInv
    <3> QED BY <3>1, StringOfObject, LenProperties
  <2>4. Len(represent(vector_a[n + 1])) + 1 = 0
    BY <1>1, <2>1, <2>2 DEF IsSplit
  <2> QED BY <2>3, <2>4
<1>3. AllConvertible' <=> AllConvertible
  BY <1>1 DEF AllConvertible
<1> QED BY <1>1, <1>2, <1>3 DEF IteratorInv

LEMMA FinishStep ==
  ASSUME IteratorInv, Iterator!Finish
  PROVE  IteratorInv'
<1>1. /\ at \in {"iterate", "iterate_other"} /\ remaining_to_iterate = <<>> /\ at' = "compare"
      /\ UNCHANGED <<vector_a, remaining_to_iterate, vector_b>>
  BY DEF Iterator!Finish, Iterator!Iterating, Iterator!has_next
<1>2. ASSUME at = "iterate", AllConvertible PROVE Returned(Len(vector_a))
  <2>0. PICK w : \E n \in 0..Len(vector_a) :
          Remainders(Text, w, Pieces(vector_a), Len(vector_a)) /\ w[n] = <<>> /\ Returned(n)
    BY <1>1, <1>2 DEF IteratorInv, PartOfTheWay
  <2>1. PICK n \in 0..Len(vector_a) :
          Remainders(Text, w, Pieces(vector_a), Len(vector_a)) /\ w[n] = <<>> /\ Returned(n)
    BY <2>0
  <2>2. n = Len(vector_a)
    BY <1>2, <2>1, NextPiece DEF IteratorInv
  <2> QED BY <2>1, <2>2
<1>3. AllConvertible' <=> AllConvertible
  BY <1>1 DEF AllConvertible
<1>4. \A n : Returned(n)' <=> Returned(n)
  BY <1>1 DEF Returned
<1> QED BY <1>1, <1>2, <1>3, <1>4 DEF IteratorInv

LEMMA IteratorStaysStep ==
  ASSUME IteratorInv, UNCHANGED iterator
  PROVE  IteratorInv'
BY DEF iterator, IteratorInv, AllConvertible, PartOfTheWay, Returned

LEMMA IteratorInvariant == Spec => []IteratorInv
<1>1. Init => IteratorInv
  BY EmptySeq DEF Init, Iterator!Init, IteratorInv
<1>2. ASSUME IteratorInv, [Next]_vars PROVE IteratorInv'
  <2>1. UNCHANGED iterator \/ Iterator!Next
    BY <1>2 DEF Next, vars
  <2> QED
    BY <1>2, <2>1, IteratorStaysStep, PushStep, IterateStep, IterateOtherStep, GetNextStep,
       GetNextFailsStep, FinishStep DEF Iterator!Next
<1>3. IteratorInv /\ [Next]_vars => IteratorInv'
  BY <1>2
<1> QED BY <1>1, <1>3, PTL DEF Spec

(* A vector of any length comes back from its string, each object in its   *)
(* place, if no string has a separator of the level above in it            *)
(* (obj_str_iterator.cpp:15-20, 144-151).                                  *)
THEOREM VectorAlwaysComesBack == Spec => []VectorComesBack
<1>1. ASSUME IteratorInv PROVE VectorComesBack
  <2>1. SUFFICES ASSUME AllConvertible
                 PROVE  /\ at # "iterate_failed"
                        /\ at = "compare" /\ vector_a # <<>> =>
                             /\ Len(vector_b) = Len(vector_a)
                             /\ \A k \in 1..Len(vector_a) :
                                  Iterator!read_back(vector_b[k], vector_a[k]) = vector_a[k]
    BY SameConvertible DEF VectorComesBack, Iterator!VectorComesBack, AllConvertible
  <2>2. ASSUME at = "compare", vector_a # <<>>
        PROVE  /\ Len(vector_b) = Len(vector_a)
               /\ \A k \in 1..Len(vector_a) :
                    Iterator!read_back(vector_b[k], vector_a[k]) = vector_a[k]
    <3>1. Returned(Len(vector_a))
      BY <1>1, <2>1, <2>2 DEF IteratorInv
    <3>2. ASSUME NEW k \in 1..Len(vector_a)
          PROVE  Iterator!read_back(vector_b[k], vector_a[k]) = vector_a[k]
      <4>1. PICK e \in Stringables : e = vector_a[k] /\ Convertible(e)
        BY <1>1, <2>1, <3>2, ElementOfSeq DEF IteratorInv, AllConvertible
      <4>2. vector_b[k] = represent(e)
        BY <3>1, <4>1 DEF Returned
      <4>3. CASE e \in Addresses
        <5>1. e \notin StringWrappers
          BY <4>3, NoWrapper
        <5>2. Free(e.ip, FIELD_SEP) /\ Free(e.port, FIELD_SEP)
          BY <4>1, <5>1 DEF Convertible
        <5>3. from_string(as_string(e)) = e
          BY <4>3, <5>2, RoundTrip, ConstantsAssumption
        <5> QED
          BY <4>1, <4>2, <5>1, <5>3, SameOperators, SameConvertible
          DEF Iterator!read_back, represent
      <4>4. CASE e \in StringWrappers
        <5>1. e = [original_string |-> e.original_string]
          BY <4>4 DEF StringWrappers
        <5> QED
          BY <4>1, <4>2, <4>4, <5>1, SameConvertible DEF Iterator!read_back, represent
      <4> QED BY <4>3, <4>4 DEF Stringables
    <3> QED BY <3>1, <3>2 DEF Returned
  <2>3. at # "iterate_failed"
    BY <1>1, <2>1 DEF IteratorInv
  <2> QED BY <2>2, <2>3
<1> QED BY <1>1, IteratorInvariant, PTL

(* The order decides between any two addresses of a vector                 *)
(* (socket_address.cpp:84-134).                                            *)
THEOREM OrderIsDecided == Spec => []OrderDecides
<1>1. OrderDecides
  BY ConstantsAssumption, OrderAlwaysDecides, SameOperators, SameDecided
  DEF OrderDecides, Iterator!OrderDecides
<1> QED BY <1>1, PTL

-----------------------------------------------------------------------------
(* The test of SocketAgent *)

(* Where a thread of send_receive can be, once it has arrived at a barrier *)
(* or is through it.                                                       *)
ThroughTwo == {"close", "ended"}
ArrivedTwo == {"wait_2"} \cup ThroughTwo
ThroughOne == {"spawn", "accept", "receive", "join", "arrive_2"} \cup ArrivedTwo
ArrivedOne == {"wait_1"} \cup ThroughOne
Places     == {"open", "arrive_1"} \cup ArrivedOne

At(f, places) == {i \in Servers : f[i] \in places}

N == Cardinality(Servers)

Senders == {p \in Servers \X Servers : p[1] # p[2]}

AgentTypes ==
  /\ coordinate_main \in Nat /\ coordinate_threads \in Nat
  /\ main \in {"acquire_1", "give_1", "acquire_2", "give_2", "join", "ended"}
  /\ server \in [Servers -> Places]
  /\ sender \in [Senders -> {"none", "connect", "send", "ended"}]
  /\ listening \subseteq Servers /\ backlog \subseteq Senders
  /\ received \in [Servers -> Nat]
  /\ success \in [Servers -> BOOLEAN]
  /\ DOMAIN other_descriptor = Servers

(* The units that main has acquired and given. *)
Acquired ==
  IF main = "acquire_1" THEN 0 ELSE IF main \in {"give_1", "acquire_2"} THEN N ELSE 2 * N

Given ==
  IF main \in {"acquire_1", "give_1"} THEN 0
  ELSE IF main \in {"acquire_2", "give_2"} THEN N ELSE 2 * N

(* The units of both barriers are counted together, as in the semaphores. *)
UnitsCounted ==
  /\ coordinate_main + Acquired
       = Cardinality(At(server, ArrivedOne)) + Cardinality(At(server, ArrivedTwo))
  /\ coordinate_threads
       + (Cardinality(At(server, ThroughOne)) + Cardinality(At(server, ThroughTwo))) = Given

MainPhases ==
  /\ main # "acquire_1" => At(server, ArrivedOne) = Servers
  /\ main \in {"give_2", "join", "ended"} => At(server, ArrivedTwo) = Servers

(* The threads whose connection to i has been made, and has not been       *)
(* accepted.                                                               *)
Connected(f, i) == {j \in Servers \ {i} : f[<<j, i>>] \in {"send", "ended"}}
Pending(b, i)   == {j \in Servers : <<j, i>> \in b}
InHand(f, i)    == IF f[i] = "receive" THEN 1 ELSE 0

(* A connection is pending, in hand or received. *)
ConnectionsCounted ==
  \A i \in Servers :
    Cardinality(Connected(sender, i))
      = (Cardinality(Pending(backlog, i)) + received[i]) + InHand(server, i)

(* What the threads have done by the time they are where they are. *)
Done ==
  /\ \A p \in Senders : sender[p] # "none" => server[p[1]] \in ThroughOne \ {"spawn"}
  /\ \A p \in backlog : sender[p] \in {"send", "ended"}
  /\ \A i \in Servers : server[i] \notin {"open", "ended"} => i \in listening
  /\ \A i \in Servers : server[i] \in {"join", "arrive_2"} \cup ArrivedTwo => received[i] = N - 1
  /\ \A p \in Senders : server[p[1]] \in {"arrive_2"} \cup ArrivedTwo => sender[p] = "ended"

(* A thread has accepted a connection to itself, and what it has received  *)
(* so far was meant for it, and is whole if its number is one byte.        *)
Answered ==
  \A i \in Servers :
    /\ server[i] = "receive" => other_descriptor[i] \in Senders /\ other_descriptor[i][2] = i
    /\ server[i] \in ThroughOne \ {"spawn"} /\ i < 10 => success[i]

JoinedAll == main = "ended" => \A i \in Servers : server[i] = "ended"

AgentInv ==
  AgentTypes /\ UnitsCounted /\ MainPhases /\ ConnectionsCounted /\ Done /\ Answered /\ JoinedAll

LEMMA SameCardinality == \A S : Agent!Cardinality(S) = Cardinality(S)
BY DEF Agent!Cardinality, Cardinality

LEMMA SameSenders == Agent!Senders = Senders
BY DEF Agent!Senders, Senders

LEMMA NumberOfServers ==
  /\ N \in Nat /\ N > 1
  /\ \A S \in SUBSET Servers :
       /\ IsFiniteSet(S) /\ Cardinality(S) \in Nat /\ Cardinality(S) <= N
       /\ Cardinality(S) = N => S = Servers
       /\ Cardinality(S) = 0 <=> S = {}
<1>1. IsFiniteSet(Servers) /\ N > 1 /\ N \in Nat
  BY ServersAssumption, FS_CardinalityType DEF ServersAssumption, N
<1>2. ASSUME NEW S \in SUBSET Servers
      PROVE  /\ IsFiniteSet(S) /\ Cardinality(S) \in Nat /\ Cardinality(S) <= N
             /\ Cardinality(S) = N => S = Servers
             /\ Cardinality(S) = 0 <=> S = {}
  BY <1>1, FS_Subset, FS_CardinalityType, FS_EmptySet DEF N
<1> QED BY <1>1, <1>2

LEMMA OneMore ==
  ASSUME NEW S \in SUBSET Servers, NEW i \in Servers
  PROVE  /\ i \notin S => Cardinality(S \cup {i}) = Cardinality(S) + 1
         /\ i \in S => Cardinality(S \ {i}) = Cardinality(S) - 1
BY NumberOfServers, FS_AddElement, FS_RemoveElement

(* How many threads are where. *)
LEMMA HowMany ==
  ASSUME NEW f \in [Servers -> Places]
  PROVE  \A places \in {ThroughTwo, ArrivedTwo, ThroughOne, ArrivedOne} :
           /\ At(f, places) \in SUBSET Servers
           /\ Cardinality(At(f, places)) \in 0..N
           /\ Cardinality(At(f, places)) = N => At(f, places) = Servers
           /\ Cardinality(At(f, places)) = 0 <=> At(f, places) = {}
<1>1. ASSUME NEW places
      PROVE  /\ At(f, places) \in SUBSET Servers
             /\ Cardinality(At(f, places)) \in 0..N
             /\ Cardinality(At(f, places)) = N => At(f, places) = Servers
             /\ Cardinality(At(f, places)) = 0 <=> At(f, places) = {}
  <2>1. At(f, places) \in SUBSET Servers
    BY DEF At
  <2> QED BY <2>1, NumberOfServers
<1> QED BY <1>1

-----------------------------------------------------------------------------
(* What the invariant says of the barriers *)

(* Nobody arrives at the second barrier before everybody is through the    *)
(* first: it has received a message of every other thread.                 *)
LEMMA SecondAfterFirst ==
  ASSUME AgentTypes, ConnectionsCounted, Done, NEW i \in Servers, server[i] \in ArrivedTwo
  PROVE  At(server, ThroughOne) = Servers
<1>1. PICK f, b, r, s : f = sender /\ b = backlog /\ r = received /\ s = server
  OBVIOUS
<1>2. /\ f \in [Senders -> {"none", "connect", "send", "ended"}]
      /\ r[i] = N - 1 /\ s[i] \in ArrivedTwo /\ r \in [Servers -> Nat]
      /\ Cardinality(Connected(f, i)) = (Cardinality(Pending(b, i)) + r[i]) + InHand(s, i)
      /\ \A p \in Senders : f[p] # "none" => s[p[1]] \in ThroughOne
  BY <1>1 DEF AgentTypes, ConnectionsCounted, Done, ArrivedTwo
<1>3. InHand(s, i) = 0
  BY <1>2 DEF InHand, ArrivedTwo, ThroughTwo
<1>4. Cardinality(Pending(b, i)) \in Nat /\ N \in Nat
  <2>1. Pending(b, i) \in SUBSET Servers
    BY DEF Pending
  <2> QED BY <2>1, NumberOfServers
<1>5. Connected(f, i) \in SUBSET (Servers \ {i}) /\ Servers \ {i} \in SUBSET Servers
  BY DEF Connected
<1>6. IsFiniteSet(Servers \ {i}) /\ Cardinality(Servers \ {i}) = N - 1
  BY <1>5, NumberOfServers, OneMore DEF N
<1>7. Connected(f, i) = Servers \ {i}
  <2>1. PICK S : S = Connected(f, i)
    OBVIOUS
  <2>2. Cardinality(S) <= N - 1 /\ (Cardinality(S) = N - 1 => S = Servers \ {i})
    BY <1>5, <1>6, <2>1, FS_Subset
  <2>3. Cardinality(S) \in Nat
    BY <1>5, <2>1, NumberOfServers
  <2>4. Cardinality(S) = (Cardinality(Pending(b, i)) + (N - 1)) + 0
    BY <1>2, <1>3, <2>1
  <2> QED BY <1>4, <2>1, <2>2, <2>3, <2>4
<1>8. ASSUME NEW j \in Servers PROVE s[j] \in ThroughOne
  <2>1. CASE j = i
    BY <1>2, <2>1 DEF ThroughOne
  <2>2. CASE j # i
    <3>1. f[<<j, i>>] \in {"send", "ended"} /\ <<j, i>> \in Senders /\ <<j, i>>[1] = j
      BY <1>7, <2>2 DEF Connected, Senders
    <3> QED BY <1>2, <3>1
  <2> QED BY <2>1, <2>2
<1> QED BY <1>1, <1>8 DEF At

(* ... so a thread through the second barrier has been let through it. *)
LEMMA SecondGiven ==
  ASSUME AgentTypes, ConnectionsCounted, Done, UnitsCounted, MainPhases,
         NEW i \in Servers,
         server[i] \in ThroughTwo \/ (server[i] = "wait_2" /\ coordinate_threads > 0)
  PROVE  main \in {"join", "ended"} /\ At(server, ArrivedTwo) = Servers
<1>1. At(server, ThroughOne) = Servers
  BY SecondAfterFirst DEF ArrivedTwo
<1>2. PICK s : s = server
  OBVIOUS
<1>3. s \in [Servers -> Places] /\ coordinate_threads \in Nat /\ N \in Nat
  BY <1>2, NumberOfServers DEF AgentTypes
<1>4. PICK a, b, c : a = Cardinality(At(s, ThroughOne)) /\ b = Cardinality(At(s, ThroughTwo))
                     /\ c = coordinate_threads
  OBVIOUS
<1>5. a = N /\ b \in Nat /\ c \in Nat /\ c + (a + b) = Given
  BY <1>1, <1>2, <1>3, <1>4, HowMany DEF UnitsCounted, N
<1>6. b # 0 \/ c > 0
  <2>1. CASE s[i] \in ThroughTwo
    <3>1. At(s, ThroughTwo) # {}
      BY <2>1 DEF At
    <3> QED BY <1>3, <1>4, <3>1, HowMany
  <2> QED BY <1>2, <1>4, <2>1
<1>7. Given > N
  BY <1>3, <1>5, <1>6
<1>8. main \in {"join", "ended"}
  BY <1>3, <1>7 DEF Given, AgentTypes
<1> QED BY <1>8 DEF MainPhases

LEMMA FirstGiven ==
  ASSUME AgentTypes, UnitsCounted, MainPhases, NEW i \in Servers,
         server[i] \in ThroughOne \/ coordinate_threads > 0
  PROVE  main \notin {"acquire_1", "give_1"} /\ At(server, ArrivedOne) = Servers
<1>2. PICK s : s = server
  OBVIOUS
<1>3. s \in [Servers -> Places] /\ coordinate_threads \in Nat /\ N \in Nat
  BY <1>2, NumberOfServers DEF AgentTypes
<1>4. PICK a, b, c : a = Cardinality(At(s, ThroughOne)) /\ b = Cardinality(At(s, ThroughTwo))
                     /\ c = coordinate_threads
  OBVIOUS
<1>5. a \in Nat /\ b \in Nat /\ c \in Nat /\ c + (a + b) = Given
  BY <1>2, <1>3, <1>4, HowMany DEF UnitsCounted
<1>6. a # 0 \/ c > 0
  <2>1. CASE s[i] \in ThroughOne
    <3>1. At(s, ThroughOne) # {}
      BY <2>1 DEF At
    <3> QED BY <1>3, <1>4, <3>1, HowMany
  <2> QED BY <1>2, <1>4, <2>1
<1>7. Given # 0
  BY <1>5, <1>6
<1>8. main \notin {"acquire_1", "give_1"}
  BY <1>7 DEF Given
<1> QED BY <1>8 DEF MainPhases

-----------------------------------------------------------------------------
(* The steps *)

Counted == {ThroughTwo, ArrivedTwo, ThroughOne, ArrivedOne}

(* A thread that goes on is counted in its new place only. *)
LEMMA ServerMoves ==
  ASSUME AgentTypes, NEW i \in Servers, NEW from, NEW to \in Places, Agent!Goto(i, from, to)
  PROVE  /\ server[i] = from /\ server'[i] = to /\ from \in Places
         /\ \A j \in Servers : j # i => server'[j] = server[j]
         /\ server' \in [Servers -> Places]
         /\ \A places \in Counted :
              /\ (from \in places <=> to \in places) => At(server', places) = At(server, places)
              /\ (from \notin places /\ to \in places) =>
                   Cardinality(At(server', places)) = Cardinality(At(server, places)) + 1
<1>1. PICK f, g : f = server /\ g = server'
  OBVIOUS
<1>2. f \in [Servers -> Places] /\ f[i] = from /\ g = [f EXCEPT ![i] = to]
  BY <1>1 DEF Agent!Goto, AgentTypes
<1>3. /\ f[i] = from /\ g[i] = to /\ from \in Places
      /\ \A j \in Servers : j # i => g[j] = f[j]
      /\ g \in [Servers -> Places]
  BY <1>2
<1>4. ASSUME NEW places
      PROVE  /\ (from \in places <=> to \in places) => At(g, places) = At(f, places)
             /\ (from \notin places /\ to \in places) =>
                  Cardinality(At(g, places)) = Cardinality(At(f, places)) + 1
  <2>1. CASE from \in places <=> to \in places
    BY <1>2, <2>1 DEF At
  <2>2. CASE from \notin places /\ to \in places
    <3>1. At(g, places) = At(f, places) \cup {i} /\ i \notin At(f, places)
          /\ At(f, places) \in SUBSET Servers
      BY <1>2, <2>2 DEF At
    <3> QED BY <2>2, <3>1, OneMore
  <2> QED BY <2>1, <2>2
<1> QED BY <1>1, <1>3, <1>4

LEMMA BarriersAsBefore ==
  ASSUME UnitsCounted, MainPhases, UNCHANGED <<coordinate_main, coordinate_threads, main>>,
         \A places \in Counted : At(server', places) = At(server, places)
  PROVE  UnitsCounted' /\ MainPhases'
BY DEF UnitsCounted, MainPhases, Acquired, Given, Counted

LEMMA ConnectionsAsBefore ==
  ASSUME ConnectionsCounted, UNCHANGED <<sender, backlog, received>>,
         \A i \in Servers : server'[i] = "receive" <=> server[i] = "receive"
  PROVE  ConnectionsCounted'
BY DEF ConnectionsCounted, Connected, Pending, InHand

LEMMA OpenServerStep ==
  ASSUME AgentInv, NEW i \in Servers, Agent!OpenServer(i)
  PROVE  AgentInv'
<1> USE DEF AgentInv
<1>1. /\ server[i] = "open" /\ server'[i] = "arrive_1"
      /\ \A j \in Servers : j # i => server'[j] = server[j]
      /\ server' \in [Servers -> Places]
      /\ \A places \in Counted : At(server', places) = At(server, places)
  BY ServerMoves
  DEF Agent!OpenServer, Counted, Places, ArrivedOne, ThroughOne, ArrivedTwo, ThroughTwo
<1>2. /\ UNCHANGED <<coordinate_main, coordinate_threads, main, sender, backlog,
                     other_descriptor, received, success>>
      /\ listening' = listening \cup {i}
  BY DEF Agent!OpenServer, Agent!results
<1>3. AgentTypes'
  BY <1>1, <1>2 DEF AgentTypes
<1>4. UnitsCounted' /\ MainPhases'
  BY <1>1, <1>2, BarriersAsBefore
<1>5. ConnectionsCounted'
  BY <1>1, <1>2, ConnectionsAsBefore
<1>6. Done'
  BY <1>1, <1>2 DEF Done, Senders, AgentTypes, ThroughOne, ArrivedTwo, ThroughTwo
<1>7. Answered' /\ JoinedAll'
  BY <1>1, <1>2 DEF Answered, JoinedAll, ThroughOne, ArrivedTwo, ThroughTwo
<1> QED BY <1>3, <1>4, <1>5, <1>6, <1>7

LEMMA ArriveStep ==
  ASSUME AgentInv, NEW i \in Servers, Agent!Arrive(i)
  PROVE  AgentInv'
<1> USE DEF AgentInv
<1>1. PICK from, to :
        /\ Agent!Goto(i, from, to)
        /\ <<from, to>> \in {<<"arrive_1", "wait_1">>, <<"arrive_2", "wait_2">>}
  BY DEF Agent!Arrive
<1>2. /\ to \in Places
      /\ (from = "arrive_1" /\ to = "wait_1") \/ (from = "arrive_2" /\ to = "wait_2")
  BY <1>1 DEF Places, ArrivedOne, ThroughOne, ArrivedTwo
<1>3. /\ server[i] = from /\ server'[i] = to
      /\ \A j \in Servers : j # i => server'[j] = server[j]
      /\ server' \in [Servers -> Places]
      /\ \A places \in Counted :
           /\ (from \in places <=> to \in places) => At(server', places) = At(server, places)
           /\ (from \notin places /\ to \in places) =>
                Cardinality(At(server', places)) = Cardinality(At(server, places)) + 1
  BY <1>1, <1>2, ServerMoves
<1>4. /\ UNCHANGED <<coordinate_threads, main, sender, listening, backlog,
                     other_descriptor, received, success>>
      /\ coordinate_main' = coordinate_main + 1
  BY DEF Agent!Arrive, Agent!results, Agent!sockets
<1>5. AgentTypes'
  BY <1>3, <1>4 DEF AgentTypes
<1>6. UnitsCounted' /\ MainPhases'
  <2>1. PICK f, g : f = server /\ g = server'
    OBVIOUS
  <2>2. f \in [Servers -> Places] /\ g \in [Servers -> Places]
    BY <1>3, <2>1 DEF AgentTypes
  <2>3. /\ At(g, ThroughOne) = At(f, ThroughOne) /\ At(g, ThroughTwo) = At(f, ThroughTwo)
        /\ \/ /\ from = "arrive_1" /\ At(g, ArrivedTwo) = At(f, ArrivedTwo)
              /\ Cardinality(At(g, ArrivedOne)) = Cardinality(At(f, ArrivedOne)) + 1
           \/ /\ from = "arrive_2" /\ At(g, ArrivedOne) = At(f, ArrivedOne)
              /\ Cardinality(At(g, ArrivedTwo)) = Cardinality(At(f, ArrivedTwo)) + 1
    <3>1. /\ ThroughOne \in Counted /\ ThroughTwo \in Counted
          /\ ArrivedOne \in Counted /\ ArrivedTwo \in Counted
      BY DEF Counted
    <3>2. /\ from \in ThroughOne <=> to \in ThroughOne
          /\ from \in ThroughTwo <=> to \in ThroughTwo
          /\ \/ /\ from = "arrive_1" /\ from \notin ArrivedOne /\ to \in ArrivedOne
                /\ from \in ArrivedTwo <=> to \in ArrivedTwo
             \/ /\ from = "arrive_2" /\ from \notin ArrivedTwo /\ to \in ArrivedTwo
                /\ from \in ArrivedOne <=> to \in ArrivedOne
      BY <1>2 DEF ArrivedOne, ThroughOne, ArrivedTwo, ThroughTwo
    <3> QED BY <1>3, <2>1, <3>1, <3>2
  <2>4. PICK a, b, c, d :
          /\ a = Cardinality(At(f, ArrivedOne)) /\ b = Cardinality(At(f, ArrivedTwo))
          /\ c = Cardinality(At(g, ArrivedOne)) /\ d = Cardinality(At(g, ArrivedTwo))
    OBVIOUS
  <2>5. a \in Nat /\ b \in Nat /\ c \in Nat /\ d \in Nat /\ c + d = (a + b) + 1
    BY <2>2, <2>3, <2>4, HowMany
  <2>6. Acquired' = Acquired /\ Given' = Given /\ Acquired \in Nat
    BY <1>4, NumberOfServers DEF Acquired, Given
  <2>7. UnitsCounted'
    <3>1. coordinate_main' + Acquired' = c + d
      BY <1>4, <2>1, <2>4, <2>5, <2>6 DEF UnitsCounted, AgentTypes
    <3> QED BY <1>4, <2>1, <2>3, <2>4, <2>6, <3>1 DEF UnitsCounted
  <2>8. MainPhases'
    <3>1. c \in 0..N /\ d \in 0..N /\ a \in 0..N /\ b \in 0..N /\ N \in Nat
      BY <2>2, <2>4, HowMany, NumberOfServers
    <3>2. At(f, ArrivedOne) = Servers => At(g, ArrivedOne) = Servers
      <4>1. SUFFICES ASSUME At(f, ArrivedOne) = Servers PROVE At(g, ArrivedOne) = At(f, ArrivedOne)
        OBVIOUS
      <4>2. i \in At(f, ArrivedOne)
        BY <4>1
      <4> QED BY <1>3, <2>1, <2>3, <4>2 DEF At, ArrivedOne, ThroughOne, ArrivedTwo, ThroughTwo
    <3>3. At(f, ArrivedTwo) # Servers
      <4>1. i \notin At(f, ArrivedTwo)
        BY <1>2, <1>3, <2>1 DEF At, ArrivedTwo, ThroughTwo
      <4> QED BY <4>1
    <3> QED BY <1>4, <2>1, <3>2, <3>3 DEF MainPhases
  <2> QED BY <2>7, <2>8
<1>7. ConnectionsCounted'
  BY <1>2, <1>3, <1>4, ConnectionsAsBefore
<1>8. Done'
  BY <1>2, <1>3, <1>4 DEF Done, Senders, AgentTypes, ThroughOne, ArrivedTwo, ThroughTwo
<1>9. Answered' /\ JoinedAll'
  BY <1>2, <1>3, <1>4 DEF Answered, JoinedAll, ThroughOne, ArrivedTwo, ThroughTwo
<1> QED BY <1>5, <1>6, <1>7, <1>8, <1>9

LEMMA WaitStep ==
  ASSUME AgentInv, NEW i \in Servers, Agent!Wait(i)
  PROVE  AgentInv'
<1> USE DEF AgentInv
<1>1. PICK from, to :
        /\ Agent!Goto(i, from, to)
        /\ <<from, to>> \in {<<"wait_1", "spawn">>, <<"wait_2", "close">>}
  BY DEF Agent!Wait
<1>2. to \in Places /\ ((from = "wait_1" /\ to = "spawn") \/ (from = "wait_2" /\ to = "close"))
  BY <1>1 DEF Places, ArrivedOne, ThroughOne, ArrivedTwo, ThroughTwo
<1>3. /\ server[i] = from /\ server'[i] = to
      /\ \A j \in Servers : j # i => server'[j] = server[j]
      /\ server' \in [Servers -> Places]
      /\ \A places \in Counted :
           /\ (from \in places <=> to \in places) => At(server', places) = At(server, places)
           /\ (from \notin places /\ to \in places) =>
                Cardinality(At(server', places)) = Cardinality(At(server, places)) + 1
  BY <1>1, <1>2, ServerMoves
<1>4. /\ UNCHANGED <<coordinate_main, main, sender, listening, backlog,
                     other_descriptor, received, success>>
      /\ coordinate_threads > 0 /\ coordinate_threads' = coordinate_threads - 1
  BY DEF Agent!Wait, Agent!results, Agent!sockets
<1>5. AgentTypes'
  BY <1>3, <1>4 DEF AgentTypes
<1>6. UnitsCounted' /\ MainPhases'
  <2>1. PICK f, g : f = server /\ g = server'
    OBVIOUS
  <2>2. f \in [Servers -> Places] /\ g \in [Servers -> Places]
    BY <1>3, <2>1 DEF AgentTypes
  <2>3. /\ At(g, ArrivedOne) = At(f, ArrivedOne) /\ At(g, ArrivedTwo) = At(f, ArrivedTwo)
        /\ \/ /\ At(g, ThroughTwo) = At(f, ThroughTwo)
              /\ Cardinality(At(g, ThroughOne)) = Cardinality(At(f, ThroughOne)) + 1
           \/ /\ At(g, ThroughOne) = At(f, ThroughOne)
              /\ Cardinality(At(g, ThroughTwo)) = Cardinality(At(f, ThroughTwo)) + 1
    <3>1. /\ ThroughOne \in Counted /\ ThroughTwo \in Counted
          /\ ArrivedOne \in Counted /\ ArrivedTwo \in Counted
      BY DEF Counted
    <3>2. /\ from \in ArrivedOne <=> to \in ArrivedOne
          /\ from \in ArrivedTwo <=> to \in ArrivedTwo
          /\ \/ /\ from \notin ThroughOne /\ to \in ThroughOne
                /\ from \in ThroughTwo <=> to \in ThroughTwo
             \/ /\ from \notin ThroughTwo /\ to \in ThroughTwo
                /\ from \in ThroughOne <=> to \in ThroughOne
      BY <1>2 DEF ArrivedOne, ThroughOne, ArrivedTwo, ThroughTwo
    <3> QED BY <1>3, <2>1, <3>1, <3>2
  <2>4. PICK a, b, c, d :
          /\ a = Cardinality(At(f, ThroughOne)) /\ b = Cardinality(At(f, ThroughTwo))
          /\ c = Cardinality(At(g, ThroughOne)) /\ d = Cardinality(At(g, ThroughTwo))
    OBVIOUS
  <2>5. a \in Nat /\ b \in Nat /\ c \in Nat /\ d \in Nat /\ c + d = (a + b) + 1
    BY <2>2, <2>3, <2>4, HowMany
  <2>6. Acquired' = Acquired /\ Given' = Given
    BY <1>4 DEF Acquired, Given
  <2>7. coordinate_threads' + (c + d) = Given'
    BY <1>4, <2>1, <2>4, <2>5, <2>6 DEF UnitsCounted, AgentTypes
  <2>8. UnitsCounted'
    BY <1>4, <2>1, <2>3, <2>4, <2>6, <2>7 DEF UnitsCounted
  <2>9. MainPhases'
    BY <1>4, <2>1, <2>3 DEF MainPhases
  <2> QED BY <2>8, <2>9
<1>7. ConnectionsCounted'
  BY <1>2, <1>3, <1>4, ConnectionsAsBefore
<1>8. Done'
  BY <1>2, <1>3, <1>4 DEF Done, Senders, AgentTypes, ThroughOne, ArrivedTwo, ThroughTwo
<1>9. Answered' /\ JoinedAll'
  BY <1>2, <1>3, <1>4 DEF Answered, JoinedAll, ThroughOne, ArrivedTwo, ThroughTwo
<1> QED BY <1>5, <1>6, <1>7, <1>8, <1>9

LEMMA SpawnStep ==
  ASSUME AgentInv, NEW i \in Servers, Agent!Spawn(i)
  PROVE  AgentInv'
<1> USE DEF AgentInv
<1>1. /\ server[i] = "spawn" /\ server'[i] = "accept"
      /\ \A j \in Servers : j # i => server'[j] = server[j]
      /\ server' \in [Servers -> Places]
      /\ \A places \in Counted : At(server', places) = At(server, places)
  BY ServerMoves
  DEF Agent!Spawn, Counted, Places, ArrivedOne, ThroughOne, ArrivedTwo, ThroughTwo
<1>2. /\ UNCHANGED <<coordinate_main, coordinate_threads, main, listening, backlog,
                     other_descriptor, received>>
      /\ sender' = [p \in Senders |-> IF p[1] = i THEN "connect" ELSE sender[p]]
      /\ success' = [success EXCEPT ![i] = TRUE]
  BY SameSenders DEF Agent!Spawn, Agent!sockets
<1>3. AgentTypes'
  BY <1>1, <1>2 DEF AgentTypes
<1>4. UnitsCounted' /\ MainPhases'
  BY <1>1, <1>2, BarriersAsBefore
<1>5. \A p \in Senders : p[1] = i => sender[p] = "none"
  BY <1>1 DEF Done, AgentTypes
<1>6. ConnectionsCounted'
  <2>1. ASSUME NEW k \in Servers
        PROVE  /\ Connected(sender', k) = Connected(sender, k)
               /\ InHand(server', k) = InHand(server, k)
    <3>1. \A j \in Servers \ {k} : <<j, k>> \in Senders /\ <<j, k>>[1] = j
      BY DEF Senders
    <3>2. \A j \in Servers \ {k} :
            sender'[<<j, k>>] \in {"send", "ended"} <=> sender[<<j, k>>] \in {"send", "ended"}
      BY <1>2, <1>5, <3>1
    <3> QED BY <1>1, <3>2 DEF Connected, InHand
  <2> QED BY <1>2, <2>1 DEF ConnectionsCounted
<1>7. Done'
  BY <1>1, <1>2, <1>5 DEF Done, Senders, AgentTypes, ThroughOne, ArrivedTwo, ThroughTwo
<1>8. Answered' /\ JoinedAll'
  BY <1>1, <1>2 DEF Answered, JoinedAll, AgentTypes, ThroughOne, ArrivedTwo, ThroughTwo
<1> QED BY <1>3, <1>4, <1>6, <1>7, <1>8

LEMMA AcceptStep ==
  ASSUME AgentInv, NEW i \in Servers, Agent!Accept(i)
  PROVE  AgentInv'
<1> USE DEF AgentInv
<1>1. /\ server[i] = "accept" /\ server'[i] = "receive"
      /\ \A j \in Servers : j # i => server'[j] = server[j]
      /\ server' \in [Servers -> Places]
      /\ \A places \in Counted : At(server', places) = At(server, places)
  BY ServerMoves
  DEF Agent!Accept, Counted, Places, ArrivedOne, ThroughOne, ArrivedTwo, ThroughTwo
<1>2. UNCHANGED <<coordinate_main, coordinate_threads, main, sender, listening, received, success>>
  BY DEF Agent!Accept, Agent!results
<1>3. PICK p \in backlog : /\ p[2] = i /\ backlog' = backlog \ {p}
                           /\ other_descriptor' = [other_descriptor EXCEPT ![i] = p]
  BY DEF Agent!Accept
<1>4. p \in Senders /\ p[1] \in Servers /\ p = <<p[1], i>>
  BY <1>3 DEF AgentTypes, Senders
<1>5. AgentTypes'
  BY <1>1, <1>2, <1>3 DEF AgentTypes
<1>6. UnitsCounted' /\ MainPhases'
  BY <1>1, <1>2, BarriersAsBefore
<1>7. ConnectionsCounted'
  <2>1. PICK b, c : b = backlog /\ c = backlog'
    OBVIOUS
  <2>2. ASSUME NEW k \in Servers
        PROVE  Cardinality(Connected(sender', k))
                 = (Cardinality(Pending(c, k)) + received'[k]) + InHand(server', k)
    <3>1. CASE k # i
      <4>1. Pending(c, k) = Pending(b, k)
        BY <1>3, <1>4, <2>1, <3>1 DEF Pending
      <4> QED BY <1>1, <1>2, <2>1, <3>1, <4>1 DEF ConnectionsCounted, InHand
    <3>2. CASE k = i
      <4>1. Pending(c, i) = Pending(b, i) \ {p[1]} /\ p[1] \in Pending(b, i)
            /\ Pending(b, i) \in SUBSET Servers
        BY <1>3, <1>4, <2>1 DEF Pending
      <4>2. Cardinality(Pending(c, i)) = Cardinality(Pending(b, i)) - 1
            /\ Cardinality(Pending(b, i)) \in Nat
        BY <4>1, OneMore, NumberOfServers
      <4>3. InHand(server, i) = 0 /\ InHand(server', i) = 1 /\ received[i] \in Nat
        BY <1>1 DEF InHand, AgentTypes
      <4>4. Cardinality(Connected(sender, i)) = (Cardinality(Pending(b, i)) + received[i]) + 0
        BY <2>1, <4>3 DEF ConnectionsCounted
      <4> QED BY <1>2, <3>2, <4>2, <4>3, <4>4
    <3> QED BY <3>1, <3>2
  <2> QED BY <2>1, <2>2 DEF ConnectionsCounted
<1>8. Done'
  BY <1>1, <1>2, <1>3 DEF Done, Senders, AgentTypes, ThroughOne, ArrivedTwo, ThroughTwo
<1>9. Answered' /\ JoinedAll'
  BY <1>1, <1>2, <1>3, <1>4 DEF Answered, JoinedAll, AgentTypes, ThroughOne, ArrivedTwo, ThroughTwo
<1> QED BY <1>5, <1>6, <1>7, <1>8, <1>9

LEMMA ReceiveStep ==
  ASSUME AgentInv, NEW i \in Servers, Agent!Receive(i)
  PROVE  AgentInv'
<1> USE DEF AgentInv
<1>1. PICK to : /\ to = (IF received[i] + 1 = N - 1 THEN "join" ELSE "accept")
                /\ Agent!Goto(i, "receive", to)
  BY SameCardinality DEF Agent!Receive, Agent!num_threads, N
<1>2. to \in {"join", "accept"}
  BY <1>1
<1>3. /\ server[i] = "receive" /\ server'[i] = to
      /\ \A j \in Servers : j # i => server'[j] = server[j]
      /\ server' \in [Servers -> Places]
      /\ \A places \in Counted : At(server', places) = At(server, places)
  BY <1>1, <1>2, ServerMoves DEF Counted, Places, ArrivedOne, ThroughOne, ArrivedTwo, ThroughTwo
<1>4. /\ UNCHANGED <<coordinate_main, coordinate_threads, main, sender, listening, backlog,
                     other_descriptor>>
      /\ received' = [received EXCEPT ![i] = @ + 1]
  BY DEF Agent!Receive, Agent!sockets
<1>5. other_descriptor[i][2] = i
  BY <1>3 DEF Answered
<1>6. PICK whole \in BOOLEAN :
        /\ i < 10 => whole
        /\ success' = [success EXCEPT ![i] = @ /\ whole /\ i = i]
  BY <1>5 DEF Agent!Receive, Agent!message_to_send, Agent!OneByte
<1>7. success' = [success EXCEPT ![i] = @ /\ whole]
  BY <1>6
<1>8. AgentTypes'
  <2>1. success' \in [Servers -> BOOLEAN]
    BY <1>7 DEF AgentTypes
  <2>2. received' \in [Servers -> Nat]
    BY <1>4 DEF AgentTypes
  <2> QED BY <1>3, <1>4, <2>1, <2>2, Zenon DEF AgentTypes
<1>9. UnitsCounted' /\ MainPhases'
  BY <1>3, <1>4, BarriersAsBefore
<1>10. ConnectionsCounted'
  <2>1. ASSUME NEW k \in Servers
        PROVE  Cardinality(Connected(sender, k))
                 = (Cardinality(Pending(backlog, k)) + received'[k]) + InHand(server', k)
    <3>1. CASE k # i
      BY <1>3, <1>4, <3>1 DEF ConnectionsCounted, InHand
    <3>2. CASE k = i
      <4>1. received[i] \in Nat /\ received'[i] = received[i] + 1
        BY <1>4 DEF AgentTypes
      <4>2. InHand(server, i) = 1 /\ InHand(server', i) = 0
        BY <1>2, <1>3 DEF InHand
      <4>3. Pending(backlog, i) \in SUBSET Servers
        BY DEF Pending
      <4>4. Cardinality(Pending(backlog, i)) \in Nat
        BY <4>3, NumberOfServers
      <4>5. Cardinality(Connected(sender, i)) = (Cardinality(Pending(backlog, i)) + received[i]) + 1
        BY <4>2 DEF ConnectionsCounted
      <4> QED BY <3>2, <4>1, <4>2, <4>4, <4>5
    <3> QED BY <3>1, <3>2
  <2> QED BY <1>4, <2>1 DEF ConnectionsCounted
<1>11. Done'
  <2>1. to = "join" => received'[i] = N - 1
    BY <1>1, <1>4 DEF AgentTypes
  <2> QED
    BY <1>2, <1>3, <1>4, <2>1 DEF Done, Senders, AgentTypes, ThroughOne, ArrivedTwo, ThroughTwo
<1>12. \A j \in Servers :
         server'[j] \in ThroughOne \ {"spawn"} /\ j < 10 => success'[j]
  <2>1. server[i] \in ThroughOne \ {"spawn"}
    BY <1>3 DEF ThroughOne
  <2>2. i < 10 => success'[i]
    BY <1>6, <1>7, <2>1 DEF Answered, AgentTypes
  <2>3. \A j \in Servers : j # i => success'[j] = success[j]
    BY <1>7 DEF AgentTypes
  <2> QED BY <1>3, <2>2, <2>3 DEF Answered
<1>13. Answered' /\ JoinedAll'
  BY <1>2, <1>3, <1>4, <1>12 DEF Answered, JoinedAll
<1> QED BY <1>8, <1>9, <1>10, <1>11, <1>13

LEMMA JoinSendersStep ==
  ASSUME AgentInv, NEW i \in Servers, Agent!JoinSenders(i)
  PROVE  AgentInv'
<1> USE DEF AgentInv
<1>1. /\ server[i] = "join" /\ server'[i] = "arrive_2"
      /\ \A j \in Servers : j # i => server'[j] = server[j]
      /\ server' \in [Servers -> Places]
      /\ \A places \in Counted : At(server', places) = At(server, places)
  BY ServerMoves
  DEF Agent!JoinSenders, Counted, Places, ArrivedOne, ThroughOne, ArrivedTwo, ThroughTwo
<1>2. /\ UNCHANGED <<coordinate_main, coordinate_threads, main, sender, listening, backlog,
                     other_descriptor, received, success>>
      /\ \A p \in Senders : p[1] = i => sender[p] = "ended"
  BY SameSenders DEF Agent!JoinSenders, Agent!sockets, Agent!results
<1>3. AgentTypes'
  BY <1>1, <1>2 DEF AgentTypes
<1>4. UnitsCounted' /\ MainPhases'
  BY <1>1, <1>2, BarriersAsBefore
<1>5. ConnectionsCounted'
  BY <1>1, <1>2, ConnectionsAsBefore
<1>6. Done'
  BY <1>1, <1>2 DEF Done, Senders, AgentTypes, ThroughOne, ArrivedTwo, ThroughTwo
<1>7. Answered' /\ JoinedAll'
  BY <1>1, <1>2 DEF Answered, JoinedAll, ThroughOne, ArrivedTwo, ThroughTwo
<1> QED BY <1>3, <1>4, <1>5, <1>6, <1>7

LEMMA CloseServerStep ==
  ASSUME AgentInv, NEW i \in Servers, Agent!CloseServer(i)
  PROVE  AgentInv'
<1> USE DEF AgentInv
<1>1. /\ server[i] = "close" /\ server'[i] = "ended"
      /\ \A j \in Servers : j # i => server'[j] = server[j]
      /\ server' \in [Servers -> Places]
      /\ \A places \in Counted : At(server', places) = At(server, places)
  BY ServerMoves
  DEF Agent!CloseServer, Counted, Places, ArrivedOne, ThroughOne, ArrivedTwo, ThroughTwo
<1>2. /\ UNCHANGED <<coordinate_main, coordinate_threads, main, sender, backlog,
                     other_descriptor, received, success>>
      /\ listening' = listening \ {i}
  BY DEF Agent!CloseServer, Agent!results
<1>3. AgentTypes'
  BY <1>1, <1>2 DEF AgentTypes
<1>4. UnitsCounted' /\ MainPhases'
  BY <1>1, <1>2, BarriersAsBefore
<1>5. ConnectionsCounted'
  BY <1>1, <1>2, ConnectionsAsBefore
<1>6. Done'
  BY <1>1, <1>2 DEF Done, Senders, AgentTypes, ThroughOne, ArrivedTwo, ThroughTwo
<1>7. Answered' /\ JoinedAll'
  BY <1>1, <1>2 DEF Answered, JoinedAll, ThroughOne, ArrivedTwo, ThroughTwo
<1> QED BY <1>3, <1>4, <1>5, <1>6, <1>7

LEMMA ConnectStep ==
  ASSUME AgentInv, NEW p \in Senders, Agent!Connect(p)
  PROVE  AgentInv'
<1> USE DEF AgentInv
<1>1. /\ sender[p] = "connect" /\ sender' = [sender EXCEPT ![p] = "send"]
      /\ backlog' = backlog \cup {p}
      /\ UNCHANGED <<coordinate_main, coordinate_threads, main, server, listening,
                     other_descriptor, received, success>>
  BY DEF Agent!Connect, Agent!SenderGoto, Agent!results
<1>2. PICK j \in Servers, i \in Servers : p = <<j, i>> /\ j # i /\ p[1] = j /\ p[2] = i
  BY DEF Senders
<1>3. AgentTypes'
  BY <1>1 DEF AgentTypes
<1>4. UnitsCounted' /\ MainPhases'
  BY <1>1, BarriersAsBefore
<1>5. ConnectionsCounted'
  <2>1. PICK f, g, b, c : f = sender /\ g = sender' /\ b = backlog /\ c = backlog'
    OBVIOUS
  <2>2. /\ f \in [Senders -> {"none", "connect", "send", "ended"}] /\ f[p] = "connect"
        /\ g = [f EXCEPT ![p] = "send"] /\ c = b \cup {p} /\ p \notin b
    BY <1>1, <2>1 DEF AgentTypes, Done
  <2>3. ASSUME NEW k \in Servers
        PROVE  Cardinality(Connected(g, k))
                 = (Cardinality(Pending(c, k)) + received[k]) + InHand(server, k)
    <3>1. CASE k # i
      <4>1. Pending(c, k) = Pending(b, k)
        BY <1>2, <2>2, <3>1 DEF Pending
      <4>2. \A l \in Servers \ {k} : <<l, k>> \in Senders /\ <<l, k>> # p
        BY <1>2, <3>1 DEF Senders
      <4>3. Connected(g, k) = Connected(f, k)
        BY <2>2, <4>2 DEF Connected
      <4> QED BY <2>1, <4>1, <4>3 DEF ConnectionsCounted
    <3>2. CASE k = i
      <4>1. Pending(c, i) = Pending(b, i) \cup {j} /\ j \notin Pending(b, i)
            /\ Pending(b, i) \in SUBSET Servers
        BY <1>2, <2>2 DEF Pending
      <4>2. Connected(g, i) = Connected(f, i) \cup {j} /\ j \notin Connected(f, i)
            /\ Connected(f, i) \in SUBSET Servers
        <5>1. \A l \in Servers \ {i} : <<l, i>> \in Senders /\ (<<l, i>> = p <=> l = j)
          BY <1>2 DEF Senders
        <5>2. \A l \in Servers \ {i} : g[<<l, i>>] = IF l = j THEN "send" ELSE f[<<l, i>>]
          BY <2>2, <5>1
        <5>3. f[<<j, i>>] = "connect" /\ j \in Servers \ {i}
          BY <1>2, <2>2
        <5> QED BY <5>2, <5>3 DEF Connected
      <4>3. /\ Cardinality(Pending(c, i)) = Cardinality(Pending(b, i)) + 1
            /\ Cardinality(Connected(g, i)) = Cardinality(Connected(f, i)) + 1
            /\ Cardinality(Pending(b, i)) \in Nat /\ received[i] \in Nat
            /\ InHand(server, i) \in Nat
        BY <4>1, <4>2, OneMore, NumberOfServers DEF AgentTypes, InHand
      <4>4. Cardinality(Connected(f, i))
              = (Cardinality(Pending(b, i)) + received[i]) + InHand(server, i)
        BY <2>1 DEF ConnectionsCounted
      <4> QED BY <3>2, <4>3, <4>4
    <3> QED BY <3>1, <3>2
  <2> QED BY <1>1, <2>1, <2>3 DEF ConnectionsCounted
<1>6. Done'
  BY <1>1 DEF Done, Senders, AgentTypes, ThroughOne, ArrivedTwo, ThroughTwo
<1>7. Answered' /\ JoinedAll'
  BY <1>1 DEF Answered, JoinedAll
<1> QED BY <1>3, <1>4, <1>5, <1>6, <1>7

LEMMA SendAndCloseStep ==
  ASSUME AgentInv, NEW p \in Senders, Agent!SendAndClose(p)
  PROVE  AgentInv'
<1> USE DEF AgentInv
<1>1. /\ sender[p] = "send" /\ sender' = [sender EXCEPT ![p] = "ended"]
      /\ UNCHANGED <<coordinate_main, coordinate_threads, main, server, listening, backlog,
                     other_descriptor, received, success>>
  BY DEF Agent!SendAndClose, Agent!SenderGoto, Agent!results, Agent!sockets
<1>2. AgentTypes'
  BY <1>1 DEF AgentTypes
<1>3. UnitsCounted' /\ MainPhases'
  BY <1>1, BarriersAsBefore
<1>4. ConnectionsCounted'
  <2>1. ASSUME NEW k \in Servers PROVE Connected(sender', k) = Connected(sender, k)
    <3>1. \A j \in Servers \ {k} : <<j, k>> \in Senders
      BY DEF Senders
    <3> QED BY <1>1, <3>1 DEF Connected, AgentTypes
  <2> QED BY <1>1, <2>1 DEF ConnectionsCounted
<1>5. Done'
  BY <1>1 DEF Done, Senders, AgentTypes, ThroughOne, ArrivedTwo, ThroughTwo
<1>6. Answered' /\ JoinedAll'
  BY <1>1 DEF Answered, JoinedAll
<1> QED BY <1>2, <1>3, <1>4, <1>5, <1>6

(* main goes on only when everybody has arrived. *)
LEMMA MainAcquireStep ==
  ASSUME AgentInv, Agent!MainAcquire
  PROVE  AgentInv'
<1> USE DEF AgentInv
<1>1. /\ \/ main = "acquire_1" /\ main' = "give_1"
         \/ main = "acquire_2" /\ main' = "give_2"
      /\ coordinate_main >= N /\ coordinate_main' = coordinate_main - N
      /\ UNCHANGED <<coordinate_threads, server, sender, listening, backlog,
                     other_descriptor, received, success>>
  BY SameCardinality DEF Agent!MainAcquire, Agent!MainGoto, Agent!num_threads, N,
     Agent!results, Agent!sockets
<1>2. N \in Nat
  BY NumberOfServers
<1>3. AgentTypes'
  BY <1>1, <1>2 DEF AgentTypes
<1>4. PICK s : s = server /\ s \in [Servers -> Places]
  BY DEF AgentTypes
<1>5. PICK a, b, c, d : /\ a = Cardinality(At(s, ArrivedOne)) /\ b = Cardinality(At(s, ArrivedTwo))
                        /\ c = Cardinality(At(s, ThroughOne)) /\ d = Cardinality(At(s, ThroughTwo))
  OBVIOUS
<1>6. a \in 0..N /\ b \in 0..N /\ c \in 0..N /\ d \in 0..N
  BY <1>4, <1>5, HowMany
<1>7. coordinate_main + Acquired = a + b /\ coordinate_threads + (c + d) = Given
  BY <1>4, <1>5 DEF UnitsCounted
<1>8. UnitsCounted'
  <2>1. Acquired' = Acquired + N /\ Acquired \in Nat /\ Given' = Given
    BY <1>1, <1>2 DEF Acquired, Given
  <2>2. coordinate_main' + Acquired' = a + b
    BY <1>1, <1>2, <1>6, <1>7, <2>1 DEF AgentTypes
  <2> QED BY <1>1, <1>4, <1>5, <1>7, <2>1, <2>2 DEF UnitsCounted
<1>9. MainPhases'
  <2>1. CASE main = "acquire_1"
    <3>1. Given = 0 /\ Acquired = 0
      BY <2>1 DEF Given, Acquired
    <3>2. c = 0
      BY <1>6, <1>7, <3>1 DEF AgentTypes
    <3>3. At(s, ThroughOne) = {}
      BY <1>4, <1>5, <3>2, HowMany
    <3>4. At(s, ArrivedTwo) = {}
      BY <3>3 DEF At, ThroughOne
    <3>5. b = 0
      BY <1>4, <1>5, <3>4, HowMany
    <3>6. a = N
      BY <1>1, <1>2, <1>6, <1>7, <3>1, <3>5 DEF AgentTypes
    <3>7. At(s, ArrivedOne) = Servers
      BY <1>4, <1>5, <3>6, HowMany
    <3> QED BY <1>1, <1>4, <2>1, <3>7 DEF MainPhases
  <2>2. CASE main = "acquire_2"
    <3>1. Acquired = N
      BY <2>2 DEF Acquired
    <3>2. b = N
      BY <1>1, <1>2, <1>6, <1>7, <3>1 DEF AgentTypes
    <3>3. At(s, ArrivedTwo) = Servers
      BY <1>4, <1>5, <3>2, HowMany
    <3> QED BY <1>1, <1>4, <2>2, <3>3 DEF MainPhases
  <2> QED BY <1>1, <2>1, <2>2
<1>10. ConnectionsCounted'
  BY <1>1, ConnectionsAsBefore
<1>11. Done'
  BY <1>1 DEF Done
<1>12. Answered' /\ JoinedAll'
  BY <1>1 DEF Answered, JoinedAll
<1> QED BY <1>3, <1>8, <1>9, <1>10, <1>11, <1>12

LEMMA MainGiveStep ==
  ASSUME AgentInv, Agent!MainGive
  PROVE  AgentInv'
<1> USE DEF AgentInv
<1>1. /\ \/ main = "give_1" /\ main' = "acquire_2"
         \/ main = "give_2" /\ main' = "join"
      /\ coordinate_threads' = coordinate_threads + N
      /\ UNCHANGED <<coordinate_main, server, sender, listening, backlog,
                     other_descriptor, received, success>>
  BY SameCardinality DEF Agent!MainGive, Agent!MainGoto, Agent!num_threads, N,
     Agent!results, Agent!sockets
<1>2. N \in Nat
  BY NumberOfServers
<1>3. AgentTypes'
  BY <1>1, <1>2 DEF AgentTypes
<1>4. UnitsCounted'
  <2>1. Acquired' = Acquired /\ Given' = Given + N
    BY <1>1, <1>2 DEF Acquired, Given
  <2>2. PICK n : n = Cardinality(At(server, ThroughOne)) + Cardinality(At(server, ThroughTwo))
    OBVIOUS
  <2>3. n \in Nat
    <3>1. PICK s : s = server /\ s \in [Servers -> Places]
      BY DEF AgentTypes
    <3> QED BY <2>2, <3>1, HowMany
  <2>4. coordinate_threads' + n = Given'
    BY <1>1, <1>2, <2>1, <2>2, <2>3 DEF UnitsCounted, AgentTypes
  <2> QED BY <1>1, <2>1, <2>2, <2>4 DEF UnitsCounted
<1>5. MainPhases'
  BY <1>1 DEF MainPhases
<1>6. ConnectionsCounted'
  BY <1>1, ConnectionsAsBefore
<1>7. Done'
  BY <1>1 DEF Done
<1>8. Answered' /\ JoinedAll'
  BY <1>1 DEF Answered, JoinedAll
<1> QED BY <1>3, <1>4, <1>5, <1>6, <1>7, <1>8

LEMMA MainJoinStep ==
  ASSUME AgentInv, Agent!MainJoin
  PROVE  AgentInv'
<1> USE DEF AgentInv
<1>1. /\ main = "join" /\ main' = "ended" /\ \A i \in Servers : server[i] = "ended"
      /\ UNCHANGED <<coordinate_main, coordinate_threads, server, sender, listening, backlog,
                     other_descriptor, received, success>>
  BY DEF Agent!MainJoin, Agent!MainGoto, Agent!results, Agent!sockets
<1>2. AgentTypes'
  BY <1>1 DEF AgentTypes
<1>3. UnitsCounted' /\ MainPhases'
  BY <1>1 DEF UnitsCounted, MainPhases, Acquired, Given
<1>4. ConnectionsCounted'
  BY <1>1, ConnectionsAsBefore
<1>5. Done'
  BY <1>1 DEF Done
<1>6. Answered' /\ JoinedAll'
  BY <1>1 DEF Answered, JoinedAll
<1> QED BY <1>2, <1>3, <1>4, <1>5, <1>6

AgentStays == UNCHANGED <<coordinate_main, coordinate_threads, main, server, sender, listening,
                          backlog, other_descriptor, received, success>>

LEMMA AgentStaysStep ==
  ASSUME AgentInv, AgentStays
  PROVE  AgentInv'
BY DEF AgentInv, AgentStays, AgentTypes, UnitsCounted, MainPhases, Acquired, Given,
   ConnectionsCounted, Done, Answered, JoinedAll

LEMMA AgentInit ==
  ASSUME Agent!Init
  PROVE  AgentInv
<1>1. /\ coordinate_main = 0 /\ coordinate_threads = 0 /\ main = "acquire_1"
      /\ server = [i \in Servers |-> "open"]
      /\ sender = [p \in Senders |-> "none"]
      /\ listening = {} /\ backlog = {}
      /\ DOMAIN other_descriptor = Servers
      /\ received = [i \in Servers |-> 0]
      /\ success = [i \in Servers |-> FALSE]
  BY SameSenders DEF Agent!Init, Agent!None
<1>2. AgentTypes
  BY <1>1 DEF AgentTypes, Places
<1>3. UnitsCounted /\ MainPhases
  <2>1. /\ At(server, ArrivedOne) = {} /\ At(server, ArrivedTwo) = {}
        /\ At(server, ThroughOne) = {} /\ At(server, ThroughTwo) = {}
    BY <1>1 DEF At, ArrivedOne, ThroughOne, ArrivedTwo, ThroughTwo
  <2> QED BY <1>1, <2>1, FS_EmptySet DEF UnitsCounted, MainPhases, Acquired, Given
<1>4. ConnectionsCounted
  <2>1. ASSUME NEW i \in Servers
        PROVE Connected(sender, i) = {} /\ Pending(backlog, i) = {} /\ InHand(server, i) = 0
    <3>1. \A j \in Servers \ {i} : <<j, i>> \in Senders
      BY DEF Senders
    <3> QED BY <1>1, <3>1 DEF Connected, Pending, InHand
  <2> QED BY <1>1, <2>1, FS_EmptySet DEF ConnectionsCounted
<1>5. Done
  BY <1>1 DEF Done, Senders, ThroughOne, ArrivedTwo, ThroughTwo
<1>6. Answered /\ JoinedAll
  BY <1>1 DEF Answered, JoinedAll, ThroughOne, ArrivedTwo, ThroughTwo
<1> QED BY <1>2, <1>3, <1>4, <1>5, <1>6 DEF AgentInv

LEMMA AgentInductive ==
  ASSUME AgentInv, [Next]_vars
  PROVE  AgentInv'
<1>1. CASE UNCHANGED agent
  BY <1>1, AgentStaysStep DEF AgentStays, agent
<1>2. CASE Agent!Next
  <2>1. CASE \E i \in Servers :
               \/ Agent!OpenServer(i) \/ Agent!OpenServerFails(i) \/ Agent!Arrive(i)
               \/ Agent!Wait(i) \/ Agent!Spawn(i) \/ Agent!Accept(i) \/ Agent!AcceptFails(i)
               \/ Agent!Receive(i) \/ Agent!JoinSenders(i) \/ Agent!CloseServer(i)
    <3>1. PICK i \in Servers :
               \/ Agent!OpenServer(i) \/ Agent!OpenServerFails(i) \/ Agent!Arrive(i)
               \/ Agent!Wait(i) \/ Agent!Spawn(i) \/ Agent!Accept(i) \/ Agent!AcceptFails(i)
               \/ Agent!Receive(i) \/ Agent!JoinSenders(i) \/ Agent!CloseServer(i)
      BY <2>1
    <3>2. CASE Agent!OpenServerFails(i) \/ Agent!AcceptFails(i)
      BY <3>2, AgentStaysStep
      DEF Agent!OpenServerFails, Agent!AcceptFails, Agent!Exit, Agent!results, Agent!sockets,
          AgentStays
    <3> QED
      BY <3>1, <3>2, OpenServerStep, ArriveStep, WaitStep, SpawnStep, AcceptStep, ReceiveStep,
         JoinSendersStep, CloseServerStep
  <2>2. CASE \E p \in Senders : Agent!Connect(p) \/ Agent!ConnectFails(p) \/ Agent!SendAndClose(p)
    <3>1. PICK p \in Senders : Agent!Connect(p) \/ Agent!ConnectFails(p) \/ Agent!SendAndClose(p)
      BY <2>2
    <3>2. CASE Agent!ConnectFails(p)
      BY <3>2, AgentStaysStep
      DEF Agent!ConnectFails, Agent!Exit, Agent!results, Agent!sockets, AgentStays
    <3> QED BY <3>1, <3>2, ConnectStep, SendAndCloseStep
  <2>3. CASE Agent!MainAcquire \/ Agent!MainGive \/ Agent!MainJoin
    BY <2>3, MainAcquireStep, MainGiveStep, MainJoinStep
  <2> QED BY <1>2, <2>1, <2>2, <2>3, SameSenders DEF Agent!Next
<1>3. UNCHANGED agent \/ Agent!Next
  BY DEF Next, vars
<1> QED BY <1>1, <1>2, <1>3

LEMMA AgentInvariant == Spec => []AgentInv
<1>1. Init => AgentInv
  BY AgentInit DEF Init
<1>2. AgentInv /\ [Next]_vars => AgentInv'
  BY AgentInductive
<1> QED BY <1>1, <1>2, PTL DEF Spec

LEMMA BarriersFollow ==
  ASSUME AgentInv
  PROVE  BarriersHold
<1> USE DEF AgentInv
<1>1. ASSUME NEW i \in Servers, server[i] \in {"close", "ended"}, NEW p \in Senders
      PROVE  sender[p] = "ended" /\ received[p[2]] = N - 1
  <2>1. At(server, ArrivedTwo) = Servers
    BY <1>1, SecondGiven DEF ThroughTwo
  <2>2. p[1] \in Servers /\ p[2] \in Servers
    BY DEF Senders
  <2>3. server[p[1]] \in ArrivedTwo /\ server[p[2]] \in ArrivedTwo
    BY <2>1, <2>2 DEF At
  <2> QED BY <2>2, <2>3 DEF Done
<1>2. ASSUME NEW p \in Senders, sender[p] = "connect"
      PROVE  p[2] \in listening
  <2>1. p[1] \in Servers /\ p[2] \in Servers
    BY DEF Senders
  <2>2. server[p[1]] \in ThroughOne
    BY <1>2 DEF Done
  <2>3. server[p[2]] \in ArrivedOne
    BY <2>1, <2>2, FirstGiven DEF At
  <2>4. server[p[2]] # "open"
    BY <2>3 DEF ArrivedOne, ThroughOne, ArrivedTwo, ThroughTwo
  <2>5. server[p[2]] # "ended"
    BY <1>1, <1>2, <2>1
  <2> QED BY <2>1, <2>4, <2>5 DEF Done
<1> QED
  BY <1>1, <1>2, SameSenders, SameCardinality
  DEF BarriersHold, Agent!BarriersHold, Agent!num_threads, N

(* The two barriers of the test of SocketAgent hold for any number of      *)
(* threads, although they share their semaphores (socket_agent.cpp:        *)
(* 539-540, 562-566).                                                      *)
THEOREM BarriersAlwaysHold == Spec => []BarriersHold
BY AgentInvariant, BarriersFollow, PTL

(* ... and what each thread receives is meant for it:  with a number of one*)
(* digit, which recv cannot split, its check succeeds, however many threads*)
(* there are (461-472).                                                    *)
THEOREM AgentTestPasses == Spec => []Agent!Passed
<1>1. AgentInv => Agent!Passed
  BY DEF AgentInv, Agent!Passed, Agent!OneByte, JoinedAll, Answered, ThroughOne, ArrivedTwo, ThroughTwo
<1> QED BY <1>1, AgentInvariant, PTL

-----------------------------------------------------------------------------
(* The test of ObjectPool *)

(* What is proved of the pool holds of the one the test uses. *)
Objects == INSTANCE ObjectPoolProofs WITH
  Adders     <- {Main},
  Checkers   <- UNION {Checks[r] : r \in 1..3},
  Waiters    <- (UNION {Waits[r] : r \in 1..3}) \cup Unknown,
  MaxObjects <- num_ones + num_twos

Round(r) == Waits[r] \cup Checks[r]

Callers == Round(1) \cup Round(2) \cup Round(3) \cup Unknown

LEMMA Rounds ==
  /\ num_ones \in Nat /\ num_twos \in Nat
  /\ IsFiniteSet(Callers) /\ Main \notin Callers
  /\ IsFiniteSet(Round(1)) /\ Cardinality(Round(1)) = num_ones
  /\ IsFiniteSet(Round(2)) /\ Cardinality(Round(2)) = num_twos
  /\ Round(1) \cap Round(2) = {}
  /\ Round(1) \cap Round(3) = {}
  /\ Round(2) \cap Round(3) = {}
<1>1. 1 \in 1..3 /\ 2 \in 1..3 /\ 3 \in 1..3 /\ 1 # 2 /\ 1 # 3 /\ 2 # 3
  OBVIOUS
<1>2. /\ num_ones \in Nat /\ num_twos \in Nat
      /\ IsFiniteSet(Unknown) /\ Main \notin Unknown
      /\ \A r \in 1..3 : IsFiniteSet(Round(r)) /\ Main \notin Round(r)
      /\ \A r, s \in 1..3 : r # s => Round(r) \cap Round(s) = {}
      /\ Cardinality(Round(1)) = num_ones
      /\ Cardinality(Round(2)) = num_twos
  BY RoundsAssumption DEF Round
<1>3. IsFiniteSet(Callers)
  <2>1. IsFiniteSet(Round(1) \cup Round(2))
    BY <1>1, <1>2, FS_Union
  <2>2. IsFiniteSet(Round(1) \cup Round(2) \cup Round(3))
    BY <1>1, <1>2, <2>1, FS_Union
  <2> QED BY <1>2, <2>2, FS_Union DEF Callers
<1>4. Main \notin Callers
  BY <1>1, <1>2 DEF Callers
<1> QED BY <1>1, <1>2, <1>3, <1>4, Zenon

LEMMA BothRounds ==
  /\ IsFiniteSet(Round(1) \cup Round(2))
  /\ Cardinality(Round(1) \cup Round(2)) = num_ones + num_twos
<1>1. PICK R, S : R = Round(1) /\ S = Round(2)
  OBVIOUS
<1>2. /\ IsFiniteSet(R) /\ Cardinality(R) = num_ones /\ num_ones \in Nat
      /\ IsFiniteSet(S) /\ Cardinality(S) = num_twos /\ num_twos \in Nat
      /\ R \cap S = {}
  BY <1>1, Rounds
<1>3. Cardinality(R \cap S) = 0
  BY <1>2, FS_EmptySet
<1>4. /\ IsFiniteSet(R \cup S)
      /\ Cardinality(R \cup S) = Cardinality(R) + Cardinality(S) - Cardinality(R \cap S)
  BY <1>2, FS_Union
<1>5. Cardinality(R \cup S) = num_ones + num_twos
  BY <1>2, <1>3, <1>4
<1> QED BY <1>1, <1>4, <1>5

LEMMA ThreadsOfPool == Objects!Threads = Callers \cup {Main}
<1>1. 1..3 = {1, 2, 3}
  OBVIOUS
<1>2. UNION {Checks[r] : r \in 1..3} = Checks[1] \cup Checks[2] \cup Checks[3]
  BY <1>1
<1>3. UNION {Waits[r] : r \in 1..3} = Waits[1] \cup Waits[2] \cup Waits[3]
  BY <1>1
<1> QED BY <1>2, <1>3 DEF Objects!Threads, Callers, Round

LEMMA PoolIsFinite == Objects!PoolAssumption
<1>1. IsFiniteSet(Objects!Threads)
  BY Rounds, ThreadsOfPool, FS_AddElement
<1>2. num_ones + num_twos \in Nat
  BY Rounds
<1> QED BY <1>1, <1>2 DEF Objects!PoolAssumption, Objects!IsFiniteSet, IsFiniteSet

LEMMA SamePool ==
  /\ Pool!Pool!Threads = Objects!Threads
  /\ Pool!Pool!Init <=> Objects!Init
  /\ \A t : /\ Pool!Pool!AddObject(t) <=> Objects!AddObject(t)
            /\ Pool!Pool!WaitForObject(t) <=> Objects!WaitForObject(t)
            /\ Pool!Pool!CheckForObject(t) <=> Objects!CheckForObject(t)
            /\ Pool!Pool!Progress(t) <=> Objects!Progress(t)
  /\ Pool!Pool!Garbage = 0
<1>1. Pool!Pool!Threads = Objects!Threads
  BY DEF Pool!Pool!Threads, Objects!Threads
<1>2. /\ Pool!Pool!InAvailability = Objects!InAvailability
      /\ Pool!Pool!InAccess = Objects!InAccess
      /\ Pool!Pool!InAvailability' = Objects!InAvailability'
      /\ Pool!Pool!InAccess' = Objects!InAccess'
  BY <1>1 DEF Pool!Pool!InAvailability, Objects!InAvailability, Pool!Pool!InAccess, Objects!InAccess
<1>3. Pool!Pool!Init <=> Objects!Init
  BY <1>1, <1>2 DEF Pool!Pool!Init, Objects!Init, Pool!Pool!Avail!Init, Objects!Avail!Init, Pool!Pool!Access!Init, Objects!Access!Init, Pool!Pool!Garbage, Objects!Garbage
<1>4. \A t : /\ (Pool!Pool!Avail!AcquireAtOnce(t) <=> Objects!Avail!AcquireAtOnce(t))
             /\ (Pool!Pool!Avail!AcquireLater(t) <=> Objects!Avail!AcquireLater(t))
             /\ (Pool!Pool!Avail!Return(t) <=> Objects!Avail!Return(t))
  BY <1>2 DEF Pool!Pool!Avail!AcquireAtOnce, Objects!Avail!AcquireAtOnce, Pool!Pool!Avail!AcquireLater, Objects!Avail!AcquireLater, Pool!Pool!Avail!Return, Objects!Avail!Return, Pool!Pool!Avail!Members, Objects!Avail!Members
<1>5. \A t : /\ (Pool!Pool!Access!AcquireAtOnce(t) <=> Objects!Access!AcquireAtOnce(t))
             /\ (Pool!Pool!Access!AcquireLater(t) <=> Objects!Access!AcquireLater(t))
             /\ (Pool!Pool!Access!Return(t) <=> Objects!Access!Return(t))
  BY <1>2 DEF Pool!Pool!Access!AcquireAtOnce, Objects!Access!AcquireAtOnce, Pool!Pool!Access!AcquireLater, Objects!Access!AcquireLater, Pool!Pool!Access!Return, Objects!Access!Return, Pool!Pool!Access!Members, Objects!Access!Members
<1>6. (Pool!Pool!Avail!Give <=> Objects!Avail!Give) /\ (Pool!Pool!Access!Give <=> Objects!Access!Give)
  BY <1>2 DEF Pool!Pool!Avail!Give, Objects!Avail!Give, Pool!Pool!Avail!AddUnit, Objects!Avail!AddUnit, Pool!Pool!Avail!Release, Objects!Avail!Release, Pool!Pool!Access!Give, Objects!Access!Give, Pool!Pool!Access!AddUnit, Objects!Access!AddUnit, Pool!Pool!Access!Release, Objects!Access!Release
<1>7. \A t, a, b, c : /\ (Pool!Pool!AcquireAvailability(t, a, b, c) <=> Objects!AcquireAvailability(t, a, b, c))
                      /\ (Pool!Pool!AcquireAccess(t, a, b, c) <=> Objects!AcquireAccess(t, a, b, c))
  BY <1>4, <1>5 DEF Pool!Pool!AcquireAvailability, Objects!AcquireAvailability, Pool!Pool!AcquireAccess, Objects!AcquireAccess, Pool!Pool!Goto, Objects!Goto, Pool!Pool!availability, Objects!availability, Pool!Pool!access, Objects!access, Pool!Pool!data, Objects!data
<1>8. \A t : (Pool!Pool!AddObject(t) <=> Objects!AddObject(t)) /\ (Pool!Pool!CheckForObject(t) <=> Objects!CheckForObject(t)) /\ (Pool!Pool!WaitForObject(t) <=> Objects!WaitForObject(t))
  BY <1>1, <1>7 DEF Pool!Pool!AddObject, Objects!AddObject, Pool!Pool!CheckForObject, Objects!CheckForObject, Pool!Pool!WaitForObject, Objects!WaitForObject, Pool!Pool!Adding, Objects!Adding, Pool!Pool!Cardinality, Objects!Cardinality
<1>9. \A t : (Pool!Pool!ResumeAvailability(t) <=> Objects!ResumeAvailability(t)) /\ (Pool!Pool!ResumeAccess(t) <=> Objects!ResumeAccess(t))
  BY <1>2, <1>4, <1>5 DEF Pool!Pool!ResumeAvailability, Objects!ResumeAvailability, Pool!Pool!ResumeAccess, Objects!ResumeAccess, Pool!Pool!AfterAcquire, Objects!AfterAcquire, Pool!Pool!Goto, Objects!Goto, Pool!Pool!availability, Objects!availability, Pool!Pool!access, Objects!access, Pool!Pool!data, Objects!data
<1>10. \A t : (Pool!Pool!AddEnqueue(t) <=> Objects!AddEnqueue(t)) /\ (Pool!Pool!AddGiveAvailability(t) <=> Objects!AddGiveAvailability(t)) /\ (Pool!Pool!AddGiveList(t) <=> Objects!AddGiveList(t))
  BY <1>6 DEF Pool!Pool!AddEnqueue, Objects!AddEnqueue, Pool!Pool!AddGiveAvailability, Objects!AddGiveAvailability, Pool!Pool!AddGiveList, Objects!AddGiveList, Pool!Pool!GiveAccess, Objects!GiveAccess, Pool!Pool!Goto, Objects!Goto, Pool!Pool!availability, Objects!availability, Pool!Pool!access, Objects!access, Pool!Pool!data, Objects!data
<1>11. \A t : (Pool!Pool!CheckEmpty(t) <=> Objects!CheckEmpty(t)) /\ (Pool!Pool!CheckNonempty(t) <=> Objects!CheckNonempty(t)) /\ (Pool!Pool!CheckAcquire(t) <=> Objects!CheckAcquire(t))
              /\ (Pool!Pool!CheckGiveList(t) <=> Objects!CheckGiveList(t))
  BY <1>6, <1>7 DEF Pool!Pool!CheckEmpty, Objects!CheckEmpty, Pool!Pool!CheckNonempty, Objects!CheckNonempty, Pool!Pool!CheckAcquire, Objects!CheckAcquire, Pool!Pool!CheckGiveList, Objects!CheckGiveList, Pool!Pool!GiveAccess, Objects!GiveAccess, Pool!Pool!Goto, Objects!Goto, Pool!Pool!availability, Objects!availability, Pool!Pool!access, Objects!access, Pool!Pool!data, Objects!data
<1>12. \A t : (Pool!Pool!CheckFront(t) <=> Objects!CheckFront(t)) /\ (Pool!Pool!CheckPop(t) <=> Objects!CheckPop(t)) /\ (Pool!Pool!WaitFront(t) <=> Objects!WaitFront(t)) /\ (Pool!Pool!WaitPop(t) <=> Objects!WaitPop(t))
  BY DEF Pool!Pool!CheckFront, Objects!CheckFront, Pool!Pool!CheckPop, Objects!CheckPop, Pool!Pool!WaitFront, Objects!WaitFront, Pool!Pool!WaitPop, Objects!WaitPop, Pool!Pool!Front, Objects!Front, Pool!Pool!Pop, Objects!Pop, Pool!Pool!FrontOf, Objects!FrontOf, Pool!Pool!RestOf, Objects!RestOf, Pool!Pool!Garbage, Objects!Garbage, Pool!Pool!Goto, Objects!Goto, Pool!Pool!availability, Objects!availability, Pool!Pool!access, Objects!access, Pool!Pool!data, Objects!data
<1>13. \A t : (Pool!Pool!WaitAcquireList(t) <=> Objects!WaitAcquireList(t)) /\ (Pool!Pool!WaitGiveList(t) <=> Objects!WaitGiveList(t))
  BY <1>6, <1>7 DEF Pool!Pool!WaitAcquireList, Objects!WaitAcquireList, Pool!Pool!WaitGiveList, Objects!WaitGiveList, Pool!Pool!GiveAccess, Objects!GiveAccess, Pool!Pool!Goto, Objects!Goto, Pool!Pool!availability, Objects!availability, Pool!Pool!access, Objects!access, Pool!Pool!data, Objects!data
<1>14. \A t : (Pool!Pool!Progress(t) <=> Objects!Progress(t))
  BY <1>9, <1>10, <1>11, <1>12, <1>13 DEF Pool!Pool!Progress, Objects!Progress
<1>15. Pool!Pool!Garbage = 0
  BY DEF Pool!Pool!Garbage
<1> QED BY <1>1, <1>3, <1>8, <1>14, <1>15

-----------------------------------------------------------------------------

(* The program's threads move the pool as its specification says. *)
LEMMA PoolSteps ==
  ASSUME Pool!Next
  PROVE  Objects!Next \/ UNCHANGED Objects!vars
<1> USE DEF pool, Pool!vars, Pool!pool, Pool!test, Objects!vars, Objects!data,
            Objects!availability, Objects!access
<1>1. ASSUME NEW t \in Pool!Pool!Threads, Pool!Start(t) PROVE Objects!Next
  <2>1. t \in Objects!Threads
    BY <1>1, SamePool
  <2>2. Objects!WaitForObject(t) \/ Objects!CheckForObject(t)
    BY <1>1, SamePool DEF Pool!Start
  <2> QED BY <2>1, <2>2 DEF Objects!Next
<1>2. ASSUME NEW t \in Pool!Pool!Threads, Pool!PoolStep(t) PROVE Objects!Next
  BY <1>2, SamePool DEF Pool!PoolStep, Objects!Next
<1>3. ASSUME NEW t \in Pool!Pool!Threads, Pool!StoreValue(t) \/ Pool!MarkCompleted(t)
      PROVE  UNCHANGED Objects!vars
  BY <1>3 DEF Pool!StoreValue, Pool!MarkCompleted
<1>4. ASSUME Pool!MainAdd PROVE Objects!Next
  BY <1>4, SamePool, ThreadsOfPool DEF Pool!MainAdd, Objects!Next
<1>5. ASSUME NEW from, NEW to, Pool!MainGoto(from, to) PROVE UNCHANGED Objects!vars
  BY <1>5 DEF Pool!MainGoto
<1>6. ASSUME \/ Pool!MainAdded \/ Pool!JoinRound \/ Pool!JoinUnknown
             \/ Pool!MainAcquire(num_ones, "wait_ones", "check_ones")
             \/ Pool!MainAcquire(num_twos, "wait_twos", "check_twos")
             \/ Pool!CheckValues("check_ones", "twos") \/ Pool!CheckValues("check_twos", "join")
      PROVE  UNCHANGED Objects!vars
  <2>1. \E from, to : Pool!MainGoto(from, to)
    BY <1>6, Zenon DEF Pool!MainAdded, Pool!JoinRound, Pool!JoinUnknown, Pool!MainAcquire,
                Pool!CheckValues
  <2> QED BY <1>5, <2>1
<1> QED BY <1>1, <1>2, <1>3, <1>4, <1>6 DEF Pool!Next

LEMMA PoolFollows == Spec => Objects!Spec
<1>1. Init => Objects!Init
  BY SamePool DEF Init, Pool!Init
<1>2. [Next]_vars => [Objects!Next]_Objects!vars
  <2>1. ASSUME UNCHANGED pool PROVE UNCHANGED Objects!vars
    BY <2>1 DEF pool, Objects!vars, Objects!data, Objects!availability, Objects!access
  <2>2. ASSUME Next PROVE Pool!Next \/ UNCHANGED pool
    BY <2>2 DEF Next
  <2>3. ASSUME UNCHANGED vars PROVE UNCHANGED pool
    BY <2>3 DEF vars
  <2> QED BY <2>1, <2>2, <2>3, PoolSteps
<1> QED BY <1>1, <1>2, PTL DEF Spec, Objects!Spec

LEMMA PoolInvariant == Spec => []Objects!IInv
BY PoolIsFinite, Objects!Invariance, PoolFollows, PTL

-----------------------------------------------------------------------------

OnTheWay == {"check_list_blocked", "check_size", "check_availability",
             "check_availability_blocked", "check_front", "wait_availability_blocked",
             "wait_list", "wait_list_blocked", "wait_front"}
Popping  == {"check_pop", "wait_pop"}
Leaving  == {"check_give_list", "wait_give_list"}
Enqueuing == {"add_list_blocked", "add_enqueue"}
AddPlaces == Enqueuing \cup {"add_give_availability", "add_give_list"}

(* What a thread does to the pool, seen from the test: it moves on, *)
Moves(t, from, to) ==
  /\ pc[t] \in from /\ pc' = [pc EXCEPT ![t] = pc'[t]] /\ pc'[t] \in to

(* finds the pool empty, adds an object, reads the first, or takes it. *)
SeesNothing(t) ==
  /\ Moves(t, {"check_size"}, {"check_give_list"})
  /\ object_list = <<>>

Adds(t) ==
  /\ Moves(t, {"add_enqueue"}, {"add_give_availability"})
  /\ enqueued' = enqueued + 1

Reads(t) ==
  /\ Moves(t, OnTheWay, Popping)
  /\ retrieved' = [retrieved EXCEPT ![t] = Head(object_list)]
  /\ Head(object_list) # 0

Takes(t) ==
  /\ Moves(t, Popping, Leaving)
  /\ delivered' = Append(delivered, retrieved[t])
  /\ retrieved[t] = Len(delivered) + 1

Walks(t) ==
  \/ Moves(t, OnTheWay, OnTheWay)
  \/ Moves(t, {"add_list_blocked"}, {"add_enqueue"})
  \/ Moves(t, AddPlaces \ Enqueuing, (AddPlaces \ Enqueuing) \cup {"idle"})
  \/ Moves(t, Leaving, {"idle"})

(* The objects in the deque are those after the delivered ones. *)
LEMMA InOrder ==
  ASSUME Objects!IInv
  PROVE  /\ Len(delivered) \in Nat /\ Len(delivered) + Len(object_list) = enqueued
         /\ enqueued \in Nat
         /\ object_list # <<>> => Head(object_list) = Len(delivered) + 1
         /\ object_list = <<>> => Len(delivered) = enqueued
<1>1. /\ enqueued \in Nat /\ object_list \in Seq(1..enqueued) /\ delivered \in Seq(1..enqueued)
      /\ delivered \o object_list = [i \in 1..enqueued |-> i]
  BY DEF Objects!IInv, Objects!TypeOK, Objects!DeliveredOnceInOrder
<1>2. /\ Len(delivered) \in Nat /\ Len(object_list) \in Nat
      /\ Len(delivered \o object_list) = Len(delivered) + Len(object_list)
      /\ \A i \in 1..Len(object_list) :
           (delivered \o object_list)[Len(delivered) + i] = object_list[i]
  <2>1. PICK S, d, l : S = 1..enqueued /\ d = delivered /\ l = object_list
    OBVIOUS
  <2>2. d \in Seq(S) /\ l \in Seq(S)
    BY <1>1, <2>1
  <2>3. /\ Len(d) \in Nat /\ Len(l) \in Nat /\ Len(d \o l) = Len(d) + Len(l)
        /\ \A i \in 1..Len(l) : (d \o l)[Len(d) + i] = l[i]
    BY <2>2
  <2> QED BY <2>1, <2>3
<1>3. Len(delivered) + Len(object_list) = enqueued
  <2>1. PICK s : s = [i \in 1..enqueued |-> i]
    OBVIOUS
  <2>2. s \in Seq(Nat) /\ Len(s) = enqueued
    BY <1>1, <2>1
  <2> QED BY <1>1, <1>2, <2>1, <2>2
<1>4. ASSUME object_list # <<>> PROVE Head(object_list) = Len(delivered) + 1
  <2>1. 1 \in 1..Len(object_list) /\ Head(object_list) = object_list[1]
    BY <1>1, <1>2, <1>4, EmptySeq
  <2>2. Len(delivered) + 1 \in 1..enqueued
    BY <1>2, <1>3, <2>1
  <2> QED BY <1>1, <1>2, <2>1, <2>2
<1> QED BY <1>1, <1>2, <1>3, <1>4

LEMMA StepsOfPool ==
  ASSUME Objects!IInv, NEW t \in Objects!Threads, Objects!Progress(t)
  PROVE  /\ \/ Walks(t) \/ SeesNothing(t) \/ Adds(t) \/ Reads(t) \/ Takes(t)
         /\ ~Adds(t) => enqueued' = enqueued
         /\ ~Reads(t) => retrieved' = retrieved
         /\ ~Takes(t) => delivered' = delivered
<1> USE DEF Objects!Goto, Objects!data, Moves
<1>1. pc \in [Objects!Threads -> Objects!Labels]
  BY DEF Objects!IInv, Objects!TypeOK
<1>2. CASE Objects!ResumeAvailability(t) \/ Objects!ResumeAccess(t)
  <2>1. pc[t] \in {"check_availability_blocked", "wait_availability_blocked",
                   "add_list_blocked", "check_list_blocked", "wait_list_blocked"}
    BY <1>2 DEF Objects!ResumeAvailability, Objects!ResumeAccess, Objects!InAvailability,
                Objects!InAccess
  <2>2. /\ pc' = [pc EXCEPT ![t] = Objects!AfterAcquire[pc[t]]]
        /\ UNCHANGED Objects!data
    BY <1>2 DEF Objects!ResumeAvailability, Objects!ResumeAccess
  <2>3. Walks(t)
    BY <1>1, <2>1, <2>2 DEF Walks, Objects!AfterAcquire, OnTheWay
  <2> QED BY <2>2, <2>3
<1>3. CASE \/ Objects!AddGiveAvailability(t) \/ Objects!AddGiveList(t)
           \/ Objects!CheckGiveList(t) \/ Objects!WaitGiveList(t)
  <2>1. Walks(t) /\ UNCHANGED Objects!data
    BY <1>1, <1>3 DEF Objects!AddGiveAvailability, Objects!AddGiveList, Objects!CheckGiveList,
         Objects!WaitGiveList, Objects!GiveAccess, Walks, AddPlaces, Enqueuing, Leaving
  <2> QED BY <2>1
<1>4. CASE \/ Objects!CheckNonempty(t) \/ Objects!CheckAcquire(t)
           \/ Objects!WaitAcquireList(t)
  <2>1. Walks(t) /\ UNCHANGED Objects!data
    BY <1>1, <1>4 DEF Objects!CheckNonempty, Objects!CheckAcquire, Objects!WaitAcquireList,
         Objects!AcquireAvailability, Objects!AcquireAccess, Walks, OnTheWay
  <2> QED BY <2>1
<1>5. CASE Objects!CheckEmpty(t)
  <2>1. SeesNothing(t) /\ UNCHANGED Objects!data
    BY <1>1, <1>5 DEF Objects!CheckEmpty, SeesNothing
  <2> QED BY <2>1
<1>6. CASE Objects!AddEnqueue(t)
  <2>1. Adds(t) /\ UNCHANGED <<retrieved, delivered>>
    BY <1>1, <1>6 DEF Objects!AddEnqueue, Adds
  <2> QED BY <2>1
<1>7. ASSUME pc[t] \in {"check_front", "check_pop", "wait_front", "wait_pop"}
      PROVE  object_list # <<>>
  BY <1>7, PoolIsFinite, Objects!NeverEmpty DEF Objects!NeverPopsEmpty, Objects!At
<1>8. CASE Objects!CheckFront(t) \/ Objects!WaitFront(t)
  <2>1. /\ Moves(t, OnTheWay, Popping) /\ object_list # <<>>
        /\ retrieved' = [retrieved EXCEPT ![t] = Objects!FrontOf(object_list)]
        /\ UNCHANGED <<enqueued, delivered>>
    BY <1>1, <1>7, <1>8 DEF Objects!CheckFront, Objects!WaitFront, Objects!Front, OnTheWay, Popping
  <2>2. /\ Objects!FrontOf(object_list) = Head(object_list)
        /\ Head(object_list) # 0
    BY <2>1, InOrder DEF Objects!FrontOf
  <2> QED BY <2>1, <2>2 DEF Reads
<1>9. CASE Objects!CheckPop(t) \/ Objects!WaitPop(t)
  <2>1. /\ Moves(t, Popping, Leaving) /\ object_list # <<>>
        /\ delivered' = Append(delivered, retrieved[t])
        /\ UNCHANGED <<enqueued, retrieved>>
    BY <1>1, <1>7, <1>9 DEF Objects!CheckPop, Objects!WaitPop, Objects!Pop, Popping, Leaving
  <2>2. retrieved[t] = Head(object_list)
    BY <2>1 DEF Objects!IInv, Objects!RetrievedIsFirst, Popping
  <2> QED BY <2>1, <2>2, InOrder DEF Takes
<1> QED BY <1>2, <1>3, <1>4, <1>5, <1>6, <1>8, <1>9 DEF Objects!Progress

-----------------------------------------------------------------------------

(* The threads that have taken an object from the pool. *)
Takers == {t \in Callers : retrieved[t] # 0 /\ pc[t] \notin Popping}

(* Where threads are, and when they have an object. *)
CallsMade ==
  /\ value_found \in [Unknown -> {0, 1, 2}]
  /\ started \subseteq Callers
  /\ pc[Main] \in {"idle"} \cup AddPlaces
  /\ \A t \in Callers : /\ pc[t] \notin AddPlaces
                        /\ pc[t] \in OnTheWay => retrieved[t] = 0
                        /\ t \notin started => pc[t] = "idle" /\ retrieved[t] = 0

(* Each object that has been delivered has gone to one thread. *)
TakenOnce ==
  /\ \A t \in Takers : retrieved[t] \in 1..Len(delivered)
  /\ \A k \in 1..Len(delivered) : \E t \in Takers : retrieved[t] = k
  /\ \A t, u \in Takers : retrieved[t] = retrieved[u] => t = u

ToCome == IF pc[Main] \in Enqueuing THEN 1 ELSE 0

(* The objects that main has added by now. *)
ObjectsAdded ==
  /\ stage = "ones" => enqueued + ToCome <= num_ones
  /\ stage = "twos" => enqueued + ToCome <= num_ones + num_twos
  /\ stage \notin {"ones", "twos"} =>
       /\ pc[Main] = "idle"
       /\ enqueued = IF stage \in {"wait_ones", "check_ones"} THEN num_ones
                                                              ELSE num_ones + num_twos

(* Part 1: every thread of a round takes an object before the next round   *)
(* begins, those of the first round the ones.                              *)
InRounds ==
  part = 1 =>
    /\ stage \in {"ones", "twos", "round_1", "round_2", "round_3", "ended"}
    /\ stage \in {"ones", "twos"} => started = {}
    /\ stage = "round_1" => started \subseteq Round(1)
    /\ stage = "round_2" => started \subseteq Round(1) \cup Round(2)
    /\ stage \in {"round_2", "round_3", "ended"} => Round(1) \subseteq Takers
    /\ stage \in {"round_3", "ended"} => Round(2) \subseteq Takers
    /\ stage = "round_2" =>
         \A k \in 1..num_ones : \E t \in Round(1) : retrieved[t] = k
    /\ \A t \in started \cap (Round(1) \cup Round(2)) :
         pc[t] \in {"idle"} \cup Leaving => retrieved[t] # 0

Told ==
  CASE stage \in {"ones", "wait_ones"} -> 0
    [] stage \in {"check_ones", "twos", "wait_twos"} -> num_ones
    [] OTHER -> num_ones + num_twos

(* Part 2: a thread stores the value of its object before it says that it  *)
(* is done, and main has been told as often as threads have.               *)
InHalves ==
  /\ part = 1 \/ part = 2
  /\ \A t \in Unknown :
       value_found[t] # 0 =>
         /\ t \in started /\ pc[t] = "idle" /\ retrieved[t] # 0
         /\ value_found[t] = Pool!Value(retrieved[t])
  /\ part = 2 =>
       /\ stage \in {"ones", "wait_ones", "check_ones", "twos", "wait_twos", "check_twos",
                     "join", "ended"}
       /\ completed \subseteq {t \in Unknown : value_found[t] # 0}
       /\ threads_completed \in Nat
       /\ Cardinality(completed) = threads_completed + Told

PoolTestInv == CallsMade /\ TakenOnce /\ ObjectsAdded /\ InRounds /\ InHalves

LEMMA ValueIs ==
  /\ Pool!Value(0) = 0
  /\ \A k \in Nat \ {0} : Pool!Value(k) = IF k <= num_ones THEN 1 ELSE 2
BY Rounds, SamePool DEF Pool!Value, Pool!Nothing

LEMMA PoolTypes ==
  ASSUME Objects!IInv
  PROVE  /\ pc \in [Callers \cup {Main} -> Objects!Labels]
         /\ retrieved \in [Callers \cup {Main} -> 0..enqueued]
         /\ enqueued \in Nat /\ Len(delivered) \in Nat /\ Len(delivered) <= enqueued
         /\ Main \notin Callers
BY ThreadsOfPool, Rounds, InOrder DEF Objects!IInv, Objects!TypeOK

(* Of objects that go to one thread each, the first j have gone to j. *)
LEMMA CountTaken ==
  ASSUME NEW S, NEW f, NEW m \in Nat,
         \A t \in S : f[t] \in 1..m,
         \A k \in 1..m : \E t \in S : f[t] = k,
         \A t, u \in S : f[t] = f[u] => t = u,
         NEW j \in 0..m
  PROVE  /\ IsFiniteSet({t \in S : f[t] <= j})
         /\ Cardinality({t \in S : f[t] <= j}) = j
<1> DEFINE T == {t \in S : f[t] <= j}
           g == [k \in 1..j |-> CHOOSE t \in S : f[t] = k]
<1>1. ASSUME NEW k \in 1..j PROVE g[k] \in T /\ f[g[k]] = k
  <2>1. k \in 1..m
    OBVIOUS
  <2>2. PICK t \in S : f[t] = k
    BY <2>1
  <2>3. g[k] \in S /\ f[g[k]] = k
    BY <2>2
  <2> QED BY <2>3
<1>2. ASSUME NEW t \in T PROVE f[t] \in 1..j /\ g[f[t]] = t
  <2>1. f[t] \in 1..j
    OBVIOUS
  <2> QED BY <1>1, <2>1
<1>3. g \in Bijection(1..j, T)
  <2>1. g \in [1..j -> T]
    BY <1>1
  <2> HIDE DEF g, T
  <2>2. \A a, b \in 1..j : g[a] = g[b] => a = b
    BY <1>1
  <2>3. \A t \in T : \E k \in 1..j : g[k] = t
    BY <1>2
  <2> QED BY <2>1, <2>2, <2>3, Fun_IsBij
<1>4. IsFiniteSet(1..j) /\ Cardinality(1..j) = j
  BY FS_Interval
<1>5. ExistsBijection(1..j, T)
  BY <1>3 DEF ExistsBijection
<1> HIDE DEF T
<1>6. IsFiniteSet(T) /\ Cardinality(T) = j
  BY <1>4, <1>5, FS_Bijection
<1> QED BY <1>6 DEF T

LEMMA TakersCounted ==
  ASSUME Objects!IInv, TakenOnce
  PROVE  /\ IsFiniteSet(Takers) /\ Cardinality(Takers) = Len(delivered)
         /\ \A j \in 0..Len(delivered) : Cardinality({t \in Takers : retrieved[t] <= j}) = j
<1>1. PICK S, f, m : S = Takers /\ f = retrieved /\ m = Len(delivered)
  OBVIOUS
<1>2. /\ m \in Nat
      /\ \A t \in S : f[t] \in 1..m
      /\ \A k \in 1..m : \E t \in S : f[t] = k
      /\ \A t, u \in S : f[t] = f[u] => t = u
  BY <1>1, PoolTypes DEF TakenOnce
<1>3. \A j \in 0..m : Cardinality({t \in S : f[t] <= j}) = j
                      /\ IsFiniteSet({t \in S : f[t] <= j})
  BY <1>2, CountTaken
<1>4. {t \in S : f[t] <= m} = S /\ m \in 0..m
  BY <1>2
<1>5. IsFiniteSet(S) /\ Cardinality(S) = m
  BY <1>3, <1>4
<1> QED BY <1>1, <1>3, <1>5

-----------------------------------------------------------------------------

LEMMA PoolTestInit == Init => PoolTestInv
<1> SUFFICES ASSUME Init PROVE PoolTestInv
  OBVIOUS
<1>1. /\ part \in {1, 2} /\ stage = "ones" /\ started = {} /\ completed = {}
      /\ value_found = [t \in Unknown |-> 0] /\ threads_completed = 0
      /\ Objects!Init
  BY SamePool DEF Init, Pool!Init, Pool!Nothing
<1>2. /\ pc = [t \in Objects!Threads |-> "idle"] /\ enqueued = 0 /\ delivered = <<>>
      /\ retrieved = [t \in Objects!Threads |-> 0]
  BY <1>1 DEF Objects!Init, Objects!Garbage
<1>3. Objects!Threads = Callers \cup {Main} /\ Unknown \subseteq Callers
  BY ThreadsOfPool DEF Callers
<1>4. CallsMade
  BY <1>1, <1>2, <1>3 DEF CallsMade, AddPlaces, Enqueuing, OnTheWay
<1>5. Takers = {} /\ Len(delivered) = 0
  BY <1>2, <1>3 DEF Takers
<1>6. TakenOnce
  BY <1>5 DEF TakenOnce
<1>7. ObjectsAdded
  BY <1>1, <1>2, <1>3, Rounds DEF ObjectsAdded, ToCome, Enqueuing
<1>8. InRounds
  BY <1>1 DEF InRounds
<1>9. InHalves
  BY <1>1, FS_EmptySet DEF InHalves, Told
<1> QED BY <1>4, <1>6, <1>7, <1>8, <1>9 DEF PoolTestInv

LEMMA PlacesDiffer ==
  /\ "idle" \notin OnTheWay \cup AddPlaces \cup Popping \cup Leaving
  /\ \A x \in OnTheWay : x \notin AddPlaces \cup Popping \cup Leaving
  /\ \A x \in Popping : x \notin AddPlaces \cup Leaving
  /\ \A x \in Leaving : x \notin AddPlaces
BY DEF OnTheWay, AddPlaces, Enqueuing, Popping, Leaving

LEMMA AreCallers ==
  Round(1) \subseteq Callers /\ Round(2) \subseteq Callers /\ Unknown \subseteq Callers
BY DEF Callers

(* Steps of threads that are inside a call leave alone what is stored; *)
LEMMA HalvesStay ==
  ASSUME InHalves, UNCHANGED <<part, stage, value_found, threads_completed, completed>>,
         started \subseteq started',
         \A u \in Callers : u \in started /\ pc[u] = "idle" =>
                              pc'[u] = "idle" /\ retrieved'[u] = retrieved[u]
  PROVE  InHalves'
<1>1. Told' = Told
  BY DEF Told
<1>2. ASSUME NEW u \in Unknown, value_found'[u] # 0
      PROVE  /\ u \in started' /\ pc'[u] = "idle" /\ retrieved'[u] # 0
             /\ value_found'[u] = Pool!Value(retrieved'[u])
  <2>1. u \in Callers
    BY AreCallers
  <2>2. /\ u \in started /\ pc[u] = "idle" /\ retrieved[u] # 0
        /\ value_found[u] = Pool!Value(retrieved[u])
    BY <1>2 DEF InHalves
  <2>3. retrieved'[u] = retrieved[u]
    BY <2>1, <2>2
  <2> QED BY <2>1, <2>2, <2>3
<1>3. part' = part /\ stage' = stage /\ value_found' = value_found
      /\ threads_completed' = threads_completed /\ completed' = completed
  OBVIOUS
<1> QED BY <1>1, <1>2, <1>3, Zenon DEF InHalves

(* and those of rounds that are over. *)
LEMMA RoundsStay ==
  ASSUME InRounds, UNCHANGED <<part, stage, started>>,
         \A u \in Takers : u \in Takers' /\ retrieved'[u] = retrieved[u],
         \A u \in started \cap (Round(1) \cup Round(2)) :
           part = 1 /\ pc'[u] \in {"idle"} \cup Leaving => retrieved'[u] # 0
  PROVE  InRounds'
<1> SUFFICES ASSUME part = 1 PROVE InRounds'
  BY DEF InRounds
<1>1. stage = "round_2" =>
        \A k \in 1..num_ones : \E u \in Round(1) : retrieved'[u] = k
  <2> SUFFICES ASSUME stage = "round_2", NEW k \in 1..num_ones
               PROVE  \E u \in Round(1) : retrieved'[u] = k
    OBVIOUS
  <2>1. PICK u \in Round(1) : retrieved[u] = k
    BY DEF InRounds
  <2>2. u \in Takers
    BY DEF InRounds
  <2> QED BY <2>1, <2>2
<1>2. /\ stage \in {"round_2", "round_3", "ended"} => Round(1) \subseteq Takers'
      /\ stage \in {"round_3", "ended"} => Round(2) \subseteq Takers'
  BY DEF InRounds
<1> QED BY <1>1, <1>2 DEF InRounds

(* A thread with no object calls the pool. *)
LEMMA StartStep ==
  ASSUME Objects!IInv, PoolTestInv, NEW t \in Objects!Threads, Pool!Start(t)
  PROVE  PoolTestInv'
<1> USE DEF PoolTestInv
<1>1. /\ t \notin started /\ started' = started \cup {t}
      /\ t \in Pool!Waiting \/ t \in Pool!Checking
      /\ UNCHANGED <<part, stage, value_found, threads_completed, completed>>
  BY DEF Pool!Start
<1>2. t \in Callers /\ t # Main
  <2>1. t \in Callers
    BY <1>1 DEF Pool!Waiting, Pool!Checking, Pool!Round, Callers, Round
  <2> QED BY <2>1, PoolTypes
<1>3. /\ pc' = [pc EXCEPT ![t] = pc'[t]] /\ pc'[t] \in OnTheWay
      /\ UNCHANGED <<enqueued, retrieved, delivered>>
  BY SamePool, PoolTypes, <1>2
  DEF Pool!Start, Objects!WaitForObject, Objects!CheckForObject, Objects!AcquireAvailability,
      Objects!AcquireAccess, Objects!Goto, Objects!data, OnTheWay
<1>4. retrieved[t] = 0 /\ pc[t] = "idle"
  BY <1>1, <1>2 DEF CallsMade
<1>5. pc'[t] \notin AddPlaces \cup Popping \cup Leaving \cup {"idle"}
  BY <1>3 DEF OnTheWay, AddPlaces, Enqueuing, Popping, Leaving
<1>6. \A u \in Callers \cup {Main} : pc'[u] = IF u = t THEN pc'[t] ELSE pc[u]
  BY <1>3, PoolTypes
<1>7. CallsMade'
  BY <1>1, <1>2, <1>3, <1>4, <1>5, <1>6 DEF CallsMade
<1>8. Takers' = Takers
  BY <1>3, <1>4, <1>6 DEF Takers
<1>9. TakenOnce'
  BY <1>3, <1>8 DEF TakenOnce
<1>10. ObjectsAdded'
  BY <1>1, <1>2, <1>3, <1>6 DEF ObjectsAdded, ToCome
<1>11. InRounds'
  <2> SUFFICES ASSUME part = 1 PROVE InRounds'
    BY <1>1 DEF InRounds
  <2>1. /\ stage = "round_1" => t \in Round(1)
        /\ stage = "round_2" => t \in Round(2)
        /\ stage = "round_1" \/ stage = "round_2" \/ stage = "round_3"
    BY <1>1 DEF Pool!Waiting, Pool!Checking, Pool!Round, Round
  <2>2. \A u \in started' \cap (Round(1) \cup Round(2)) :
          pc'[u] \in {"idle"} \cup Leaving => retrieved'[u] # 0
    BY <1>1, <1>3, <1>5, <1>6, AreCallers DEF InRounds
  <2>3. /\ stage' = "round_1" => started' \subseteq Round(1)
        /\ stage' = "round_2" => started' \subseteq Round(1) \cup Round(2)
        /\ stage' \notin {"ones", "twos"}
    BY <1>1, <2>1 DEF InRounds
  <2>4. /\ stage' \in {"ones", "twos", "round_1", "round_2", "round_3", "ended"}
        /\ stage' \in {"round_2", "round_3", "ended"} => Round(1) \subseteq Takers'
        /\ stage' \in {"round_3", "ended"} => Round(2) \subseteq Takers'
        /\ stage' = "round_2" =>
             \A k \in 1..num_ones : \E u \in Round(1) : retrieved'[u] = k
    BY <1>1, <1>3, <1>8 DEF InRounds
  <2> QED BY <2>2, <2>3, <2>4 DEF InRounds
<1>12. InHalves'
  BY <1>1, <1>3, <1>6, HalvesStay
<1> QED BY <1>7, <1>9, <1>10, <1>11, <1>12

(* What every step inside a call leaves alone. *)
LEMMA OthersStay ==
  ASSUME Objects!IInv, PoolTestInv, NEW t \in Objects!Threads,
         NEW from, NEW to, Moves(t, from, to), "idle" \notin from, UNCHANGED Pool!test
  PROVE  /\ \A u \in Callers \cup {Main} : pc'[u] = IF u = t THEN pc'[t] ELSE pc[u]
         /\ pc[t] \in from /\ pc'[t] \in to /\ t \in Callers \cup {Main}
         /\ t \in Callers => t \in started
         /\ UNCHANGED <<part, stage, started, value_found, threads_completed, completed>>
BY ThreadsOfPool, PoolTypes DEF Moves, Pool!test, PoolTestInv, CallsMade

LEMMA WalksStep ==
  ASSUME Objects!IInv, PoolTestInv, NEW t \in Objects!Threads, Walks(t),
         UNCHANGED Pool!test, UNCHANGED <<enqueued, retrieved, delivered>>
  PROVE  PoolTestInv'
<1> USE DEF PoolTestInv
<1>1. /\ \A u \in Callers \cup {Main} : pc'[u] = IF u = t THEN pc'[t] ELSE pc[u]
      /\ t \in Callers \cup {Main}
      /\ t \in Callers => t \in started
      /\ UNCHANGED <<part, stage, started, value_found, threads_completed, completed>>
      /\ \/ pc[t] \in OnTheWay /\ pc'[t] \in OnTheWay
         \/ pc[t] = "add_list_blocked" /\ pc'[t] = "add_enqueue"
         \/ /\ pc[t] \in AddPlaces \ Enqueuing
            /\ pc'[t] \in (AddPlaces \ Enqueuing) \cup {"idle"}
         \/ pc[t] \in Leaving /\ pc'[t] = "idle"
  <2>1. "idle" \notin OnTheWay /\ "idle" \notin AddPlaces /\ "idle" \notin Leaving
        /\ "idle" \notin {"add_list_blocked"}
    BY DEF OnTheWay, AddPlaces, Enqueuing, Leaving
  <2>2. CASE Moves(t, OnTheWay, OnTheWay)
    BY <2>1, <2>2, OthersStay
  <2>3. CASE Moves(t, {"add_list_blocked"}, {"add_enqueue"})
    BY <2>1, <2>3, OthersStay
  <2>4. CASE Moves(t, AddPlaces \ Enqueuing, (AddPlaces \ Enqueuing) \cup {"idle"})
    BY <2>1, <2>4, OthersStay
  <2>5. CASE Moves(t, Leaving, {"idle"})
    BY <2>1, <2>5, OthersStay
  <2> QED BY <2>2, <2>3, <2>4, <2>5 DEF Walks
<1>2. CASE t = Main
  <2>1. /\ pc[Main] \in AddPlaces /\ pc'[Main] \in AddPlaces \cup {"idle"}
        /\ pc'[Main] \in Enqueuing => pc[Main] \in Enqueuing
        /\ pc[Main] # "idle"
    BY <1>1, <1>2, PlacesDiffer DEF CallsMade, AddPlaces, Enqueuing
  <2>2. \A u \in Callers : pc'[u] = pc[u]
    BY <1>1, <1>2, PoolTypes
  <2>3. CallsMade'
    BY <1>1, <2>1, <2>2 DEF CallsMade
  <2>4. Takers' = Takers
    BY <2>2 DEF Takers
  <2>5. ObjectsAdded'
    <3>1. ToCome \in Nat /\ ToCome' \in Nat /\ ToCome' <= ToCome
      BY <2>1 DEF ToCome
    <3> QED BY <1>1, <2>1, <3>1, PoolTypes, Rounds DEF ObjectsAdded
  <2>6. InRounds'
    <3>1. \A u \in started \cap (Round(1) \cup Round(2)) :
            part = 1 /\ pc'[u] \in {"idle"} \cup Leaving => retrieved[u] # 0
      BY <2>2, AreCallers DEF InRounds
    <3> QED BY <1>1, <2>4, <3>1, RoundsStay
  <2>7. InHalves'
    BY <1>1, <2>2, HalvesStay
  <2> QED BY <2>3, <2>4, <2>5, <2>6, <2>7 DEF TakenOnce
<1>3. CASE t \in Callers
  <2>1. \/ pc[t] \in OnTheWay /\ pc'[t] \in OnTheWay
        \/ pc[t] \in Leaving /\ pc'[t] = "idle"
    BY <1>1, <1>3, PlacesDiffer DEF CallsMade, AddPlaces, Enqueuing
  <2>2. pc'[Main] = pc[Main]
    BY <1>1, <1>3, PoolTypes
  <2>3. pc[t] \notin Popping \cup {"idle"} /\ pc'[t] \notin Popping \cup AddPlaces
        /\ t \in started
    BY <1>1, <1>3, <2>1, PlacesDiffer
  <2>4. CallsMade'
    BY <1>1, <1>3, <2>1, <2>2, <2>3, PlacesDiffer DEF CallsMade
  <2>5. Takers' = Takers
    BY <1>1, <2>3 DEF Takers
  <2>6. ObjectsAdded'
    BY <1>1, <2>2 DEF ObjectsAdded, ToCome
  <2>7. InRounds'
    <3>1. \A u \in started \cap (Round(1) \cup Round(2)) :
            part = 1 /\ pc'[u] \in {"idle"} \cup Leaving => retrieved[u] # 0
      BY <1>1, <2>1, AreCallers, PlacesDiffer DEF InRounds
    <3> QED BY <1>1, <2>5, <3>1, RoundsStay
  <2>8. InHalves'
    BY <1>1, <2>3, HalvesStay
  <2> QED BY <2>4, <2>5, <2>6, <2>7, <2>8 DEF TakenOnce
<1> QED BY <1>1, <1>2, <1>3

(* In the first two rounds the pool is never empty: there is an object for *)
(* every thread.                                                           *)
LEMMA SeesNothingStep ==
  ASSUME Objects!IInv, PoolTestInv, NEW t \in Objects!Threads, SeesNothing(t),
         UNCHANGED Pool!test, UNCHANGED <<enqueued, retrieved, delivered>>
  PROVE  PoolTestInv'
<1> USE DEF PoolTestInv
<1>1. /\ \A u \in Callers \cup {Main} : pc'[u] = IF u = t THEN pc'[t] ELSE pc[u]
      /\ t \in Callers \cup {Main}
      /\ t \in Callers => t \in started
      /\ UNCHANGED <<part, stage, started, value_found, threads_completed, completed>>
      /\ pc[t] = "check_size" /\ pc'[t] = "check_give_list"
      /\ Len(delivered) = enqueued
  BY OthersStay, InOrder DEF SeesNothing
<1>2. /\ t \in Callers /\ t # Main /\ retrieved[t] = 0
      /\ pc[t] \in OnTheWay /\ pc'[t] \in Leaving
  BY <1>1, PoolTypes DEF CallsMade, OnTheWay, Leaving, AddPlaces, Enqueuing
<1>3. pc'[Main] = pc[Main]
  BY <1>1, <1>2, PoolTypes
<1>4. CallsMade'
  BY <1>1, <1>2, <1>3, PlacesDiffer DEF CallsMade
<1>5. Takers' = Takers
  BY <1>1, <1>2, PlacesDiffer DEF Takers
<1>6. ObjectsAdded'
  BY <1>1, <1>3 DEF ObjectsAdded, ToCome
<1>7. ASSUME part = 1, t \in Round(1) \cup Round(2) PROVE FALSE
  <2>1. t \notin Takers
    BY <1>2 DEF Takers
  <2>2. stage \in {"round_1", "round_2"}
    BY <1>1, <1>2, <1>7, <2>1 DEF InRounds
  <2>3. enqueued = num_ones + num_twos
    BY <2>2 DEF ObjectsAdded
  <2>4. Takers \subseteq (Round(1) \cup Round(2)) \ {t}
    <3>1. Takers \subseteq started
      BY DEF Takers, CallsMade
    <3> QED BY <1>7, <2>1, <2>2, <3>1 DEF InRounds
  <2>5. /\ IsFiniteSet(Round(1) \cup Round(2))
        /\ Cardinality(Round(1) \cup Round(2)) = num_ones + num_twos
    BY BothRounds
  <2>6. /\ IsFiniteSet((Round(1) \cup Round(2)) \ {t})
        /\ Cardinality((Round(1) \cup Round(2)) \ {t}) = num_ones + num_twos - 1
    <3>1. PICK S : S = Round(1) \cup Round(2)
      OBVIOUS
    <3>2. t \in S /\ IsFiniteSet(S) /\ Cardinality(S) = num_ones + num_twos
      BY <1>7, <2>5, <3>1
    <3>3. IsFiniteSet(S \ {t}) /\ Cardinality(S \ {t}) = Cardinality(S) - 1
      BY <3>2, FS_RemoveElement
    <3>4. Cardinality(S \ {t}) = num_ones + num_twos - 1
      BY <3>2, <3>3, Rounds
    <3> QED BY <3>1, <3>3, <3>4, Zenon
  <2>7. Cardinality(Takers) <= num_ones + num_twos - 1
    BY <2>4, <2>6, FS_Subset
  <2>8. Cardinality(Takers) = num_ones + num_twos
    BY <1>1, <2>3, TakersCounted
  <2> QED BY <2>7, <2>8, Rounds
<1>8. InRounds'
  <2>1. \A u \in started \cap (Round(1) \cup Round(2)) :
          part = 1 /\ pc'[u] \in {"idle"} \cup Leaving => retrieved[u] # 0
    BY <1>1, <1>7, AreCallers DEF InRounds
  <2> QED BY <1>1, <1>5, <2>1, RoundsStay
<1>9. InHalves'
  BY <1>1, <1>2, HalvesStay
<1> QED BY <1>4, <1>5, <1>6, <1>8, <1>9 DEF TakenOnce

LEMMA AddsStep ==
  ASSUME Objects!IInv, PoolTestInv, NEW t \in Objects!Threads, Adds(t),
         UNCHANGED Pool!test, UNCHANGED <<retrieved, delivered>>
  PROVE  PoolTestInv'
<1> USE DEF PoolTestInv
<1>1. /\ \A u \in Callers \cup {Main} : pc'[u] = IF u = t THEN pc'[t] ELSE pc[u]
      /\ t \in Callers \cup {Main}
      /\ UNCHANGED <<part, stage, started, value_found, threads_completed, completed>>
      /\ pc[t] = "add_enqueue" /\ pc'[t] = "add_give_availability"
      /\ enqueued' = enqueued + 1
  BY OthersStay DEF Adds
<1>2. t = Main
  BY <1>1 DEF CallsMade, AddPlaces, Enqueuing
<1>3. \A u \in Callers : pc'[u] = pc[u]
  BY <1>1, <1>2, PoolTypes
<1>4. CallsMade'
  BY <1>1, <1>2, <1>3 DEF CallsMade, AddPlaces
<1>5. Takers' = Takers
  BY <1>3 DEF Takers
<1>6. ObjectsAdded'
  <2>1. ToCome = 1 /\ ToCome' = 0 /\ pc[Main] # "idle"
    BY <1>1, <1>2 DEF ToCome, Enqueuing
  <2> QED BY <1>1, <2>1, PoolTypes, Rounds DEF ObjectsAdded
<1>7. InRounds'
  <2>1. \A u \in started \cap (Round(1) \cup Round(2)) :
          part = 1 /\ pc'[u] \in {"idle"} \cup Leaving => retrieved[u] # 0
    BY <1>3, AreCallers DEF InRounds
  <2> QED BY <1>1, <1>5, <2>1, RoundsStay
<1>8. InHalves'
  BY <1>1, <1>3, HalvesStay
<1> QED BY <1>4, <1>5, <1>6, <1>7, <1>8 DEF TakenOnce

LEMMA ReadsStep ==
  ASSUME Objects!IInv, PoolTestInv, NEW t \in Objects!Threads, Reads(t),
         UNCHANGED Pool!test, UNCHANGED <<enqueued, delivered>>
  PROVE  PoolTestInv'
<1> USE DEF PoolTestInv
<1>1. /\ \A u \in Callers \cup {Main} : pc'[u] = IF u = t THEN pc'[t] ELSE pc[u]
      /\ t \in Callers \cup {Main}
      /\ t \in Callers => t \in started
      /\ UNCHANGED <<part, stage, started, value_found, threads_completed, completed>>
      /\ pc[t] \in OnTheWay /\ pc'[t] \in Popping
      /\ \A u \in Callers \cup {Main} : u # t => retrieved'[u] = retrieved[u]
  <2>1. "idle" \notin OnTheWay
    BY PlacesDiffer
  <2> QED BY <2>1, OthersStay, PoolTypes DEF Reads
<1>2. t \in Callers /\ t # Main
  BY <1>1, PlacesDiffer, PoolTypes DEF CallsMade
<1>3. pc'[Main] = pc[Main] /\ retrieved'[Main] = retrieved[Main] /\ retrieved[t] = 0
  BY <1>1, <1>2, PoolTypes DEF CallsMade
<1>4. CallsMade'
  BY <1>1, <1>2, <1>3, PlacesDiffer DEF CallsMade
<1>5. Takers' = Takers /\ t \notin Takers
  BY <1>1, <1>2, <1>3, PlacesDiffer DEF Takers
<1>6. \A u \in Takers : retrieved'[u] = retrieved[u]
  BY <1>1, <1>5 DEF Takers
<1>7. TakenOnce'
  BY <1>5, <1>6 DEF TakenOnce
<1>8. ObjectsAdded'
  BY <1>1, <1>3 DEF ObjectsAdded, ToCome
<1>9. InRounds'
  <2>1. \A u \in started \cap (Round(1) \cup Round(2)) :
          part = 1 /\ pc'[u] \in {"idle"} \cup Leaving => retrieved'[u] # 0
    BY <1>1, AreCallers, PlacesDiffer DEF InRounds
  <2> QED BY <1>1, <1>5, <1>6, <2>1, RoundsStay
<1>10. InHalves'
  BY <1>1, PlacesDiffer, HalvesStay
<1> QED BY <1>4, <1>7, <1>8, <1>9, <1>10

LEMMA TakesStep ==
  ASSUME Objects!IInv, PoolTestInv, NEW t \in Objects!Threads, Takes(t),
         UNCHANGED Pool!test, UNCHANGED <<enqueued, retrieved>>
  PROVE  PoolTestInv'
<1> USE DEF PoolTestInv
<1>1. /\ \A u \in Callers \cup {Main} : pc'[u] = IF u = t THEN pc'[t] ELSE pc[u]
      /\ t \in Callers \cup {Main}
      /\ t \in Callers => t \in started
      /\ UNCHANGED <<part, stage, started, value_found, threads_completed, completed>>
      /\ pc[t] \in Popping /\ pc'[t] \in Leaving
  <2>1. "idle" \notin Popping
    BY PlacesDiffer
  <2> QED BY <2>1, OthersStay DEF Takes
<1>2. t \in Callers /\ t # Main
  BY <1>1, PlacesDiffer, PoolTypes DEF CallsMade
<1>3. pc'[Main] = pc[Main]
  BY <1>1, <1>2, PoolTypes
<1>4. CallsMade'
  BY <1>1, <1>2, <1>3, PlacesDiffer DEF CallsMade
<1>5. /\ retrieved[t] = Len(delivered) + 1 /\ Len(delivered) \in Nat
      /\ Len(delivered') = Len(delivered) + 1
  <2>1. delivered \in Seq(1..enqueued)
    BY DEF Objects!IInv, Objects!TypeOK
  <2> QED BY <2>1, PoolTypes DEF Takes
<1>6. Takers' = Takers \cup {t} /\ t \notin Takers
  BY <1>1, <1>2, <1>5, PlacesDiffer DEF Takers
<1>7. TakenOnce'
  <2>1. PICK d, m, r : d = Len(delivered) /\ m = Len(delivered') /\ r = retrieved
    OBVIOUS
  <2>2. /\ \A u \in Takers : r[u] \in 1..d
        /\ \A k \in 1..d : \E u \in Takers : r[u] = k
        /\ \A u, v \in Takers : r[u] = r[v] => u = v
    BY <2>1 DEF TakenOnce
  <2>3. d \in Nat /\ m = d + 1 /\ r[t] = d + 1
    BY <1>5, <2>1
  <2>4. /\ \A u \in Takers \cup {t} : r[u] \in 1..m
        /\ \A k \in 1..m : \E u \in Takers \cup {t} : r[u] = k
        /\ \A u, v \in Takers \cup {t} : r[u] = r[v] => u = v
    BY <2>2, <2>3
  <2> QED BY <1>6, <2>1, <2>4 DEF TakenOnce
<1>8. ObjectsAdded'
  BY <1>1, <1>3 DEF ObjectsAdded, ToCome
<1>9. InRounds'
  <2>1. \A u \in started \cap (Round(1) \cup Round(2)) :
          part = 1 /\ pc'[u] \in {"idle"} \cup Leaving => retrieved[u] # 0
    BY <1>1, <1>5, AreCallers DEF InRounds
  <2> QED BY <1>1, <1>6, <2>1, RoundsStay
<1>10. InHalves'
  BY <1>1, PlacesDiffer, HalvesStay
<1> QED BY <1>4, <1>7, <1>8, <1>9, <1>10

LEMMA PoolStepStep ==
  ASSUME Objects!IInv, PoolTestInv, NEW t \in Objects!Threads, Pool!PoolStep(t)
  PROVE  PoolTestInv'
<1>1. Objects!Progress(t) /\ UNCHANGED Pool!test
  BY SamePool DEF Pool!PoolStep
<1>2. /\ Walks(t) \/ SeesNothing(t) \/ Adds(t) \/ Reads(t) \/ Takes(t)
      /\ ~Adds(t) => enqueued' = enqueued
      /\ ~Reads(t) => retrieved' = retrieved
      /\ ~Takes(t) => delivered' = delivered
  BY <1>1, StepsOfPool
<1>3. /\ Walks(t) \/ SeesNothing(t) => ~Adds(t) /\ ~Reads(t) /\ ~Takes(t)
      /\ Adds(t) => ~Reads(t) /\ ~Takes(t)
      /\ Reads(t) => ~Adds(t) /\ ~Takes(t)
      /\ Takes(t) => ~Adds(t) /\ ~Reads(t)
  BY PlacesDiffer
  DEF Walks, SeesNothing, Adds, Reads, Takes, Moves, AddPlaces, Enqueuing, Leaving, Popping,
      OnTheWay
<1>4. CASE Walks(t)
  BY <1>1, <1>2, <1>3, <1>4, WalksStep
<1>5. CASE SeesNothing(t)
  BY <1>1, <1>2, <1>3, <1>5, SeesNothingStep
<1>6. CASE Adds(t)
  BY <1>1, <1>2, <1>3, <1>6, AddsStep
<1>7. CASE Reads(t)
  BY <1>1, <1>2, <1>3, <1>7, ReadsStep
<1>8. CASE Takes(t)
  BY <1>1, <1>2, <1>3, <1>8, TakesStep
<1> QED BY <1>2, <1>4, <1>5, <1>6, <1>7, <1>8

LEMMA StoreStep ==
  ASSUME Objects!IInv, PoolTestInv, NEW t, Pool!StoreValue(t)
  PROVE  PoolTestInv'
<1> USE DEF PoolTestInv
<1>1. /\ t \in Unknown /\ t \in started /\ pc[t] = "idle" /\ value_found[t] = 0
      /\ value_found' = [value_found EXCEPT ![t] = Pool!Value(retrieved[t])]
      /\ UNCHANGED <<part, stage, started, threads_completed, completed>>
      /\ UNCHANGED <<pc, enqueued, retrieved, delivered>>
  BY DEF Pool!StoreValue, Pool!Finished, Pool!Nothing, Pool!pool
<1>2. Pool!Value(retrieved[t]) \in {0, 1, 2} /\ (retrieved[t] = 0 => Pool!Value(retrieved[t]) = 0)
  <2>1. retrieved[t] \in Nat
    BY <1>1, AreCallers, PoolTypes
  <2> QED BY <2>1, ValueIs
<1>3. CallsMade' /\ TakenOnce' /\ ObjectsAdded' /\ InRounds'
  BY <1>1, <1>2 DEF CallsMade, TakenOnce, Takers, ObjectsAdded, ToCome, InRounds
<1>4. InHalves'
  <2>1. \A u \in Unknown : value_found'[u] =
                             IF u = t THEN Pool!Value(retrieved[t]) ELSE value_found[u]
    BY <1>1 DEF CallsMade
  <2>2. Told' = Told
    BY <1>1 DEF Told
  <2>3. ASSUME NEW u \in Unknown, value_found'[u] # 0
        PROVE  /\ u \in started /\ pc[u] = "idle" /\ retrieved[u] # 0
               /\ value_found'[u] = Pool!Value(retrieved[u])
    BY <1>1, <1>2, <2>1, <2>3 DEF InHalves
  <2>4. part = 2 => completed \subseteq {u \in Unknown : value_found'[u] # 0}
    BY <1>1, <2>1 DEF InHalves
  <2>5. /\ part' = part /\ stage' = stage /\ started' = started /\ completed' = completed
        /\ threads_completed' = threads_completed /\ pc' = pc /\ retrieved' = retrieved
    BY <1>1
  <2> QED BY <2>2, <2>3, <2>4, <2>5, Zenon DEF InHalves
<1> QED BY <1>3, <1>4

LEMMA MarkStep ==
  ASSUME Objects!IInv, PoolTestInv, NEW t, Pool!MarkCompleted(t)
  PROVE  PoolTestInv'
<1> USE DEF PoolTestInv
<1>1. /\ t \in Unknown \ completed /\ value_found[t] # 0
      /\ completed' = completed \cup {t} /\ threads_completed' = threads_completed + 1
      /\ UNCHANGED <<part, stage, started, value_found, pc, enqueued, retrieved, delivered>>
  BY DEF Pool!MarkCompleted, Pool!Nothing, Pool!pool
<1>2. CallsMade' /\ TakenOnce' /\ ObjectsAdded' /\ InRounds'
  BY <1>1 DEF CallsMade, TakenOnce, Takers, ObjectsAdded, ToCome, InRounds
<1>3. InHalves'
  <2>1. Told' = Told /\ Told \in Nat
    BY <1>1, Rounds DEF Told
  <2>2. ASSUME part = 2
        PROVE  /\ completed' \subseteq {u \in Unknown : value_found[u] # 0}
               /\ threads_completed' \in Nat
               /\ Cardinality(completed') = threads_completed' + Told
    <3>1. completed \subseteq Callers
      BY <2>2, AreCallers DEF InHalves
    <3>2. IsFiniteSet(completed)
      BY <3>1, Rounds, FS_Subset
    <3>3. Cardinality(completed \cup {t}) = Cardinality(completed) + 1
      BY <1>1, <3>2, FS_AddElement
    <3> QED BY <1>1, <2>1, <2>2, <3>3 DEF InHalves
  <2>3. /\ part' = part /\ stage' = stage /\ started' = started
        /\ value_found' = value_found /\ pc' = pc /\ retrieved' = retrieved
    BY <1>1
  <2> QED BY <2>1, <2>2, <2>3, Zenon DEF InHalves
<1> QED BY <1>2, <1>3

LEMMA MainAddStep ==
  ASSUME Objects!IInv, PoolTestInv, Pool!MainAdd
  PROVE  PoolTestInv'
<1> USE DEF PoolTestInv
<1>1. /\ stage \in {"ones", "twos"}
      /\ enqueued < IF stage = "ones" THEN num_ones ELSE num_ones + num_twos
      /\ Objects!AddObject(Main)
      /\ UNCHANGED <<part, stage, started, value_found, threads_completed, completed>>
  BY SamePool DEF Pool!MainAdd, Pool!Adding, Pool!ToAdd, Pool!test
<1>2. /\ pc[Main] = "idle" /\ pc' = [pc EXCEPT ![Main] = pc'[Main]] /\ pc'[Main] \in Enqueuing
      /\ UNCHANGED <<enqueued, retrieved, delivered>>
  BY <1>1, PoolTypes
  DEF Objects!AddObject, Objects!AcquireAccess, Objects!Goto, Objects!data, Enqueuing
<1>3. \A u \in Callers : pc'[u] = pc[u]
  BY <1>2, PoolTypes
<1>4. CallsMade'
  BY <1>1, <1>2, <1>3 DEF CallsMade, AddPlaces
<1>5. Takers' = Takers
  BY <1>2, <1>3 DEF Takers
<1>6. TakenOnce'
  BY <1>2, <1>5 DEF TakenOnce
<1>7. ObjectsAdded'
  <2>1. ToCome = 0 /\ ToCome' = 1
    BY <1>2 DEF ToCome, Enqueuing
  <2> QED BY <1>1, <1>2, <2>1, PoolTypes, Rounds DEF ObjectsAdded
<1>8. InRounds'
  <2>1. \A u \in started \cap (Round(1) \cup Round(2)) :
          part = 1 /\ pc'[u] \in {"idle"} \cup Leaving => retrieved[u] # 0
    BY <1>3, AreCallers DEF InRounds
  <2> QED BY <1>1, <1>2, <1>5, <2>1, RoundsStay
<1>9. InHalves'
  BY <1>1, <1>2, <1>3, HalvesStay
<1> QED BY <1>4, <1>6, <1>7, <1>8, <1>9

(* main goes on to the next stage; *)
LEMMA MainGoes ==
  ASSUME PoolTestInv, NEW from, NEW to, Pool!MainGoto(from, to)
  PROVE  /\ stage = from /\ stage' = to
         /\ UNCHANGED <<part, started, value_found, completed, pc, enqueued, retrieved, delivered>>
         /\ CallsMade' /\ TakenOnce' /\ Takers' = Takers /\ ToCome' = ToCome
BY DEF Pool!MainGoto, Pool!pool, PoolTestInv, CallsMade, TakenOnce, Takers, ToCome

(* with it the number of threads that it has been told of. *)
LEMMA HalvesGo ==
  ASSUME InHalves, UNCHANGED <<part, started, value_found, completed, pc, retrieved>>,
         part = 2 => /\ stage' \in {"ones", "wait_ones", "check_ones", "twos", "wait_twos",
                                    "check_twos", "join", "ended"}
                     /\ threads_completed' \in Nat
                     /\ threads_completed' + Told' = threads_completed + Told
  PROVE  InHalves'
<1>1. /\ part' = part /\ started' = started /\ value_found' = value_found
      /\ completed' = completed /\ pc' = pc /\ retrieved' = retrieved
  OBVIOUS
<1>2. part = 2 => Cardinality(completed) = threads_completed' + Told'
  BY DEF InHalves
<1> QED BY <1>1, <1>2, Zenon DEF InHalves

LEMMA MainAddedStep ==
  ASSUME Objects!IInv, PoolTestInv, Pool!MainAdded
  PROVE  PoolTestInv'
<1> USE DEF PoolTestInv
<1>1. /\ stage \in {"ones", "twos"} /\ pc[Main] = "idle"
      /\ enqueued = IF stage = "ones" THEN num_ones ELSE num_ones + num_twos
      /\ threads_completed' = threads_completed
  BY DEF Pool!MainAdded, Pool!AllAdded, Pool!Adding, Pool!ToAdd
<1>2. /\ UNCHANGED <<part, started, value_found, completed, pc, enqueued, retrieved, delivered>>
      /\ CallsMade' /\ TakenOnce' /\ Takers' = Takers /\ ToCome' = ToCome
      /\ \/ part = 1 /\ stage = "ones" /\ stage' = "twos"
         \/ part = 1 /\ stage = "twos" /\ stage' = "round_1"
         \/ part = 2 /\ stage = "ones" /\ stage' = "wait_ones"
         \/ part = 2 /\ stage = "twos" /\ stage' = "wait_twos"
  BY MainGoes DEF Pool!MainAdded
<1>3. ObjectsAdded'
  <2>1. ToCome' = 0
    BY <1>1, <1>2 DEF ToCome, Enqueuing
  <2> QED BY <1>1, <1>2, <2>1, Rounds DEF ObjectsAdded
<1>4. InRounds'
  BY <1>1, <1>2 DEF InRounds
<1>5. InHalves'
  <2>1. part = 2 => Told' = Told /\ threads_completed \in Nat
    BY <1>2 DEF Told, InHalves
  <2> QED BY <1>1, <1>2, <2>1, HalvesGo
<1> QED BY <1>2, <1>3, <1>4, <1>5

LEMMA JoinRoundStep ==
  ASSUME Objects!IInv, PoolTestInv, Pool!JoinRound
  PROVE  PoolTestInv'
<1> USE DEF PoolTestInv
<1>1. /\ UNCHANGED <<part, started, value_found, completed, pc, enqueued, retrieved, delivered>>
      /\ CallsMade' /\ TakenOnce' /\ Takers' = Takers /\ ToCome' = ToCome
      /\ threads_completed' = threads_completed
      /\ \/ stage = "round_1" /\ stage' = "round_2"
         \/ stage = "round_2" /\ stage' = "round_3"
         \/ stage = "round_3" /\ stage' = "ended"
  BY MainGoes DEF Pool!JoinRound
<1>2. part = 1 /\ part # 2
  BY <1>1 DEF InHalves
<1>3. ObjectsAdded'
  BY <1>1 DEF ObjectsAdded
<1>4. ASSUME NEW r \in {1, 2}, stage = IF r = 1 THEN "round_1" ELSE "round_2"
      PROVE  Round(r) \subseteq Takers
  <2> SUFFICES ASSUME NEW t \in Round(r) PROVE t \in Takers
    OBVIOUS
  <2>1. t \in Pool!Waiting \cup Pool!Checking
    BY <1>2, <1>4 DEF Pool!Waiting, Pool!Checking, Pool!Round, Round
  <2>2. t \in started /\ pc[t] = "idle"
    BY <2>1 DEF Pool!JoinRound, Pool!Finished
  <2>3. t \in Callers /\ t \in Round(1) \cup Round(2)
    BY AreCallers
  <2> QED BY <1>2, <2>2, <2>3, PlacesDiffer DEF InRounds, Takers
<1>5. stage = "round_1" => \A k \in 1..num_ones : \E t \in Round(1) : retrieved[t] = k
  <2> SUFFICES ASSUME stage = "round_1"
               PROVE  \A k \in 1..num_ones : \E t \in Round(1) : retrieved[t] = k
    OBVIOUS
  <2>1. Takers \subseteq started /\ started \subseteq Round(1)
    BY <1>2 DEF Takers, CallsMade, InRounds
  <2>2. Takers = Round(1)
    BY <1>4, <2>1
  <2>3. Len(delivered) = num_ones
    BY <2>2, TakersCounted, Rounds
  <2> QED BY <2>2, <2>3 DEF TakenOnce
<1>6. InRounds'
  <2>1. /\ stage = "round_1" => Round(1) \subseteq Takers
        /\ stage = "round_2" => Round(2) \subseteq Takers
    BY <1>4
  <2>2. \A t \in started \cap (Round(1) \cup Round(2)) :
          pc[t] \in {"idle"} \cup Leaving => retrieved[t] # 0
    BY <1>2 DEF InRounds
  <2>3. /\ stage' \in {"ones", "twos", "round_1", "round_2", "round_3", "ended"}
        /\ stage' \notin {"ones", "twos", "round_1"}
        /\ stage' = "round_2" => started \subseteq Round(1) \cup Round(2)
        /\ stage' = "round_2" => stage = "round_1"
    BY <1>1, <1>2 DEF InRounds
  <2>4. /\ stage' \in {"round_2", "round_3", "ended"} => Round(1) \subseteq Takers
        /\ stage' \in {"round_3", "ended"} => Round(2) \subseteq Takers
    BY <1>1, <1>2, <2>1 DEF InRounds
  <2> QED BY <1>1, <1>5, <2>2, <2>3, <2>4 DEF InRounds
<1>7. InHalves'
  BY <1>1, <1>2, HalvesGo
<1> QED BY <1>1, <1>3, <1>6, <1>7

LEMMA MainWaitStep ==
  ASSUME Objects!IInv, PoolTestInv,
         \/ Pool!MainAcquire(num_ones, "wait_ones", "check_ones")
         \/ Pool!MainAcquire(num_twos, "wait_twos", "check_twos")
  PROVE  PoolTestInv'
<1> USE DEF PoolTestInv
<1>1. /\ UNCHANGED <<part, started, value_found, completed, pc, enqueued, retrieved, delivered>>
      /\ CallsMade' /\ TakenOnce'
      /\ \/ /\ stage = "wait_ones" /\ stage' = "check_ones" /\ threads_completed >= num_ones
            /\ threads_completed' = threads_completed - num_ones
         \/ /\ stage = "wait_twos" /\ stage' = "check_twos" /\ threads_completed >= num_twos
            /\ threads_completed' = threads_completed - num_twos
  BY MainGoes DEF Pool!MainAcquire
<1>2. part # 1
  BY <1>1 DEF InRounds
<1>3. ObjectsAdded'
  BY <1>1 DEF ObjectsAdded
<1>4. InRounds'
  BY <1>1, <1>2 DEF InRounds
<1>5. InHalves'
  <2>1. \/ Told' = Told + num_ones /\ threads_completed' = threads_completed - num_ones
           /\ threads_completed >= num_ones
        \/ Told' = Told + num_twos /\ threads_completed' = threads_completed - num_twos
           /\ threads_completed >= num_twos
    BY <1>1, Rounds DEF Told
  <2>2. part = 2 => threads_completed \in Nat /\ Told \in Nat
    BY Rounds DEF InHalves, Told
  <2>3. part = 2 => /\ threads_completed' \in Nat
                    /\ threads_completed' + Told' = threads_completed + Told
    BY <2>1, <2>2, Rounds
  <2>4. stage' \in {"check_ones", "check_twos"}
    BY <1>1
  <2> QED BY <1>1, <2>3, <2>4, HalvesGo
<1> QED BY <1>1, <1>3, <1>4, <1>5

LEMMA MainChecksStep ==
  ASSUME Objects!IInv, PoolTestInv,
         \/ Pool!CheckValues("check_ones", "twos") \/ Pool!CheckValues("check_twos", "join")
         \/ Pool!JoinUnknown
  PROVE  PoolTestInv'
<1> USE DEF PoolTestInv
<1>1. /\ UNCHANGED <<part, started, value_found, completed, pc, enqueued, retrieved, delivered>>
      /\ CallsMade' /\ TakenOnce' /\ ToCome' = ToCome /\ threads_completed' = threads_completed
      /\ \/ stage = "check_ones" /\ stage' = "twos"
         \/ stage = "check_twos" /\ stage' = "join"
         \/ stage = "join" /\ stage' = "ended"
  BY MainGoes DEF Pool!CheckValues, Pool!JoinUnknown
<1>2. part # 1
  BY <1>1 DEF InRounds
<1>3. ObjectsAdded'
  <2>1. ToCome' = 0
    BY <1>1 DEF ObjectsAdded, ToCome, Enqueuing
  <2> QED BY <1>1, <2>1, Rounds DEF ObjectsAdded
<1>4. InRounds'
  BY <1>1, <1>2 DEF InRounds
<1>5. InHalves'
  <2>1. Told' = Told
    BY <1>1 DEF Told
  <2>2. part = 2 => threads_completed \in Nat
    BY DEF InHalves
  <2> QED BY <1>1, <2>1, <2>2, HalvesGo
<1> QED BY <1>1, <1>3, <1>4, <1>5

LEMMA PoolStays ==
  ASSUME PoolTestInv, UNCHANGED pool
  PROVE  PoolTestInv'
BY DEF PoolTestInv, pool, CallsMade, TakenOnce, Takers, ObjectsAdded, ToCome, InRounds, InHalves,
       Told

LEMMA PoolTestInductive == PoolTestInv /\ Objects!IInv /\ [Next]_vars => PoolTestInv'
<1> SUFFICES ASSUME PoolTestInv, Objects!IInv, [Next]_vars PROVE PoolTestInv'
  OBVIOUS
<1>1. ASSUME NEW t \in Pool!Pool!Threads, Pool!Start(t) PROVE PoolTestInv'
  BY <1>1, SamePool, StartStep
<1>2. ASSUME NEW t \in Pool!Pool!Threads, Pool!PoolStep(t) PROVE PoolTestInv'
  BY <1>2, SamePool, PoolStepStep
<1>3. CASE Pool!Next
  BY <1>1, <1>2, <1>3, StoreStep, MarkStep, MainAddStep, MainAddedStep, JoinRoundStep,
     MainWaitStep, MainChecksStep
  DEF Pool!Next
<1>4. CASE UNCHANGED pool
  BY <1>4, PoolStays
<1> QED BY <1>3, <1>4 DEF Next, vars

LEMMA PoolTestInvariant == Spec => []PoolTestInv
BY PoolTestInit, PoolTestInductive, PoolInvariant, PTL DEF Spec

(* What each thread finds, and how many have what. *)
LEMMA PassedFollows ==
  ASSUME Objects!IInv, PoolTestInv
  PROVE  Pool!Passed
<1> USE DEF PoolTestInv
<1>1. ASSUME NEW t \in Pool!Waiting \cup Pool!Checking, part = 1, Pool!Finished(t)
      PROVE  Pool!Value(retrieved[t]) = Pool!Expected[stage]
  <2>1. /\ t \in started /\ pc[t] = "idle" /\ t \in Callers
    BY <1>1 DEF Pool!Finished, CallsMade
  <2>2. \/ stage = "round_1" /\ t \in Round(1)
        \/ stage = "round_2" /\ t \in Round(2)
        \/ stage = "round_3" /\ t \in Round(3)
    BY <1>1 DEF Pool!Waiting, Pool!Checking, Pool!Round, Round
  <2>3. t \in Takers <=> retrieved[t] # 0
    BY <2>1, PlacesDiffer DEF Takers
  <2>4. retrieved[t] \in Nat /\ enqueued = num_ones + num_twos
    BY <2>1, <2>2, PoolTypes DEF ObjectsAdded
  <2>5. CASE stage = "round_1"
    <3>1. t \in Takers /\ Takers \subseteq Round(1)
      BY <1>1, <2>1, <2>2, <2>3, <2>5 DEF InRounds, Takers, CallsMade
    <3>2. Len(delivered) <= num_ones
      BY <3>1, Rounds, TakersCounted, FS_Subset
    <3>3. retrieved[t] \in Nat \ {0} /\ retrieved[t] <= num_ones
      BY <3>1, <3>2, PoolTypes, Rounds DEF TakenOnce
    <3> QED BY <2>5, <3>3, ValueIs DEF Pool!Expected
  <2>6. CASE stage = "round_2"
    <3>1. t \in Takers /\ t \notin Round(1) /\ Round(1) \subseteq Takers
      BY <1>1, <2>1, <2>2, <2>3, <2>6, Rounds, PlacesDiffer DEF InRounds
    <3>2. retrieved[t] \notin 1..num_ones
      BY <1>1, <2>6, <3>1 DEF InRounds, TakenOnce
    <3>3. retrieved[t] \in Nat \ {0} /\ ~(retrieved[t] <= num_ones)
      BY <2>3, <2>4, <3>1, <3>2, Rounds
    <3> QED BY <2>6, <3>3, ValueIs DEF Pool!Expected
  <2>7. CASE stage = "round_3"
    <3>1. /\ Round(1) \cup Round(2) \subseteq Takers
          /\ t \notin Round(1) \cup Round(2)
      BY <1>1, <2>2, <2>7, Rounds DEF InRounds
    <3>2. /\ IsFiniteSet(Round(1) \cup Round(2))
          /\ Cardinality(Round(1) \cup Round(2)) = num_ones + num_twos
      BY BothRounds
    <3>3. /\ IsFiniteSet(Takers) /\ Cardinality(Takers) <= num_ones + num_twos
      BY <2>4, TakersCounted, PoolTypes
    <3>4. Round(1) \cup Round(2) = Takers
      <4>1. PICK S, n : S = Round(1) \cup Round(2) /\ n = num_ones + num_twos
        OBVIOUS
      <4>2. n \in Nat /\ IsFiniteSet(S) /\ S \in SUBSET Takers /\ Cardinality(S) = n
            /\ Cardinality(Takers) <= n
        BY <3>1, <3>2, <3>3, <4>1, Rounds
      <4>3. /\ Cardinality(S) <= Cardinality(Takers)
            /\ Cardinality(Takers) = Cardinality(S) => S = Takers
        BY <3>3, <4>2, FS_Subset
      <4>4. Cardinality(Takers) \in Nat
        BY <3>3, FS_CardinalityType
      <4>5. Cardinality(Takers) = Cardinality(S)
        BY <4>2, <4>3, <4>4
      <4> QED BY <4>1, <4>3, <4>5
    <3>5. retrieved[t] = 0
      BY <2>3, <3>1, <3>4
    <3> QED BY <2>7, <3>5, ValueIs DEF Pool!Expected, Pool!Nothing
  <2> QED BY <2>2, <2>5, <2>6, <2>7
<1> DEFINE V(n) == {t \in Unknown : value_found[t] = n}
           Stored == {t \in Unknown : value_found[t] # 0}
<1>2. ASSUME stage = "check_ones" \/ stage = "check_twos"
      PROVE  /\ Stored \subseteq Takers
             /\ \A t \in Stored : value_found[t] = IF retrieved[t] <= num_ones THEN 1 ELSE 2
             /\ IsFiniteSet(Stored) /\ enqueued <= Cardinality(Stored)
             /\ enqueued = IF stage = "check_ones" THEN num_ones ELSE num_ones + num_twos
             /\ Cardinality(Takers) <= enqueued /\ IsFiniteSet(Takers)
             /\ Cardinality(Takers) = Len(delivered)
  <2>1. ASSUME NEW t \in Stored
        PROVE  t \in Takers /\ value_found[t] = IF retrieved[t] <= num_ones THEN 1 ELSE 2
    <3>1. /\ t \in Callers /\ pc[t] = "idle" /\ retrieved[t] # 0
          /\ value_found[t] = Pool!Value(retrieved[t])
      BY AreCallers DEF InHalves
    <3>2. retrieved[t] \in Nat \ {0}
      BY <3>1, PoolTypes
    <3> QED BY <3>1, <3>2, ValueIs, PlacesDiffer DEF Takers
  <2>2. enqueued = IF stage = "check_ones" THEN num_ones ELSE num_ones + num_twos
    BY <1>2 DEF ObjectsAdded
  <2>3. /\ IsFiniteSet(Takers) /\ Cardinality(Takers) = Len(delivered)
        /\ Len(delivered) <= enqueued
    BY TakersCounted, PoolTypes
  <2>4. IsFiniteSet(Stored) /\ Cardinality(Stored) \in Nat
    BY <2>1, <2>3, FS_Subset, FS_CardinalityType
  <2>5. /\ completed \in SUBSET Stored /\ threads_completed \in Nat
        /\ Cardinality(completed) = threads_completed + enqueued
    BY <1>2, <2>2 DEF InRounds, InHalves, Told
  <2>6. Cardinality(completed) <= Cardinality(Stored)
    BY <2>4, <2>5, FS_Subset
  <2>7. enqueued <= Cardinality(Stored)
    BY <2>4, <2>5, <2>6, PoolTypes
  <2> QED BY <2>1, <2>2, <2>3, <2>4, <2>7
<1>3. ASSUME stage = "check_ones" \/ stage = "check_twos"
      PROVE  Stored = Takers /\ Len(delivered) = enqueued
  <2>1. Cardinality(Stored) <= Cardinality(Takers)
        /\ (Cardinality(Takers) = Cardinality(Stored) => Takers = Stored)
    BY <1>2, <1>3, FS_Subset
  <2>2. Cardinality(Takers) \in Nat /\ Cardinality(Stored) \in Nat /\ enqueued \in Nat
    BY <1>2, <1>3, FS_CardinalityType, PoolTypes
  <2> HIDE DEF Stored
  <2>3. Cardinality(Takers) = Cardinality(Stored) /\ Cardinality(Takers) = enqueued
    BY <1>2, <1>3, <2>1, <2>2
  <2> QED BY <1>2, <1>3, <2>1, <2>3
<1>4. ASSUME stage = "check_ones" \/ stage = "check_twos"
      PROVE  /\ Cardinality(V(1)) = num_ones
             /\ Cardinality(V(2)) = IF stage = "check_ones" THEN 0 ELSE num_twos
  <2>1. num_ones \in 0..Len(delivered)
    BY <1>2, <1>3, <1>4, Rounds
  <2>2. V(1) = {t \in Takers : retrieved[t] <= num_ones}
    BY <1>2, <1>3, <1>4
  <2>3. Cardinality(V(1)) = num_ones
    BY <2>1, <2>2, TakersCounted
  <2>4. V(2) = Takers \ V(1)
    BY <1>2, <1>3, <1>4
  <2>5. V(1) \subseteq Takers
    BY <2>2
  <2>6. Cardinality(Takers \ V(1)) = Cardinality(Takers) - num_ones
    <3>1. PICK S, T : S = Takers /\ T = V(1)
      OBVIOUS
    <3>2. IsFiniteSet(S) /\ S \cap T = T
      BY <1>2, <1>4, <2>5, <3>1
    <3>3. Cardinality(S \ T) = Cardinality(S) - Cardinality(S \cap T)
      BY <3>2, FS_Difference
    <3> QED BY <2>3, <3>1, <3>2, <3>3
  <2>7. Cardinality(Takers) =
          IF stage = "check_ones" THEN num_ones ELSE num_ones + num_twos
    BY <1>2, <1>3, <1>4
  <2> HIDE DEF V
  <2>8. Cardinality(V(2)) = Cardinality(Takers) - num_ones
    BY <2>4, <2>6, Zenon
  <2> QED BY <1>4, <2>3, <2>7, <2>8, Rounds
<1>5. \A n : Pool!Equal(n) = Cardinality(V(n))
  BY DEF Pool!Equal, Pool!Cardinality, Cardinality
<1> HIDE DEF V
<1> QED BY <1>1, <1>4, <1>5, Zenon DEF Pool!Passed

(* The test of ObjectPool passes: every thread of the first round finds a  *)
(* one, of the second a two, of the third nothing; and main counts as many *)
(* ones and twos as it has added (object_pool.cpp:34-36, 177, 184).        *)
THEOREM PoolTestPasses == Spec => []Pool!Passed
BY PoolInvariant, PoolTestInvariant, PassedFollows, PTL

-----------------------------------------------------------------------------
(* The test of Semaphore *)

(* What is proved of queues holds of those of the two semaphores. *)
Queues == INSTANCE SemaphoreProofs WITH
  Threads <- Workers \cup {main_thread}, Requests <- Nat, Gifts <- Nat, Initial <- 0,
  NoThread <- CHOOSE x : x \notin Workers \cup {main_thread}, MaxGiven <- 0,
  mutex <- 0, resources <- from_available, waiting_threads <- from_waiting,
  thread_should_continue <- <<>>, pc <- <<>>, amount <- <<>>, given <- 0, acquired <- 0

LEMMA QueuesAssumptions == Queues!ThreadAssumption /\ Queues!UnitsAssumption
<1>1. Queues!ThreadAssumption
  BY NoSetContainsEverything DEF Queues!ThreadAssumption
<1>2. Queues!UnitsAssumption
  BY DEF Queues!UnitsAssumption
<1> QED BY <1>1, <1>2

LEMMA OnQueues ==
  /\ \A k, q : Counter!From!NeedOfFirst(k, q) = Queues!NeedOfFirst(k, q)
  /\ \A k, q : Counter!To!NeedOfFirst(k, q) = Queues!NeedOfFirst(k, q)
  /\ \A q, r : Counter!From!ServedCount(q, r) = Queues!ServedCount(q, r)
  /\ \A q, r : Counter!To!ServedCount(q, r) = Queues!ServedCount(q, r)
<1>1. \A k, q : Counter!From!NeedOfFirst(k, q) = Queues!NeedOfFirst(k, q)
  BY DEF Counter!From!NeedOfFirst, Queues!NeedOfFirst, Counter!From!SumFunction, Queues!SumFunction,
         Counter!From!SumFunctionOnSet, Queues!SumFunctionOnSet,
         Counter!From!FoldFunctionOnSet, Queues!FoldFunctionOnSet,
         Counter!From!MapThenFoldSet, Queues!MapThenFoldSet
<1>2. \A k, q : Counter!To!NeedOfFirst(k, q) = Queues!NeedOfFirst(k, q)
  BY DEF Counter!To!NeedOfFirst, Queues!NeedOfFirst, Counter!To!SumFunction, Queues!SumFunction,
         Counter!To!SumFunctionOnSet, Queues!SumFunctionOnSet,
         Counter!To!FoldFunctionOnSet, Queues!FoldFunctionOnSet,
         Counter!To!MapThenFoldSet, Queues!MapThenFoldSet
<1>3. \A q, r : Counter!From!ServedCount(q, r) = Queues!ServedCount(q, r)
  BY <1>1 DEF Counter!From!ServedCount, Queues!ServedCount, Counter!From!Max, Queues!Max
<1>4. \A q, r : Counter!To!ServedCount(q, r) = Queues!ServedCount(q, r)
  BY <1>2 DEF Counter!To!ServedCount, Queues!ServedCount, Counter!To!Max, Queues!Max
<1> QED BY <1>1, <1>2, <1>3, <1>4

UnitQueue(q) == q \in Seq([thread : Workers, resources_needed : {1}])

LEMMA UnitQueueTypes ==
  ASSUME NEW q, UnitQueue(q)
  PROVE  /\ Queues!IsQueue(q) /\ Len(q) \in Nat
         /\ \A i \in 1..Len(q) : q[i].thread \in Workers /\ q[i].resources_needed = 1
<1>1. [thread : Workers, resources_needed : {1}]
        \subseteq Queues!Entries(Workers \cup {main_thread}, Nat)
  BY DEF Queues!Entries
<1>2. Queues!IsQueue(q)
  BY <1>1, SeqMonotonic DEF UnitQueue, Queues!IsQueue
<1>3. Len(q) \in Nat /\ \A i \in 1..Len(q) : q[i] \in [thread : Workers, resources_needed : {1}]
  BY LenProperties, ElementOfSeq DEF UnitQueue
<1> QED BY <1>2, <1>3

(* Of a queue of requests for one unit, the first k need k. *)
LEMMA UnitNeed ==
  ASSUME NEW q, UnitQueue(q), NEW k \in 0..Len(q)
  PROVE  Queues!NeedOfFirst(k, q) = k
<1> DEFINE Good == {n \in Nat : n <= Len(q) => Queues!NeedOfFirst(n, q) = n}
<1>1. 0 \in Good
  <2>1. 0 \in 0..Len(q)
    BY UnitQueueTypes
  <2>2. Queues!NeedOfFirst(0, q) = 0
    BY <2>1, QueuesAssumptions, UnitQueueTypes, Queues!NeedTypes
  <2> QED BY <2>2
<1>2. ASSUME NEW n \in Good PROVE n + 1 \in Good
  <2>1. SUFFICES ASSUME n + 1 <= Len(q) PROVE Queues!NeedOfFirst(n + 1, q) = n + 1
    OBVIOUS
  <2>2. n \in Nat /\ Len(q) \in Nat /\ n < Len(q) /\ n + 1 \in 1..Len(q)
    BY <2>1, UnitQueueTypes
  <2>3. Queues!NeedOfFirst(n + 1, q) = Queues!NeedOfFirst(n, q) + q[n + 1].resources_needed
    BY <2>2, QueuesAssumptions, UnitQueueTypes, Queues!NeedNext
  <2>4. Queues!NeedOfFirst(n, q) = n /\ q[n + 1].resources_needed = 1
    BY <1>2, <2>2, UnitQueueTypes
  <2> QED BY <2>3, <2>4
<1>3. Good = Nat
  <2>1. Good \in SUBSET Nat
    OBVIOUS
  <2> HIDE DEF Good
  <2> QED BY <1>1, <1>2, <2>1, QueuesAssumptions, Queues!NaturalInduction
<1> QED BY <1>3, UnitQueueTypes

(* give of threads_acquire_from serves as many as it takes units for, *)
LEMMA ThreadsServed ==
  ASSUME NEW q, UnitQueue(q), NEW r \in Nat
  PROVE  LET m == Counter!From!ServedCount(q, r)
         IN  m \in 0..Len(q) /\ Counter!From!NeedOfFirst(m, q) = m /\ m <= r
<1> DEFINE m == Counter!From!ServedCount(q, r)
<1>1. m = Queues!ServedCount(q, r)
  BY OnQueues
<1>2. m \in 0..Len(q) /\ Queues!NeedOfFirst(m, q) <= r
  BY <1>1, QueuesAssumptions, UnitQueueTypes, Queues!ServedProperties
<1> HIDE DEF m
<1>3. Queues!NeedOfFirst(m, q) = m
  BY <1>2, UnitNeed
<1>4. Counter!From!NeedOfFirst(m, q) = m
  BY <1>3, OnQueues
<1> QED BY <1>2, <1>3, <1>4 DEF m

Turn(u) == [thread |-> main_thread, resources_needed |-> u]

(* that of threads_give_to nobody, or main with all it has asked for. *)
LEMMA MainServed ==
  ASSUME NEW u \in Nat, NEW r \in Nat, NEW q, q = <<>> \/ q = <<Turn(u)>>
  PROVE  LET m == Counter!To!ServedCount(q, r)
             rest == SubSeq(q, m + 1, Len(q))
         IN  \/ Counter!To!NeedOfFirst(m, q) = 0 /\ rest = q
             \/ q # <<>> /\ u <= r /\ Counter!To!NeedOfFirst(m, q) = u /\ rest = <<>>
<1> DEFINE m == Counter!To!ServedCount(q, r)
           E == Queues!Entries(Workers \cup {main_thread}, Nat)
<1>1. m = Queues!ServedCount(q, r)
  BY OnQueues
<1>2. Queues!IsQueue(q) /\ q \in Seq(E)
  <2>1. Turn(u) \in E
    BY DEF Queues!Entries, Turn
  <2>2. <<>> \in Seq(E) /\ <<Turn(u)>> \in Seq(E)
    BY <2>1
  <2> QED BY <2>2 DEF Queues!IsQueue
<1>3. CASE q = <<>> \/ ~(u <= r)
  <2>1. Len(q) > 0 => q[1].resources_needed > r
    BY <1>3 DEF Turn
  <2>2. m = 0 /\ Queues!NeedOfFirst(m, q) = 0
    BY <1>1, <1>2, <2>1, QueuesAssumptions, Queues!ServedNone
  <2>3. SubSeq(q, 1, Len(q)) = q
    BY <1>2, SubSeqFull
  <2> HIDE DEF m
  <2>4. Counter!To!NeedOfFirst(m, q) = 0 /\ SubSeq(q, m + 1, Len(q)) = q
    BY <2>2, <2>3, OnQueues
  <2> QED BY <2>4 DEF m
<1>4. CASE q = <<Turn(u)>> /\ u <= r
  <2>1. q # <<>> /\ Len(q) = 1 /\ q[1].resources_needed = u
    BY <1>4 DEF Turn
  <2>2. /\ m > 0 /\ m \in 0..1
        /\ Queues!NeedOfFirst(m, q) = u + Queues!NeedOfFirst(m - 1, Tail(q))
    <3>1. /\ Queues!ServedCount(q, r) > 0
          /\ Queues!NeedOfFirst(Queues!ServedCount(q, r), q) =
               q[1].resources_needed + Queues!NeedOfFirst(Queues!ServedCount(q, r) - 1, Tail(q))
      BY <1>2, <1>4, <2>1, QueuesAssumptions, Queues!ServedTail
    <3>2. Queues!ServedCount(q, r) \in 0..Len(q)
      BY <1>2, QueuesAssumptions, Queues!ServedProperties
    <3> QED BY <1>1, <2>1, <3>1, <3>2
  <2> HIDE DEF m
  <2>3. m = 1 /\ m - 1 = 0
    BY <2>2
  <2>4. Queues!NeedOfFirst(0, Tail(q)) = 0
    <3>1. Tail(q) \in Seq(E) /\ Len(Tail(q)) = 0
      BY <1>2, <2>1, HeadTailProperties
    <3>2. Queues!IsQueue(Tail(q)) /\ 0 \in 0..Len(Tail(q))
      BY <3>1 DEF Queues!IsQueue
    <3> QED BY <3>2, QueuesAssumptions, Queues!NeedTypes
  <2>5. SubSeq(q, m + 1, Len(q)) = <<>>
    BY <2>1, <2>3, SubSeqEmpty
  <2>6. Counter!To!NeedOfFirst(m, q) = u
    BY <2>2, <2>3, <2>4, OnQueues
  <2> QED BY <1>4, <2>1, <2>5, <2>6 DEF m
<1> HIDE DEF m
<1>5. \/ Counter!To!NeedOfFirst(m, q) = 0 /\ SubSeq(q, m + 1, Len(q)) = q
      \/ q # <<>> /\ u <= r /\ Counter!To!NeedOfFirst(m, q) = u /\ SubSeq(q, m + 1, Len(q)) = <<>>
  BY <1>3, <1>4 DEF m
<1> QED BY <1>5 DEF m

(* A queue in which nobody stands twice has as many threads as entries. *)
LEMMA ThreadsCounted ==
  ASSUME NEW q, UnitQueue(q),
         \A i, j \in 1..Len(q) : q[i].thread = q[j].thread => i = j
  PROVE  LET T == {q[i].thread : i \in 1..Len(q)}
         IN  IsFiniteSet(T) /\ Cardinality(T) = Len(q)
<1> DEFINE T == {q[i].thread : i \in 1..Len(q)}
           f == [i \in 1..Len(q) |-> q[i].thread]
<1>1. f \in Bijection(1..Len(q), T)
  <2>1. f \in [1..Len(q) -> T]
    OBVIOUS
  <2>2. \A i, j \in 1..Len(q) : f[i] = f[j] => i = j
    OBVIOUS
  <2>3. \A t \in T : \E i \in 1..Len(q) : f[i] = t
    OBVIOUS
  <2> HIDE DEF f, T
  <2> QED BY <2>1, <2>2, <2>3, Fun_IsBij
<1>2. Len(q) \in Nat
  BY UnitQueueTypes
<1>3. IsFiniteSet(1..Len(q)) /\ Cardinality(1..Len(q)) = Len(q)
  <2>1. PICK n \in Nat : n = Len(q)
    BY <1>2
  <2>2. IsFiniteSet(1..n) /\ Cardinality(1..n) = n
    BY FS_Interval
  <2> QED BY <2>1, <2>2
<1>4. ExistsBijection(1..Len(q), T)
  BY <1>1 DEF ExistsBijection
<1> HIDE DEF T
<1>5. IsFiniteSet(T) /\ Cardinality(T) = Len(q)
  BY <1>3, <1>4, FS_Bijection
<1> QED BY <1>5 DEF T

-----------------------------------------------------------------------------

Called == {t \in Workers : worker[t] # "acquire"}
Ended  == {t \in Workers : worker[t] = "ended"}
Units  == give_segments[segment]

InSegments ==
  /\ give_segments \in Segmentations
  /\ num_true \in Nat
  /\ segment \in Nat
  /\ place \in {"give", "acquire", "acquired", "count", "join", "ended"}
  /\ place \in {"give", "acquire", "acquired", "count"} =>
       segment \in 1..Len(give_segments)

FlagsSet ==
  /\ worker \in [Workers -> {"acquire", "acquired", "flag", "give", "ended"}]
  /\ flags = {t \in Workers : worker[t] \in {"give", "ended"}}

UnitsOut == num_true + IF place \in {"acquire", "acquired"} THEN Units ELSE 0

(* Of the units that main has given, every thread that has called acquire  *)
(* has one, except those that wait.                                        *)
UnitsGiven ==
  /\ from_available \in Nat
  /\ UnitQueue(from_waiting)
  /\ \A i \in 1..Len(from_waiting) : worker[from_waiting[i].thread] = "acquired"
  /\ \A i, j \in 1..Len(from_waiting) :
       from_waiting[i].thread = from_waiting[j].thread => i = j
  /\ from_available + Cardinality(Called) = UnitsOut + Len(from_waiting)

UnitsBack == num_true + IF place = "acquired" /\ to_waiting = <<>> THEN Units ELSE 0

(* Of the units that the threads have given, main has those it has counted.*)
UnitsReturned ==
  /\ to_available \in Nat
  /\ \/ to_waiting = <<>>
     \/ place = "acquired" /\ to_waiting = <<Turn(Units)>>
  /\ to_available + UnitsBack = Cardinality(Ended)

CounterTestInv == InSegments /\ FlagsSet /\ UnitsGiven /\ UnitsReturned

LEMMA UnitsNatural ==
  ASSUME InSegments, segment \in 1..Len(give_segments)
  PROVE  Units \in Nat
<1>1. give_segments \in Seq(Nat)
  BY SegmentsAssumption DEF InSegments
<1> QED BY <1>1, ElementOfSeq DEF Units

LEMMA OutType ==
  ASSUME InSegments
  PROVE  UnitsOut \in Nat /\ UnitsBack \in Nat
<1>1. place \in {"acquire", "acquired"} => Units \in Nat
  BY UnitsNatural DEF InSegments
<1> QED BY <1>1 DEF InSegments, UnitsOut, UnitsBack

LEMMA WorkersCounted ==
  /\ IsFiniteSet(Called) /\ Cardinality(Called) \in Nat
  /\ IsFiniteSet(Ended) /\ Cardinality(Ended) \in Nat
<1>1. Called \in SUBSET Workers /\ Ended \in SUBSET Workers /\ IsFiniteSet(Workers)
  BY SegmentsAssumption DEF Called, Ended
<1> QED BY <1>1, FS_Subset, FS_CardinalityType

LEMMA CounterTestInit == Init => CounterTestInv
<1> SUFFICES ASSUME Init PROVE CounterTestInv
  OBVIOUS
<1>1. /\ segment = 1 /\ num_true = 0 /\ place = "give" /\ flags = {}
      /\ worker = [t \in Workers |-> "acquire"] /\ give_segments \in Segmentations
      /\ from_available = 0 /\ from_waiting = <<>> /\ to_available = 0 /\ to_waiting = <<>>
  BY DEF Init, Counter!Init, Counter!From!Init, Counter!To!Init
<1>2. InSegments
  <2>1. give_segments \in Seq(Nat) /\ give_segments # <<>>
    BY <1>1, SegmentsAssumption
  <2>2. Len(give_segments) \in Nat \ {0}
    BY <2>1, EmptySeq
  <2>3. 1 \in 1..Len(give_segments)
    BY <2>2
  <2> QED BY <1>1, <2>3 DEF InSegments
<1>3. FlagsSet
  BY <1>1 DEF FlagsSet
<1>4. Cardinality(Called) = 0 /\ Cardinality(Ended) = 0
  <2>1. Called = {} /\ Ended = {}
    BY <1>1 DEF Called, Ended
  <2> QED BY <2>1, FS_EmptySet
<1>5. UnitsGiven
  <2>1. UnitQueue(from_waiting) /\ Len(from_waiting) = 0
    BY <1>1 DEF UnitQueue
  <2> QED BY <1>1, <1>4, <2>1 DEF UnitsGiven, UnitsOut
<1>6. UnitsReturned
  BY <1>1, <1>4 DEF UnitsReturned, UnitsBack
<1> QED BY <1>2, <1>3, <1>5, <1>6 DEF CounterTestInv

(* A thread that goes on is counted where it has come. *)
LEMMA ThreadGoes ==
  ASSUME CounterTestInv, NEW t \in Workers, NEW from, NEW to, Counter!Goto(t, from, to),
         from \in {"acquire", "acquired", "flag", "give"},
         to \in {"acquired", "flag", "give", "ended"}
  PROVE  /\ worker' \in [Workers -> {"acquire", "acquired", "flag", "give", "ended"}]
         /\ worker[t] = from /\ worker'[t] = to
         /\ \A u \in Workers \ {t} : worker'[u] = worker[u]
         /\ Cardinality(Called') = Cardinality(Called) + IF from = "acquire" THEN 1 ELSE 0
         /\ Cardinality(Ended') = Cardinality(Ended) + IF to = "ended" THEN 1 ELSE 0
<1>1. /\ worker' \in [Workers -> {"acquire", "acquired", "flag", "give", "ended"}]
      /\ worker[t] = from /\ worker'[t] = to
      /\ \A u \in Workers \ {t} : worker'[u] = worker[u]
  BY DEF Counter!Goto, CounterTestInv, FlagsSet
<1>2. Called' = Called \cup {t} /\ (t \in Called <=> from # "acquire")
  BY <1>1 DEF Called
<1>3. /\ to = "ended" => Ended' = Ended \cup {t} /\ t \notin Ended
      /\ to # "ended" => Ended' = Ended
  BY <1>1 DEF Ended
<1>4. Cardinality(Called') = Cardinality(Called) + IF from = "acquire" THEN 1 ELSE 0
  <2>1. Cardinality(Called \cup {t})
          = IF t \in Called THEN Cardinality(Called) ELSE Cardinality(Called) + 1
    BY WorkersCounted, FS_AddElement
  <2> QED BY <1>2, <2>1, WorkersCounted
<1>5. Cardinality(Ended') = Cardinality(Ended) + IF to = "ended" THEN 1 ELSE 0
  <2>1. Cardinality(Ended \cup {t})
          = IF t \in Ended THEN Cardinality(Ended) ELSE Cardinality(Ended) + 1
    BY WorkersCounted, FS_AddElement
  <2>2. CASE to = "ended"
    BY <1>3, <2>1, <2>2
  <2>3. CASE to # "ended"
    <3>1. Cardinality(Ended') = Cardinality(Ended)
      BY <1>3, <2>3, Zenon
    <3> QED BY <2>3, <3>1, WorkersCounted
  <2> QED BY <2>2, <2>3
<1> QED BY <1>1, <1>4, <1>5

LEMMA AcquireStep ==
  ASSUME CounterTestInv, NEW t \in Workers, Counter!Acquire(t)
  PROVE  CounterTestInv'
<1> USE DEF CounterTestInv, Counter!counting, Counter!give_to
<1>1. /\ worker' \in [Workers -> {"acquire", "acquired", "flag", "give", "ended"}]
      /\ worker[t] = "acquire" /\ worker'[t] = "acquired"
      /\ \A u \in Workers \ {t} : worker'[u] = worker[u]
      /\ Cardinality(Called') = Cardinality(Called) + 1
      /\ Cardinality(Ended') = Cardinality(Ended)
  BY ThreadGoes, WorkersCounted DEF Counter!Acquire
<1>2. UNCHANGED <<give_segments, segment, num_true, place, flags, to_available, to_waiting>>
  BY DEF Counter!Acquire
<1>3. InSegments'
  BY <1>2 DEF InSegments
<1>4. FlagsSet'
  BY <1>1, <1>2 DEF FlagsSet
<1>5. UnitsReturned'
  BY <1>1, <1>2, Zenon DEF UnitsReturned, UnitsBack, Units
<1>6. UnitsOut' = UnitsOut
  BY <1>2 DEF UnitsOut, Units
<1>7. UnitsGiven'
  <2> DEFINE e == [thread |-> t, resources_needed |-> 1]
  <2>1. CASE Counter!From!AcquireAtOnce(t, 1)
    <3>1. from_waiting = <<>> /\ 1 <= from_available /\ from_waiting' = <<>>
          /\ from_available' = from_available - 1
      BY <2>1 DEF Counter!From!AcquireAtOnce
    <3>2. from_available' \in Nat
          /\ from_available' + Cardinality(Called') = from_available + Cardinality(Called)
      BY <1>1, <3>1, WorkersCounted DEF UnitsGiven
    <3> QED BY <1>6, <3>1, <3>2 DEF UnitsGiven
  <2>2. CASE Counter!From!AcquireLater(t, 1)
    <3>1. from_available' = from_available /\ from_waiting' = Append(from_waiting, e)
      BY <2>2 DEF Counter!From!AcquireLater
    <3>2. PICK q, n : q = from_waiting /\ n = Len(from_waiting)
      OBVIOUS
    <3>3. /\ n \in Nat /\ Len(q) = n /\ UnitQueue(q)
          /\ \A i \in 1..n : q[i].thread \in Workers /\ worker[q[i].thread] = "acquired"
          /\ \A i, j \in 1..n : q[i].thread = q[j].thread => i = j
      BY <3>2, UnitQueueTypes DEF UnitsGiven
    <3>4. /\ UnitQueue(Append(q, e)) /\ Len(Append(q, e)) = n + 1
          /\ \A i \in 1..n : Append(q, e)[i] = q[i]
          /\ Append(q, e)[n + 1] = e
      BY <3>3, AppendProperties DEF UnitQueue
    <3>5. \A i \in 1..n : q[i].thread # t
      BY <1>1, <3>3
    <3>6. \A i \in 1..n + 1 : i \in 1..n \/ i = n + 1
      BY <3>3
    <3>7. \A i \in 1..n + 1 : worker'[Append(q, e)[i].thread] = "acquired"
      BY <1>1, <3>3, <3>4, <3>5, <3>6
    <3>8. ASSUME NEW i \in 1..n + 1, NEW j \in 1..n + 1,
                 Append(q, e)[i].thread = Append(q, e)[j].thread
          PROVE  i = j
      BY <3>3, <3>4, <3>5, <3>6, <3>8
    <3>9. from_available' + Cardinality(Called') = UnitsOut' + n + 1
      <4>1. /\ from_available + Cardinality(Called) = UnitsOut + n
            /\ from_available \in Nat
        BY <3>2 DEF UnitsGiven
      <4>2. UnitsOut = from_available + Cardinality(Called) - n /\ UnitsOut \in Int
        BY <4>1, <3>3, WorkersCounted, OutType
      <4> QED BY <1>1, <1>6, <3>1, <3>3, <4>1, <4>2, WorkersCounted
    <3>10. from_waiting' = Append(q, e)
      BY <3>1, <3>2
    <3> HIDE DEF e
    <3>11. UnitsOut' + n + 1 = UnitsOut' + (n + 1)
      BY <1>6, <3>3, OutType
    <3> QED BY <3>1, <3>4, <3>7, <3>8, <3>9, <3>10, <3>11 DEF UnitsGiven
  <2> QED BY <2>1, <2>2 DEF Counter!Acquire
<1> QED BY <1>3, <1>4, <1>5, <1>7

(* The count of the units that are out stays when main does.               *)
LEMMA OutStays ==
  ASSUME UNCHANGED <<give_segments, segment, num_true, place>>
  PROVE  /\ UnitsOut' = UnitsOut /\ Units' = Units /\ InSegments' = InSegments
         /\ (to_waiting' = to_waiting => UnitsBack' = UnitsBack)
BY DEF UnitsOut, Units, UnitsBack, InSegments

LEMMA AcquiredStep ==
  ASSUME CounterTestInv, NEW t \in Workers, Counter!Acquired(t) \/ Counter!SetFlag(t)
  PROVE  CounterTestInv'
<1> USE DEF CounterTestInv, Counter!counting, Counter!give_to, Counter!acquire_from
<1>1. /\ worker' \in [Workers -> {"acquire", "acquired", "flag", "give", "ended"}]
      /\ \/ worker[t] = "acquired" /\ worker'[t] = "flag"
         \/ worker[t] = "flag" /\ worker'[t] = "give"
      /\ \A u \in Workers \ {t} : worker'[u] = worker[u]
      /\ Cardinality(Called') = Cardinality(Called)
      /\ Cardinality(Ended') = Cardinality(Ended)
  BY ThreadGoes, WorkersCounted DEF Counter!Acquired, Counter!SetFlag
<1>2. UNCHANGED <<give_segments, segment, num_true, place, to_available, to_waiting,
                  from_available, from_waiting>>
  BY DEF Counter!Acquired, Counter!SetFlag, Counter!From!Return
<1>3. InSegments' /\ UnitsReturned'
  BY <1>1, <1>2, OutStays, Zenon DEF UnitsReturned
<1>4. FlagsSet'
  <2>1. CASE Counter!SetFlag(t)
    <3>1. worker[t] = "flag" /\ worker'[t] = "give" /\ flags' = flags \cup {t}
      BY <1>1, <2>1 DEF Counter!SetFlag, Counter!Goto
    <3> QED BY <1>1, <3>1 DEF FlagsSet
  <2>2. CASE Counter!Acquired(t)
    <3>1. worker[t] = "acquired" /\ worker'[t] = "flag" /\ flags' = flags
      BY <1>1, <2>2 DEF Counter!Acquired, Counter!Goto
    <3> QED BY <1>1, <3>1 DEF FlagsSet
  <2> QED BY <2>1, <2>2
<1>5. \A i \in 1..Len(from_waiting) :
        from_waiting[i].thread \in Workers \ {t} /\ worker'[from_waiting[i].thread] = "acquired"
  <2> TAKE i \in 1..Len(from_waiting)
  <2>1. from_waiting[i].thread \in Workers /\ worker[from_waiting[i].thread] = "acquired"
    BY UnitQueueTypes DEF UnitsGiven
  <2>2. from_waiting[i].thread # t
    <3>1. CASE Counter!SetFlag(t)
      BY <2>1, <3>1 DEF Counter!SetFlag, Counter!Goto
    <3>2. CASE Counter!Acquired(t)
      <4>1. t \notin Counter!From!ThreadsOf(from_waiting)
        BY <3>2 DEF Counter!Acquired, Counter!From!Return
      <4>2. i \in DOMAIN from_waiting
        BY LenProperties DEF UnitsGiven, UnitQueue
      <4> QED BY <4>1, <4>2 DEF Counter!From!ThreadsOf
    <3> QED BY <3>1, <3>2
  <2> QED BY <1>1, <2>1, <2>2
<1>6. UnitsGiven'
  BY <1>1, <1>2, <1>5, OutStays, Zenon DEF UnitsGiven
<1> QED BY <1>3, <1>4, <1>6

LEMMA GiveStep ==
  ASSUME CounterTestInv, NEW t \in Workers, Counter!Give(t)
  PROVE  CounterTestInv'
<1> USE DEF CounterTestInv, Counter!counting, Counter!acquire_from
<1>1. /\ worker' \in [Workers -> {"acquire", "acquired", "flag", "give", "ended"}]
      /\ worker[t] = "give" /\ worker'[t] = "ended"
      /\ \A u \in Workers \ {t} : worker'[u] = worker[u]
      /\ Cardinality(Called') = Cardinality(Called)
      /\ Cardinality(Ended') = Cardinality(Ended) + 1
  BY ThreadGoes, WorkersCounted DEF Counter!Give
<1>2. UNCHANGED <<give_segments, segment, num_true, place, flags, from_available, from_waiting>>
  BY DEF Counter!Give
<1>3. InSegments' /\ Units' = Units /\ UnitsOut' = UnitsOut
  BY <1>2, OutStays
<1>4. FlagsSet'
  BY <1>1, <1>2 DEF FlagsSet
<1>5. UnitsGiven'
  <2>1. \A i \in 1..Len(from_waiting) : worker'[from_waiting[i].thread] = "acquired"
    <3> TAKE i \in 1..Len(from_waiting)
    <3>1. from_waiting[i].thread \in Workers /\ worker[from_waiting[i].thread] = "acquired"
      BY UnitQueueTypes DEF UnitsGiven
    <3> QED BY <1>1, <3>1
  <2> QED BY <1>1, <1>2, <1>3, <2>1, Zenon DEF UnitsGiven
<1>6. UnitsReturned'
  <2>1. PICK q, r : q = to_waiting /\ r = to_available + 1
    OBVIOUS
  <2>2. PICK m : m = Counter!To!ServedCount(q, r)
    OBVIOUS
  <2>3. /\ to_available' = r - Counter!To!NeedOfFirst(m, q)
        /\ to_waiting' = SubSeq(q, m + 1, Len(q))
    BY <2>1, <2>2 DEF Counter!Give, Counter!To!Give
  <2>4. r \in Nat /\ to_available \in Nat /\ (q = <<>> \/ (q = <<Turn(Units)>> /\ place = "acquired"))
    BY <2>1 DEF UnitsReturned
  <2>5. to_available + UnitsBack = Cardinality(Ended)
    BY DEF UnitsReturned
  <2>6. CASE Counter!To!NeedOfFirst(m, q) = 0 /\ SubSeq(q, m + 1, Len(q)) = q
    <3>1. to_available' = to_available + 1 /\ to_waiting' = to_waiting
      BY <2>1, <2>3, <2>4, <2>6
    <3>2. UnitsBack' = UnitsBack /\ UnitsBack \in Nat
      BY <1>2, <3>1, OutStays, OutType
    <3>3. to_available' \in Nat /\ to_available' + UnitsBack' = Cardinality(Ended')
      BY <1>1, <2>4, <2>5, <3>1, <3>2
    <3> QED BY <1>2, <1>3, <3>1, <3>3, Zenon DEF UnitsReturned
  <2>7. CASE /\ q = <<Turn(Units)>> /\ place = "acquired" /\ Units \in Nat /\ Units <= r
             /\ Counter!To!NeedOfFirst(m, q) = Units /\ SubSeq(q, m + 1, Len(q)) = <<>>
    <3>1. to_available' = r - Units /\ to_waiting' = <<>> /\ to_waiting # <<>>
      BY <2>1, <2>3, <2>7
    <3>2. UnitsBack' = num_true + Units /\ UnitsBack = num_true + 0 /\ num_true \in Nat
      BY <1>2, <1>3, <2>7, <3>1 DEF UnitsBack, InSegments
    <3>3. to_available' \in Nat /\ to_available' + UnitsBack' = Cardinality(Ended')
      BY <1>1, <2>1, <2>4, <2>5, <2>7, <3>1, <3>2
    <3> QED BY <3>1, <3>3 DEF UnitsReturned
  <2>8. CASE q = <<>>
    <3>1. \/ Counter!To!NeedOfFirst(m, q) = 0 /\ SubSeq(q, m + 1, Len(q)) = q
          \/ q # <<>>
      BY <2>2, <2>4, <2>8, MainServed
    <3> QED BY <2>6, <2>8, <3>1
  <2>9. CASE q = <<Turn(Units)>> /\ place = "acquired"
    <3>1. Units \in Nat
      BY <2>9, UnitsNatural DEF InSegments
    <3>2. \/ Counter!To!NeedOfFirst(m, q) = 0 /\ SubSeq(q, m + 1, Len(q)) = q
          \/ /\ Units <= r
             /\ Counter!To!NeedOfFirst(m, q) = Units /\ SubSeq(q, m + 1, Len(q)) = <<>>
      <4>1. PICK u \in Nat : u = Units
        BY <3>1
      <4>2. q = <<>> \/ q = <<Turn(u)>>
        BY <2>9, <4>1, Zenon
      <4>3. \/ Counter!To!NeedOfFirst(m, q) = 0 /\ SubSeq(q, m + 1, Len(q)) = q
            \/ /\ u <= r
               /\ Counter!To!NeedOfFirst(m, q) = u /\ SubSeq(q, m + 1, Len(q)) = <<>>
        BY <2>2, <2>4, <4>2, MainServed
      <4> QED BY <4>1, <4>3, Zenon
    <3> QED BY <2>6, <2>7, <2>9, <3>1, <3>2
  <2> QED BY <2>4, <2>8, <2>9
<1> QED BY <1>3, <1>4, <1>5, <1>6

(* main gives units to as many threads as it can serve. *)
LEMMA SegmentGivenStep ==
  ASSUME CounterTestInv, Counter!MainGive
  PROVE  CounterTestInv'
<1> USE DEF CounterTestInv, Counter!counting, Counter!give_to
<1>1. /\ place = "give" /\ place' = "acquire"
      /\ UNCHANGED <<give_segments, segment, num_true, worker, flags, to_available, to_waiting>>
  BY DEF Counter!MainGive, Counter!MainGoto
<1>2. /\ segment \in 1..Len(give_segments) /\ Units \in Nat /\ num_true \in Nat
      /\ Units' = Units /\ UnitsOut = num_true + 0 /\ UnitsOut' = num_true + Units
      /\ Called' = Called /\ Ended' = Ended
  BY <1>1, UnitsNatural DEF InSegments, UnitsOut, Units, Called, Ended
<1>3. InSegments' /\ FlagsSet'
  BY <1>1 DEF InSegments, FlagsSet
<1>4. UnitsReturned'
  <2>1. to_waiting = <<>> /\ UnitsBack' = UnitsBack
    BY <1>1 DEF UnitsReturned, UnitsBack
  <2> QED BY <1>1, <1>2, <2>1, Zenon DEF UnitsReturned
<1>5. UnitsGiven'
  <2>1. PICK q, r, n : q = from_waiting /\ r = from_available + Units /\ n = Len(q)
    OBVIOUS
  <2>2. /\ UnitQueue(q) /\ r \in Nat /\ from_available \in Nat /\ n \in Nat
        /\ \A i \in 1..n : worker[q[i].thread] = "acquired"
        /\ \A i, j \in 1..n : q[i].thread = q[j].thread => i = j
        /\ from_available + Cardinality(Called) = UnitsOut + n
    BY <1>2, <2>1, UnitQueueTypes DEF UnitsGiven
  <2>3. PICK m : m = Counter!From!ServedCount(q, r)
    OBVIOUS
  <2>4. m \in 0..n /\ m <= r /\ Counter!From!NeedOfFirst(m, q) = m
    BY <2>1, <2>2, <2>3, ThreadsServed
  <2>5. /\ from_available' = r - Counter!From!NeedOfFirst(m, q)
        /\ from_waiting' = SubSeq(q, m + 1, n)
    BY <2>1, <2>3 DEF Counter!MainGive, Counter!From!Give, Units
  <2>6. PICK s : s = SubSeq(q, m + 1, n)
    OBVIOUS
  <2>7. UnitQueue(s) /\ Len(s) = n - m /\ \A i \in 1..n - m : s[i] = q[m + i]
    <3>1. \A i \in m + 1..n : q[i] \in [thread : Workers, resources_needed : {1}]
      <4> TAKE i \in m + 1..n
      <4>1. i \in 1..Len(q)
        BY <2>1, <2>2, <2>4
      <4> QED BY <2>2, <4>1, ElementOfSeq DEF UnitQueue
    <3>2. m + 1 \in Int /\ n \in Int
      BY <2>2, <2>4
    <3>3. /\ s \in Seq([thread : Workers, resources_needed : {1}])
          /\ Len(s) = IF m + 1 <= n THEN n - (m + 1) + 1 ELSE 0
          /\ \A i \in 1..n - (m + 1) + 1 : s[i] = q[(m + 1) + i - 1]
      BY <2>6, <3>1, <3>2, SubSeqProperties
    <3>4. /\ n - (m + 1) + 1 = n - m /\ (m + 1 <= n \/ n - m = 0)
          /\ \A i \in 1..n - m : (m + 1) + i - 1 = m + i
      BY <2>2, <2>4
    <3> QED BY <3>3, <3>4 DEF UnitQueue
  <2>8. \A i \in 1..n - m : m + i \in 1..n
    BY <2>2, <2>4
  <2>9. \A i \in 1..n - m : worker'[s[i].thread] = "acquired"
    BY <1>1, <2>2, <2>7, <2>8
  <2>10. ASSUME NEW i \in 1..n - m, NEW j \in 1..n - m, s[i].thread = s[j].thread
         PROVE  i = j
    <3>1. m + i = m + j
      BY <2>2, <2>7, <2>8, <2>10
    <3> QED BY <2>2, <2>4, <3>1
  <2>11. from_available' \in Nat
         /\ from_available' + Cardinality(Called') = UnitsOut' + (n - m)
    <3>1. Cardinality(Called') = Cardinality(Called) /\ Cardinality(Called) \in Nat
      BY <1>2, WorkersCounted
    <3> QED BY <1>2, <2>1, <2>2, <2>4, <2>5, <3>1
  <2>12. from_waiting' = s
    BY <2>5, <2>6
  <2> QED BY <2>7, <2>9, <2>10, <2>11, <2>12 DEF UnitsGiven
<1> QED BY <1>3, <1>4, <1>5

LEMMA SegmentAskedStep ==
  ASSUME CounterTestInv, Counter!MainAcquire
  PROVE  CounterTestInv'
<1> USE DEF CounterTestInv, Counter!counting, Counter!acquire_from
<1>1. /\ place = "acquire" /\ place' = "acquired"
      /\ UNCHANGED <<give_segments, segment, num_true, worker, flags, from_available,
                     from_waiting>>
  BY DEF Counter!MainAcquire, Counter!MainGoto
<1>2. /\ Units \in Nat /\ num_true \in Nat
      /\ Units' = Units /\ UnitsOut' = UnitsOut
      /\ Called' = Called /\ Ended' = Ended
  BY <1>1, UnitsNatural DEF InSegments, UnitsOut, Units, Called, Ended
<1>3. InSegments' /\ FlagsSet'
  BY <1>1 DEF InSegments, FlagsSet
<1>4. UnitsGiven'
  BY <1>1, <1>2, Zenon DEF UnitsGiven
<1>5. UnitsReturned'
  <2>1. /\ to_available \in Nat /\ to_waiting = <<>>
        /\ to_available + (num_true + 0) = Cardinality(Ended)
    BY <1>1 DEF UnitsReturned, UnitsBack
  <2>2. CASE Counter!To!AcquireAtOnce(main_thread, give_segments[segment])
    <3>1. /\ Units <= to_available /\ to_waiting' = <<>>
          /\ to_available' = to_available - Units
      BY <2>1, <2>2 DEF Counter!To!AcquireAtOnce, Units
    <3>2. UnitsBack' = num_true + Units
      BY <1>1, <1>2, <3>1 DEF UnitsBack
    <3>3. to_available' \in Nat /\ to_available' + UnitsBack' = Cardinality(Ended')
      BY <1>2, <2>1, <3>1, <3>2
    <3> QED BY <3>1, <3>3 DEF UnitsReturned
  <2>3. CASE Counter!To!AcquireLater(main_thread, give_segments[segment])
    <3>1. to_available' = to_available /\ to_waiting' = <<Turn(Units)>>
      BY <2>1, <2>3 DEF Counter!To!AcquireLater, Units, Turn
    <3>2. UnitsBack' = num_true + 0
      BY <1>1, <3>1 DEF UnitsBack
    <3>3. to_available' \in Nat /\ to_available' + UnitsBack' = Cardinality(Ended')
      BY <1>2, <2>1, <3>1, <3>2
    <3> QED BY <1>1, <1>2, <3>1, <3>3 DEF UnitsReturned
  <2> QED BY <2>2, <2>3 DEF Counter!MainAcquire
<1> QED BY <1>3, <1>4, <1>5

LEMMA MainAcquiredStep ==
  ASSUME CounterTestInv, Counter!MainAcquired
  PROVE  CounterTestInv'
<1> USE DEF CounterTestInv, Counter!acquire_from
<1>1. /\ place = "acquired" /\ place' = "count" /\ num_true' = num_true + Units
      /\ UNCHANGED <<give_segments, segment, worker, flags, from_available, from_waiting,
                     to_available, to_waiting>>
      /\ main_thread \notin Counter!To!ThreadsOf(to_waiting)
  BY DEF Counter!MainAcquired, Counter!MainGoto, Counter!To!Return, Units
<1>2. to_waiting = <<>>
  <2>1. to_waiting = <<>> \/ to_waiting = <<Turn(Units)>>
    BY DEF UnitsReturned
  <2>2. ASSUME to_waiting = <<Turn(Units)>> PROVE FALSE
    <3>1. 1 \in DOMAIN to_waiting /\ to_waiting[1].thread = main_thread
      BY <2>2 DEF Turn
    <3> QED BY <1>1, <3>1 DEF Counter!To!ThreadsOf
  <2> QED BY <2>1, <2>2
<1>3. /\ Units \in Nat /\ num_true \in Nat /\ num_true' \in Nat
      /\ UnitsOut = num_true + Units /\ UnitsOut' = num_true' + 0
      /\ UnitsBack = num_true + Units /\ UnitsBack' = num_true' + 0
      /\ Called' = Called /\ Ended' = Ended
  <2>1. Units \in Nat /\ num_true \in Nat
    BY <1>1, UnitsNatural DEF InSegments
  <2> QED BY <1>1, <1>2, <2>1 DEF UnitsOut, UnitsBack, Called, Ended
<1>4. UnitsOut' = UnitsOut /\ UnitsBack' = UnitsBack
  BY <1>1, <1>3
<1>5. InSegments' /\ FlagsSet'
  BY <1>1, <1>3 DEF InSegments, FlagsSet
<1>6. UnitsGiven'
  BY <1>1, <1>3, <1>4, Zenon DEF UnitsGiven
<1>7. UnitsReturned'
  BY <1>1, <1>2, <1>3, <1>4, Zenon DEF UnitsReturned
<1> QED BY <1>5, <1>6, <1>7

LEMMA CountStep ==
  ASSUME CounterTestInv, Counter!Count \/ Counter!Join
  PROVE  CounterTestInv'
<1> USE DEF CounterTestInv, Counter!acquire_from, Counter!give_to, Counter!counting
<1>1. /\ \/ place = "count" /\ segment' = segment + 1
            /\ \/ place' = "give" /\ segment < Len(give_segments)
               \/ place' = "join"
         \/ place = "join" /\ place' = "ended" /\ segment' = segment
      /\ UNCHANGED <<give_segments, num_true, worker, flags, from_available, from_waiting,
                     to_available, to_waiting>>
  BY DEF Counter!Count, Counter!Join, Counter!MainGoto
<1>2. /\ UnitsOut = num_true + 0 /\ UnitsOut' = num_true + 0
      /\ UnitsBack = num_true + 0 /\ UnitsBack' = num_true + 0
      /\ Called' = Called /\ Ended' = Ended
  BY <1>1 DEF UnitsOut, UnitsBack, Called, Ended
<1>3. InSegments'
  <2>1. give_segments \in Seq(Nat)
    BY SegmentsAssumption DEF InSegments
  <2>2. Len(give_segments) \in Nat
    BY <2>1, LenProperties
  <2> QED BY <1>1, <2>2 DEF InSegments
<1>4. FlagsSet'
  BY <1>1 DEF FlagsSet
<1>5. UnitsGiven'
  BY <1>1, <1>2, Zenon DEF UnitsGiven
<1>6. UnitsReturned'
  <2>1. to_waiting = <<>>
    BY <1>1 DEF UnitsReturned
  <2> QED BY <1>1, <1>2, <2>1, Zenon DEF UnitsReturned
<1> QED BY <1>3, <1>4, <1>5, <1>6

LEMMA CounterStays ==
  ASSUME CounterTestInv, UNCHANGED counter
  PROVE  CounterTestInv'
BY DEF CounterTestInv, counter, InSegments, FlagsSet, UnitsGiven, UnitsReturned, UnitsOut,
       UnitsBack, Units, Called, Ended

LEMMA CounterTestInvariant == Spec => []CounterTestInv
<1>1. CounterTestInv /\ [Next]_vars => CounterTestInv'
  <2> SUFFICES ASSUME CounterTestInv, [Next]_vars PROVE CounterTestInv'
    OBVIOUS
  <2>1. CASE Counter!Next
    BY <2>1, AcquireStep, AcquiredStep, GiveStep, SegmentGivenStep, SegmentAskedStep,
       MainAcquiredStep, CountStep DEF Counter!Next
  <2>2. CASE UNCHANGED counter
    BY <2>2, CounterStays
  <2> QED BY <2>1, <2>2 DEF Next, vars
<1> QED BY <1>1, CounterTestInit, PTL DEF Spec

(* At a count, those who have given a unit back have their flags set, and  *)
(* those whose flags are set hold a unit.                                  *)
LEMMA CountIsRight ==
  ASSUME CounterTestInv
  PROVE  Counter!Passed
<1> SUFFICES ASSUME place = "count" PROVE Cardinality(flags) = num_true
  BY DEF Counter!Passed, Counter!n_are_true, Counter!Cardinality, Cardinality
<1> USE DEF CounterTestInv
<1>1. num_true \in Nat /\ UnitsOut = num_true + 0 /\ UnitsBack = num_true + 0
  BY DEF InSegments, UnitsOut, UnitsBack
<1> DEFINE T == {from_waiting[i].thread : i \in 1..Len(from_waiting)}
<1>2. /\ flags \in SUBSET Called /\ Ended \in SUBSET flags /\ T \in SUBSET Called
      /\ flags \in SUBSET (Called \ T)
  <2>1. \A t \in T : t \in Workers /\ worker[t] = "acquired"
    BY UnitQueueTypes DEF UnitsGiven
  <2> HIDE DEF T
  <2> QED BY <2>1 DEF FlagsSet, Called, Ended
<1>3. IsFiniteSet(T) /\ Cardinality(T) = Len(from_waiting) /\ Len(from_waiting) \in Nat
  BY ThreadsCounted, UnitQueueTypes DEF UnitsGiven
<1> HIDE DEF T
<1>4. /\ IsFiniteSet(Called \ T)
      /\ Cardinality(Called \ T) = Cardinality(Called) - Len(from_waiting)
  <2>1. PICK C, U : C = Called /\ U = T
    OBVIOUS
  <2>2. C \cap U = U /\ IsFiniteSet(C)
    BY <1>2, <2>1, WorkersCounted
  <2>3. IsFiniteSet(C \ U) /\ Cardinality(C \ U) = Cardinality(C) - Cardinality(C \cap U)
    BY <2>2, FS_Difference
  <2> QED BY <1>3, <2>1, <2>2, <2>3
<1>5. IsFiniteSet(flags) /\ Cardinality(flags) <= Cardinality(Called \ T)
  BY <1>2, <1>4, FS_Subset
<1>6. Cardinality(Ended) <= Cardinality(flags) /\ Cardinality(flags) \in Nat
  BY <1>2, <1>5, FS_Subset, FS_CardinalityType
<1>7. /\ from_available \in Nat /\ from_available + Cardinality(Called) = num_true + Len(from_waiting)
      /\ to_available \in Nat /\ to_available + num_true = Cardinality(Ended)
  BY <1>1 DEF UnitsGiven, UnitsReturned
<1> QED BY <1>1, <1>3, <1>4, <1>5, <1>6, <1>7, WorkersCounted

(* The test of Semaphore passes: at each count exactly as many flags are   *)
(* set as units have been given, whatever the segments and however many    *)
(* the threads (semaphore.cpp:153).                                        *)
THEOREM CounterTestPasses == Spec => []Counter!Passed
BY CounterTestInvariant, CountIsRight, PTL

-----------------------------------------------------------------------------

(* The tests of ObjectPool, SocketAgent and Semaphore pass on every        *)
(* schedule, with any number of threads, objects and units, each of        *)
(* ObjectPool's rounds having as many threads as objects, and SocketAgent's*)
(* check being the one made by the threads with numbers of one digit       *)
(* (object_pool.cpp:34-36, 177, 184, socket_agent.cpp:472, semaphore.cpp:  *)
(* 153).                                                                   *)
THEOREM TestsAlwaysPass == Spec => []TestsPass
BY PoolTestPasses, AgentTestPasses, CounterTestPasses, PTL DEF TestsPass
=============================================================================
