------------------------ MODULE MessageStreamProofs ------------------------
(***************************************************************************)
(* MessageStream for any number of sending threads, any sizes of messages  *)
(* and any way that send splits and recv joins them.                       *)
(***************************************************************************)
EXTENDS MessageStream, SequenceTheorems, FiniteSetTheorems, WellFoundedInduction, TLAPS

(* A nonempty set of numbers has a least one. *)
LEMMA LeastNatural ==
  ASSUME NEW T \in SUBSET Nat, T # {}
  PROVE  \E m \in T : \A k \in T : m <= k
<1>1. PICK m \in T : \A k \in T : ~(<<k, m>> \in OpToRel(<, Nat))
  <2>1. IsWellFoundedOn(OpToRel(<, Nat), Nat) /\ T \subseteq Nat
    BY NatLessThanWellFounded
  <2> QED BY <2>1, WFMin
<1>2. ASSUME NEW k \in T PROVE m <= k
  <2>1. <<k, m>> \in Nat \X Nat /\ k \in Nat /\ m \in Nat
    OBVIOUS
  <2>2. ~(k < m)
    BY <1>1, <2>1, Zenon DEF OpToRel
  <2> QED BY <2>1, <2>2
<1> QED BY <1>2

(* Induction, with a set for the property. *)
LEMMA NaturalInduction ==
  ASSUME NEW T \in SUBSET Nat, 0 \in T, \A n \in T : n + 1 \in T
  PROVE  T = Nat
<1> DEFINE Bad == Nat \ T
<1>1. SUFFICES ASSUME Bad # {} PROVE FALSE
  OBVIOUS
<1>2. PICK n \in Bad : \A k \in Bad : n <= k
  BY <1>1, LeastNatural
<1>3. n - 1 \in T
  BY <1>2
<1> QED BY <1>2, <1>3

-----------------------------------------------------------------------------

(* The recursion of FlattenSeq over the first n elements. *)
IsFlat(f, ss, n) ==
  f = [i \in 1..n |-> IF i = 1 THEN ss[i] ELSE f[i - 1] \o ss[i]]

LEMMA FlattenUnfolded ==
  ASSUME NEW ss, Len(ss) # 0
  PROVE  FlattenSeq(ss) = (CHOOSE f : IsFlat(f, ss, Len(ss)))[Len(ss)]
BY DEF FlattenSeq, IsFlat

LEMMA FlatExists ==
  ASSUME NEW ss, NEW n \in Nat
  PROVE  \E f : IsFlat(f, ss, n)
<1> DEFINE Good == {k \in Nat : \E f : IsFlat(f, ss, k)}
<1>1. 0 \in Good
  <2>1. PICK f : f = [i \in 1..0 |-> 0]
    OBVIOUS
  <2>2. f = [i \in 1..0 |-> IF i = 1 THEN ss[i] ELSE f[i - 1] \o ss[i]]
    BY <2>1
  <2> QED BY <2>2 DEF IsFlat
<1>2. ASSUME NEW k \in Good PROVE k + 1 \in Good
  <2>1. PICK f : IsFlat(f, ss, k)
    OBVIOUS
  <2>2. PICK g : g = [i \in 1..k + 1 |->
                        IF i <= k THEN f[i] ELSE IF i = 1 THEN ss[i] ELSE f[k] \o ss[i]]
    OBVIOUS
  <2>3. k \in Nat
    OBVIOUS
  <2>4. ASSUME NEW i \in 1..k + 1
        PROVE  g[i] = IF i = 1 THEN ss[i] ELSE g[i - 1] \o ss[i]
    <3>1. CASE i <= k
      <4>1. i \in 1..k /\ g[i] = f[i]
        BY <2>2, <2>3, <3>1
      <4>2. f[i] = IF i = 1 THEN ss[i] ELSE f[i - 1] \o ss[i]
        BY <2>1, <4>1 DEF IsFlat
      <4>3. i # 1 => g[i - 1] = f[i - 1]
        BY <2>2, <2>3, <3>1
      <4> QED BY <4>1, <4>2, <4>3
    <3>2. CASE i = k + 1
      <4>1. i # 1 => k \in 1..k + 1 /\ g[k] = f[k] /\ i - 1 = k
        BY <2>2, <2>3, <3>2
      <4> QED BY <2>2, <2>3, <3>2, <4>1
    <3> QED BY <2>3, <3>1, <3>2
  <2>5. IsFlat(g, ss, k + 1)
    BY <2>2, <2>4 DEF IsFlat
  <2> QED BY <2>3, <2>5
<1>3. Good = Nat
  <2>1. Good \in SUBSET Nat
    OBVIOUS
  <2> HIDE DEF Good
  <2> QED BY <1>1, <1>2, <2>1, NaturalInduction
<1> QED BY <1>3

(* The recursion has one result, which depends on those elements only. *)
LEMMA FlatSame ==
  ASSUME NEW f, NEW ss, NEW n \in Nat, IsFlat(f, ss, n),
         NEW g, NEW tt, NEW m \in Nat, IsFlat(g, tt, m),
         n <= m, \A i \in 1..n : ss[i] = tt[i]
  PROVE  \A i \in 1..n : f[i] = g[i]
<1> DEFINE Good == {i \in Nat : i \in 1..n => f[i] = g[i]}
<1>1. 0 \in Good
  OBVIOUS
<1>2. ASSUME NEW k \in Good PROVE k + 1 \in Good
  <2>1. k \in Nat
    OBVIOUS
  <2>2. SUFFICES ASSUME k + 1 \in 1..n PROVE f[k + 1] = g[k + 1]
    BY <2>1
  <2>3. k + 1 \in 1..m /\ ss[k + 1] = tt[k + 1] /\ (k + 1) - 1 = k
    BY <2>1, <2>2
  <2>4. f[k + 1] = IF k + 1 = 1 THEN ss[k + 1] ELSE f[(k + 1) - 1] \o ss[k + 1]
    BY <2>2 DEF IsFlat
  <2>5. g[k + 1] = IF k + 1 = 1 THEN tt[k + 1] ELSE g[(k + 1) - 1] \o tt[k + 1]
    BY <2>3 DEF IsFlat
  <2>6. k + 1 # 1 => f[k] = g[k]
    BY <2>1, <2>2
  <2> QED BY <2>3, <2>4, <2>5, <2>6
<1>3. Good = Nat
  <2>1. Good \in SUBSET Nat
    OBVIOUS
  <2> HIDE DEF Good
  <2> QED BY <1>1, <1>2, <2>1, NaturalInduction
<1> QED BY <1>3

(* What FlattenSeq returns, *)
LEMMA FlattenIsFlat ==
  ASSUME NEW ss, Len(ss) \in Nat, Len(ss) # 0
  PROVE  \E f : IsFlat(f, ss, Len(ss)) /\ FlattenSeq(ss) = f[Len(ss)]
<1> DEFINE f == CHOOSE f : IsFlat(f, ss, Len(ss))
<1>1. IsFlat(f, ss, Len(ss))
  BY FlatExists
<1>2. FlattenSeq(ss) = f[Len(ss)]
  BY FlattenUnfolded
<1> QED BY <1>1, <1>2

LEMMA FlattenEmpty == FlattenSeq(<<>>) = <<>>
BY EmptySeq DEF FlattenSeq

(* of what type, *)
LEMMA FlattenType ==
  ASSUME NEW S, NEW ss \in Seq(Seq(S))
  PROVE  FlattenSeq(ss) \in Seq(S)
<1> DEFINE n == Len(ss)
<1>1. n \in Nat /\ \A i \in 1..n : ss[i] \in Seq(S)
  BY LenProperties, ElementOfSeq
<1>2. CASE n = 0
  BY <1>2, EmptySeq, FlattenEmpty
<1>3. CASE n # 0
  <2>1. PICK f : IsFlat(f, ss, n) /\ FlattenSeq(ss) = f[n]
    BY <1>1, <1>3, FlattenIsFlat
  <2> DEFINE Good == {i \in Nat : i \in 1..n => f[i] \in Seq(S)}
  <2>2. 0 \in Good
    OBVIOUS
  <2>3. ASSUME NEW k \in Good PROVE k + 1 \in Good
    <3>1. k \in Nat
      OBVIOUS
    <3>2. SUFFICES ASSUME k + 1 \in 1..n PROVE f[k + 1] \in Seq(S)
      BY <3>1
    <3>3. f[k + 1] = IF k + 1 = 1 THEN ss[k + 1] ELSE f[(k + 1) - 1] \o ss[k + 1]
      BY <2>1, <3>2 DEF IsFlat
    <3>4. (k + 1) - 1 = k /\ (k + 1 # 1 => f[k] \in Seq(S))
      BY <1>1, <3>1, <3>2
    <3>5. ss[k + 1] \in Seq(S)
      BY <1>1, <3>2
    <3> QED BY <3>3, <3>4, <3>5, ConcatProperties
  <2>4. Good = Nat
    <3>1. Good \in SUBSET Nat
      OBVIOUS
    <3> HIDE DEF Good
    <3> QED BY <2>2, <2>3, <3>1, NaturalInduction
  <2>5. n \in Good /\ n \in 1..n
    BY <1>1, <1>3, <2>4
  <2> QED BY <2>1, <2>5
<1> QED BY <1>2, <1>3

(* and what one more element adds. *)
LEMMA FlattenAppend ==
  ASSUME NEW S, NEW ss \in Seq(Seq(S)), NEW x \in Seq(S)
  PROVE  FlattenSeq(Append(ss, x)) = FlattenSeq(ss) \o x
<1> DEFINE n == Len(ss)
<1>1. PICK tt : tt = Append(ss, x)
  OBVIOUS
<1>2. /\ n \in Nat /\ Len(tt) = n + 1 /\ tt[n + 1] = x
      /\ \A i \in 1..n : tt[i] = ss[i]
  BY <1>1, AppendProperties, LenProperties
<1>3. PICK g : IsFlat(g, tt, n + 1) /\ FlattenSeq(tt) = g[n + 1]
  BY <1>2, FlattenIsFlat
<1>4. n + 1 \in 1..n + 1 /\ (n + 1) - 1 = n
  BY <1>2
<1>5. g[n + 1] = IF n + 1 = 1 THEN tt[n + 1] ELSE g[(n + 1) - 1] \o tt[n + 1]
  BY <1>3, <1>4 DEF IsFlat
<1>6. CASE n = 0
  <2>1. FlattenSeq(tt) = x
    BY <1>2, <1>3, <1>5, <1>6
  <2>2. ss = <<>>
    BY <1>6, EmptySeq
  <2>3. FlattenSeq(ss) = <<>>
    BY <2>2, FlattenEmpty
  <2> QED BY <1>1, <2>1, <2>3, ConcatEmptySeq
<1>7. CASE n # 0
  <2>1. PICK f : IsFlat(f, ss, n) /\ FlattenSeq(ss) = f[n]
    BY <1>2, <1>7, FlattenIsFlat
  <2>2. \A i \in 1..n : f[i] = g[i]
    <3>1. PICK k \in Nat, m \in Nat : k = n /\ m = n + 1
      BY <1>2
    <3>2. /\ IsFlat(f, ss, k) /\ IsFlat(g, tt, m)
          /\ k <= m /\ \A i \in 1..k : ss[i] = tt[i]
      BY <1>2, <1>3, <2>1, <3>1
    <3>3. \A i \in 1..k : f[i] = g[i]
      BY <3>2, FlatSame
    <3> QED BY <3>1, <3>3
  <2>3. n \in 1..n /\ n + 1 # 1
    BY <1>2, <1>7
  <2> QED BY <1>1, <1>2, <1>3, <1>4, <1>5, <2>1, <2>2, <2>3
<1> QED BY <1>6, <1>7
-----------------------------------------------------------------------------

(* The types, with what the steps keep to: a thread has no more calls and  *)
(* no longer messages than it may, send takes no more bytes than the       *)
(* message has, and recv returns neither nothing nor too much. *)
Types ==
  /\ sent \in [Senders -> Seq(Sizes)]
  /\ message_index \in [Senders -> Nat]
  /\ wire \in Seq(AllBytes)
  /\ closed \in BOOLEAN /\ receiving \in BOOLEAN
  /\ inbox \in Seq(Seq(AllBytes))
  /\ \A k \in 1..Len(inbox) : Len(inbox[k]) \in 1..MaxMessage
  /\ \A s \in Senders :
       /\ Len(sent[s]) <= MaxCalls
       /\ message_index[s] <= Size(s)
       /\ \A k \in 1..Len(sent[s]) : sent[s][k] <= MaxMessage

(* A closed connection has nothing more to send, *)
NobodySends == closed => \A s \in Senders : bytes_left(s) = 0

(* and the receive loop goes on until everything has been read. *)
ReceivesToTheEnd == ~receiving => closed /\ wire = <<>>

Stream == Received \o wire

IInv ==
  /\ Types
  /\ NobodySends
  /\ ReceivesToTheEnd
  /\ Complete(Stream)

-----------------------------------------------------------------------------

LEMMA SizeTypes ==
  ASSUME Types, NEW s \in Senders
  PROVE  /\ Len(sent[s]) \in Nat /\ sent[s] \in Seq(Sizes)
         /\ \A k \in 1..Len(sent[s]) : sent[s][k] \in Nat /\ sent[s][k] <= MaxMessage
         /\ sent[s] = <<>> <=> Len(sent[s]) = 0
         /\ Size(s) = IF Len(sent[s]) = 0 THEN 0 ELSE sent[s][Len(sent[s])]
         /\ Size(s) \in 0..MaxMessage
         /\ message_index[s] \in 0..MaxMessage
         /\ bytes_left(s) = Size(s) - message_index[s]
<1>1. sent[s] \in Seq(Sizes)
  BY DEF Types
<1>2. Len(sent[s]) \in Nat /\ \A k \in 1..Len(sent[s]) : sent[s][k] \in Sizes
  BY <1>1, LenProperties, ElementOfSeq
<1>3. \A k \in 1..Len(sent[s]) : sent[s][k] \in Nat /\ sent[s][k] <= MaxMessage
  BY <1>2, StreamAssumption DEF Types
<1>4. sent[s] = <<>> <=> Len(sent[s]) = 0
  BY <1>1, EmptySeq
<1>5. Size(s) = IF Len(sent[s]) = 0 THEN 0 ELSE sent[s][Len(sent[s])]
  BY <1>4 DEF Size, Last
<1>6. Size(s) \in 0..MaxMessage
  BY <1>2, <1>3, <1>5, StreamAssumption
<1>7. message_index[s] \in 0..MaxMessage
  BY <1>6, StreamAssumption DEF Types
<1> QED BY <1>1, <1>2, <1>3, <1>4, <1>5, <1>6, <1>7 DEF bytes_left

LEMMA StreamTypes ==
  ASSUME Types
  PROVE  Received \in Seq(AllBytes) /\ Stream \in Seq(AllBytes)
<1>1. PICK ss, w : ss = inbox /\ w = wire
  OBVIOUS
<1>2. ss \in Seq(Seq(AllBytes)) /\ w \in Seq(AllBytes)
  BY <1>1 DEF Types
<1>3. FlattenSeq(ss) \in Seq(AllBytes)
  BY <1>2, FlattenType
<1> QED BY <1>1, <1>2, <1>3, ConcatProperties DEF Received, Stream

LEMMA InitIInv == Init => IInv
<1> SUFFICES ASSUME Init PROVE IInv
  OBVIOUS
<1>1. wire = <<>> /\ inbox = <<>> /\ \A s \in Senders : sent[s] = <<>>
  BY DEF Init
<1>2. Types
  <2>1. /\ wire \in Seq(AllBytes) /\ inbox \in Seq(Seq(AllBytes)) /\ Len(inbox) = 0
        /\ \A s \in Senders : sent[s] \in Seq(Sizes) /\ Len(sent[s]) = 0
    BY <1>1, EmptySeq
  <2>2. sent \in [Senders -> Seq(Sizes)] /\ message_index \in [Senders -> Nat]
    BY <2>1 DEF Init
  <2>3. \A s \in Senders : /\ Len(sent[s]) <= MaxCalls
                            /\ message_index[s] <= Size(s)
    BY <1>1, <2>1, StreamAssumption DEF Init, Size
  <2>4. /\ \A k \in 1..Len(inbox) : Len(inbox[k]) \in 1..MaxMessage
        /\ \A s \in Senders : \A k \in 1..Len(sent[s]) : sent[s][k] <= MaxMessage
    BY <2>1
  <2>5. closed \in BOOLEAN /\ receiving \in BOOLEAN
    BY DEF Init
  <2> QED BY <2>1, <2>2, <2>3, <2>4, <2>5 DEF Types
<1>3. Stream = <<>>
  <2>1. Received = <<>>
    BY <1>1, FlattenEmpty DEF Received
  <2> QED BY <1>1, <2>1, EmptySeq, ConcatEmptySeq DEF Stream
<1>4. Complete(Stream)
  <2>1. DOMAIN Stream = {}
    BY <1>3, EmptySeq, LenProperties
  <2>2. \A b \in AllBytes : ~(b.message <= Len(sent[b.sender]))
    BY <1>1, EmptySeq DEF AllBytes
  <2>3. SentBytes = {}
    BY <2>2 DEF SentBytes
  <2> QED BY <2>1, <2>3 DEF Complete
<1> QED BY <1>2, <1>4 DEF Init, IInv, NobodySends, ReceivesToTheEnd
-----------------------------------------------------------------------------

LEMMA SendToIInv ==
  ASSUME IInv, NEW s \in Senders, SendTo(s)
  PROVE  IInv'
<1> USE DEF IInv
<1>1. PICK n \in Sizes : n <= MaxMessage /\ sent' = [sent EXCEPT ![s] = Append(@, n)]
  BY DEF SendTo
<1>2. /\ ~closed /\ bytes_left(s) = 0 /\ Len(sent[s]) < MaxCalls
      /\ message_index' = [message_index EXCEPT ![s] = 0]
      /\ UNCHANGED <<wire, closed, inbox, receiving>>
  BY DEF SendTo
<1> DEFINE m == Len(sent[s])
<1>3. m \in Nat /\ n \in Nat /\ message_index[s] = Size(s)
  BY <1>2, SizeTypes, StreamAssumption
<1>4. /\ sent'[s] = Append(sent[s], n) /\ message_index'[s] = 0
      /\ \A u \in Senders \ {s} : sent'[u] = sent[u] /\ message_index'[u] = message_index[u]
  BY <1>1, <1>2 DEF Types
<1>5. /\ sent'[s] \in Seq(Sizes) /\ Len(sent'[s]) = m + 1
      /\ \A k \in 1..m : sent'[s][k] = sent[s][k]
      /\ sent'[s][m + 1] = n
  BY <1>4, SizeTypes, AppendProperties
<1>6. \A u \in Senders : Size(u)' = IF u = s THEN n ELSE Size(u)
  <2>1. Size(s)' = n
    <3>1. sent'[s] # <<>>
      BY <1>3, <1>5, EmptySeq
    <3> QED BY <1>5, <3>1 DEF Size, Last
  <2>2. \A u \in Senders \ {s} : Size(u)' = Size(u)
    BY <1>4 DEF Size
  <2> QED BY <2>1, <2>2
<1>7. Types'
  <2>1. /\ sent' \in [Senders -> Seq(Sizes)]
        /\ message_index' \in [Senders -> Nat]
    BY <1>1, <1>2, <1>5, <1>4 DEF Types
  <2>2. ASSUME NEW u \in Senders
        PROVE  /\ Len(sent'[u]) <= MaxCalls
               /\ message_index'[u] <= Size(u)'
               /\ \A k \in 1..Len(sent'[u]) : sent'[u][k] <= MaxMessage
    <3>1. CASE u # s
      BY <1>4, <1>6, <3>1 DEF Types
    <3>2. CASE u = s
      <4>1. m + 1 <= MaxCalls /\ message_index'[s] <= Size(s)'
        BY <1>2, <1>3, <1>4, <1>6, StreamAssumption
      <4>2. ASSUME NEW k \in 1..m + 1 PROVE sent'[s][k] <= MaxMessage
        BY <1>1, <1>3, <1>5, SizeTypes
      <4> QED BY <1>5, <3>2, <4>1, <4>2
    <3> QED BY <3>1, <3>2
  <2> QED BY <1>2, <2>1, <2>2 DEF Types
<1>8. SentBytes' = SentBytes
  <2>1. ASSUME NEW b \in AllBytes
        PROVE  /\ b.message <= Len(sent'[b.sender])
               /\ b.byte <= Taken(b.sender, b.message)'
               <=>
               /\ b.message <= Len(sent[b.sender])
               /\ b.byte <= Taken(b.sender, b.message)
    <3>1. b.sender \in Senders /\ b.message \in Nat \ {0} /\ b.byte \in Nat \ {0}
      BY StreamAssumption DEF AllBytes
    <3>2. CASE b.sender # s
      BY <1>4, <3>1, <3>2 DEF Taken
    <3>3. CASE b.sender = s /\ b.message <= m
      <4>1. b.message \in 1..m /\ b.message # m + 1 /\ b.message <= m + 1
        BY <1>3, <3>1, <3>3
      <4>2. Taken(s, b.message)' = sent[s][b.message]
        BY <1>5, <4>1 DEF Taken
      <4>3. Taken(s, b.message) = sent[s][b.message]
        BY <1>3, <4>1, SizeTypes DEF Taken
      <4> QED BY <1>5, <3>3, <4>1, <4>2, <4>3
    <3>4. CASE b.sender = s /\ b.message = m + 1
      <4>1. Taken(s, b.message)' = 0
        BY <1>4, <1>5, <3>4 DEF Taken
      <4> QED BY <1>3, <3>1, <3>4, <4>1
    <3>5. CASE b.sender = s /\ b.message > m + 1
      BY <1>3, <1>5, <3>1, <3>5
    <3> QED BY <1>3, <3>1, <3>2, <3>3, <3>4, <3>5
  <2> QED BY <2>1 DEF SentBytes
<1>9. Complete(Stream)'
  BY <1>2, <1>8 DEF Complete, Stream, Received
<1>10. NobodySends' /\ ReceivesToTheEnd'
  BY <1>2 DEF NobodySends, ReceivesToTheEnd
<1> QED BY <1>7, <1>9, <1>10

(* The bytes that send takes follow those it has taken before. *)
LEMMA SendIInv ==
  ASSUME IInv, NEW s \in Senders, Send(s)
  PROVE  IInv'
<1> USE DEF IInv
<1> DEFINE m == Len(sent[s])
           i == message_index[s]
<1>1. PICK n \in 1..bytes_left(s) :
        /\ wire' = wire \o Bytes(s, i + 1, i + n)
        /\ message_index' = [message_index EXCEPT ![s] = @ + n]
  BY DEF Send
<1>2. bytes_left(s) > 0 /\ UNCHANGED <<sent, closed, inbox, receiving>>
  BY DEF Send
<1>3. /\ m \in 1..MaxCalls /\ n \in Nat \ {0} /\ i \in Nat
      /\ Size(s) = sent[s][m] /\ Size(s) \in 0..MaxMessage /\ i + n <= Size(s)
  BY <1>1, <1>2, SizeTypes, StreamAssumption DEF Types
<1>4. /\ message_index'[s] = i + n
      /\ \A u \in Senders \ {s} : message_index'[u] = message_index[u]
      /\ message_index' \in [Senders -> Nat]
  BY <1>1, <1>3 DEF Types
<1>5. PICK new : new = Bytes(s, i + 1, i + n)
  OBVIOUS
<1>6. /\ new \in Seq(AllBytes) /\ Len(new) = n
      /\ \A j \in 1..n : new[j] = [sender |-> s, message |-> m, byte |-> i + j]
  <2>1. (i + n) - (i + 1) + 1 = n /\ \A j \in 1..n : (i + 1) + j - 1 = i + j
    BY <1>3
  <2>2. new = [j \in 1..n |-> [sender |-> s, message |-> m, byte |-> i + j]]
    BY <1>5, <2>1 DEF Bytes
  <2>3. \A j \in 1..n : [sender |-> s, message |-> m, byte |-> i + j] \in AllBytes
    <3> TAKE j \in 1..n
    <3>1. i + j \in 1..MaxMessage
      <4>1. /\ j \in Nat /\ 1 <= j /\ j <= n /\ MaxMessage \in Nat
            /\ Size(s) \in Nat /\ Size(s) <= MaxMessage
        BY <1>3, StreamAssumption
      <4>2. i \in Nat /\ n \in Nat /\ i + n <= Size(s)
        BY <1>3
      <4> HIDE DEF i
      <4> QED BY <4>1, <4>2
    <3>2. m \in 1..MaxCalls
      BY <1>3
    <3> HIDE DEF m, i
    <3> QED BY <3>1, <3>2 DEF AllBytes
  <2>4. new \in [1..n -> AllBytes]
    BY <2>2, <2>3
  <2>5. new \in Seq(AllBytes)
    BY <1>3, <2>4, SeqDef
  <2>6. Len(new) = n
    BY <1>3, <2>2, <2>5, LenProperties
  <2> QED BY <2>2, <2>5, <2>6
<1>7. wire' \in Seq(AllBytes)
  BY <1>1, <1>5, <1>6, ConcatProperties DEF Types
<1>8. Types'
  <2>1. \A u \in Senders : Size(u)' = Size(u)
    BY <1>2 DEF Size
  <2>2. \A u \in Senders : message_index'[u] <= Size(u)'
    BY <1>3, <1>4, <2>1 DEF Types
  <2> QED BY <1>2, <1>4, <1>7, <2>2 DEF Types
<1>9. Stream' = Stream \o new
  <2>1. PICK r, w : r = Received /\ w = wire
    OBVIOUS
  <2>2. r \in Seq(AllBytes) /\ w \in Seq(AllBytes)
    BY <2>1, StreamTypes DEF Types
  <2>3. (r \o w) \o new = r \o (w \o new)
    BY <1>6, <2>2, ConcatAssociative
  <2> QED BY <1>1, <1>2, <1>5, <2>1, <2>3 DEF Stream, Received
<1>10. PICK st : st = Stream
  OBVIOUS
<1> DEFINE l == Len(st)
<1>11. /\ st \in Seq(AllBytes) /\ l \in Nat /\ DOMAIN st = 1..l
       /\ Stream' \in Seq(AllBytes) /\ DOMAIN Stream' = 1..l + n
       /\ \A j \in 1..l : Stream'[j] = st[j]
       /\ \A j \in 1..n : Stream'[l + j] = new[j]
  <2>1. st \in Seq(AllBytes) /\ l \in Nat /\ DOMAIN st = 1..l
    BY <1>10, StreamTypes, LenProperties
  <2>2. PICK tt : tt = st \o new
    OBVIOUS
  <2>3. /\ tt \in Seq(AllBytes) /\ Len(tt) = l + n
        /\ \A j \in 1..l + n : tt[j] = IF j <= l THEN st[j] ELSE new[j - l]
    BY <1>6, <2>1, <2>2, ConcatProperties
  <2>4. DOMAIN tt = 1..l + n
    BY <2>3, LenProperties
  <2>5. \A j \in 1..l : tt[j] = st[j]
    BY <1>3, <2>1, <2>3
  <2>6. ASSUME NEW j \in 1..n PROVE tt[l + j] = new[j]
    <3>1. l + j \in 1..l + n /\ ~(l + j <= l) /\ (l + j) - l = j
      BY <1>3, <2>1
    <3> QED BY <2>3, <3>1
  <2> QED BY <1>9, <1>10, <2>1, <2>2, <2>3, <2>4, <2>5, <2>6
<1>12. Complete(st)
  BY <1>10
<1> HIDE DEF l, m, i
<1>13. {Stream'[j] : j \in 1..l + n} = {st[j] : j \in 1..l} \cup {new[j] : j \in 1..n}
  <2>1. ASSUME NEW j \in 1..l + n
        PROVE  Stream'[j] \in {st[k] : k \in 1..l} \cup {new[k] : k \in 1..n}
    <3>1. CASE j <= l
      <4>1. j \in 1..l
        BY <1>3, <1>11, <3>1
      <4> QED BY <1>11, <4>1
    <3>2. CASE j > l
      <4>1. j - l \in 1..n /\ l + (j - l) = j
        BY <1>3, <1>11, <3>2
      <4>2. Stream'[j] = new[j - l]
        BY <1>11, <4>1
      <4> QED BY <4>1, <4>2
    <3> QED BY <1>3, <1>11, <3>1, <3>2
  <2>2. ASSUME NEW j \in 1..l PROVE st[j] \in {Stream'[k] : k \in 1..l + n}
    <3>1. j \in 1..l + n
      BY <1>3, <1>11
    <3> QED BY <1>11, <3>1
  <2>3. ASSUME NEW j \in 1..n PROVE new[j] \in {Stream'[k] : k \in 1..l + n}
    <3>1. l + j \in 1..l + n
      BY <1>3, <1>11
    <3> QED BY <1>11, <3>1
  <2> QED BY <2>1, <2>2, <2>3
<1>14. SentBytes' = SentBytes \cup {new[j] : j \in 1..n}
  <2>1. ASSUME NEW b \in AllBytes, b.sender # s \/ b.message # m
        PROVE  b \in SentBytes' <=> b \in SentBytes
    <3>1. Taken(b.sender, b.message)' = Taken(b.sender, b.message)
      BY <1>2, <1>4, <2>1 DEF AllBytes, Taken, m
    <3> QED BY <1>2, <3>1 DEF SentBytes
  <2>2. ASSUME NEW b \in AllBytes, b.sender = s, b.message = m
        PROVE  /\ b \in SentBytes' <=> b.byte <= i + n
               /\ b \in SentBytes <=> b.byte <= i
    <3>1. Taken(s, m)' = i + n /\ Taken(s, m) = i /\ Len(sent'[s]) = m
      BY <1>2, <1>4 DEF Taken, m, i
    <3>2. m <= m
      BY <1>3
    <3> QED BY <2>2, <3>1, <3>2 DEF SentBytes, m
  <2>3. ASSUME NEW b \in AllBytes
        PROVE  b \in {new[j] : j \in 1..n}
                 <=> b.sender = s /\ b.message = m /\ b.byte \in i + 1..i + n
    <3>1. ASSUME NEW j \in 1..n, b = new[j]
          PROVE  b.sender = s /\ b.message = m /\ b.byte \in i + 1..i + n
      <4>1. b.sender = s /\ b.message = m /\ b.byte = i + j
        BY <1>6, <3>1
      <4> QED BY <1>3, <4>1
    <3>2. ASSUME b.sender = s, b.message = m, b.byte \in i + 1..i + n
          PROVE  \E j \in 1..n : b = new[j]
      <4>1. b.byte - i \in 1..n /\ i + (b.byte - i) = b.byte
        BY <1>3, <3>2
      <4>2. new[b.byte - i] = [sender |-> s, message |-> m, byte |-> b.byte]
        BY <1>6, <4>1
      <4>3. b = [sender |-> b.sender, message |-> b.message, byte |-> b.byte]
        BY DEF AllBytes
      <4> QED BY <3>2, <4>1, <4>2, <4>3
    <3> QED BY <3>1, <3>2
  <2>4. \A b \in AllBytes : b \in SentBytes' <=> b \in SentBytes \/ b \in {new[j] : j \in 1..n}
    <3> TAKE b \in AllBytes
    <3>1. CASE b.sender # s \/ b.message # m
      BY <2>1, <2>3, <3>1
    <3>2. CASE b.sender = s /\ b.message = m
      <4>1. b.byte \in Nat
        BY StreamAssumption DEF AllBytes
      <4>2. b.byte <= i + n <=> b.byte <= i \/ b.byte \in i + 1..i + n
        BY <1>3, <4>1
      <4> QED BY <2>2, <2>3, <3>2, <4>2
    <3> QED BY <3>1, <3>2
  <2>5. {new[j] : j \in 1..n} \subseteq AllBytes
    BY <1>6, ElementOfSeq
  <2>6. SentBytes \subseteq AllBytes /\ SentBytes' \subseteq AllBytes
    BY DEF SentBytes
  <2> QED BY <2>4, <2>5, <2>6
<1>15. ASSUME NEW j \in 1..l + n, NEW k \in 1..l + n, j < k,
              Stream'[j].sender = Stream'[k].sender
       PROVE  Precedes(Stream'[j], Stream'[k])
  <2>1. CASE k <= l
    <3>1. j \in 1..l /\ k \in 1..l
      BY <1>3, <1>11, <1>15, <2>1
    <3> QED BY <1>11, <1>12, <1>15, <3>1 DEF Complete
  <2>2. CASE k > l
    <3>1. k - l \in 1..n /\ l + (k - l) = k
      BY <1>3, <1>11, <2>2
    <3>2. Stream'[k] = [sender |-> s, message |-> m, byte |-> i + (k - l)]
      BY <1>6, <1>11, <3>1
    <3>3. CASE j > l
      <4>1. j - l \in 1..n /\ l + (j - l) = j
        BY <1>3, <1>11, <3>3
      <4>2. Stream'[j] = [sender |-> s, message |-> m, byte |-> i + (j - l)]
        BY <1>6, <1>11, <4>1
      <4>3. i + (j - l) < i + (k - l)
        <5>1. i \in Nat /\ l \in Nat /\ j \in Nat /\ k \in Nat /\ j < k
          BY <1>3, <1>11, <1>15
        <5> QED BY <5>1
      <4> QED BY <3>2, <4>2, <4>3 DEF Precedes
    <3>4. CASE j <= l
      <4>1. j \in 1..l
        BY <1>3, <1>11, <3>4
      <4>2. PICK b \in AllBytes : b = Stream'[j] /\ b \in SentBytes /\ b.sender = s
        <5>1. st[j] \in SentBytes /\ Stream'[j] = st[j]
          BY <1>11, <1>12, <4>1 DEF Complete
        <5>2. Stream'[j].sender = s
          BY <1>15, <3>2
        <5> QED BY <5>1, <5>2 DEF SentBytes
      <4>3. b.message <= m /\ b.byte <= Taken(s, b.message)
        BY <4>2 DEF SentBytes, m
      <4>4. b.message \in Nat /\ b.byte \in Nat
        BY StreamAssumption DEF AllBytes
      <4>5. CASE b.message = m
        <5>1. b.byte <= i
          BY <4>3, <4>5 DEF Taken, m, i
        <5>2. b.byte < i + (k - l)
          BY <1>3, <3>1, <4>4, <5>1
        <5> QED BY <3>2, <4>2, <4>5, <5>2 DEF Precedes
      <4>6. CASE b.message # m
        <5>1. b.message < m
          BY <1>3, <4>3, <4>4, <4>6
        <5> QED BY <3>2, <4>2, <5>1 DEF Precedes
      <4> QED BY <4>5, <4>6
    <3> QED BY <1>3, <1>11, <3>3, <3>4
  <2> QED BY <1>3, <1>11, <2>1, <2>2
<1>16. Complete(Stream)'
  <2>1. SentBytes = {st[j] : j \in 1..l}
    BY <1>11, <1>12 DEF Complete
  <2>2. {Stream'[j] : j \in 1..l + n} = SentBytes'
    BY <1>13, <1>14, <2>1
  <2> QED BY <1>11, <1>15, <2>2 DEF Complete
<1>17. NobodySends' /\ ReceivesToTheEnd'
  BY <1>2, <1>3 DEF NobodySends, ReceivesToTheEnd
<1> QED BY <1>8, <1>16, <1>17
LEMMA CloseConnectionIInv == ASSUME IInv, CloseConnection PROVE IInv'
<1> USE DEF IInv, CloseConnection
<1>1. Types'
  BY DEF Types, Size
<1>2. NobodySends' /\ ReceivesToTheEnd'
  BY DEF NobodySends, ReceivesToTheEnd, bytes_left, Size
<1>3. Complete(Stream)'
  BY DEF Complete, Stream, Received, SentBytes, Taken
<1> QED BY <1>1, <1>2, <1>3

(* What recv returns goes from the wire to the inbox: the two together     *)
(* remain the same stream.                                                 *)
LEMMA ReceiveIInv == ASSUME IInv, Receive PROVE IInv'
<1> USE DEF IInv
<1> DEFINE l == Len(wire)
<1>1. PICK n \in 1..l : n <= MaxMessage /\ ReceiveBytes(n)
  BY DEF Receive
<1>2. receiving /\ UNCHANGED <<sent, message_index, closed, receiving>>
  BY DEF Receive
<1>3. PICK ss, w, first, rest :
        /\ ss = inbox /\ w = wire
        /\ first = SubSeq(w, 1, n) /\ rest = SubSeq(w, n + 1, Len(w))
  OBVIOUS
<1>4. /\ ss \in Seq(Seq(AllBytes)) /\ w \in Seq(AllBytes) /\ l = Len(w) /\ l \in Nat
      /\ \A j \in 1..l : w[j] \in AllBytes
      /\ inbox' = Append(ss, first) /\ wire' = rest
  BY <1>1, <1>3, LenProperties, ElementOfSeq DEF Types, ReceiveBytes
<1> HIDE DEF l
<1>5. first \in Seq(AllBytes) /\ Len(first) = n
  <2>1. 1 \in Int /\ n \in Int /\ 1 <= n /\ n - 1 + 1 = n /\ \A j \in 1..n : w[j] \in AllBytes
    BY <1>1, <1>4
  <2> QED BY <1>3, <2>1, SubSeqProperties
<1>6. rest \in Seq(AllBytes)
  <2>1. n + 1 \in Int /\ l \in Int /\ \A j \in n + 1..l : w[j] \in AllBytes
    BY <1>1, <1>4
  <2> QED BY <1>3, <1>4, <2>1, SubSeqProperties
<1>7. first \o rest = w
  <2>1. /\ 1 \in 1..Len(w) + 1 /\ n \in 1 - 1..Len(w) /\ Len(w) \in n..Len(w)
    BY <1>1, <1>4
  <2>2. SubSeq(w, 1, n) \o SubSeq(w, n + 1, Len(w)) = SubSeq(w, 1, Len(w))
    BY <1>4, <2>1, ConcatAdjacentSubSeq
  <2>3. SubSeq(w, 1, Len(w)) = w
    BY <1>4, SubSeqFull
  <2> QED BY <1>3, <2>2, <2>3
<1>8. Stream' = Stream
  <2>1. FlattenSeq(Append(ss, first)) = FlattenSeq(ss) \o first
    BY <1>4, <1>5, FlattenAppend
  <2>2. PICK flat \in Seq(AllBytes) : flat = FlattenSeq(ss)
    BY <1>4, FlattenType
  <2>3. (flat \o first) \o rest = flat \o (first \o rest)
    BY <1>5, <1>6, ConcatAssociative
  <2>4. Stream' = (flat \o first) \o rest
    BY <1>4, <2>1, <2>2 DEF Stream, Received
  <2>5. Stream = flat \o w
    BY <1>3, <2>2 DEF Stream, Received
  <2> QED BY <1>7, <2>3, <2>4, <2>5
<1>9. Types'
  <2>1. /\ inbox' \in Seq(Seq(AllBytes)) /\ Len(inbox') = Len(ss) + 1
        /\ inbox'[Len(ss) + 1] = first
        /\ \A k \in 1..Len(ss) : inbox'[k] = ss[k]
    BY <1>4, <1>5, AppendProperties
  <2>2. Len(ss) \in Nat
    BY <1>4, LenProperties
  <2>3. \A k \in 1..Len(inbox') : Len(inbox'[k]) \in 1..MaxMessage
    <3> TAKE k \in 1..Len(inbox')
    <3>1. CASE k = Len(ss) + 1
      BY <1>1, <1>5, <2>1, <3>1, StreamAssumption
    <3>2. CASE k \in 1..Len(ss)
      BY <1>3, <2>1, <3>2 DEF Types
    <3> QED BY <2>1, <2>2, <3>1, <3>2
  <2> QED BY <1>2, <1>4, <1>6, <2>1, <2>3 DEF Types, Size
<1>10. Complete(Stream)'
  BY <1>2, <1>8 DEF Complete, SentBytes, Taken
<1>11. NobodySends' /\ ReceivesToTheEnd'
  BY <1>2 DEF NobodySends, ReceivesToTheEnd, bytes_left, Size
<1> QED BY <1>9, <1>10, <1>11

LEMMA ReceiveEndIInv == ASSUME IInv, ReceiveEnd PROVE IInv'
<1> USE DEF IInv, ReceiveEnd
<1>1. Types'
  BY DEF Types, Size
<1>2. NobodySends' /\ ReceivesToTheEnd'
  BY DEF NobodySends, ReceivesToTheEnd, bytes_left, Size
<1>3. Complete(Stream)'
  BY DEF Complete, Stream, Received, SentBytes, Taken
<1> QED BY <1>1, <1>2, <1>3

LEMMA StutterIInv == ASSUME IInv, UNCHANGED vars PROVE IInv'
<1> USE DEF IInv, vars
<1>1. Types'
  BY DEF Types, Size
<1>2. NobodySends' /\ ReceivesToTheEnd'
  BY DEF NobodySends, ReceivesToTheEnd, bytes_left, Size
<1>3. Complete(Stream)'
  BY DEF Complete, Stream, Received, SentBytes, Taken
<1> QED BY <1>1, <1>2, <1>3

LEMMA Invariance == Spec => []IInv
<1>1. IInv /\ [Next]_vars => IInv'
  BY SendToIInv, SendIInv, CloseConnectionIInv, ReceiveIInv, ReceiveEndIInv, StutterIInv
  DEF Next
<1> QED BY InitIInv, <1>1, PTL DEF Spec

-----------------------------------------------------------------------------

(* No message of the inbox is empty or longer than the buffer, and send    *)
(* never goes past a message that can be sent (socket_agent.cpp:147-158,   *)
(* 163-181).                                                               *)
THEOREM TypeCorrect == Spec => []TypeOK
<1>1. IInv => TypeOK
  <2> SUFFICES ASSUME IInv PROVE TypeOK
    OBVIOUS
  <2>1. \A s \in Senders : message_index[s] \in 0..MaxMessage
    BY SizeTypes DEF IInv
  <2> QED BY <2>1 DEF IInv, Types, TypeOK
<1> QED BY <1>1, Invariance, PTL

(* For any number of threads that send on one connection, any messages and *)
(* any way to split and join them, the bytes of each thread arrive once    *)
(* each and in order (socket_agent.cpp:147-158).                           *)
THEOREM BytesArriveInOrder == Spec => []BytesInOrder
<1>1. IInv => BytesInOrder
  BY DEF IInv, BytesInOrder, Stream
<1> QED BY <1>1, Invariance, PTL

(* The receive loop never ends before the inbox holds every byte that was  *)
(* sent, then and from then on (socket_communicator.cpp:104-124).          *)
THEOREM EndMeansEverything == Spec => [](~receiving => Complete(Received))
<1>1. IInv => (~receiving => Complete(Received))
  <2> SUFFICES ASSUME IInv, ~receiving PROVE Complete(Received)
    OBVIOUS
  <2>1. PICK r : r = Received
    OBVIOUS
  <2>2. r \in Seq(AllBytes)
    BY <2>1, StreamTypes DEF IInv
  <2>3. r \o <<>> = r
    BY <2>2, ConcatEmptySeq
  <2>4. Stream = Received
    BY <2>1, <2>3 DEF IInv, ReceivesToTheEnd, Stream
  <2> QED BY <2>4 DEF IInv
<1> QED BY <1>1, Invariance, PTL
=============================================================================
