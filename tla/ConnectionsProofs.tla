------------------------- MODULE ConnectionsProofs -------------------------
(***************************************************************************)
(* The invariants of Connections for one application thread that does      *)
(* everything, with any number of peers, descriptors, connections and      *)
(* accept loops.  With two threads they do not hold: run ConcurrentSends,  *)
(* and operator[] can insert what contains has found.                      *)
(***************************************************************************)
EXTENDS Connections, SequenceTheorems, WellFoundedInduction, TLAPS

Connection == [peer : Peers, accepted : BOOLEAN, peer_closed : BOOLEAN]

(* Different descriptors denote different connections. *)
KernelOK ==
  /\ connections \in Seq(Connection) /\ Len(connections) \in 0..MaxConnections
  /\ fd_table \in [Fds -> 0..Len(connections)]
  /\ \A f, g \in Fds : Open(f) /\ fd_table[f] = fd_table[g] => f = g

(* Where an address must hold an ip and a port, and be in the cache. *)
CallOK(t) ==
  /\ pc[t] # "idle" => address[t] \in Peers \cup Fds
  /\ pc[t] \in {"connect", "remember", "erase"} => address[t] \in Peers
  /\ pc[t] \in {"send_get", "close_get"} => address[t] \in Peers /\ Contains(address[t])

(* There is one application thread. *)
Alone == \A s, t \in Threads : s = t

TInv ==
  /\ Alone
  /\ TypeOK
  /\ KernelOK
  /\ address \in [Threads -> Peers \cup Fds \cup {NoDescriptor}]
  /\ meant \in [Threads -> Peers \cup {NoDescriptor}]
  /\ \A t \in Threads : CallOK(t)

(* A descriptor of a connection that the communicator has made itself. *)
Out(fd) == Open(fd) /\ ~connections[fd_table[fd]].accepted

(* What the kernel says of a descriptor stays the same. *)
Same(fd) ==
  /\ fd_table'[fd] = fd_table[fd]
  /\ Open(fd)' <=> Open(fd)
  /\ Out(fd)' <=> Out(fd)
  /\ Open(fd) => PeerOf(fd)' = PeerOf(fd)

(* With one application thread, app, the cache knows every connection that *)
(* the communicator has made, but for the one app has made just now ...    *)
OutInv(app) ==
  /\ \A fd \in Fds : Out(fd) =>
       \/ address_to_descriptor[PeerOf(fd)] = fd
       \/ pc[app] = "remember" /\ descriptor[app] = fd /\ address[app] = PeerOf(fd)
  /\ pc[app] \in {"connect", "remember"} =>
       address_to_descriptor[address[app]] = NoDescriptor
  /\ (pc[app] = "close" /\ address[app] \in Peers) =>
       descriptor[app] = address_to_descriptor[address[app]]
  /\ (pc[app] \in {"erase", "close_return"} /\ address[app] \in Peers) =>
       \A fd \in Fds : Out(fd) => PeerOf(fd) # address[app]

(* ... and while no address holds a descriptor, it knows no others, but for*)
(* the one app has closed just now; app and the receive loops keep to      *)
(* descriptors of their own.                                               *)
CallSafe(app) ==
  /\ pc[app] # "idle" => address[app] \in Peers /\ meant[app] = address[app]
  /\ pc[app] \in {"remember", "send", "close"} =>
       \E fd \in Fds : descriptor[app] = fd /\ Out(fd) /\ PeerOf(fd) = address[app]

CacheSafe(app) ==
  \A p \in Peers, fd \in Fds :
    address_to_descriptor[p] = fd =>
      \/ Out(fd) /\ PeerOf(fd) = p
      \/ pc[app] = "erase" /\ address[app] = p

LoopSafe(c) ==
  \A fd \in Fds : receiver[c] = fd => Open(fd) /\ ~Out(fd) /\ fd_table[fd] = c

LoopsSafe ==
  /\ \A c \in 1..Len(connections) : LoopSafe(c)
  /\ \A c \in 1..MaxConnections : c > Len(connections) => receiver[c] = NoDescriptor
  /\ \A c \in ending : receiver[c] # NoDescriptor

SafeInv(app) == CallSafe(app) /\ CacheSafe(app) /\ LoopsSafe /\ exited # "bad_descriptor"

-----------------------------------------------------------------------------

(* Some free descriptor is the lowest. *)
LEMMA MinIsMember ==
  ASSUME NEW S \in SUBSET Nat, S # {}
  PROVE  Min(S) \in S
<1>1. PICK m \in S : \A y \in S : ~(<<y, m>> \in OpToRel(<, Nat))
  <2>1. IsWellFoundedOn(OpToRel(<, Nat), Nat) /\ S \subseteq Nat
    BY NatLessThanWellFounded
  <2> QED BY <2>1, WFMin
<1>2. ASSUME NEW y \in S PROVE m =< y
  <2>1. <<y, m>> \in Nat \X Nat /\ y \in Nat /\ m \in Nat
    OBVIOUS
  <2>2. ~(y < m)
    BY <1>1, <2>1, Zenon DEF OpToRel
  <2> QED BY <2>1, <2>2
<1> QED BY <1>2 DEF Min

(* A new connection gets a descriptor that was free. *)
LEMMA NewConnectionEffect ==
  ASSUME KernelOK, NEW p \in Peers, NEW a \in BOOLEAN, NewConnection(p, a),
         NEW f, f = Min(FreeFds)
  PROVE  /\ KernelOK' /\ Len(connections') = Len(connections) + 1
         /\ f \in Fds /\ ~Open(f) /\ Len(connections) + 1 \in 1..MaxConnections
         /\ fd_table'[f] = Len(connections) + 1
         /\ Open(f)' /\ PeerOf(f)' = p /\ (Out(f)' <=> ~a)
         /\ \A g \in Fds : g # f => Same(g)
<1> DEFINE new == [peer |-> p, accepted |-> a, peer_closed |-> FALSE]
<1>1. f \in FreeFds
  BY MinIsMember, DescriptorAssumption DEF NewConnection, FreeFds
<1>2. f \in Fds /\ fd_table[f] = 0 /\ ~Open(f)
  BY <1>1 DEF FreeFds, Open, Closed
<1>3. connections \in Seq(Connection) /\ Len(connections) \in Nat /\ new \in Connection
  BY DEF KernelOK, Connection
<1>4. connections' = Append(connections, new)
  BY DEF NewConnection
<1>5. fd_table' = [fd_table EXCEPT ![f] = Len(connections) + 1]
  BY DEF NewConnection
<1> HIDE DEF new
<1>6. /\ connections' \in Seq(Connection)
      /\ Len(connections') = Len(connections) + 1
      /\ \A i \in 1..Len(connections) : connections'[i] = connections[i]
      /\ connections'[Len(connections) + 1] = new
  BY <1>3, <1>4, AppendProperties
<1>7. \A g \in Fds : fd_table'[g] = IF g = f THEN Len(connections) + 1 ELSE fd_table[g]
  BY <1>5 DEF KernelOK
<1>8. \A g \in Fds : fd_table[g] \in 0..Len(connections)
  BY DEF KernelOK
<1>9. Open(f)'
  BY <1>2, <1>3, <1>7 DEF Open, Closed
<1>10. PeerOf(f)' = p /\ (Out(f)' <=> ~a)
  BY <1>2, <1>6, <1>7, <1>9 DEF PeerOf, Out, new
<1>11. \A g \in Fds : g # f => Same(g)
  BY <1>6, <1>7, <1>8, <1>3 DEF Same, Open, Out, PeerOf, Closed
<1>12. fd_table' \in [Fds -> 0..Len(connections')]
  <2>1. fd_table' = [g \in Fds |-> fd_table'[g]]
    BY <1>5 DEF KernelOK
  <2>2. \A g \in Fds : fd_table'[g] \in 0..(Len(connections) + 1)
    BY <1>3, <1>7, <1>8
  <2> QED BY <2>1, <2>2, <1>6
<1>13. \A d, g \in Fds : (fd_table'[d] # 0 /\ fd_table'[d] = fd_table'[g]) => d = g
  BY <1>2, <1>3, <1>7, <1>8 DEF KernelOK, Open, Closed
<1>14. Len(connections) + 1 \in 1..MaxConnections
  BY <1>3, DescriptorAssumption DEF NewConnection
<1>15. KernelOK'
  BY <1>3, <1>6, <1>12, <1>13, <1>14 DEF KernelOK, Open, Closed
<1> QED BY <1>2, <1>6, <1>7, <1>9, <1>10, <1>11, <1>14, <1>15

(* Closing changes one descriptor. *)
LEMMA CloseEffect ==
  ASSUME KernelOK, NEW f \in Fds, UNCHANGED connections,
         fd_table' = [fd_table EXCEPT ![f] = Closed]
  PROVE  /\ KernelOK' /\ ~Open(f)' /\ ~Out(f)'
         /\ \A g \in Fds : g # f => Same(g)
<1>1. \A g \in Fds : fd_table'[g] = IF g = f THEN 0 ELSE fd_table[g]
  BY DEF KernelOK, Closed
<1>2. ~Open(f)' /\ ~Out(f)'
  BY <1>1 DEF Open, Out, Closed
<1>3. \A g \in Fds : g # f => Same(g)
  BY <1>1 DEF Same, Open, Out, PeerOf, Closed
<1>4. fd_table' \in [Fds -> 0..Len(connections)]
  BY LenProperties DEF KernelOK, Closed
<1>5. KernelOK'
  BY <1>1, <1>4 DEF KernelOK, Open, Closed
<1> QED BY <1>2, <1>3, <1>5

(* When a peer closes, its descriptor denotes the same connection. *)
LEMMA PeerClosesEffect ==
  ASSUME KernelOK, NEW c \in 1..Len(connections), UNCHANGED fd_table,
         connections' = [connections EXCEPT ![c].peer_closed = TRUE]
  PROVE  /\ KernelOK' /\ Len(connections') = Len(connections)
         /\ \A g \in Fds : Same(g)
<1> DEFINE closed == [connections[c] EXCEPT !.peer_closed = TRUE]
<1>1. connections \in Seq(Connection)
  BY DEF KernelOK
<1>2. connections[c] \in Connection
  BY <1>1, ElementOfSeq
<1>3. /\ closed \in Connection /\ closed.peer = connections[c].peer
      /\ closed.accepted = connections[c].accepted
  BY <1>2 DEF Connection
<1>4. connections' = [connections EXCEPT ![c] = closed]
  OBVIOUS
<1> HIDE DEF closed
<1>5. /\ connections' \in Seq(Connection) /\ Len(connections') = Len(connections)
      /\ \A i \in 1..Len(connections) :
           connections'[i] = IF i = c THEN closed ELSE connections[i]
  <2> DEFINE updated == [connections EXCEPT ![c] = closed]
  <2>1. updated \in Seq(Connection) /\ Len(updated) = Len(connections)
    <3>1. closed \in Connection
      BY <1>3
    <3> QED BY <1>1, <3>1, ExceptSeq
  <2>2. connections' = updated
    BY <1>4
  <2>3. DOMAIN connections = 1..Len(connections)
    BY <1>1, LenProperties
  <2> HIDE DEF updated
  <2>4. \A i \in 1..Len(connections) : updated[i] = IF i = c THEN closed ELSE connections[i]
    BY <2>3 DEF updated
  <2> QED BY <2>1, <2>2, <2>4
<1>6. \A g \in Fds : fd_table[g] \in 0..Len(connections)
  BY DEF KernelOK
<1>7. \A g \in Fds : Open(g) => fd_table[g] \in 1..Len(connections)
  BY <1>1, <1>6, LenProperties DEF Open, Closed
<1>8. \A g \in Fds : Open(g)' <=> Open(g)
  BY DEF Open
<1>9. \A g \in Fds : Same(g)
  BY <1>3, <1>5, <1>7, <1>8 DEF Same, Out, PeerOf
<1>10. KernelOK'
  BY <1>5, <1>8 DEF KernelOK
<1> QED BY <1>5, <1>9, <1>10

(* A step that leaves the kernel alone. *)
LEMMA QuietEffect ==
  ASSUME KernelOK, UNCHANGED kernel
  PROVE  /\ KernelOK' /\ Len(connections') = Len(connections)
         /\ UNCHANGED fd_table
         /\ \A g \in Fds : Same(g)
BY DEF kernel, KernelOK, Same, Open, Out, PeerOf

-----------------------------------------------------------------------------
(* The types *)

(* A communicator that has just gone online satisfies the invariant. *)
LEMMA InitTInv == Init /\ Alone => TInv
<1> SUFFICES ASSUME Init, Alone PROVE TInv
  OBVIOUS
<1>1. connections \in Seq(Connection) /\ Len(connections) = 0
  BY DEF Init
<1>2. KernelOK
  BY <1>1, DescriptorAssumption DEF Init, KernelOK, Open, Closed
<1>3. fd_table \in [Fds -> 0..Len(connections)] /\ ending \subseteq 1..Len(connections)
  BY <1>2 DEF Init, KernelOK
<1>4. TypeOK
  BY <1>3 DEF Init, TypeOK, Labels
<1>5. \A t \in Threads : CallOK(t)
  BY DEF Init, CallOK
<1>6. /\ address \in [Threads -> Peers \cup Fds \cup {NoDescriptor}]
      /\ meant \in [Threads -> Peers \cup {NoDescriptor}]
  BY DEF Init
<1> QED BY <1>2, <1>4, <1>5, <1>6 DEF TInv

(* The end of the process changes nothing else. *)
LEMMA ExitTInv ==
  ASSUME TInv, NEW reason \in {"refused", "peer_closed", "bad_descriptor", "terminated"},
         Exit(reason)
  PROVE  TInv'
<1>1. KernelOK'
  BY QuietEffect DEF TInv, Exit, kernel
<1> QED BY <1>1 DEF TInv, TypeOK, Exit, kernel, call, receivers, CallOK, Contains

(* A step of a thread that leaves the connections alone. *)
LEMMA CallTInv ==
  ASSUME TInv, NEW t \in Threads, NEW to \in Labels, UNCHANGED <<kernel, receivers>>,
         pc' = [pc EXCEPT ![t] = to],
         address' \in [Threads -> Peers \cup Fds \cup {NoDescriptor}],
         meant' \in [Threads -> Peers \cup {NoDescriptor}],
         descriptor' \in [Threads -> Fds \cup {NoDescriptor}],
         address_to_descriptor' \in [Peers -> Fds \cup {NoDescriptor}],
         by_descriptor' \in BOOLEAN, UNCHANGED <<inbox, exited>>, CallOK(t)'
  PROVE  TInv'
<1>1. KernelOK'
  BY QuietEffect DEF TInv
<1>2. pc' \in [Threads -> Labels] /\ \A u \in Threads : u # t => pc'[u] = pc[u]
  BY DEF TInv, TypeOK
<1>3. TypeOK'
  BY <1>2 DEF TInv, TypeOK, kernel, receivers
<1>4. \A u \in Threads : CallOK(u)'
  BY DEF TInv, Alone
<1> QED BY <1>1, <1>3, <1>4 DEF TInv

(* operator[] of an address that is in the cache inserts nothing. *)
LEMMA GetEffect ==
  ASSUME TInv, NEW t \in Threads, SendGet(t) \/ CloseGet(t)
  PROVE  /\ address[t] \in Peers /\ address_to_descriptor[address[t]] \in Fds
         /\ pc[t] \in {"send_get", "close_get"}
         /\ descriptor' = [descriptor EXCEPT ![t] = address_to_descriptor[address[t]]]
         /\ UNCHANGED <<kernel, receivers, address, meant, address_to_descriptor,
                        by_descriptor, inbox, exited>>
<1>1. PICK from \in {"send_get", "close_get"}, to \in {"send", "close"} : Get(t, from, to)
  BY DEF SendGet, CloseGet
<1>2. /\ pc[t] \in {"send_get", "close_get"}
      /\ address_to_descriptor \in [Peers -> Fds \cup {NoDescriptor}]
  BY <1>1 DEF Get, Goto, TInv, TypeOK
<1>3. /\ address[t] \in Peers /\ address_to_descriptor[address[t]] \in Fds
      /\ At(address[t]) = address_to_descriptor[address[t]]
  BY <1>2 DEF TInv, CallOK, Contains, At
<1>4. UNCHANGED address_to_descriptor
  BY <1>1, <1>2, <1>3 DEF Get
<1> QED BY <1>1, <1>2, <1>3, <1>4 DEF Get

(* Calls, lookups and the cache. *)
LEMMA CallsTInv ==
  ASSUME TInv, NEW t \in Threads,
         \/ CallSend(t) \/ CallClose(t) \/ SendLookup(t) \/ CloseLookup(t)
         \/ SendGet(t) \/ CloseGet(t)
         \/ Remember(t) \/ Erase(t) \/ Send(t) \/ CloseReturn(t)
  PROVE  TInv'
<1> USE DEF Goto
<1>1. /\ pc \in [Threads -> Labels] /\ inbox \subseteq [descriptor : Fds, peer : Peers]
      /\ address \in [Threads -> Peers \cup Fds \cup {NoDescriptor}]
      /\ meant \in [Threads -> Peers \cup {NoDescriptor}]
      /\ descriptor \in [Threads -> Fds \cup {NoDescriptor}]
      /\ address_to_descriptor \in [Peers -> Fds \cup {NoDescriptor}]
      /\ by_descriptor \in BOOLEAN /\ CallOK(t)
  BY DEF TInv, TypeOK
<1>2. CASE CallSend(t) \/ CallClose(t)
  <2>1. PICK a \in Peers \cup Fds, p \in Peers,
             label \in {"send_lookup", "close_lookup"} : Call(t, a, p, label)
    BY <1>1, <1>2 DEF CallSend, CallClose
  <2>2. by_descriptor' \in BOOLEAN /\ label \in Labels
    BY <1>1, <2>1 DEF Call, Labels
  <2>3. CallOK(t)'
    BY <1>1, <2>1 DEF Call, CallOK
  <2> QED BY <1>1, <2>1, <2>2, <2>3, CallTInv DEF Call, kernel, receivers
<1>3. CASE SendLookup(t) \/ CloseLookup(t)
  <2>1. address[t] \in Peers \cup Fds
    BY <1>1, <1>3 DEF SendLookup, CloseLookup, Lookup, CallOK
  <2>2. PICK to \in Labels :
          /\ pc' = [pc EXCEPT ![t] = to]
          /\ to \in {"connect", "remember", "erase", "send_get", "close_get"} =>
               address[t] \in Peers
          /\ to \in {"send_get", "close_get"} => Contains(address[t])
    BY <1>3, DescriptorAssumption DEF SendLookup, CloseLookup, Lookup, Labels
  <2>3. /\ descriptor' \in [Threads -> Fds \cup {NoDescriptor}]
        /\ UNCHANGED <<kernel, receivers, address, meant, address_to_descriptor,
                       by_descriptor, inbox, exited>>
    BY <1>1, <1>3, <2>1 DEF SendLookup, CloseLookup, Lookup
  <2>4. CallOK(t)'
    BY <1>1, <2>1, <2>2, <2>3 DEF CallOK, Contains
  <2> QED BY <1>1, <2>2, <2>3, <2>4, CallTInv
<1>6. CASE SendGet(t) \/ CloseGet(t)
  <2>1. pc' = [pc EXCEPT ![t] = "send"] \/ pc' = [pc EXCEPT ![t] = "close"]
    BY <1>6 DEF SendGet, CloseGet, Get
  <2>2. CallOK(t)'
    BY <1>1, <1>6, <2>1, GetEffect DEF CallOK
  <2>3. descriptor' \in [Threads -> Fds \cup {NoDescriptor}]
    BY <1>1, <1>6, GetEffect
  <2> QED BY <1>1, <1>6, <2>1, <2>2, <2>3, GetEffect, CallTInv DEF Labels
<1>4. CASE Remember(t) \/ Erase(t)
  <2>1. CallOK(t)'
    BY <1>1, <1>4 DEF Remember, Erase, CallOK, call
  <2> QED BY <1>1, <1>4, <2>1, CallTInv DEF Remember, Erase, kernel, receivers, call, Labels
<1>5. CASE Send(t) \/ CloseReturn(t)
  <2>1. CallOK(t)'
    BY <1>1, <1>5 DEF Send, CloseReturn, Return, CallOK
  <2> QED BY <1>1, <1>5, <2>1, CallTInv
             DEF Send, CloseReturn, Return, kernel, receivers, call, Labels
<1> QED BY <1>2, <1>3, <1>4, <1>5, <1>6

(* A connection made or closed by a thread. *)
LEMMA ConnectTInv ==
  ASSUME TInv, NEW t \in Threads, Connect(t)
  PROVE  TInv'
<1>1. address[t] \in Peers
  BY DEF Connect, Goto, TInv, CallOK
<1>2. PICK f : f = Min(FreeFds)
  OBVIOUS
<1>3. KernelOK' /\ Len(connections') = Len(connections) + 1 /\ f \in Fds
  BY <1>1, <1>2, NewConnectionEffect DEF TInv, Connect
<1>4. /\ pc' = [pc EXCEPT ![t] = "remember"]
      /\ descriptor' = [descriptor EXCEPT ![t] = f]
      /\ UNCHANGED <<address_to_descriptor, address, meant, by_descriptor, receivers, inbox,
                     exited>>
  BY <1>2 DEF Connect, Goto
<1>5. Len(connections) \in Nat
  BY LenProperties DEF TInv, KernelOK
<1>6. fd_table' \in [Fds -> 0..Len(connections')] /\ ending' \subseteq 1..Len(connections')
  BY <1>3, <1>4, <1>5 DEF TInv, TypeOK, KernelOK, receivers
<1>7. TypeOK'
  BY <1>3, <1>4, <1>6 DEF TInv, TypeOK, receivers, Labels
<1>8. \A u \in Threads : CallOK(u)'
  BY <1>1, <1>4 DEF TInv, TypeOK, CallOK, Contains
<1> QED BY <1>3, <1>4, <1>7, <1>8 DEF TInv

LEMMA CloseTInv ==
  ASSUME TInv, NEW t \in Threads, Close(t)
  PROVE  TInv'
<1>1. descriptor[t] \in Fds /\ UNCHANGED connections
  BY DescriptorAssumption
     DEF Close, Closable, Open, StandardInput, NoDescriptor, TInv, TypeOK
<1>2. KernelOK'
  BY <1>1, CloseEffect DEF TInv, Close
<1>3. PICK to \in {"erase", "close_return"} :
        pc' = [pc EXCEPT ![t] = to] /\ (to = "erase" => address[t] \in Peers)
  BY DEF Close, Goto
<1>4. UNCHANGED <<address_to_descriptor, address, meant, descriptor, by_descriptor, receivers,
                  inbox, exited>>
  BY DEF Close, call
<1>5. TypeOK'
  BY <1>1, <1>2, <1>3, <1>4 DEF TInv, TypeOK, receivers, KernelOK, Labels
<1>6. \A u \in Threads : CallOK(u)'
  BY <1>3, <1>4 DEF TInv, TypeOK, CallOK, Contains, Close, Goto
<1> QED BY <1>2, <1>4, <1>5, <1>6 DEF TInv

(* The peers and the threads that receive from them. *)
LEMMA AcceptTInv ==
  ASSUME TInv, Accept
  PROVE  TInv'
<1>1. PICK p \in Peers : NewConnection(p, TRUE)
  BY DEF Accept
<1>2. PICK f : f = Min(FreeFds)
  OBVIOUS
<1>3. /\ KernelOK' /\ Len(connections') = Len(connections) + 1 /\ f \in Fds
      /\ Len(connections) + 1 \in 1..MaxConnections
  BY <1>1, <1>2, NewConnectionEffect DEF TInv
<1>4. /\ receiver' = [receiver EXCEPT ![Len(connections) + 1] = f]
      /\ UNCHANGED <<address_to_descriptor, pc, call, ending, inbox, exited>>
  BY <1>2 DEF Accept
<1>5. Len(connections) \in Nat
  BY LenProperties DEF TInv, KernelOK
<1>6. fd_table' \in [Fds -> 0..Len(connections')] /\ ending' \subseteq 1..Len(connections')
  BY <1>3, <1>4, <1>5 DEF TInv, TypeOK, KernelOK
<1>7. receiver' \in [1..MaxConnections -> Fds \cup {NoDescriptor}]
  BY <1>3, <1>4 DEF TInv, TypeOK
<1>8. TypeOK'
  BY <1>4, <1>6, <1>7 DEF TInv, TypeOK, call
<1> QED BY <1>3, <1>4, <1>8 DEF TInv, call, CallOK, Contains

LEMMA ReceiverTInv ==
  ASSUME TInv, NEW c \in 1..Len(connections),
         PeerCloses(c) \/ Receive(c) \/ ReceiveEnd(c) \/ ReceiverClose(c)
  PROVE  TInv'
<1>1. UNCHANGED <<address_to_descriptor, pc, call, exited>>
  BY DEF PeerCloses, Receive, ReceiveEnd, ReceiverClose
<1>2. KernelOK' /\ Len(connections') = Len(connections)
  <2>1. CASE PeerCloses(c)
    BY <2>1, PeerClosesEffect DEF TInv, PeerCloses
  <2>2. CASE Receive(c) \/ ReceiveEnd(c)
    BY <2>2, QuietEffect DEF TInv, Receive, ReceiveEnd
  <2>3. CASE ReceiverClose(c)
    BY <2>3, CloseEffect DEF TInv, ReceiverClose, Open
  <2> QED BY <2>1, <2>2, <2>3
<1>3. inbox' \subseteq [descriptor : Fds, peer : Peers]
  <2>1. CASE Receive(c)
    <3>1. receiver[c] \in Fds /\ fd_table[receiver[c]] \in 1..Len(connections)
      BY <2>1, LenProperties DEF Receive, Open, Closed, TInv, KernelOK
    <3>2. connections[fd_table[receiver[c]]] \in Connection
      BY <3>1, ElementOfSeq DEF TInv, KernelOK
    <3>3. PeerOf(receiver[c]) \in Peers
      BY <3>2 DEF PeerOf, Connection
    <3> QED BY <2>1, <3>1, <3>3 DEF Receive, TInv, TypeOK
  <2>2. CASE PeerCloses(c) \/ ReceiveEnd(c) \/ ReceiverClose(c)
    BY <2>2 DEF PeerCloses, ReceiveEnd, ReceiverClose, TInv, TypeOK
  <2> QED BY <2>1, <2>2
<1>4. /\ receiver' \in [1..MaxConnections -> Fds \cup {NoDescriptor}]
      /\ ending' \subseteq 1..Len(connections)
  BY DEF PeerCloses, Receive, ReceiveEnd, ReceiverClose, receivers, TInv, TypeOK
<1>5. TypeOK'
  BY <1>1, <1>2, <1>3, <1>4 DEF TInv, TypeOK, call, KernelOK
<1> QED BY <1>1, <1>2, <1>5 DEF TInv, call, CallOK, Contains

(* The type invariant is inductive. *)
LEMMA TypeInvariance ==
  ASSUME NEW app, Threads = {app}
  PROVE  Spec => []TInv
<1>0. Alone
  BY DEF Alone
<1>1. ASSUME TInv, [Next]_vars PROVE TInv'
  <2> USE <1>1
  <2>1. ASSUME NEW t \in Threads,
               \/ CallSend(t) \/ CallClose(t) \/ SendLookup(t) \/ CloseLookup(t)
               \/ SendGet(t) \/ CloseGet(t)
               \/ Remember(t) \/ Erase(t) \/ Send(t) \/ CloseReturn(t)
        PROVE  TInv'
    BY <2>1, CallsTInv
  <2>2. ASSUME NEW t \in Threads, Connect(t) \/ Close(t) PROVE TInv'
    BY <2>2, ConnectTInv, CloseTInv
  <2>3. ASSUME NEW t \in Threads, ConnectRefused(t) \/ SendFails(t) \/ CloseFails(t)
        PROVE  TInv'
    BY <2>3, ExitTInv DEF ConnectRefused, SendFails, CloseFails
  <2>4. CASE Accept
    BY <2>4, AcceptTInv
  <2>5. CASE Terminate
    BY <2>5, ExitTInv DEF Terminate
  <2>6. ASSUME NEW c \in 1..Len(connections),
               PeerCloses(c) \/ Receive(c) \/ ReceiveEnd(c) \/ ReceiverClose(c)
        PROVE  TInv'
    BY <2>6, ReceiverTInv
  <2>7. ASSUME NEW c \in 1..Len(connections), ReceiveFails(c) \/ ReceiverCloseFails(c)
        PROVE  TInv'
    BY <2>7, ExitTInv DEF ReceiveFails, ReceiverCloseFails
  <2>8. CASE UNCHANGED vars
    <3>1. KernelOK'
      BY <2>8, QuietEffect DEF TInv, vars, kernel
    <3> QED BY <2>8, <3>1 DEF TInv, TypeOK, vars, CallOK, Contains
  <2> QED BY <2>1, <2>2, <2>3, <2>4, <2>5, <2>6, <2>7, <2>8 DEF Next
<1>2. Init => TInv
  BY <1>0, InitTInv
<1> QED BY <1>1, <1>2, PTL DEF Spec

(* Every variable keeps its type with one application thread; above all,   *)
(* what it finds for an address is a descriptor: operator[] never inserts  *)
(* the address that contains has found, with descriptor 0                  *)
(* (socket_communicator.cpp:60-76, 96-125, 145-194).                       *)
THEOREM TypeCorrect ==
  ASSUME NEW app, Threads = {app}
  PROVE  Spec => []TypeOK
BY TypeInvariance, PTL DEF TInv

-----------------------------------------------------------------------------
(* One application thread *)

(* Facts about the types that the steps need. *)
LEMMA OneThreadTypes ==
  ASSUME TInv, NEW app \in Threads
  PROVE  /\ pc[app] \in Labels /\ pc \in [Threads -> Labels]
         /\ address \in [Threads -> Peers \cup Fds \cup {NoDescriptor}]
         /\ meant \in [Threads -> Peers \cup {NoDescriptor}]
         /\ descriptor \in [Threads -> Fds \cup {NoDescriptor}]
         /\ address_to_descriptor \in [Peers -> Fds \cup {NoDescriptor}]
         /\ receiver \in [1..MaxConnections -> Fds \cup {NoDescriptor}]
         /\ ending \subseteq 1..Len(connections)
         /\ inbox \subseteq [descriptor : Fds, peer : Peers]
         /\ by_descriptor \in BOOLEAN
         /\ CallOK(app)
         /\ NoDescriptor \notin Fds
BY DescriptorAssumption DEF TInv, TypeOK, NoDescriptor

(* The peer of an open descriptor. *)
LEMMA PeerType ==
  ASSUME TInv, NEW fd \in Fds, Open(fd)
  PROVE  PeerOf(fd) \in Peers /\ fd_table[fd] \in 1..Len(connections)
<1>1. fd_table[fd] \in 1..Len(connections) /\ connections \in Seq(Connection)
  BY LenProperties DEF Open, Closed, TInv, KernelOK
<1>2. connections[fd_table[fd]] \in Connection
  BY <1>1, ElementOfSeq
<1> QED BY <1>1, <1>2 DEF PeerOf, Connection

(* A communicator that has just gone online satisfies both invariants. *)
LEMMA InitOneThread ==
  ASSUME Init, NEW app \in Threads
  PROVE  OutInv(app) /\ SafeInv(app)
<1>1. \A fd \in Fds : ~Open(fd) /\ ~Out(fd)
  BY DEF Init, Open, Out
<1>2. Len(connections) = 0 /\ pc[app] = "idle"
  BY DEF Init
<1>3. OutInv(app)
  BY <1>1, <1>2 DEF OutInv
<1>4. LoopsSafe
  BY <1>2 DEF Init, LoopsSafe
<1>5. CallSafe(app) /\ CacheSafe(app)
  BY <1>2, DescriptorAssumption DEF Init, CallSafe, CacheSafe, NoDescriptor
<1> QED BY <1>3, <1>4, <1>5 DEF Init, SafeInv

(* Steps of app that leave the connections alone: the cache. *)
LEMMA QuietOutInv ==
  ASSUME TInv, NEW app \in Threads, OutInv(app),
         \/ CallSend(app) \/ CallClose(app) \/ SendLookup(app) \/ CloseLookup(app)
         \/ SendGet(app) \/ CloseGet(app)
         \/ Remember(app) \/ Erase(app) \/ Send(app) \/ CloseReturn(app)
  PROVE  OutInv(app)'
<1> USE OneThreadTypes DEF Goto
<1>1. UNCHANGED kernel
  BY GetEffect DEF CallSend, CallClose, Call, SendLookup, CloseLookup, Lookup, Remember,
                   Erase, Send, CloseReturn, Return
<1>2. \A g \in Fds : (Out(g)' <=> Out(g)) /\ PeerOf(g)' = PeerOf(g)
  BY <1>1 DEF Out, Open, PeerOf, kernel
<1>3. \A g \in Fds : Out(g) => PeerOf(g) \in Peers
  BY PeerType DEF Out
<1>4. CASE CallSend(app) \/ CallClose(app)
  <2>1. /\ pc[app] = "idle" /\ pc'[app] \in {"send_lookup", "close_lookup"}
        /\ UNCHANGED <<address_to_descriptor, descriptor>>
    BY <1>4 DEF CallSend, CallClose, Call
  <2> QED BY <1>2, <2>1 DEF OutInv
<1>5. CASE SendLookup(app)
  BY <1>2, <1>5 DEF OutInv, SendLookup, Lookup, Contains
<1>6. CASE CloseLookup(app)
  BY <1>2, <1>3, <1>6 DEF OutInv, CloseLookup, Lookup, Contains
<1>10. CASE SendGet(app) \/ CloseGet(app)
  <2>1. pc'[app] \in {"send", "close"}
    BY <1>10 DEF SendGet, CloseGet, Get
  <2> QED BY <1>2, <1>10, <2>1, GetEffect DEF OutInv
<1>7. CASE Remember(app)
  BY <1>2, <1>3, <1>7 DEF OutInv, Remember, CallOK, call
<1>8. CASE Erase(app)
  BY <1>2, <1>3, <1>8 DEF OutInv, Erase, CallOK, call
<1>9. CASE Send(app) \/ CloseReturn(app)
  BY <1>2, <1>9 DEF OutInv, Send, CloseReturn, Return
<1> QED BY <1>4, <1>5, <1>6, <1>7, <1>8, <1>9, <1>10

(* Steps of the environment make no outgoing connections. *)
LEMMA EnvironmentOutInv ==
  ASSUME NEW app, OutInv(app),
         UNCHANGED <<pc, address, descriptor, address_to_descriptor>>,
         \A g \in Fds : Out(g)' => Out(g) /\ PeerOf(g)' = PeerOf(g)
  PROVE  OutInv(app)'
BY DEF OutInv

(* Steps that make or close a connection, and the environment's: the cache.*)
LEMMA KernelOutInv ==
  ASSUME TInv, NEW app \in Threads, OutInv(app),
         Connect(app) \/ Close(app) \/ Accept
  PROVE  OutInv(app)'
<1> USE OneThreadTypes
<1>1. KernelOK
  BY DEF TInv
<1>2. PICK f : f = Min(FreeFds)
  OBVIOUS
<1>3. \A g \in Fds : Out(g) => PeerOf(g) \in Peers
  BY PeerType DEF Out
<1>4. CASE Connect(app)
  <2>1. /\ address[app] \in Peers /\ NewConnection(address[app], FALSE)
        /\ pc[app] = "connect" /\ pc'[app] = "remember" /\ descriptor'[app] = f
        /\ UNCHANGED <<address, address_to_descriptor>>
    BY <1>2, <1>4 DEF Connect, Goto, CallOK
  <2>2. /\ f \in Fds /\ PeerOf(f)' = address[app]
        /\ \A g \in Fds : g # f => Same(g)
    BY <1>1, <1>2, <2>1, NewConnectionEffect
  <2> QED BY <2>1, <2>2 DEF OutInv, Same, Out
<1>5. CASE Close(app)
  <2>1. /\ descriptor[app] \in Fds /\ UNCHANGED connections
        /\ fd_table' = [fd_table EXCEPT ![descriptor[app]] = Closed]
        /\ pc[app] = "close" /\ pc'[app] \in {"erase", "close_return"}
        /\ UNCHANGED <<address, descriptor, address_to_descriptor>>
    BY <1>5, DescriptorAssumption
       DEF Close, Closable, Open, Goto, call, StandardInput, NoDescriptor
  <2>2. /\ ~Out(descriptor[app])'
        /\ \A g \in Fds : g # descriptor[app] => Same(g)
    BY <1>1, <2>1, CloseEffect
  <2> QED BY <1>3, <2>1, <2>2 DEF OutInv, Same, Out
<1>6. CASE Accept
  <2>1. PICK p \in Peers : NewConnection(p, TRUE)
    BY <1>6 DEF Accept
  <2>2. ~Out(f)' /\ \A g \in Fds : g # f => Same(g)
    BY <1>1, <1>2, <2>1, NewConnectionEffect
  <2>3. UNCHANGED <<pc, address, descriptor, address_to_descriptor>>
    BY <1>6 DEF Accept, call
  <2> QED BY <2>2, <2>3, EnvironmentOutInv DEF Same, Out
<1> QED BY <1>4, <1>5, <1>6

LEMMA ReceiverOutInv ==
  ASSUME TInv, NEW app \in Threads, OutInv(app), NEW c \in 1..Len(connections),
         PeerCloses(c) \/ Receive(c) \/ ReceiveEnd(c) \/ ReceiverClose(c)
  PROVE  OutInv(app)'
<1>1. UNCHANGED <<pc, address, descriptor, address_to_descriptor>>
  BY DEF PeerCloses, Receive, ReceiveEnd, ReceiverClose, call
<1>2. \A g \in Fds : Out(g)' => Out(g) /\ PeerOf(g)' = PeerOf(g)
  <2>1. CASE PeerCloses(c)
    BY <2>1, PeerClosesEffect DEF TInv, PeerCloses, Same, Out
  <2>2. CASE Receive(c) \/ ReceiveEnd(c)
    BY <2>2, QuietEffect DEF TInv, Receive, ReceiveEnd, Same, Out
  <2>3. CASE ReceiverClose(c)
    BY <2>3, CloseEffect DEF TInv, ReceiverClose, Open, Same, Out
  <2> QED BY <2>1, <2>2, <2>3
<1> QED BY <1>1, <1>2, EnvironmentOutInv

-----------------------------------------------------------------------------
(* While no address holds a descriptor *)

(* Calls, lookups and the cache. *)
LEMMA QuietSafeInv ==
  ASSUME TInv, NEW app \in Threads, OutInv(app), SafeInv(app), ~by_descriptor',
         \/ CallSend(app) \/ CallClose(app) \/ SendLookup(app) \/ CloseLookup(app)
         \/ SendGet(app) \/ CloseGet(app)
         \/ Remember(app) \/ Erase(app) \/ Send(app) \/ CloseReturn(app)
  PROVE  SafeInv(app)'
<1> USE OneThreadTypes DEF Goto
<1>1. UNCHANGED <<kernel, receivers, exited>>
  BY GetEffect DEF CallSend, CallClose, Call, SendLookup, CloseLookup, Lookup, Remember,
                   Erase, Send, CloseReturn, Return
<1>2. \A g \in Fds : /\ Out(g)' <=> Out(g)
                     /\ PeerOf(g)' = PeerOf(g)
                     /\ Open(g)' <=> Open(g)
  BY <1>1 DEF Out, Open, PeerOf, kernel
<1>3. LoopsSafe'
  BY <1>1, <1>2 DEF SafeInv, LoopsSafe, LoopSafe, kernel, receivers
<1>4. CallSafe(app)' /\ CacheSafe(app)'
  <2>1. CallSafe(app) /\ CacheSafe(app)
    BY DEF SafeInv
  <2>2. CASE CallSend(app) \/ CallClose(app)
    <3>1. PICK a \in Peers \cup Fds, p \in Peers,
               label \in {"send_lookup", "close_lookup"} :
                 Call(app, a, p, label) /\ (a \in Peers => p = a)
      BY <2>2, DescriptorAssumption DEF CallSend, CallClose
    <3> QED BY <1>2, <2>1, <2>2, <3>1 DEF CallSafe, CacheSafe, Call
  <2>3. CASE SendLookup(app)
    BY <1>2, <2>1, <2>3 DEF SendLookup, CallSafe, CacheSafe, Lookup
  <2>4. CASE CloseLookup(app)
    BY <1>2, <2>1, <2>4 DEF CloseLookup, CallSafe, CacheSafe, Lookup
  <2>8. CASE SendGet(app) \/ CloseGet(app)
    <3>1. pc'[app] \in {"send", "close"}
      BY <2>8 DEF SendGet, CloseGet, Get
    <3>2. PICK fd \in Fds : /\ fd = address_to_descriptor[address[app]]
                            /\ descriptor'[app] = fd
                            /\ address[app] \in Peers
      BY <2>8, GetEffect
    <3>3. Out(fd) /\ PeerOf(fd) = address[app]
      BY <2>1, <2>8, <3>2, GetEffect DEF CacheSafe
    <3> QED BY <1>2, <2>1, <2>8, <3>1, <3>2, <3>3, GetEffect DEF CallSafe, CacheSafe
  <2>5. CASE Remember(app)
    BY <1>2, <2>1, <2>5 DEF Remember, CallSafe, CacheSafe, CallOK, call
  <2>6. CASE Erase(app)
    BY <1>2, <2>1, <2>6 DEF Erase, CallSafe, CacheSafe, CallOK, call
  <2>7. CASE Send(app) \/ CloseReturn(app)
    BY <1>2, <2>1, <2>7 DEF Send, CloseReturn, Return, CallSafe, CacheSafe
  <2> QED BY <2>2, <2>3, <2>4, <2>5, <2>6, <2>7, <2>8
<1> QED BY <1>1, <1>3, <1>4 DEF SafeInv

(* A new connection gets a descriptor that nobody knows. *)
LEMMA ConnectSafeInv ==
  ASSUME TInv, NEW app \in Threads, OutInv(app), SafeInv(app), Connect(app) \/ Accept
  PROVE  SafeInv(app)'
<1>1. KernelOK /\ CallSafe(app) /\ CacheSafe(app) /\ LoopsSafe
  BY DEF TInv, SafeInv
<1>2. PICK f : f = Min(FreeFds)
  OBVIOUS
<1>3. PICK p \in Peers, accepted \in BOOLEAN :
        /\ NewConnection(p, accepted)
        /\ Connect(app) => p = address[app] /\ ~accepted
        /\ Accept => accepted
  BY OneThreadTypes DEF Connect, Accept, Goto, CallOK
<1>4. /\ f \in Fds /\ ~Open(f) /\ Len(connections') = Len(connections) + 1
      /\ Open(f)' /\ PeerOf(f)' = p /\ (Out(f)' <=> ~accepted)
      /\ Len(connections) + 1 \in 1..MaxConnections
      /\ fd_table'[f] = Len(connections) + 1
      /\ \A g \in Fds : g # f => Same(g)
  BY <1>1, <1>2, <1>3, NewConnectionEffect
<1>5. \A g \in Fds : Open(g) =>
        g # f /\ Open(g)' /\ (Out(g)' <=> Out(g)) /\ PeerOf(g)' = PeerOf(g)
              /\ fd_table'[g] = fd_table[g]
  BY <1>4 DEF Same
<1>6. \A g \in Fds : Out(g) => Open(g)
  BY DEF Out
<1>7. MaxConnections \in Nat /\ Len(connections) \in 0..MaxConnections
  BY <1>1, DescriptorAssumption DEF KernelOK
<1>8. UNCHANGED <<address_to_descriptor, address, meant, exited>>
  BY DEF Connect, Accept, call
<1>9. CallSafe(app)'
  <2>1. CASE Connect(app)
    <3>1. pc[app] = "connect" /\ pc'[app] = "remember" /\ descriptor'[app] = f
      BY <1>2, <2>1, OneThreadTypes DEF Connect, Goto
    <3> QED BY <1>1, <1>3, <1>4, <1>8, <2>1, <3>1 DEF CallSafe
  <2>2. CASE Accept
    BY <1>1, <1>5, <1>6, <1>8, <2>2 DEF CallSafe, Accept, call
  <2> QED BY <2>1, <2>2
<1>10. CacheSafe(app)'
  <2>1. pc[app] # "erase" \/ pc'[app] = pc[app]
    BY DEF Connect, Accept, Goto
  <2> QED BY <1>1, <1>5, <1>6, <1>8, <2>1 DEF CacheSafe
<1>11. LoopsSafe'
  <2>1. CASE Connect(app)
    <3>1. UNCHANGED <<receiver, ending>>
      BY <2>1 DEF Connect, receivers
    <3>2. receiver[Len(connections) + 1] = NoDescriptor
      BY <1>1, <1>4, <1>7 DEF LoopsSafe
    <3>3. \A c \in 1..Len(connections') : LoopSafe(c)'
      BY <1>1, <1>4, <1>5, <1>7, <3>1, <3>2, DescriptorAssumption
         DEF LoopsSafe, LoopSafe, NoDescriptor
    <3>4. \A c \in 1..MaxConnections : c > Len(connections') => receiver'[c] = NoDescriptor
      BY <1>1, <1>4, <1>7, <3>1 DEF LoopsSafe
    <3> QED BY <1>1, <3>1, <3>3, <3>4 DEF LoopsSafe
  <2>2. CASE Accept
    <3>1. receiver \in [1..MaxConnections -> Fds \cup {NoDescriptor}]
          /\ ending \subseteq 1..Len(connections)
      BY OneThreadTypes
    <3>2. /\ \A c \in 1..MaxConnections :
               receiver'[c] = IF c = Len(connections) + 1 THEN f ELSE receiver[c]
          /\ ending' = ending /\ ~Out(f)'
      BY <1>2, <1>3, <1>4, <2>2, <3>1 DEF Accept
    <3>3. \A c \in 1..Len(connections') : LoopSafe(c)'
      BY <1>1, <1>4, <1>5, <1>6, <1>7, <3>2 DEF LoopsSafe, LoopSafe
    <3>4. \A c \in 1..MaxConnections : c > Len(connections') => receiver'[c] = NoDescriptor
      BY <1>1, <1>4, <1>7, <3>2 DEF LoopsSafe
    <3>5. \A c \in ending' : receiver'[c] # NoDescriptor
      BY <1>1, <1>4, <1>7, <3>1, <3>2 DEF LoopsSafe
    <3> QED BY <3>3, <3>4, <3>5 DEF LoopsSafe
  <2> QED BY <2>1, <2>2
<1> QED BY <1>8, <1>9, <1>10, <1>11 DEF SafeInv

(* A descriptor is closed by the one that uses it. *)
LEMMA CloseSafeInv ==
  ASSUME TInv, NEW app \in Threads, OutInv(app), SafeInv(app), Close(app)
  PROVE  SafeInv(app)'
<1> USE OneThreadTypes
<1>1. KernelOK /\ CallSafe(app) /\ CacheSafe(app) /\ LoopsSafe
  BY DEF TInv, SafeInv
<1>2. /\ pc[app] = "close" /\ address[app] \in Peers /\ pc'[app] = "erase"
      /\ UNCHANGED <<connections, address_to_descriptor, address, meant, descriptor, receiver,
                     ending, exited>>
  BY <1>1 DEF Close, Goto, call, receivers, CallSafe
<1>3. PICK f \in Fds : descriptor[app] = f /\ Out(f) /\ PeerOf(f) = address[app]
  BY <1>1, <1>2 DEF CallSafe
<1>4. \A g \in Fds : g # f => Same(g)
  BY <1>1, <1>2, <1>3, CloseEffect DEF Close
<1>5. CallSafe(app)'
  BY <1>1, <1>2 DEF CallSafe
<1>6. CacheSafe(app)'
  BY <1>1, <1>2, <1>3, <1>4 DEF CacheSafe, Same, Out
<1>7. LoopsSafe'
  BY <1>1, <1>2, <1>3, <1>4 DEF LoopsSafe, LoopSafe, Same
<1> QED BY <1>2, <1>5, <1>6, <1>7 DEF SafeInv

LEMMA ReceiverSafeInv ==
  ASSUME TInv, NEW app \in Threads, OutInv(app), SafeInv(app),
         NEW c \in 1..Len(connections),
         PeerCloses(c) \/ Receive(c) \/ ReceiveEnd(c) \/ ReceiverClose(c)
  PROVE  SafeInv(app)'
<1> USE OneThreadTypes
<1>1. KernelOK /\ CallSafe(app) /\ CacheSafe(app) /\ LoopsSafe
  BY DEF TInv, SafeInv
<1>2. UNCHANGED <<pc, address_to_descriptor, address, meant, descriptor, exited>>
  BY DEF PeerCloses, Receive, ReceiveEnd, ReceiverClose, call
<1>3. CASE PeerCloses(c) \/ Receive(c) \/ ReceiveEnd(c)
  <2>1. Len(connections') = Len(connections) /\ \A g \in Fds : Same(g)
    BY <1>1, <1>3, PeerClosesEffect, QuietEffect DEF PeerCloses, Receive, ReceiveEnd
  <2>2. /\ receiver' = receiver
        /\ \A b \in ending' : b \in ending \/ receiver[b] # NoDescriptor
    BY <1>3 DEF PeerCloses, Receive, ReceiveEnd, Receiving, receivers
  <2>3. CallSafe(app)' /\ CacheSafe(app)'
    BY <1>1, <1>2, <2>1 DEF CallSafe, CacheSafe, Same, Out
  <2>4. LoopsSafe'
    BY <1>1, <2>1, <2>2 DEF LoopsSafe, LoopSafe, Same
  <2> QED BY <1>2, <2>3, <2>4 DEF SafeInv
<1>4. CASE ReceiverClose(c)
  <2>1. PICK f \in Fds : f = receiver[c]
    BY <1>4 DEF ReceiverClose, Open
  <2>2. Open(f) /\ ~Out(f) /\ fd_table[f] = c
    BY <1>1, <2>1 DEF LoopsSafe, LoopSafe
  <2>3. UNCHANGED connections /\ \A g \in Fds : g # f => Same(g)
    BY <1>1, <1>4, <2>1, CloseEffect DEF ReceiverClose
  <2>4. CallSafe(app)' /\ CacheSafe(app)'
    BY <1>1, <1>2, <2>2, <2>3 DEF CallSafe, CacheSafe, Same, Out
  <2>5. c \in 1..MaxConnections
    BY <1>1, DescriptorAssumption DEF KernelOK
  <2>6. /\ \A b \in 1..MaxConnections :
             receiver'[b] = IF b = c THEN NoDescriptor ELSE receiver[b]
        /\ ending' = ending \ {c}
    BY <1>4, <2>5 DEF ReceiverClose
  <2>7. LoopsSafe'
    <3>1. \A b \in 1..Len(connections) : b \in 1..MaxConnections
      BY <1>1, DescriptorAssumption DEF KernelOK
    <3>2. \A b \in 1..Len(connections) : LoopSafe(b)'
      BY <1>1, <2>2, <2>3, <2>6, <3>1 DEF LoopsSafe, LoopSafe, Same
    <3>3. /\ \A b \in 1..MaxConnections : b > Len(connections) => receiver'[b] = NoDescriptor
          /\ \A b \in ending' : receiver'[b] # NoDescriptor
      BY <1>1, <2>6, <3>1 DEF LoopsSafe
    <3> QED BY <2>3, <3>2, <3>3 DEF LoopsSafe
  <2> QED BY <1>2, <2>4, <2>7 DEF SafeInv
<1> QED BY <1>3, <1>4

-----------------------------------------------------------------------------
(* The invariant of one application thread *)

OneInv(app) == TInv /\ OutInv(app) /\ (by_descriptor \/ SafeInv(app))

(* Once an address with a descriptor has been used, nothing is promised. *)
LEMMA ByDescriptorStays ==
  ASSUME Next, by_descriptor
  PROVE  by_descriptor'
BY DEF Next, CallSend, SendLookup, SendGet, CloseGet, Lookup, Get, Connect, ConnectRefused, Remember, Send, SendFails, CallClose,
       CloseLookup, Close, CloseFails, Erase, CloseReturn, Accept, Terminate, PeerCloses, Receive,
       ReceiveEnd, ReceiveFails, ReceiverClose, ReceiverCloseFails, Call, Return, Exit, call

(* The process is not ended by a descriptor that is no longer open. *)
LEMMA ExitOneInv ==
  ASSUME NEW app \in Threads, OneInv(app),
         \/ ConnectRefused(app) \/ SendFails(app) \/ CloseFails(app) \/ Terminate
         \/ \E c \in 1..Len(connections) : ReceiveFails(c) \/ ReceiverCloseFails(c)
  PROVE  OutInv(app)' /\ (SafeInv(app) => SafeInv(app)')
<1> USE OneThreadTypes
<1>1. PICK reason : Exit(reason) /\ (SafeInv(app) => reason # "bad_descriptor")
  <2>1. CASE ConnectRefused(app) \/ Terminate
    BY <2>1 DEF ConnectRefused, Terminate
  <2>2. CASE SendFails(app) \/ CloseFails(app)
    BY <2>2 DEF SendFails, CloseFails, OneInv, SafeInv, CallSafe, Out
  <2>3. ASSUME NEW c \in 1..Len(connections), ReceiveFails(c) \/ ReceiverCloseFails(c)
        PROVE  \E reason : Exit(reason) /\ (SafeInv(app) => reason # "bad_descriptor")
    <3>1. c \in 1..MaxConnections
      BY DescriptorAssumption DEF OneInv, TInv, KernelOK
    <3>2. receiver[c] \in Fds \cup {NoDescriptor}
      BY <3>1 DEF OneInv, TInv, TypeOK
    <3>3. Exit("bad_descriptor") /\ ~Open(receiver[c])
          /\ (receiver[c] # NoDescriptor \/ c \in ending)
      BY <2>3 DEF ReceiveFails, ReceiverCloseFails, Receiving
    <3>4. ~SafeInv(app)
      BY <3>2, <3>3 DEF SafeInv, LoopsSafe, LoopSafe
    <3> QED BY <3>3, <3>4
  <2> QED BY <2>1, <2>2, <2>3
<1>2. UNCHANGED <<kernel, address_to_descriptor, pc, call, receivers>>
  BY <1>1 DEF Exit
<1>3. Len(connections') = Len(connections) /\ \A g \in Fds : Same(g)
  BY <1>2, QuietEffect DEF OneInv, TInv
<1>4. OutInv(app)'
  BY <1>2, <1>3, EnvironmentOutInv DEF OneInv, Same, Out, call
<1>5. SafeInv(app) => CallSafe(app)' /\ CacheSafe(app)'
  BY <1>2, <1>3 DEF SafeInv, CallSafe, CacheSafe, Same, Out, call
<1>6. SafeInv(app) => LoopsSafe'
  BY <1>2, <1>3 DEF SafeInv, LoopsSafe, LoopSafe, Same, receivers
<1> QED BY <1>1, <1>4, <1>5, <1>6 DEF SafeInv, Exit

(* ... is inductive. *)
LEMMA OneThreadStep ==
  ASSUME NEW app, Threads = {app}, OneInv(app), TInv', [Next]_vars
  PROVE  OneInv(app)'
<1> USE DEF OneInv
<1>0. app \in Threads
  OBVIOUS
<1>1. CASE \/ CallSend(app) \/ CallClose(app) \/ SendLookup(app) \/ CloseLookup(app)
           \/ SendGet(app) \/ CloseGet(app)
           \/ Remember(app) \/ Erase(app) \/ Send(app) \/ CloseReturn(app)
  <2>1. OutInv(app)'
    BY <1>0, <1>1, QuietOutInv
  <2>2. by_descriptor => by_descriptor'
    BY <1>0, <1>1, ByDescriptorStays DEF Next
  <2> QED BY <1>0, <1>1, <2>1, <2>2, QuietSafeInv
<1>2. CASE Connect(app) \/ Close(app) \/ Accept
  <2>1. OutInv(app)'
    BY <1>0, <1>2, KernelOutInv
  <2>2. by_descriptor => by_descriptor'
    BY <1>0, <1>2, ByDescriptorStays DEF Next
  <2> QED BY <1>0, <1>2, <2>1, <2>2, ConnectSafeInv, CloseSafeInv
<1>3. ASSUME NEW c \in 1..Len(connections),
             PeerCloses(c) \/ Receive(c) \/ ReceiveEnd(c) \/ ReceiverClose(c)
      PROVE  OneInv(app)'
  <2>1. OutInv(app)'
    BY <1>0, <1>3, ReceiverOutInv
  <2>2. by_descriptor => by_descriptor'
    BY <1>3, ByDescriptorStays DEF Next
  <2> QED BY <1>0, <1>3, <2>1, <2>2, ReceiverSafeInv
<1>4. CASE \/ ConnectRefused(app) \/ SendFails(app) \/ CloseFails(app) \/ Terminate
           \/ \E c \in 1..Len(connections) : ReceiveFails(c) \/ ReceiverCloseFails(c)
  <2>1. OutInv(app)' /\ (SafeInv(app) => SafeInv(app)')
    BY <1>0, <1>4, ExitOneInv
  <2>2. by_descriptor => by_descriptor'
    BY <1>0, <1>4, ByDescriptorStays DEF Next
  <2> QED BY <2>1, <2>2
<1>5. CASE UNCHANGED vars
  <2>1. UNCHANGED <<kernel, pc, address, descriptor, address_to_descriptor>>
    BY <1>5 DEF vars, kernel
  <2>2. Len(connections') = Len(connections) /\ \A g \in Fds : Same(g)
    BY <2>1, QuietEffect DEF TInv
  <2>3. OutInv(app)'
    BY <2>1, <2>2, EnvironmentOutInv DEF Same, Out
  <2>4. SafeInv(app) => SafeInv(app)'
    BY <1>5, <2>2 DEF SafeInv, CallSafe, CacheSafe, LoopsSafe, LoopSafe, Same, Out, vars
  <2> QED BY <1>5, <2>3, <2>4 DEF vars
<1> QED BY <1>1, <1>2, <1>3, <1>4, <1>5 DEF Next

LEMMA OneThreadInvariance ==
  ASSUME NEW app, Threads = {app}
  PROVE  Spec => []OneInv(app)
<1>1. Init => OneInv(app)
  BY InitTInv, InitOneThread DEF OneInv, Alone
<1>2. OneInv(app) /\ TInv' /\ [Next]_vars => OneInv(app)'
  BY OneThreadStep
<1> QED BY <1>1, <1>2, TypeInvariance, PTL DEF Spec

(* The connections made to a peer are the outgoing ones. *)
LEMMA ConnectedOut ==
  ASSUME NEW p
  PROVE  Connected(p) = {fd \in Fds : Out(fd) /\ PeerOf(fd) = p}
BY DEF Connected, Out

-----------------------------------------------------------------------------

(* One application thread never connects twice to a peer, whatever it does *)
(* with the addresses of received messages                                 *)
(* (socket_communicator.cpp:162-176).                                      *)
THEOREM NeverConnectedTwice ==
  ASSUME NEW app, Threads = {app}
  PROVE  Spec => []OneConnectionPerPeer
<1>1. ASSUME OneInv(app) PROVE OneConnectionPerPeer
  <2>1. ASSUME NEW p \in Peers, NEW f \in Connected(p), NEW g \in Connected(p) PROVE f = g
    <3>1. f \in Fds /\ g \in Fds /\ Out(f) /\ Out(g) /\ PeerOf(f) = p /\ PeerOf(g) = p
      BY ConnectedOut
    <3>2. NoDescriptor \notin Fds
      BY DescriptorAssumption DEF NoDescriptor
    <3> QED BY <1>1, <3>1, <3>2 DEF OneInv, OutInv
  <2> QED BY <2>1 DEF OneConnectionPerPeer
<1> QED BY <1>1, OneThreadInvariance, PTL

(* When its close_connection ends, no connection to that peer is left      *)
(* (socket_communicator.cpp:63-75).                                        *)
THEOREM CloseLeavesNone ==
  ASSUME NEW app, Threads = {app}
  PROVE  Spec => []CloseClosesAll
<1>1. ASSUME OneInv(app) PROVE CloseClosesAll
  <2>1. ASSUME NEW t \in Threads, pc[t] = "close_return", address[t] \in Peers
        PROVE  Connected(address[t]) = {}
    BY <1>1, <2>1, ConnectedOut DEF OneInv, OutInv
  <2> QED BY <2>1 DEF CloseClosesAll
<1> QED BY <1>1, OneThreadInvariance, PTL

(* While no address holds a descriptor, the cache knows between calls      *)
(* exactly the connections made and not closed                             *)
(* (socket_communicator.cpp:66-74, 163-175).                               *)
THEOREM CacheIsExact ==
  ASSUME NEW app, Threads = {app}
  PROVE  Spec => []CacheMatchesConnections
<1>1. ASSUME OneInv(app) PROVE CacheMatchesConnections
  <2>1. ASSUME Quiet, ~by_descriptor, NEW p \in Peers
        PROVE  Connected(p) = {address_to_descriptor[p]} \ {NoDescriptor}
    <3>1. pc[app] = "idle" /\ CacheSafe(app)
      BY <1>1, <2>1 DEF Quiet, OneInv, SafeInv
    <3>2. address_to_descriptor[p] \in Fds \cup {NoDescriptor} /\ NoDescriptor \notin Fds
      BY <1>1, DescriptorAssumption DEF OneInv, TInv, TypeOK, NoDescriptor
    <3>3. ASSUME NEW fd \in Fds, Out(fd), PeerOf(fd) = p PROVE fd = address_to_descriptor[p]
      BY <1>1, <3>1, <3>3 DEF OneInv, OutInv
    <3>4. address_to_descriptor[p] \in Fds =>
            Out(address_to_descriptor[p]) /\ PeerOf(address_to_descriptor[p]) = p
      BY <3>1 DEF CacheSafe
    <3> QED BY <3>2, <3>3, <3>4, ConnectedOut
  <2> QED BY <2>1 DEF CacheMatchesConnections
<1> QED BY <1>1, OneThreadInvariance, PTL

(* ... a message goes out on an open descriptor, to the peer it is meant   *)
(* for (socket_communicator.cpp:145-151).                                  *)
THEOREM RecipientIsOpen ==
  ASSUME NEW app, Threads = {app}
  PROVE  Spec => []RecipientOpen
<1>1. OneInv(app) => RecipientOpen
  BY DEF OneInv, SafeInv, CallSafe, Out, RecipientOpen
<1> QED BY <1>1, OneThreadInvariance, PTL

(* ... a receive loop reads from the connection it was started for         *)
(* (socket_communicator.cpp:104-124).                                      *)
THEOREM LoopsKeepToTheirOwn ==
  ASSUME NEW app, Threads = {app}
  PROVE  Spec => []LoopsKeepTheirConnections
<1>1. ASSUME OneInv(app) PROVE LoopsKeepTheirConnections
  <2>1. ASSUME ~by_descriptor, NEW c \in 1..Len(connections), receiver[c] # NoDescriptor
        PROVE  fd_table[receiver[c]] = c
    <3>1. c \in 1..MaxConnections
      BY <1>1, DescriptorAssumption DEF OneInv, TInv, KernelOK
    <3>2. receiver[c] \in Fds
      BY <1>1, <2>1, <3>1 DEF OneInv, TInv, TypeOK
    <3> QED BY <1>1, <2>1, <3>2 DEF OneInv, SafeInv, LoopsSafe, LoopSafe
  <2> QED BY <2>1 DEF LoopsKeepTheirConnections, ReceivesFromItsOwn
<1> QED BY <1>1, OneThreadInvariance, PTL

(* ... and the process is not ended by a descriptor that is no longer open *)
(* (socket_communicator.cpp:66-67, 124, 149-151).                          *)
THEOREM DescriptorsStayGood ==
  ASSUME NEW app, Threads = {app}
  PROVE  Spec => []NoBadDescriptor
<1>1. OneInv(app) => NoBadDescriptor
  BY DEF OneInv, SafeInv, NoBadDescriptor
<1> QED BY <1>1, OneThreadInvariance, PTL
=============================================================================
