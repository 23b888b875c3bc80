---------------------------- MODULE Connections ----------------------------
(***************************************************************************)
(* The connections of one SocketCommunicator (socket_communicator.cpp:     *)
(* 60-76, 96-125, 145-194) and their file descriptors: application threads *)
(* send to and close addresses through the cache address_to_descriptor,    *)
(* and the thread started for an accepted connection receives until its    *)
(* peer closes.                                                            *)
(*                                                                         *)
(* A descriptor is a number that the system hands out again once it has    *)
(* been closed.  The cache is used without a lock: each access of it is a  *)
(* step.  Going online and offline is SocketCommunicator's subject; here   *)
(* the process is online, and the std::thread objects that go_online and   *)
(* the accept loops have started wait to be destroyed.                     *)
(***************************************************************************)
EXTENDS Integers, Sequences, FiniteSetsExt

CONSTANTS
  Peers,            (* addresses with an ip and a port                     *)
  Fds,              (* descriptors the process may get                     *)
  Senders,          (* application threads that send to peers              *)
  Closers,          (* ... that close connections to peers                 *)
  Repliers,         (* ... that send to the address of a received message, *)
                    (* which holds the descriptor it came from             *)
  InboundClosers,   (* ... that close that address                         *)
  AcceptLoops,      (* how many accept loops run: one, or more after a race*)
                    (* of go_online                                        *)
  MaxConnections    (* bound: connections made and accepted                *)

ASSUME DescriptorAssumption ==
  /\ Fds \subseteq Nat \ {0} /\ Peers \cap Fds = {}
  /\ AcceptLoops \in Nat /\ MaxConnections \in Nat

Threads == Senders \cup Closers \cup Repliers \cup InboundClosers

NoDescriptor  == -1
StandardInput == 0

Closed == 0

VARIABLES
  connections,             (* every connection so far: its peer, whether it *)
                           (* was accepted, whether the peer has closed it  *)
  fd_table,                (* the connection that a descriptor denotes now  *)
  address_to_descriptor,
  pc,
  address,                 (* the argument of each thread's last call ...   *)
  meant,                   (* history: ... the peer the caller meant by it  *)
  descriptor,              (* ... and the descriptor found for it           *)
  receiver,                (* the descriptor that the thread started for an *)
                           (* accepted connection receives from             *)
  ending,                  (* connections whose thread has been told the end*)
  by_descriptor,           (* history: an address that holds a descriptor   *)
                           (* has been sent to or closed                    *)
  inbox,                   (* messages: descriptor (the address) and peer   *)
  exited                   (* why the process has ended, if it has          *)

vars == <<connections, fd_table, address_to_descriptor, pc, address, meant,
          descriptor, receiver, ending, by_descriptor, inbox, exited>>

receivers == <<receiver, ending>>

kernel == <<connections, fd_table>>
call   == <<address, meant, descriptor, by_descriptor>>

Init ==
  /\ connections = <<>>
  /\ fd_table = [fd \in Fds |-> Closed]
  /\ address_to_descriptor = [p \in Peers |-> NoDescriptor]
  /\ pc = [t \in Threads |-> "idle"]
  /\ address = [t \in Threads |-> NoDescriptor]
  /\ meant = [t \in Threads |-> NoDescriptor]
  /\ descriptor = [t \in Threads |-> NoDescriptor]
  /\ receiver = [c \in 1..MaxConnections |-> NoDescriptor]
  /\ ending = {}
  /\ by_descriptor = FALSE
  /\ inbox = {}
  /\ exited = "no"

Running == exited = "no"

Goto(t, from, to) == pc[t] = from /\ pc' = [pc EXCEPT ![t] = to]

(* A call of SocketAgent fails and EXIT_ON_ERROR is true. *)
Exit(reason) ==
  /\ exited' = reason
  /\ UNCHANGED <<kernel, address_to_descriptor, pc, call, receivers, inbox>>

FreeFds == {fd \in Fds : fd_table[fd] = Closed}

(* A new connection gets the lowest free descriptor. *)
NewConnection(peer, accepted) ==
  /\ FreeFds # {}
  /\ Len(connections) < MaxConnections
  /\ connections' = Append(connections,
       [peer |-> peer, accepted |-> accepted, peer_closed |-> FALSE])
  /\ fd_table' = [fd_table EXCEPT ![Min(FreeFds)] = Len(connections) + 1]

PeerOf(fd) == connections[fd_table[fd]].peer

Open(fd) == fd \in Fds /\ fd_table[fd] # Closed

-----------------------------------------------------------------------------
(* send_to and close_connection *)

Call(t, addr, peer, label) ==
  /\ Goto(t, "idle", label)
  /\ address' = [address EXCEPT ![t] = addr]
  /\ meant' = [meant EXCEPT ![t] = peer]
  /\ by_descriptor' = (by_descriptor \/ addr \notin Peers)
  /\ UNCHANGED <<kernel, address_to_descriptor, descriptor, receivers, inbox, exited>>

(* The call's variables go out of scope. *)
Return(t, from) ==
  /\ Goto(t, from, "idle")
  /\ address' = [address EXCEPT ![t] = NoDescriptor]
  /\ meant' = [meant EXCEPT ![t] = NoDescriptor]
  /\ descriptor' = [descriptor EXCEPT ![t] = NoDescriptor]
  /\ UNCHANGED <<kernel, address_to_descriptor, by_descriptor, receivers, inbox, exited>>

CallSend(t) ==
  /\ Running
  /\ \/ t \in Senders /\ \E p \in Peers : Call(t, p, p, "send_lookup")
     \/ t \in Repliers /\ \E m \in inbox : Call(t, m.descriptor, m.peer, "send_lookup")

CallClose(t) ==
  /\ Running
  /\ \/ t \in Closers /\ \E p \in Peers : Call(t, p, p, "close_lookup")
     \/ t \in InboundClosers
        /\ \E m \in inbox : Call(t, m.descriptor, m.peer, "close_lookup")

(* contains is not asked. *)
ContainsAnything(addr) == TRUE

(* address_to_descriptor.contains *)
Contains(addr) == address_to_descriptor[addr] # NoDescriptor

(* address_to_descriptor[addr]: a missing address is inserted, with 0. *)
At(addr) == IF address_to_descriptor[addr] = NoDescriptor THEN StandardInput
            ELSE address_to_descriptor[addr]

(* get_descriptor as far as contains *)
Lookup(t, from, by_descriptor_to, found_to, missing_to) ==
  /\ Running
  /\ \/ /\ address[t] \notin Peers
        /\ Goto(t, from, by_descriptor_to)
        /\ descriptor' = [descriptor EXCEPT ![t] = address[t]]
     \/ /\ address[t] \in Peers
        /\ Goto(t, from, IF Contains(address[t]) THEN found_to ELSE missing_to)
        /\ UNCHANGED descriptor
  /\ UNCHANGED <<kernel, address_to_descriptor, address, meant, by_descriptor, receivers,
                 inbox, exited>>

(* ... and its operator[] *)
Get(t, from, to) ==
  /\ Running
  /\ Goto(t, from, to)
  /\ address_to_descriptor' = [address_to_descriptor EXCEPT ![address[t]] = At(address[t])]
  /\ descriptor' = [descriptor EXCEPT ![t] = At(address[t])]
  /\ UNCHANGED <<kernel, address, meant, by_descriptor, receivers, inbox, exited>>

SendLookup(t) == Lookup(t, "send_lookup", "send", "send_get", "connect")
SendGet(t)    == Get(t, "send_get", "send")

(* agent_connect *)
Connect(t) ==
  /\ Running
  /\ NewConnection(address[t], FALSE)
  /\ descriptor' = [descriptor EXCEPT ![t] = Min(FreeFds)]
  /\ Goto(t, "connect", "remember")
  /\ UNCHANGED <<address_to_descriptor, address, meant, by_descriptor, receivers, inbox, exited>>

ConnectRefused(t) ==
  /\ Running
  /\ pc[t] = "connect"
  /\ Exit("refused")

(* The new descriptor is not put into the cache. *)
Forget(t) ==
  /\ Running
  /\ Goto(t, "remember", "send")
  /\ UNCHANGED <<kernel, address_to_descriptor, call, receivers, inbox, exited>>

Remember(t) ==
  /\ Running
  /\ Goto(t, "remember", "send")
  /\ address_to_descriptor' =
       [address_to_descriptor EXCEPT ![address[t]] = descriptor[t]]
  /\ UNCHANGED <<kernel, call, receivers, inbox, exited>>

(* agent_send *)
Send(t) ==
  /\ Running
  /\ Open(descriptor[t])
  /\ Return(t, "send")

SendFails(t) ==
  /\ Running
  /\ pc[t] = "send"
  /\ \/ ~Open(descriptor[t]) /\ Exit("bad_descriptor")
     \/ /\ Open(descriptor[t])
        /\ connections[fd_table[descriptor[t]]].peer_closed
        /\ Exit("peer_closed")

CloseLookup(t) == Lookup(t, "close_lookup", "close", "close_get", "close_return")
CloseGet(t)    == Get(t, "close_get", "close")

(* Standard input can be closed, too; nobody here gets its number then. *)
Closable(fd) == Open(fd) \/ fd = StandardInput

(* agent_close_connection *)
Close(t) ==
  /\ Running
  /\ Closable(descriptor[t])
  /\ fd_table' = [fd_table EXCEPT ![descriptor[t]] = Closed]
  /\ Goto(t, "close", IF address[t] \in Peers THEN "erase" ELSE "close_return")
  /\ UNCHANGED <<connections, address_to_descriptor, call, receivers, inbox, exited>>

CloseFails(t) ==
  /\ Running
  /\ pc[t] = "close"
  /\ ~Open(descriptor[t])
  /\ Exit("bad_descriptor")

(* The closed descriptor stays in the cache. *)
EraseNothing(t) ==
  /\ Running
  /\ Goto(t, "erase", "close_return")
  /\ UNCHANGED <<kernel, address_to_descriptor, call, receivers, inbox, exited>>

Erase(t) ==
  /\ Running
  /\ Goto(t, "erase", "close_return")
  /\ address_to_descriptor' = [address_to_descriptor EXCEPT ![address[t]] = NoDescriptor]
  /\ UNCHANGED <<kernel, call, receivers, inbox, exited>>

CloseReturn(t) ==
  /\ Running
  /\ Return(t, "close_return")

-----------------------------------------------------------------------------
(* The peers, and the threads that receive from them *)

(* agent_accept: a peer has connected; a thread starts to receive from it. *)
(* An accept loop has no second turn: destroying the joinable              *)
(* receiving_thread ends the process.                                      *)
Accept ==
  /\ Running
  /\ Cardinality({c \in 1..Len(connections) : connections[c].accepted}) < AcceptLoops
  /\ \E p \in Peers : NewConnection(p, TRUE)
  /\ receiver' = [receiver EXCEPT ![Len(connections) + 1] = Min(FreeFds)]
  /\ UNCHANGED <<address_to_descriptor, pc, call, ending, inbox, exited>>

(* accepting_thread or receiving_thread is destroyed. *)
Terminate == Running /\ Exit("terminated")

PeerCloses(c) ==
  /\ Running
  /\ ~connections[c].peer_closed
  /\ connections' = [connections EXCEPT ![c].peer_closed = TRUE]
  /\ UNCHANGED <<fd_table, address_to_descriptor, pc, call, receivers, inbox, exited>>

Receiving(c) == Running /\ receiver[c] # NoDescriptor /\ c \notin ending

(* recv returns a message of whatever connection the descriptor denotes. *)
Receive(c) ==
  /\ Receiving(c)
  /\ Open(receiver[c])
  /\ ~connections[fd_table[receiver[c]]].peer_closed
  /\ inbox' = inbox \cup {[descriptor |-> receiver[c], peer |-> PeerOf(receiver[c])]}
  /\ UNCHANGED <<kernel, address_to_descriptor, pc, call, receivers, exited>>

ReceiveEnd(c) ==
  /\ Receiving(c)
  /\ Open(receiver[c])
  /\ connections[fd_table[receiver[c]]].peer_closed
  /\ ending' = ending \cup {c}
  /\ UNCHANGED <<kernel, address_to_descriptor, pc, call, receiver, inbox, exited>>

ReceiveFails(c) ==
  /\ Receiving(c)
  /\ ~Open(receiver[c])
  /\ Exit("bad_descriptor")

(* The receive loop goes on after it has closed its connection. *)
ReceiverCloseOnly(c) ==
  /\ Running /\ c \in ending
  /\ Open(receiver[c])
  /\ fd_table' = [fd_table EXCEPT ![receiver[c]] = Closed]
  /\ ending' = ending \ {c}
  /\ UNCHANGED <<connections, address_to_descriptor, pc, call, receiver, inbox, exited>>

(* close_connection at the end of the receive loop. *)
ReceiverClose(c) ==
  /\ Running /\ c \in ending
  /\ Open(receiver[c])
  /\ fd_table' = [fd_table EXCEPT ![receiver[c]] = Closed]
  /\ receiver' = [receiver EXCEPT ![c] = NoDescriptor]
  /\ ending' = ending \ {c}
  /\ UNCHANGED <<connections, address_to_descriptor, pc, call, inbox, exited>>

ReceiverCloseFails(c) ==
  /\ Running /\ c \in ending
  /\ ~Open(receiver[c])
  /\ Exit("bad_descriptor")

-----------------------------------------------------------------------------

Next ==
  \/ \E t \in Threads :
       \/ CallSend(t) \/ SendLookup(t) \/ SendGet(t) \/ Connect(t) \/ ConnectRefused(t)
       \/ Remember(t) \/ Send(t) \/ SendFails(t)
       \/ CallClose(t) \/ CloseLookup(t) \/ CloseGet(t) \/ Close(t) \/ CloseFails(t)
       \/ Erase(t) \/ CloseReturn(t)
  \/ Accept \/ Terminate
  \/ \E c \in 1..Len(connections) :
       \/ PeerCloses(c) \/ Receive(c) \/ ReceiveEnd(c) \/ ReceiveFails(c)
       \/ ReceiverClose(c) \/ ReceiverCloseFails(c)

Spec == Init /\ [][Next]_vars

-----------------------------------------------------------------------------

Labels ==
  {"idle", "send_lookup", "send_get", "connect", "remember", "send", "close_lookup",
   "close_get", "close", "erase", "close_return"}

(* With one application thread, operator[] never inserts. *)
TypeOK ==
  /\ fd_table \in [Fds -> 0..Len(connections)]
  /\ address_to_descriptor \in [Peers -> Fds \cup {NoDescriptor}]
  /\ pc \in [Threads -> Labels]
  /\ descriptor \in [Threads -> Fds \cup {NoDescriptor}]
  /\ receiver \in [1..MaxConnections -> Fds \cup {NoDescriptor}]
  /\ ending \subseteq 1..Len(connections)
  /\ by_descriptor \in BOOLEAN
  /\ inbox \subseteq [descriptor : Fds, peer : Peers]
  /\ exited \in {"no", "refused", "peer_closed", "bad_descriptor", "terminated"}

Connected(p) == {fd \in Fds : Open(fd) /\ PeerOf(fd) = p
                              /\ ~connections[fd_table[fd]].accepted}

Quiet == \A t \in Threads : pc[t] = "idle"

(* While callers use addresses with an ip and a port, the cache knows       *)
(* between calls exactly the connections the communicator has made and not *)
(* closed: every cached descriptor is open to its address, and no          *)
(* connection is left that close_connection cannot find                    *)
(* (socket_communicator.cpp:66-74, 163-175; 60-62: "this function may be   *)
(* called externally instructing that any connection descriptor associated *)
(* with address be closed").                                               *)
CacheMatchesConnections ==
  (Quiet /\ ~by_descriptor) =>
    \A p \in Peers : Connected(p) = {address_to_descriptor[p]} \ {NoDescriptor}

(* The cache keeps the communicator from connecting twice to a peer        *)
(* (socket_communicator.cpp:162-176).                                      *)
OneConnectionPerPeer == \A p \in Peers : \A f, g \in Connected(p) : f = g

(* While callers use addresses with an ip and a port, a message goes out on*)
(* an open descriptor, to the peer it is meant for                         *)
(* (socket_communicator.cpp:145-146: "It is assumed that is_online is true *)
(* and, for now, that recipient_descriptor is open").                      *)
RecipientOpen ==
  \A t \in Threads :
    (pc[t] = "send" /\ ~by_descriptor)
      => Open(descriptor[t]) /\ PeerOf(descriptor[t]) = meant[t]

(* When close_connection(address) ends, no connection made to address is   *)
(* open, whatever descriptors have been closed behind the cache's back, if *)
(* no two threads send (socket_communicator.cpp:63-75).                    *)
CloseClosesAll ==
  Cardinality(Senders) <= 1 =>
    \A t \in Threads :
      (pc[t] = "close_return" /\ address[t] \in Peers) => Connected(address[t]) = {}

ReceivesFromItsOwn ==
  \A c \in 1..Len(connections) :
    receiver[c] # NoDescriptor => fd_table[receiver[c]] = c

(* A receive loop reads from the connection it was started for until that  *)
(* has ended, and closes no other (socket_communicator.cpp:104-124), while *)
(* nobody sends to or closes the address of a received message.            *)
LoopsKeepTheirConnections == by_descriptor \/ ReceivesFromItsOwn

(* Whatever the application closes, a receive loop reads from no other     *)
(* connection than the one it was started for (socket_communicator.cpp:    *)
(* 96-97: "Continuously receives messages from the connection at descriptor*)
(* while it is open").                                                     *)
ReceivesFromNoOther ==
  \A c \in 1..Len(connections) :
    receiver[c] # NoDescriptor => fd_table[receiver[c]] \in {c, Closed}

(* While callers use addresses with an ip and a port, the process is not   *)
(* ended by its own use of a descriptor that is no longer open             *)
(* (socket_communicator.cpp:66-67, 124, 149-151).                          *)
NoBadDescriptor == by_descriptor \/ exited # "bad_descriptor"
=============================================================================
