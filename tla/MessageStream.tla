--------------------------- MODULE MessageStream ---------------------------
(***************************************************************************)
(* One connection between two SocketCommunicators: the threads of one node *)
(* that send_to the other (socket_communicator.cpp:31-44, 147-152 and      *)
(* socket_agent.cpp:134-161) and the thread of the other node that runs    *)
(* enter_receive_loop (socket_communicator.cpp:98-125 and                  *)
(* socket_agent.cpp:163-181).  Between them is a TCP stream: send takes    *)
(* some of the bytes it is given, recv returns some of those in flight.    *)
(*                                                                         *)
(* Errors of send and recv end the process (EXIT_ON_ERROR) and are left    *)
(* out here; a connection closed under a sender is Connections' subject.   *)
(***************************************************************************)
EXTENDS Naturals, Sequences, SequencesExt

CONSTANTS
  Senders,     (* the threads that send to the same address               *)
  Sizes,       (* the lengths of messages, in bytes                       *)
  MaxMessage,  (* MAX_MESSAGE_SIZE                                        *)
  MaxCalls     (* bound: calls of send_to by one thread                   *)

ASSUME StreamAssumption ==
  Sizes \subseteq Nat /\ MaxMessage \in Nat \ {0} /\ MaxCalls \in Nat

VARIABLES
  sent,            (* the lengths of the messages of each thread, the one *)
                   (* being sent last                                     *)
  message_index,   (* bytes of that message which send has taken          *)
  wire,            (* bytes in flight                                     *)
  closed,          (* the sending node has closed the connection          *)
  inbox,           (* the messages put into the receiver's message_pool   *)
  receiving        (* the receive loop is running                         *)

vars == <<sent, message_index, wire, closed, inbox, receiving>>

Init ==
  /\ sent = [s \in Senders |-> <<>>]
  /\ message_index = [s \in Senders |-> 0]
  /\ wire = <<>>
  /\ closed = FALSE
  /\ inbox = <<>>
  /\ receiving = TRUE

(* The message a thread is sending has this many bytes (none at first). *)
Size(s) == IF sent[s] = <<>> THEN 0 ELSE Last(sent[s])

bytes_left(s) == Size(s) - message_index[s]

(* Bytes first to last of the message that s is sending. *)
Bytes(s, first, last) ==
  [i \in 1..last - first + 1 |->
     [sender |-> s, message |-> Len(sent[s]), byte |-> first + i - 1]]

-----------------------------------------------------------------------------

(* send_to of a message that is not too long; agent_send begins. *)
SendTo(s) ==
  /\ ~closed
  /\ bytes_left(s) = 0
  /\ Len(sent[s]) < MaxCalls
  /\ \E n \in Sizes :
       /\ n <= MaxMessage
       /\ sent' = [sent EXCEPT ![s] = Append(@, n)]
  /\ message_index' = [message_index EXCEPT ![s] = 0]
  /\ UNCHANGED <<wire, closed, inbox, receiving>>

(* Each turn of the loop sends from the start of the message. *)
SendFromStart(s) ==
  /\ bytes_left(s) > 0
  /\ \E n \in 1..bytes_left(s) :
       /\ wire' = wire \o Bytes(s, 1, n)
       /\ message_index' = [message_index EXCEPT ![s] = @ + n]
  /\ UNCHANGED <<sent, closed, inbox, receiving>>

(* One turn of agent_send's loop: send takes n bytes. *)
Send(s) ==
  /\ bytes_left(s) > 0
  /\ \E n \in 1..bytes_left(s) :
       /\ wire' = wire \o Bytes(s, message_index[s] + 1, message_index[s] + n)
       /\ message_index' = [message_index EXCEPT ![s] = @ + n]
  /\ UNCHANGED <<sent, closed, inbox, receiving>>

(* close_connection, when no thread is sending. *)
CloseConnection ==
  /\ ~closed
  /\ \A s \in Senders : bytes_left(s) = 0
  /\ closed' = TRUE
  /\ UNCHANGED <<sent, message_index, wire, inbox, receiving>>

ReceiveBytes(n) ==
  /\ inbox' = Append(inbox, SubSeq(wire, 1, n))
  /\ wire' = SubSeq(wire, n + 1, Len(wire))

(* The loop ends at the first recv that does not fill the buffer. *)
ReceiveUntilShort ==
  /\ receiving
  /\ wire # <<>>
  /\ \E n \in 1..Len(wire) :
       n <= MaxMessage /\ ReceiveBytes(n) /\ receiving' = (n = MaxMessage)
  /\ UNCHANGED <<sent, message_index, closed>>

(* One turn of the receive loop: recv returns n bytes, which become one    *)
(* message of the inbox.                                                   *)
Receive ==
  /\ receiving
  /\ wire # <<>>
  /\ \E n \in 1..Len(wire) : n <= MaxMessage /\ ReceiveBytes(n)
  /\ UNCHANGED <<sent, message_index, closed, receiving>>

(* The empty string that comes with the 0 is put into the inbox too. *)
ReceiveEndDelivers ==
  /\ receiving
  /\ wire = <<>> /\ closed
  /\ receiving' = FALSE
  /\ inbox' = Append(inbox, <<>>)
  /\ UNCHANGED <<sent, message_index, wire, closed>>

(* recv returns 0: the peer has closed and everything has been read. *)
ReceiveEnd ==
  /\ receiving
  /\ wire = <<>> /\ closed
  /\ receiving' = FALSE
  /\ UNCHANGED <<sent, message_index, wire, closed, inbox>>

Next ==
  \/ \E s \in Senders : SendTo(s) \/ Send(s)
  \/ CloseConnection
  \/ Receive \/ ReceiveEnd

Spec == Init /\ [][Next]_vars

(* A thread in agent_send goes on, and recv returns when there are bytes or*)
(* the peer has closed.                                                    *)
FairSpec ==
  /\ Spec
  /\ \A s \in Senders : WF_vars(Send(s))
  /\ WF_vars(Receive \/ ReceiveEnd)

-----------------------------------------------------------------------------

AllBytes == [sender : Senders, message : 1..MaxCalls, byte : 1..MaxMessage]

(* The bytes of the k-th message of s that send has taken. *)
Taken(s, k) == IF k = Len(sent[s]) THEN message_index[s] ELSE sent[s][k]

SentBytes ==
  {b \in AllBytes : /\ b.message <= Len(sent[b.sender])
                    /\ b.byte <= Taken(b.sender, b.message)}

Received == FlattenSeq(inbox)

Precedes(b, c) ==
  \/ b.message < c.message
  \/ b.message = c.message /\ b.byte < c.byte

(* The stream holds the bytes sent and no others, each thread's once each  *)
(* and in order.                                                           *)
Complete(stream) ==
  /\ {stream[i] : i \in DOMAIN stream} = SentBytes
  /\ \A i, j \in DOMAIN stream :
       i < j /\ stream[i].sender = stream[j].sender => Precedes(stream[i], stream[j])

TypeOK ==
  /\ sent \in [Senders -> Seq(Sizes)]
  /\ message_index \in [Senders -> 0..MaxMessage]
  /\ closed \in BOOLEAN /\ receiving \in BOOLEAN
  /\ \A k \in 1..Len(inbox) : Len(inbox[k]) \in 1..MaxMessage

(* However send splits messages and recv joins them, the bytes of each     *)
(* sending thread arrive once each and in order, whatever the other threads*)
(* send between them (socket_agent.cpp:147-158, socket_communicator.cpp:   *)
(* 104-117).                                                               *)
BytesInOrder == Complete(Received \o wire)

(* Once the connection is closed the receive loop ends, and not before the *)
(* inbox holds every byte that was sent (socket_communicator.cpp:104-124). *)
EverythingArrives == closed ~> ~receiving /\ Complete(Received)
=============================================================================
