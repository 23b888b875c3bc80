-------------------------- MODULE SocketAgentTest --------------------------
(***************************************************************************)
(* The test program of class SocketAgent (functionality/socket_agent.cpp:  *)
(* 413-585).  Each thread of send_receive opens a server, sends its number *)
(* to every other thread from threads of their own (connect_send), and     *)
(* receives from all of them.  main makes the threads wait for each other  *)
(* twice, through the semaphores coordinate_main and coordinate_threads:   *)
(* once all servers are open, and once everything has been received.       *)
(*                                                                         *)
(* A semaphore is its number of units here, and an acquire takes effect    *)
(* when the thread is served (FifoSemaphore).  EXIT_ON_ERROR is true.  A   *)
(* message is a thread's number in decimal: one byte, which recv cannot    *)
(* split, if the number is less than ten.  An accepted descriptor is never *)
(* closed.                                                                 *)
(***************************************************************************)
EXTENDS Naturals, FiniteSets

CONSTANT Servers   (* thread numbers                                       *)

num_threads == Cardinality(Servers)
queue_size  == num_threads - 1

(* <<i, j>> is the thread of i that sends to j. *)
Senders == {p \in Servers \X Servers : p[1] # p[2]}

VARIABLES
  coordinate_main, coordinate_threads,
  main,             (* where main is                                       *)
  server, sender,       (* where the threads are                               *)
  listening,        (* the threads whose server socket is open             *)
  backlog,          (* senders that are connected and not accepted         *)
  other_descriptor, (* the sender each thread has accepted last            *)
  received,         (* messages received, by thread                        *)
  success,
  exited            (* the error that has ended the process                *)

sockets == <<listening, backlog, other_descriptor>>
results == <<received, success>>
vars == <<coordinate_main, coordinate_threads, main, server, sender, sockets,
          results, exited>>

None == "none"

Init ==
  /\ coordinate_main = 0 /\ coordinate_threads = 0
  /\ main = "acquire_1"
  /\ server = [i \in Servers |-> "open"]
  /\ sender = [p \in Senders |-> None]
  /\ listening = {} /\ backlog = {}
  /\ other_descriptor = [i \in Servers |-> None]
  /\ received = [i \in Servers |-> 0]
  /\ success = [i \in Servers |-> FALSE]
  /\ exited = "no"

Goto(i, from, to) ==
  exited = "no" /\ server[i] = from /\ server' = [server EXCEPT ![i] = to]

SenderGoto(p, from, to) ==
  exited = "no" /\ sender[p] = from /\ sender' = [sender EXCEPT ![p] = to]

MainGoto(from, to) == exited = "no" /\ main = from /\ main' = to

Exit(error) ==
  /\ exited = "no" /\ exited' = error
  /\ UNCHANGED <<coordinate_main, coordinate_threads, main, server, sender, sockets,
                 results>>

-----------------------------------------------------------------------------
(* send_receive *)

OpenServer(i) ==
  /\ Goto(i, "open", "arrive_1")
  /\ listening' = listening \cup {i}
  /\ UNCHANGED <<coordinate_main, coordinate_threads, main, sender, backlog,
                 other_descriptor, results, exited>>

(* The port is in use by another program. *)
OpenServerFails(i) == server[i] = "open" /\ Exit("open")

(* coordinate_main.give(1) *)
Arrive(i) ==
  /\ Goto(i, "arrive_1", "wait_1") \/ Goto(i, "arrive_2", "wait_2")
  /\ coordinate_main' = coordinate_main + 1
  /\ UNCHANGED <<coordinate_threads, main, sender, sockets, results, exited>>

(* coordinate_this.acquire(1) *)
Wait(i) ==
  /\ Goto(i, "wait_1", "spawn") \/ Goto(i, "wait_2", "close")
  /\ coordinate_threads > 0
  /\ coordinate_threads' = coordinate_threads - 1
  /\ UNCHANGED <<coordinate_main, main, sender, sockets, results, exited>>

Spawn(i) ==
  /\ Goto(i, "spawn", "accept")
  /\ sender' = [p \in Senders |-> IF p[1] = i THEN "connect" ELSE sender[p]]
  /\ success' = [success EXCEPT ![i] = TRUE]
  /\ UNCHANGED <<coordinate_main, coordinate_threads, main, sockets, received, exited>>

(* listen_accept_receive *)
Accept(i) ==
  /\ Goto(i, "accept", "receive")
  /\ \E p \in backlog :
       /\ p[2] = i
       /\ other_descriptor' = [other_descriptor EXCEPT ![i] = p]
       /\ backlog' = backlog \ {p}
  /\ UNCHANGED <<coordinate_main, coordinate_threads, main, sender, listening,
                 results, exited>>

(* No descriptor is free. *)
AcceptFails(i) == server[i] = "accept" /\ Exit("accept")

(* The senders' loop variable is the number of the thread it sends to. *)
OwnNumber(p) == p[1]

message_to_send(p) == p[2]

Sent(p) == sender[p] = "ended"

OneByte(message) == message < 10

(* recv returns what has come so far: a message, or the first of its bytes.*)
Receive(i) ==
  LET p == other_descriptor[i]
  IN  /\ Goto(i, "receive", IF received[i] + 1 = num_threads - 1 THEN "join" ELSE "accept")
      /\ Sent(p)
      /\ received' = [received EXCEPT ![i] = @ + 1]
      /\ \E whole \in BOOLEAN :
           /\ OneByte(message_to_send(p)) => whole
           /\ success' = [success EXCEPT ![i] = @ /\ whole /\ message_to_send(p) = i]
      /\ UNCHANGED <<coordinate_main, coordinate_threads, main, sender, sockets, exited>>

JoinSenders(i) ==
  /\ Goto(i, "join", "arrive_2")
  /\ \A p \in Senders : p[1] = i => sender[p] = "ended"
  /\ UNCHANGED <<coordinate_main, coordinate_threads, main, sender, sockets,
                 results, exited>>

CloseServer(i) ==
  /\ Goto(i, "close", "ended")
  /\ listening' = listening \ {i}
  /\ UNCHANGED <<coordinate_main, coordinate_threads, main, sender, backlog,
                 other_descriptor, results, exited>>

-----------------------------------------------------------------------------
(* connect_send *)

(* A full backlog makes a connection wait; without a server it would be    *)
(* refused, which BarriersHold excludes.                                   *)
Connect(p) ==
  /\ SenderGoto(p, "connect", "send")
  /\ p[2] \in listening
  /\ Cardinality({q \in backlog : q[2] = p[2]}) < queue_size
  /\ backlog' = backlog \cup {p}
  /\ UNCHANGED <<coordinate_main, coordinate_threads, main, server, listening,
                 other_descriptor, results, exited>>

(* No descriptor or no port is free. *)
ConnectFails(p) == sender[p] = "connect" /\ Exit("connect")

(* agent_send, and agent_close_connection, which does not take back what   *)
(* has been sent.                                                          *)
SendAndClose(p) ==
  /\ SenderGoto(p, "send", "ended")
  /\ UNCHANGED <<coordinate_main, coordinate_threads, main, server, sockets, results, exited>>

-----------------------------------------------------------------------------
(* main *)

(* main goes on when the first thread arrives. *)
MainAcquireOne ==
  /\ MainGoto("acquire_1", "give_1") \/ MainGoto("acquire_2", "give_2")
  /\ coordinate_main > 0
  /\ coordinate_main' = coordinate_main - 1
  /\ UNCHANGED <<coordinate_threads, server, sender, sockets, results, exited>>

(* coordinate_main.acquire(num_threads) *)
MainAcquire ==
  /\ MainGoto("acquire_1", "give_1") \/ MainGoto("acquire_2", "give_2")
  /\ coordinate_main >= num_threads
  /\ coordinate_main' = coordinate_main - num_threads
  /\ UNCHANGED <<coordinate_threads, server, sender, sockets, results, exited>>

(* coordinate_threads.give(num_threads) *)
MainGive ==
  /\ MainGoto("give_1", "acquire_2") \/ MainGoto("give_2", "join")
  /\ coordinate_threads' = coordinate_threads + num_threads
  /\ UNCHANGED <<coordinate_main, server, sender, sockets, results, exited>>

MainJoin ==
  /\ MainGoto("join", "ended")
  /\ \A i \in Servers : server[i] = "ended"
  /\ UNCHANGED <<coordinate_main, coordinate_threads, server, sender, sockets, results,
                 exited>>

Next ==
  \/ \E i \in Servers :
       \/ OpenServer(i) \/ OpenServerFails(i) \/ Arrive(i) \/ Wait(i) \/ Spawn(i)
       \/ Accept(i) \/ AcceptFails(i) \/ Receive(i) \/ JoinSenders(i) \/ CloseServer(i)
  \/ \E p \in Senders : Connect(p) \/ ConnectFails(p) \/ SendAndClose(p)
  \/ MainAcquire \/ MainGive \/ MainJoin

(* Every thread is scheduled; none takes more than a few steps. *)
Spec == Init /\ [][Next]_vars /\ WF_vars(Next)

-----------------------------------------------------------------------------

(* The two barriers hold, although they share their semaphores: a thread   *)
(* connects only to an open server (socket_agent.cpp:539-540: "used to     *)
(* coordinate dependencies, such as thread A being open before thread B    *)
(* attempts to connect to thread A"), and a thread that has been let       *)
(* through for the second time finds that everybody has received           *)
(* everything (480-481).                                                   *)
BarriersHold ==
  /\ \A p \in Senders : sender[p] = "connect" => p[2] \in listening
  /\ (\E i \in Servers : server[i] \in {"close", "ended"}) =>
       \A p \in Senders : sender[p] = "ended" /\ received[p[2]] = num_threads - 1

(* What main checks last, for the threads whose messages cannot be split.  *)
Passed == main = "ended" => \A i \in Servers : OneByte(i) => success[i]

Ended == main = "ended" \/ exited # "no"
=============================================================================
