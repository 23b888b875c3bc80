------------------------- MODULE SocketCommunicator -------------------------
(***************************************************************************)
(* How a SocketCommunicator goes online and offline (functionality/        *)
(* socket_communicator.cpp:14-58, 80-94, 129-160, 196-208): go_online opens*)
(* a server socket and starts a thread that accepts on it; send_to and     *)
(* poll_inbox go on only if the communicator is online.                    *)
(*                                                                         *)
(* The thread gets a copy of the communicator (line 142 passes the object  *)
(* by value), so it has an is_online and a local_descriptor of its own.    *)
(* The std::thread that started it goes out of scope while joinable, which *)
(* ends the process (std::terminate): what is modelled beyond that point is*)
(* only what the other threads do before the destructor runs.              *)
(*                                                                         *)
(* A server socket is never closed, so descriptors are numbered in the     *)
(* order in which the sockets are opened.  get_is_online and set_is_online *)
(* hold is_online_access and are one step each.                            *)
(***************************************************************************)
EXTENDS Naturals, Sequences

CONSTANTS
  Onliners,    (* the threads that call go_online                          *)
  Offliners,   (* the threads that call go_offline                         *)
  Callers,     (* the threads that call send_to and poll_inbox             *)
  Addresses    (* the addresses they go online with                        *)

Threads == Onliners \cup Offliners \cup Callers

NoDescriptor == 0

VARIABLES
  is_online, local_descriptor,
  servers,        (* the addresses of the open server sockets              *)
  accept_loops,   (* the threads in enter_accept_loop: their copies of the *)
                  (* communicator and where they are                       *)
  pc,
  was_set_offline, (* history: go_offline has set is_online                *)
  exited          (* why the process has ended, if it has                  *)

vars == <<is_online, local_descriptor, servers, accept_loops, pc, was_set_offline, exited>>

Init ==
  /\ is_online = FALSE
  /\ local_descriptor = NoDescriptor
  /\ servers = <<>>
  /\ accept_loops = <<>>
  /\ pc = [t \in Threads |-> "idle"]
  /\ was_set_offline = FALSE
  /\ exited = "no"

Running == exited = "no"

Goto(t, from, to) == Running /\ pc[t] = from /\ pc' = [pc EXCEPT ![t] = to]

Exit(reason) ==
  /\ Running
  /\ exited' = reason
  /\ UNCHANGED <<is_online, local_descriptor, servers, accept_loops, pc, was_set_offline>>

-----------------------------------------------------------------------------
(* go_online, which returns at once if is_online *)

(* is_online is not set before the server is opened and the loop started. *)
GoOnlineTestOnly(t) ==
  /\ t \in Onliners /\ ~is_online
  /\ Goto(t, "idle", "open_server")
  /\ UNCHANGED <<is_online, local_descriptor, servers, accept_loops, was_set_offline, exited>>

GoOnlineTest(t) ==
  /\ t \in Onliners /\ ~is_online
  /\ Goto(t, "idle", "set_online")
  /\ UNCHANGED <<is_online, local_descriptor, servers, accept_loops, was_set_offline, exited>>

GoOnlineSet(t) ==
  /\ Goto(t, "set_online", "open_server")
  /\ is_online' = TRUE
  /\ UNCHANGED <<local_descriptor, servers, accept_loops, was_set_offline, exited>>

Bound(a) == \E i \in DOMAIN servers : servers[i] = a

(* set_to_descriptor is passed by value. *)
OpenServerByValue(t) ==
  /\ Goto(t, "open_server", "spawn")
  /\ \E a \in Addresses : ~Bound(a) /\ servers' = Append(servers, a)
  /\ UNCHANGED <<is_online, local_descriptor, accept_loops, was_set_offline, exited>>

(* An error of agent_open_server is ignored. *)
OpenServerUnchecked(t) ==
  /\ Goto(t, "open_server", "spawn")
  /\ local_descriptor' = Len(servers) + 1
  /\ UNCHANGED <<is_online, servers, accept_loops, was_set_offline, exited>>

(* agent_open_server *)
OpenServer(t) ==
  /\ Goto(t, "open_server", "spawn")
  /\ \E a \in Addresses : ~Bound(a) /\ servers' = Append(servers, a)
  /\ local_descriptor' = Len(servers) + 1
  /\ UNCHANGED <<is_online, accept_loops, was_set_offline, exited>>

(* The address is in use, or the system refuses: EXIT_ON_ERROR is true. *)
OpenServerFails(t) == pc[t] = "open_server" /\ Exit("open_error")

SpawnAcceptLoop(t) ==
  /\ Goto(t, "spawn", "destroy_thread")
  /\ accept_loops' = Append(accept_loops,
       [is_online |-> is_online, local_descriptor |-> local_descriptor, at |-> "test"])
  /\ UNCHANGED <<is_online, local_descriptor, servers, was_set_offline, exited>>

(* accepting_thread goes out of scope. *)
DestroyThread(t) == pc[t] = "destroy_thread" /\ Exit("terminated")

-----------------------------------------------------------------------------
(* send_to, which returns at once if not is_online or if the message is too *)
(* long, and poll_inbox, which returns at once if not is_online             *)

PastTheGate == {"do_send_to", "do_poll_inbox"}

Enter(t, to) ==
  /\ t \in Callers
  /\ Goto(t, "idle", to)
  /\ UNCHANGED <<is_online, local_descriptor, servers, accept_loops, was_set_offline, exited>>

SendTo(t)    == is_online /\ Enter(t, "do_send_to")
PollInbox(t) == is_online /\ Enter(t, "do_poll_inbox")

Leave(t, from) ==
  /\ Goto(t, from, "idle")
  /\ UNCHANGED <<is_online, local_descriptor, servers, accept_loops, was_set_offline, exited>>

DoSendTo(t)      == Leave(t, "do_send_to")
DoSendToFails(t) == pc[t] = "do_send_to" /\ Exit("send_error")

(* Messages come from the connections that a loop has accepted. *)
DoPollInbox(t) ==
  /\ \E l \in DOMAIN accept_loops : accept_loops[l].at = "destroy_thread"
  /\ Leave(t, "do_poll_inbox")

-----------------------------------------------------------------------------
(* go_offline, which returns at once if not is_online *)

GoOfflineTest(t) ==
  /\ t \in Offliners /\ is_online
  /\ Goto(t, "idle", "set_offline")
  /\ UNCHANGED <<is_online, local_descriptor, servers, accept_loops, was_set_offline, exited>>

GoOfflineSet(t) ==
  /\ Goto(t, "set_offline", "idle")
  /\ is_online' = FALSE
  /\ was_set_offline' = TRUE
  /\ UNCHANGED <<local_descriptor, servers, accept_loops, exited>>

-----------------------------------------------------------------------------
(* enter_accept_loop *)

LoopGoto(l, from, to) ==
  /\ Running
  /\ accept_loops[l].at = from
  /\ accept_loops' = [accept_loops EXCEPT ![l].at = to]
  /\ UNCHANGED <<is_online, local_descriptor, servers, pc, was_set_offline, exited>>

LoopTest(l) ==
  LoopGoto(l, "test", IF accept_loops[l].is_online THEN "accept" ELSE "ended")

(* A peer connects, and a thread starts to receive from it. *)
LoopAccept(l) == LoopGoto(l, "accept", "destroy_thread")

(* receiving_thread goes out of scope. *)
LoopDestroyThread(l) ==
  accept_loops[l].at = "destroy_thread" /\ Exit("terminated")

-----------------------------------------------------------------------------

Next ==
  \/ \E t \in Threads :
       \/ GoOnlineTest(t) \/ GoOnlineSet(t) \/ OpenServer(t)
       \/ OpenServerFails(t) \/ SpawnAcceptLoop(t) \/ DestroyThread(t)
       \/ GoOfflineTest(t) \/ GoOfflineSet(t)
       \/ SendTo(t) \/ PollInbox(t) \/ DoSendTo(t) \/ DoSendToFails(t) \/ DoPollInbox(t)
  \/ \E l \in DOMAIN accept_loops :
       LoopTest(l) \/ LoopAccept(l) \/ LoopDestroyThread(l)

Spec == Init /\ [][Next]_vars

-----------------------------------------------------------------------------

TypeOK ==
  /\ is_online \in BOOLEAN /\ was_set_offline \in BOOLEAN
  /\ local_descriptor \in 0..Len(servers)
  /\ servers \in Seq(Addresses)
  /\ accept_loops \in
       Seq([is_online : BOOLEAN, local_descriptor : 0..Len(servers),
            at : {"test", "accept", "destroy_thread", "ended"}])
  /\ pc \in [Threads -> {"idle", "set_online", "open_server", "spawn",
                         "destroy_thread", "set_offline"} \cup PastTheGate]
  /\ exited \in {"no", "open_error", "send_error", "terminated"}

(* However calls of go_online race, a loop accepts on an open server       *)
(* socket: the copy is made after the descriptor has been set              *)
(* (socket_communicator.cpp:83, 135-142).                                  *)
LoopHasServer ==
  \A l \in DOMAIN accept_loops :
    accept_loops[l].local_descriptor \in DOMAIN servers

(* A loop is given a copy that is offline only if a go_offline has set     *)
(* is_online before the copy is made: go_online sets it first.  Such a loop*)
(* ends at its first test without a connection, and no other loop ever     *)
(* ends, as nothing changes a copy (socket_communicator.cpp:18-20, 81,     *)
(* 141-142).                                                               *)
LoopsStartOnline ==
  \A l \in DOMAIN accept_loops : accept_loops[l].is_online \/ was_set_offline

(* A loop goes on to accept only if the communicator is online             *)
(* (socket_communicator.cpp:24: "The is_online variable is checked by the  *)
(* loop that accepts connections").                                        *)
LoopChecksIsOnline ==
  [][\A l \in DOMAIN accept_loops :
       (accept_loops[l].at = "test" /\ accept_loops'[l].at = "accept") => is_online]_vars

(* There is one server at a time (socket_communicator.cpp:14-15: "Check    *)
(* is_online() because SocketCommunicator cannot handle multiple servers").*)
OneServer == Len(servers) <= 1
=============================================================================
