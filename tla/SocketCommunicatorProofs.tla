---------------------- MODULE SocketCommunicatorProofs ----------------------
(***************************************************************************)
(* The invariants of SocketCommunicator, for any number of threads that go *)
(* online and offline, with any addresses.                                 *)
(***************************************************************************)
EXTENDS SocketCommunicator, SequenceTheorems, TLAPS

Loops(servers_open) ==
  [is_online : BOOLEAN, local_descriptor : 0..servers_open,
   at : {"test", "accept", "destroy_thread", "ended"}]

(* A thread that starts an accept loop has set is_online and opened a      *)
(* server before; is_online is off only before the first of them, or since *)
(* some go_offline.                                                        *)
StartedOnline ==
  \A t \in Threads : pc[t] \in {"open_server", "spawn"} => is_online \/ was_set_offline

StartedWithServer ==
  \A t \in Threads : pc[t] = "spawn" => local_descriptor \in DOMAIN servers

IInv ==
  /\ TypeOK
  /\ StartedOnline
  /\ StartedWithServer
  /\ LoopHasServer
  /\ LoopsStartOnline

(* A communicator that has just been constructed satisfies the invariant. *)
LEMMA InitIInv == Init => IInv
<1> SUFFICES ASSUME Init PROVE IInv
  OBVIOUS
<1>1. /\ servers \in Seq(Addresses) /\ Len(servers) = 0
      /\ DOMAIN accept_loops = {}
  BY DEF Init
<1>2. TypeOK
  <2>1. accept_loops \in
          Seq([is_online : BOOLEAN, local_descriptor : 0..Len(servers),
               at : {"test", "accept", "destroy_thread", "ended"}])
    BY DEF Init
  <2>2. local_descriptor \in 0..Len(servers)
    BY <1>1 DEF Init, NoDescriptor
  <2>3. pc \in [Threads -> {"idle"}]
    BY DEF Init
  <2>4. pc \in [Threads -> {"idle", "set_online", "open_server", "spawn",
                           "destroy_thread", "set_offline"} \cup PastTheGate]
    BY <2>3
  <2> QED BY <1>1, <2>1, <2>2, <2>4 DEF Init, TypeOK
<1>3. StartedOnline /\ StartedWithServer
  BY DEF Init, StartedOnline, StartedWithServer
<1>4. LoopHasServer /\ LoopsStartOnline
  BY <1>1 DEF LoopHasServer, LoopsStartOnline
<1> QED BY <1>2, <1>3, <1>4 DEF IInv

(* Steps that leave the servers and the loops alone. *)
LEMMA QuietIInv ==
  ASSUME IInv, UNCHANGED <<servers, accept_loops, local_descriptor>>,
         NEW t \in Threads, NEW to \in {"idle", "set_online", "set_offline", "open_server",
                    "destroy_thread", "do_send_to", "do_poll_inbox"},
         pc' = [pc EXCEPT ![t] = to],
         is_online' \in BOOLEAN, was_set_offline' \in BOOLEAN, exited' = exited,
         was_set_offline => was_set_offline',
         is_online => is_online' \/ was_set_offline',
         to = "open_server" => is_online' \/ was_set_offline'
  PROVE  IInv'
<1> USE DEF IInv
<1>1. \A u \in Threads : pc'[u] = IF u = t THEN to ELSE pc[u]
  BY DEF TypeOK
<1>2. TypeOK'
  BY DEF TypeOK, PastTheGate
<1>3. StartedOnline'
  BY <1>1 DEF StartedOnline
<1>4. StartedWithServer'
  BY <1>1 DEF StartedWithServer
<1>5. LoopHasServer'
  BY DEF LoopHasServer
<1>6. LoopsStartOnline'
  BY DEF LoopsStartOnline
<1> QED BY <1>2, <1>3, <1>4, <1>5, <1>6

(* A new server is one more descriptor for the loops to refer to. *)
LEMMA OpenServerIInv ==
  ASSUME IInv, NEW t \in Threads, OpenServer(t)
  PROVE  IInv'
<1> USE DEF IInv
<1>1. PICK a \in Addresses : servers' = Append(servers, a)
  BY DEF OpenServer
<1>2. servers \in Seq(Addresses) /\ Len(servers) \in Nat
  BY DEF TypeOK
<1>3. servers' \in Seq(Addresses) /\ Len(servers') = Len(servers) + 1
  BY <1>1, <1>2, AppendProperties
<1>4. DOMAIN servers' = 1..(Len(servers) + 1) /\ DOMAIN servers = 1..Len(servers)
  BY <1>2, <1>3, LenProperties
<1>5. /\ pc' = [pc EXCEPT ![t] = "spawn"] /\ pc[t] = "open_server"
      /\ local_descriptor' = Len(servers) + 1
      /\ UNCHANGED <<is_online, accept_loops, was_set_offline, exited>>
  BY DEF OpenServer, Goto
<1>6. local_descriptor' \in DOMAIN servers' /\ DOMAIN servers \subseteq DOMAIN servers'
  BY <1>2, <1>4, <1>5
<1>7. accept_loops \in Seq(Loops(Len(servers)))
  BY DEF TypeOK, Loops
<1>8. Loops(Len(servers)) \subseteq Loops(Len(servers'))
  BY <1>2, <1>3 DEF Loops
<1>9. accept_loops' \in Seq(Loops(Len(servers')))
  BY <1>5, <1>7, <1>8
<1>10. TypeOK'
  BY <1>2, <1>3, <1>5, <1>9 DEF TypeOK, Loops
<1>11. StartedOnline' /\ StartedWithServer'
  BY <1>5, <1>6 DEF StartedOnline, StartedWithServer, TypeOK
<1>12. LoopHasServer'
  BY <1>5, <1>6 DEF LoopHasServer
<1>13. LoopsStartOnline'
  BY <1>5 DEF LoopsStartOnline
<1> QED BY <1>10, <1>11, <1>12, <1>13

(* The copy a loop gets is as good as the original. *)
LEMMA SpawnAcceptLoopIInv ==
  ASSUME IInv, NEW t \in Threads, SpawnAcceptLoop(t)
  PROVE  IInv'
<1> USE DEF IInv
<1> DEFINE copy ==
      [is_online |-> is_online, local_descriptor |-> local_descriptor, at |-> "test"]
<1>1. /\ pc' = [pc EXCEPT ![t] = "destroy_thread"] /\ pc[t] = "spawn"
      /\ accept_loops' = Append(accept_loops, copy)
      /\ UNCHANGED <<is_online, local_descriptor, servers, was_set_offline, exited>>
  BY DEF SpawnAcceptLoop, Goto
<1>2. copy \in Loops(Len(servers)) /\ accept_loops \in Seq(Loops(Len(servers)))
  BY DEF TypeOK, Loops
<1> HIDE DEF copy
<1>3. /\ accept_loops' \in Seq(Loops(Len(servers)))
      /\ Len(accept_loops') = Len(accept_loops) + 1
      /\ \A l \in 1..Len(accept_loops) : accept_loops'[l] = accept_loops[l]
      /\ accept_loops'[Len(accept_loops) + 1] = copy
  BY <1>1, <1>2, AppendProperties
<1>4. \A l \in DOMAIN accept_loops' :
        \/ l \in DOMAIN accept_loops /\ accept_loops'[l] = accept_loops[l]
        \/ accept_loops'[l] = copy
  BY <1>2, <1>3, LenProperties
<1>5. copy.local_descriptor \in DOMAIN servers
  BY <1>1 DEF StartedWithServer, copy
<1>6. copy.is_online \/ was_set_offline
  BY <1>1 DEF StartedOnline, copy
<1>7. TypeOK'
  BY <1>1, <1>3 DEF TypeOK, Loops
<1>8. StartedOnline' /\ StartedWithServer'
  BY <1>1 DEF StartedOnline, StartedWithServer, TypeOK
<1>9. LoopHasServer'
  BY <1>1, <1>4, <1>5 DEF LoopHasServer
<1>10. LoopsStartOnline'
  BY <1>1, <1>4, <1>6 DEF LoopsStartOnline
<1> QED BY <1>7, <1>8, <1>9, <1>10

(* A turn of an accept loop changes where that loop is. *)
LEMMA LoopGotoIInv ==
  ASSUME IInv, NEW l \in DOMAIN accept_loops, NEW from,
         NEW to \in {"accept", "destroy_thread", "ended"}, LoopGoto(l, from, to)
  PROVE  IInv'
<1> USE DEF IInv
<1>1. /\ accept_loops' = [accept_loops EXCEPT ![l].at = to]
      /\ UNCHANGED <<is_online, local_descriptor, servers, pc, was_set_offline,
                     exited>>
  BY DEF LoopGoto
<1>2. accept_loops \in Seq(Loops(Len(servers))) /\ l \in 1..Len(accept_loops)
  BY LenProperties DEF TypeOK, Loops
<1>3. accept_loops[l] \in Loops(Len(servers))
  BY <1>2, ElementOfSeq
<1>4. [accept_loops[l] EXCEPT !.at = to] \in Loops(Len(servers))
  BY <1>3 DEF Loops
<1>5. accept_loops' = [accept_loops EXCEPT ![l] = [accept_loops[l] EXCEPT !.at = to]]
  BY <1>1
<1>6. /\ accept_loops' \in Seq(Loops(Len(servers)))
      /\ DOMAIN accept_loops' = DOMAIN accept_loops
  BY <1>2, <1>4, <1>5, ExceptSeq
<1>7. \A k \in DOMAIN accept_loops :
        /\ accept_loops'[k].is_online = accept_loops[k].is_online
        /\ accept_loops'[k].local_descriptor = accept_loops[k].local_descriptor
        /\ accept_loops'[k].at = IF k = l THEN to ELSE accept_loops[k].at
  BY <1>3, <1>5 DEF Loops
<1>8. TypeOK'
  BY <1>1, <1>6 DEF TypeOK, Loops
<1>9. StartedOnline' /\ StartedWithServer'
  BY <1>1 DEF StartedOnline, StartedWithServer
<1>10. LoopHasServer'
  BY <1>1, <1>6, <1>7 DEF LoopHasServer
<1>11. LoopsStartOnline'
  BY <1>1, <1>6, <1>7 DEF LoopsStartOnline
<1> QED BY <1>8, <1>9, <1>10, <1>11

(* The end of the process changes nothing else. *)
LEMMA ExitIInv ==
  ASSUME IInv, NEW reason \in {"open_error", "send_error", "terminated"}, Exit(reason)
  PROVE  IInv'
BY DEF IInv, Exit, TypeOK, StartedOnline, StartedWithServer, LoopHasServer, LoopsStartOnline

(* The invariant is inductive. *)
LEMMA Invariance == Spec => []IInv
<1>1. ASSUME IInv, [Next]_vars PROVE IInv'
  <2> USE <1>1
  <2>1. ASSUME NEW t \in Threads, GoOnlineTest(t) \/ GoOnlineSet(t) PROVE IInv'
    <3>1. is_online \in BOOLEAN /\ was_set_offline \in BOOLEAN
      BY DEF IInv, TypeOK
    <3> QED BY <2>1, <3>1, QuietIInv DEF GoOnlineTest, GoOnlineSet, Goto
  <2>2. ASSUME NEW t \in Threads, GoOfflineTest(t) \/ GoOfflineSet(t) PROVE IInv'
    <3>1. is_online \in BOOLEAN /\ was_set_offline \in BOOLEAN
      BY DEF IInv, TypeOK
    <3> QED BY <2>2, <3>1, QuietIInv DEF GoOfflineTest, GoOfflineSet, Goto
  <2>3. ASSUME NEW t \in Threads, OpenServer(t) \/ SpawnAcceptLoop(t) PROVE IInv'
    BY <2>3, OpenServerIInv, SpawnAcceptLoopIInv
  <2>4. ASSUME NEW t \in Threads, OpenServerFails(t) \/ DestroyThread(t) PROVE IInv'
    BY <2>4, ExitIInv DEF OpenServerFails, DestroyThread
  <2>5. ASSUME NEW l \in DOMAIN accept_loops,
               LoopTest(l) \/ LoopAccept(l) \/ LoopDestroyThread(l)
        PROVE  IInv'
    <3>1. CASE LoopTest(l)
      BY <3>1, LoopGotoIInv DEF LoopTest
    <3>2. CASE LoopAccept(l)
      BY <3>2, LoopGotoIInv DEF LoopAccept
    <3>3. CASE LoopDestroyThread(l)
      BY <3>3, ExitIInv DEF LoopDestroyThread
    <3> QED BY <2>5, <3>1, <3>2, <3>3
  <2>6. ASSUME NEW t \in Threads,
               SendTo(t) \/ PollInbox(t) \/ DoSendTo(t) \/ DoPollInbox(t)
        PROVE  IInv'
    <3>1. is_online \in BOOLEAN /\ was_set_offline \in BOOLEAN
      BY DEF IInv, TypeOK
    <3>2. PICK to \in {"idle", "do_send_to", "do_poll_inbox"} :
            /\ pc' = [pc EXCEPT ![t] = to]
            /\ UNCHANGED <<is_online, local_descriptor, servers, accept_loops,
                           was_set_offline, exited>>
      BY <2>6 DEF SendTo, PollInbox, DoSendTo, DoPollInbox, Enter, Leave, Goto
    <3> QED BY <3>1, <3>2, QuietIInv
  <2>7. ASSUME NEW t \in Threads, DoSendToFails(t) PROVE IInv'
    BY <2>7, ExitIInv DEF DoSendToFails
  <2>8. CASE UNCHANGED vars
    BY <2>8 DEF IInv, vars, TypeOK, StartedOnline, StartedWithServer, LoopHasServer,
                LoopsStartOnline
  <2> QED BY <2>1, <2>2, <2>3, <2>4, <2>5, <2>6, <2>7, <2>8 DEF Next
<1> QED BY <1>1, InitIInv, PTL DEF Spec

-----------------------------------------------------------------------------

(* Every variable keeps its type (socket_communicator.cpp:14-29, 80-94,    *)
(* 129-143).                                                               *)
THEOREM TypeCorrect == Spec => []TypeOK
BY Invariance, PTL DEF IInv

(* Every accept loop has a server socket to accept on                      *)
(* (socket_communicator.cpp:83, 135-142).                                  *)
THEOREM LoopsHaveServers == Spec => []LoopHasServer
BY Invariance, PTL DEF IInv

(* A loop is given a copy that is offline, and so ends before it accepts,  *)
(* only if some go_offline has set is_online (socket_communicator.cpp:     *)
(* 18-20, 81, 141-142).                                                    *)
THEOREM OfflineCopiesAfterOffline == Spec => []LoopsStartOnline
BY Invariance, PTL DEF IInv
=============================================================================
