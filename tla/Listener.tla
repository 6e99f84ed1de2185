------------------------------ MODULE Listener ------------------------------
(***************************************************************************)
(* From main to the tasks: cmd/rsdhcp.rs, Server::serve, IPServer::serve   *)
(* with receive_packet, and the start of process_packet_data, where a task *)
(* takes the bytes of its datagram.                                        *)
(*                                                                         *)
(* External and modelled as this code uses them: tokio runs every spawned  *)
(* task by itself; a socket bound to 0.0.0.0:67 and to an interface is     *)
(* given every broadcast that comes in there, while a unicast goes to one  *)
(* of the sockets that share the port by SO_REUSEPORT; a full queue drops. *)
(***************************************************************************)
EXTENDS Integers, Sequences

CONSTANTS Listeners,  \* the addresses getifaddrs yields
          iface_name, \* the interface of each
          Datagrams,  \* what arrives
          Broadcast,  \* 255.255.255.255
          BufferSize, \* RECV_BUF_SIZE
          QueueSize,  \* datagrams a socket holds
          MaxFaults,  \* bound on errors of a receive
          Blank       \* a byte of the buffer not written yet

(* The calls of IPServer::serve before its loop, each of which may fail.   *)
SetUp == <<"new", "set_reuse_port", "set_broadcast", "bind_device",
           "enable_ip_pktinfo", "bind", "set_nonblocking", "from_std">>

(* stage[l]: SetUp[n] is next, or one of these.                            *)
NotSpawned == 0
Serving    == Len(SetUp) + 1
Ended      == Len(SetUp) + 2

(* The socket has an address from here on.                                 *)
Bound == 7

(* A byte of a datagram is that datagram and its place.                    *)
BytesOf(d) == [k \in 1 .. d.length |-> <<d, k>>]

Cell == UNION {{<<d, k>> : k \in 1 .. d.length} : d \in Datagrams}

ASSUME ListenerAssumption ==
  /\ DOMAIN iface_name = Listeners
  /\ \A d \in Datagrams : /\ d.to \in Listeners \cup {Broadcast}
                          /\ d.length \in Nat
  /\ Broadcast \notin Listeners
  /\ BufferSize \in Nat /\ QueueSize \in Nat \ {0} /\ MaxFaults \in Nat
  /\ Blank \notin Cell

VARIABLES main,    \* "loading", "spawning", "sleeping", or it is "dead"
          stage,   \* where each listener is
          failed,  \* history: the listeners with a call of SetUp that failed
          queue,   \* what the kernel holds for each socket
          buffer,  \* the one receive buffer of each listener
          tasks,   \* the tasks spawned that have not started
          taken,   \* history: what tasks found in their packets
          lost,    \* history: <<listener, datagram>> of datagrams that were
                   \* off the queue when receive_packet failed
          arrived, \* the datagrams that came so far
          faults   \* errors of a receive so far

network == <<queue, buffer, tasks, taken, lost, arrived, faults>>

vars == <<main, stage, failed, network>>

Init ==
  /\ main = "loading"
  /\ stage = [l \in Listeners |-> NotSpawned]
  /\ failed = {}
  /\ queue = [l \in Listeners |-> <<>>]
  /\ buffer = [l \in Listeners |-> [k \in 1 .. BufferSize |-> Blank]]
  /\ tasks = {} /\ taken = {} /\ lost = {}
  /\ arrived = {} /\ faults = 0

-----------------------------------------------------------------------------
(* The configuration is read, or main returns; the list of addresses, or   *)
(* main panics ("server died with error").                                 *)
Load ==
  /\ main = "loading"
  /\ main' \in {"spawning", "dead"}
  /\ UNCHANGED <<stage, failed, network>>

(* Server::serve spawns the listeners one after the other and is done.     *)
Spawn(l) ==
  /\ main = "spawning"
  /\ stage[l] = NotSpawned
  /\ stage' = [stage EXCEPT ![l] = 1]
  /\ main' = IF \A m \in Listeners \ {l} : stage[m] # NotSpawned
             THEN "sleeping" ELSE "spawning"
  /\ UNCHANGED <<failed, network>>

SettingUp(l) == stage[l] \in 1 .. Len(SetUp)

SetUpStep(l) ==
  /\ SettingUp(l)
  /\ stage' = [stage EXCEPT ![l] = @ + 1]
  /\ UNCHANGED <<main, failed, network>>

(* A wrong SetUpFails, for ListenerServes: one listener takes the others   *)
(* with it.                                                                *)
SetUpFailsForAll(l) ==
  /\ SettingUp(l)
  /\ stage' = [m \in Listeners |-> Ended]
  /\ failed' = failed \cup {l}
  /\ queue' = [queue EXCEPT ![l] = <<>>]
  /\ UNCHANGED <<main, buffer, tasks, taken, lost, arrived, faults>>

(* serve() returns the error, nobody looks at it, and the socket is closed *)
(* with what it had received.                                              *)
SetUpFails(l) ==
  /\ SettingUp(l)
  /\ stage' = [stage EXCEPT ![l] = Ended]
  /\ failed' = failed \cup {l}
  /\ queue' = [queue EXCEPT ![l] = <<>>]
  /\ UNCHANGED <<main, buffer, tasks, taken, lost, arrived, faults>>

-----------------------------------------------------------------------------
HasSocket(l) == stage[l] \in Bound .. Serving

HasRoom(l) == Len(queue[l]) < QueueSize

(* A datagram comes in on an interface; sockets without room lose it.      *)
Arrive(d) ==
  /\ d \notin arrived
  /\ arrived' = arrived \cup {d}
  /\ LET there == {l \in Listeners : iface_name[l] = d.iface /\ HasSocket(l)}
     IN  \E to \in IF d.to = Broadcast THEN {there} ELSE {{l} : l \in there} :
           queue' = [l \in Listeners |->
                       IF l \in to /\ HasRoom(l) THEN Append(queue[l], d)
                       ELSE queue[l]]
  /\ UNCHANGED <<main, stage, failed, buffer, tasks, taken, lost, faults>>

smaller(a, b) == IF a <= b THEN a ELSE b

(* The bytes recvmsg copies of a datagram; the rest is cut off.            *)
Copied(d) == smaller(d.length, BufferSize)

(* recvmsg takes the first datagram off the queue and writes it over the   *)
(* beginning of the buffer.                                                *)
recvmsg(l) ==
  /\ stage[l] = Serving /\ queue[l] # <<>>
  /\ queue' = [queue EXCEPT ![l] = Tail(@)]
  /\ LET d == Head(queue[l])
     IN  buffer' = [buffer EXCEPT ![l] = [k \in 1 .. BufferSize |->
                      IF k <= Copied(d) THEN BytesOf(d)[k] ELSE @[k]]]

(* One turn of the loop: the whole buffer is copied into the packet of a   *)
(* new task.                                                               *)
Receive(l) ==
  /\ recvmsg(l)
  /\ LET d == Head(queue[l])
     IN  tasks' = tasks \cup {[of |-> d, recv_ip |-> l, length |-> Copied(d),
                               data |-> buffer'[l],
                               broadcast |-> d.to = Broadcast]}
  /\ UNCHANGED <<main, stage, failed, taken, lost, arrived, faults>>

(* cmsgs() returns an error: recvmsg has succeeded, receive_packet fails,  *)
(* and the loop logs that and goes on without the datagram.                *)
ControlMessagesFail(l) ==
  /\ recvmsg(l)
  /\ faults < MaxFaults /\ faults' = faults + 1
  /\ lost' = lost \cup {<<l, Head(queue[l])>>}
  /\ UNCHANGED <<main, stage, failed, tasks, taken, arrived>>

(* A wrong ReceiveFails, for QueuedIsTaken: the error ends the listener.   *)
ReceiveFailsForGood(l) ==
  /\ stage[l] = Serving /\ faults < MaxFaults
  /\ faults' = faults + 1
  /\ stage' = [stage EXCEPT ![l] = Ended]
  /\ UNCHANGED <<main, failed, queue, buffer, tasks, taken, lost, arrived>>

(* readable() or recvmsg returns an error, which is logged; nothing was    *)
(* received.                                                               *)
ReceiveFails(l) ==
  /\ stage[l] = Serving /\ faults < MaxFaults
  /\ faults' = faults + 1
  /\ UNCHANGED <<main, stage, failed, queue, buffer, tasks, taken, lost,
                 arrived>>

(* A wrong Take, for TaskSeesItsDatagram: the task was given the buffer    *)
(* and not a copy of it.                                                   *)
TakeShared(t) ==
  /\ t \in tasks
  /\ tasks' = tasks \ {t}
  /\ taken' = taken \cup {[of |-> t.of, recv_ip |-> t.recv_ip,
                           bytes |-> SubSeq(buffer[t.recv_ip], 1, t.length),
                           broadcast |-> t.broadcast]}
  /\ UNCHANGED <<main, stage, failed, queue, buffer, lost, arrived, faults>>

(* process_packet_data starts, in any order, and hands data[0..length] to  *)
(* DhcpPacket::from_network.                                               *)
Take(t) ==
  /\ t \in tasks
  /\ tasks' = tasks \ {t}
  /\ taken' = taken \cup {[of |-> t.of, recv_ip |-> t.recv_ip,
                           bytes |-> SubSeq(t.data, 1, t.length),
                           broadcast |-> t.broadcast]}
  /\ UNCHANGED <<main, stage, failed, queue, buffer, lost, arrived, faults>>

Next ==
  \/ Load
  \/ \E l \in Listeners : \/ Spawn(l)
                          \/ SetUpStep(l)
                          \/ SetUpFails(l)
                          \/ Receive(l)
                          \/ ControlMessagesFail(l)
                          \/ ReceiveFails(l)
  \/ \E d \in Datagrams : Arrive(d)
  \/ \E t \in tasks : Take(t)

Spec == Init /\ [][Next]_vars

(* main and the listeners are tasks of their own, which tokio polls as     *)
(* long as they are ready; so are the spawned ones.  What is on a queue is *)
(* received, be it in vain.  Nothing is assumed about arrivals, failures,  *)
(* or the success of a call.                                               *)
Fairness ==
  /\ WF_vars(Load)
  /\ \A l \in Listeners : /\ WF_vars(Spawn(l))
                          /\ WF_vars(SetUpStep(l) \/ SetUpFails(l))
                          /\ WF_vars(Receive(l) \/ ControlMessagesFail(l))
  /\ WF_vars(\E t \in tasks : Take(t))

FairSpec == Spec /\ Fairness
-----------------------------------------------------------------------------
(* A task works on the bytes of one datagram, from its first byte on and   *)
(* as many as the buffer holds, and knows how that one was addressed,      *)
(* although the buffer is used again before the task starts and still      *)
(* holds the rest of a longer datagram.                                    *)
TaskSeesItsDatagram ==
  \A t \in taken :
    /\ t.bytes = SubSeq(BytesOf(t.of), 1, smaller(t.of.length, BufferSize))
    /\ t.broadcast = (t.of.to = Broadcast)

(* A listener none of whose calls fails comes to serve, whatever becomes   *)
(* of the others.                                                          *)
ListenerServes ==
  \A l \in Listeners :
    main = "spawning" ~> (stage[l] = Serving \/ l \in failed)

(* What the kernel has queued is handled by a task, unless the set-up      *)
(* fails after the bind, or the error comes from the control messages of   *)
(* that very datagram: receive_packet reads them when recvmsg has already  *)
(* taken the datagram.  No other error of readable(), recvmsg or cmsgs()   *)
(* costs a datagram or stops the listener.                                 *)
Queued(l, d) == \E k \in DOMAIN queue[l] : queue[l][k] = d

QueuedIsTaken ==
  \A l \in Listeners, d \in Datagrams :
    Queued(l, d) ~> \/ \E t \in taken : t.of = d /\ t.recv_ip = l
                    \/ l \in failed
                    \/ <<l, d>> \in lost
==============================================================================
