---------------------------- MODULE MemoryServer ----------------------------
(***************************************************************************)
(* server.rs over the memory store: one listener per IPv4 address of the   *)
(* host, all of them sharing one store, and a tokio task for each datagram *)
(* (process_packet_data).                                                  *)
(*                                                                         *)
(* The network may deliver any packet to any listener, any number of times *)
(* and in any order: a client broadcast reaches every listener of the link,*)
(* and clients retransmit.                                                 *)
(***************************************************************************)
EXTENDS MemoryStore

CONSTANTS Listeners  \* the addresses getifaddrs() yields

ASSUME ServerAssumption ==
  /\ Listeners \subseteq Addr
  /\ \A p \in Packets, l \in Listeners : origin_ip(p, l) \in Origins

VARIABLES via,  \* the listener each task answers for
          wire  \* the exchange the last step put on the network, if any

serverVars == <<vars, via, wire>>

ServerInit ==
  /\ Init
  /\ via = [t \in Tasks |-> Unspecified]
  /\ wire = NoReply

(* A datagram is decoded and handed to the store.  One that cannot be      *)
(* decoded, or is meant for another server, changes nothing.               *)
Datagram(t, p, l) ==
  /\ accepts(p, l)
  /\ Call(t, p, origin_ip(p, l))
  /\ via' = [via EXCEPT ![t] = l]
  /\ wire' = NoReply

Answer(t) ==
  reply_to(pkt[t], pc[t],
           IF pc[t] = "granted" THEN lease[t].yiaddr ELSE Unspecified, via[t])

Destination(t) == determine_response_dest(pkt[t], Answer(t))

(* send_to succeeds.                                                       *)
Respond(t) ==
  /\ pc[t] \in Result
  /\ Answer(t) # NoReply
  /\ Destination(t) # Nowhere
  /\ wire' = [request |-> pkt[t], via |-> via[t],
              reply |-> Answer(t), dest |-> Destination(t)]
  /\ Return(t)
  /\ via' = [via EXCEPT ![t] = Unspecified]

(* No answer, nowhere to send it, or send_to fails: only the log knows.    *)
FallSilent(t) ==
  /\ Return(t)
  /\ via' = [via EXCEPT ![t] = Unspecified]
  /\ wire' = NoReply

InStore(t) == Work(t) /\ wire' = NoReply /\ UNCHANGED via

Clock == Tick /\ wire' = NoReply /\ UNCHANGED via

ServerNext ==
  \/ \E t \in Tasks : \/ \E p \in Packets, l \in Listeners : Datagram(t, p, l)
                      \/ InStore(t)
                      \/ Respond(t)
                      \/ FallSilent(t)
  \/ Clock

ServerSpec == ServerInit /\ [][ServerNext]_serverVars

ServerFairness == \A t \in Tasks :
  WF_serverVars(InStore(t) \/ Respond(t) \/ FallSilent(t))

ServerFairSpec == ServerSpec /\ ServerFairness
-----------------------------------------------------------------------------
(* An address was asked for by the packet of an exchange.                  *)
Asked(p) == IF has_requested(p) THEN p.requested ELSE p.ciaddr

(* An ACK gives the client the address it asked for and no other, an       *)
(* address some DISCOVER was offered; the ACK to a SELECTING client also   *)
(* completes the client's own exchange, in the name of the server that the *)
(* client chose.                                                           *)
AckCompletesExchange ==
  wire # NoReply /\ wire.reply.type = "Acknowledge" =>
    /\ wire.reply.yiaddr = Asked(wire.request)
    /\ \E x \in Xid : <<wire.reply.yiaddr, x>> \in offered
    /\ method(wire.request) = "selecting" =>
         /\ <<wire.reply.yiaddr, wire.request.xid>> \in offered
         /\ wire.reply.server_id = wire.request.server_id

(* The answer is sent where the client can hear it: through its relay, by  *)
(* broadcast while it has no address, and otherwise to the very address    *)
(* the ACK confirms.  (RFC 2131 leaves ciaddr 0 in a DISCOVER; the answer  *)
(* to one that does not is sent to that ciaddr.)                           *)
ReplyReachesClient ==
  wire # NoReply =>
    LET req == wire.request  rep == wire.reply IN
    IF Specified(req.giaddr) THEN wire.dest = [ip |-> req.giaddr, port |-> 67]
    ELSE IF ~Specified(req.ciaddr)
         THEN wire.dest = [ip |-> Broadcast, port |-> 68]
         ELSE rep.type = "Acknowledge" =>
                wire.dest = [ip |-> rep.yiaddr, port |-> 68]

(* A lease the store grants always has somewhere to go: the error of       *)
(* determine_response_dest, after the table was changed, does not happen.  *)
GrantIsRoutable ==
  \A t \in Tasks : pc[t] = "granted" => Destination(t) # Nowhere
=============================================================================
