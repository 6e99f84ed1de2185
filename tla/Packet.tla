------------------------------- MODULE Packet -------------------------------
(***************************************************************************)
(* A decoded DHCP packet and what the server computes from it alone:       *)
(* protocol/packet.rs (client_state, broadcast_by_client, response, nak)   *)
(* and the stateless parts of server.rs (the server-identifier filter, the *)
(* choice of the DhcpStore method, determine_response_dest).               *)
(*                                                                         *)
(* Addresses are numbers, as in the u32 range the store scans; 0 is        *)
(* 0.0.0.0.  NoAddr stands for an option that is not in the packet.        *)
(***************************************************************************)
EXTENDS Naturals

CONSTANTS Addr,      \* the IPv4 addresses that occur
          NoAddr,    \* an address option that is absent
          Xid,       \* transaction identifiers
          Client,    \* client identifiers
          NoReply,   \* what a packet without an answer gets
          Broadcast  \* 255.255.255.255 as a destination

ASSUME AddrAssumption == /\ Addr \subseteq Nat
                         /\ 0 \in Addr
                         /\ NoAddr \notin Addr

Unspecified == 0

Specified(a) == a # Unspecified

MessageType == {"Discover", "Offer", "Request", "Decline", "Acknowledge",
                "NegAcknowledge", "Release", "Inform", "Unknown"}

(* The option codes the memory backend is asked for.                       *)
Code == {"SubnetMask", "Router", "DomainServer", "DomainName", "DomainSearch"}

(* flag is the top bit of flags; params = {} when the parameter list is    *)
(* absent or empty, which the store does not tell apart.  client is option *)
(* 61 or else the hardware address (get_client_id); only NetBox uses it.   *)
DhcpPacket ==
  [op : {"BootRequest", "BootReply"}, type : MessageType \cup {"Missing"},
   xid : Xid, client : Client, flag : BOOLEAN, received_by_broadcast : BOOLEAN,
   ciaddr : Addr, yiaddr : Addr, giaddr : Addr,
   requested : Addr \cup {NoAddr}, server_id : Addr \cup {NoAddr},
   params : SUBSET Code]

has_requested(p) == p.requested # NoAddr

has_server_id(p) == p.server_id # NoAddr

broadcast_by_client(p) == Specified(p.giaddr) \/ p.received_by_broadcast

(* DhcpPacket::client_state for a DHCPREQUEST that is not a server's own   *)
(* message.  The four conditions exclude each other, so their order in     *)
(* the code does not matter.                                               *)
IsSelecting(p)  == /\ ~Specified(p.ciaddr)
                   /\ has_server_id(p)
                   /\ has_requested(p)

IsRenewing(p)   == /\ ~broadcast_by_client(p)
                   /\ Specified(p.ciaddr)
                   /\ ~has_server_id(p)
                   /\ ~has_requested(p)

IsRebinding(p)  == /\ broadcast_by_client(p)
                   /\ Specified(p.ciaddr)
                   /\ ~has_server_id(p)
                   /\ ~has_requested(p)

IsInitReboot(p) == /\ ~Specified(p.ciaddr)
                   /\ ~has_server_id(p)
                   /\ has_requested(p)

client_state(p) ==
  CASE p.op = "BootReply"                          -> "None"
    [] p.op # "BootReply" /\ p.type = "Discover"   -> "Init"
    [] p.op # "BootReply" /\ p.type = "Request"    ->
         CASE IsSelecting(p)  -> "Selecting"
           [] IsRenewing(p)   -> "Renewing"
           [] IsRebinding(p)  -> "Rebinding"
           [] IsInitReboot(p) -> "InitReboot"
           [] OTHER           -> "None"
    [] OTHER                                       -> "None"

-----------------------------------------------------------------------------
(* The server around the store.                                            *)

(* A wrong accepts, for AckCompletesExchange: no server filter.            *)
accepts_any(p, listener) == TRUE

(* A packet for another server is dropped.                                 *)
accepts(p, listener) == has_server_id(p) => p.server_id = listener

(* recv_ip as the store sees it: the relay, or the listener's address.     *)
origin_ip(p, listener) == IF Specified(p.giaddr) THEN p.giaddr ELSE listener

(* The DhcpStore method a packet is given to; "none" when the packet ends  *)
(* in an error before any method is called.                                *)
method(p) ==
  CASE p.type = "Discover" -> "discover"
    [] p.type = "Release"  -> "release"
    [] p.type = "Decline"  -> "decline"
    [] p.type = "Inform"   -> "inform"
    [] p.type = "Request" /\ client_state(p) = "Selecting"  -> "selecting"
    [] p.type = "Request" /\ client_state(p) = "InitReboot" -> "init_reboot"
    [] p.type = "Request" /\ client_state(p) = "Renewing"   -> "renewing"
    [] p.type = "Request" /\ client_state(p) = "Rebinding"  -> "rebinding"
    [] OTHER -> "none"

reply_type(p) == CASE p.type = "Discover"              -> "Offer"
                   [] p.type \in {"Request", "Inform"} -> "Acknowledge"
                   [] OTHER                            -> "Unknown"

(* DhcpPacket::response, for a lease that carries an address.              *)
response(p, yiaddr, listener) ==
  [type |-> reply_type(p), xid |-> p.xid, flag |-> p.flag,
   ciaddr |-> p.ciaddr, yiaddr |-> yiaddr, giaddr |-> p.giaddr,
   server_id |-> listener]

(* DhcpPacket::nak: no addresses, no server identifier, and the broadcast  *)
(* flag forced on when a relay has to pass it on.                          *)
nak(p) ==
  [type |-> "NegAcknowledge", xid |-> p.xid,
   flag |-> p.flag \/ Specified(p.giaddr),
   ciaddr |-> Unspecified, yiaddr |-> Unspecified, giaddr |-> p.giaddr,
   server_id |-> NoAddr]

(* What process_packet_data makes of the store's result.                   *)
reply_to(p, result, yiaddr, listener) ==
  CASE result = "granted"  -> response(p, yiaddr, listener)
    [] result = "mismatch" -> nak(p)
    [] OTHER               -> NoReply

Nowhere == [ip |-> NoAddr, port |-> 0]

(* A wrong determine_response_dest, for ReplyReachesClient: without the    *)
(* broadcast flag the reply is unicast to an address the client does not   *)
(* have yet.                                                               *)
determine_unicast_dest(p, r) ==
  CASE Specified(p.giaddr)                       -> [ip |-> p.giaddr, port |-> 67]
    [] ~Specified(p.giaddr) /\ p.flag            -> [ip |-> Broadcast, port |-> 68]
    [] OTHER                                     -> [ip |-> r.yiaddr, port |-> 68]

(* A wrong determine_response_dest, for GrantIsRoutable: broadcast only    *)
(* when the client asks for it.                                            *)
determine_flagged_dest(p, r) ==
  CASE Specified(p.giaddr)                       -> [ip |-> p.giaddr, port |-> 67]
    [] ~Specified(p.giaddr) /\ p.flag            -> [ip |-> Broadcast, port |-> 68]
    [] ~Specified(p.giaddr) /\ ~p.flag /\ Specified(p.ciaddr)
                                                 -> [ip |-> p.ciaddr, port |-> 68]
    [] OTHER                                     -> Nowhere

(* determine_response_dest; Nowhere is its error, and nothing is sent.     *)
determine_response_dest(p, r) ==
  CASE Specified(p.giaddr)                       -> [ip |-> p.giaddr, port |-> 67]
    [] ~Specified(p.giaddr) /\ r.type = "NegAcknowledge"
                                                 -> [ip |-> Broadcast, port |-> 68]
    [] ~Specified(p.giaddr) /\ r.type # "NegAcknowledge" /\ Specified(p.ciaddr)
                                                 -> [ip |-> p.ciaddr, port |-> 68]
    [] ~Specified(p.giaddr) /\ r.type # "NegAcknowledge" /\ ~Specified(p.ciaddr)
         /\ (p.flag \/ Specified(r.yiaddr))      -> [ip |-> Broadcast, port |-> 68]
    [] OTHER                                     -> Nowhere
=============================================================================
