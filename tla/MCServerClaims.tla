---------------------------- MODULE MCServerClaims ----------------------------
(***************************************************************************)
(* One client and one task at a time: the scope is 1..2, the listener 9.   *)
(***************************************************************************)
EXTENDS ServerClaims

CONSTANTS x1, c1

MCAddr == {0, 1, 2, 9}

Request(type, req, sid) ==
  [op |-> "BootRequest", type |-> type, xid |-> x1, client |-> c1, flag |-> FALSE,
   received_by_broadcast |-> TRUE, ciaddr |-> 0, yiaddr |-> 0, giaddr |-> 0,
   requested |-> req, server_id |-> sid, params |-> {}]

MCPackets == {Request("Discover", NoAddr, NoAddr), Request("Request", 1, 9),
              Request("Request", 1, NoAddr), Request("Decline", 1, 9)}
=============================================================================
