---------------------------- MODULE MCNetboxStore ----------------------------
(***************************************************************************)
(* Instances of NetboxStore for TLC.  Subnets have four addresses: 1 and 2 *)
(* can be leased on the subnet of origin 3, and 5 on the one of origin 7.  *)
(***************************************************************************)
EXTENDS NetboxStore

CONSTANTS x1, c1, c2

MCAddr == {0, 1, 2, 3, 5, 7}

Blank == [op |-> "BootRequest", type |-> "Missing", xid |-> x1, client |-> c1,
          flag |-> FALSE, received_by_broadcast |-> TRUE,
          ciaddr |-> 0, yiaddr |-> 0, giaddr |-> 0,
          requested |-> NoAddr, server_id |-> NoAddr, params |-> {}]

Discover(c)     == [Blank EXCEPT !.type = "Discover", !.client = c]
Relayed(c)      == [Discover(c) EXCEPT !.giaddr = 7]
Inform(c)       == [Blank EXCEPT !.type = "Inform", !.client = c]
Selecting(c, a) == [Blank EXCEPT !.type = "Request", !.client = c,
                                 !.requested = a, !.server_id = 3]
Rebinding(c, a) == [Blank EXCEPT !.type = "Request", !.client = c, !.ciaddr = a]
Renewing(c, a)  == [Rebinding(c, a) EXCEPT !.received_by_broadcast = FALSE]
Release(c, a)   == [Blank EXCEPT !.type = "Release", !.client = c, !.ciaddr = a]
Decline(c, a)   == [Blank EXCEPT !.type = "Decline", !.client = c, !.requested = a]

(* Every method and every exit, over both subnets.                         *)
AllPackets == {Blank, Discover(c1), Discover(c2), Relayed(c1), Inform(c1),
               Selecting(c1, 1),
               Rebinding(c1, 1), Renewing(c2, 2), Release(c1, 1),
               Decline(c1, 2), Decline(c2, NoAddr)}
=============================================================================
