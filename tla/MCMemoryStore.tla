---------------------------- MODULE MCMemoryStore ----------------------------
(***************************************************************************)
(* Instances of MemoryStore for TLC.  Addresses: 0 is 0.0.0.0, the scope   *)
(* is 1..2 (scope[1] = 3), and 9 is the listener, on another subnet.       *)
(***************************************************************************)
EXTENDS MemoryStore

CONSTANTS x1, x2, c1

MCAddr == {0, 1, 2, 9}
MCXid == {x1, x2}

Blank == [op |-> "BootRequest", type |-> "Missing", xid |-> x1, client |-> c1,
          flag |-> FALSE, received_by_broadcast |-> TRUE,
          ciaddr |-> 0, yiaddr |-> 0, giaddr |-> 0,
          requested |-> NoAddr, server_id |-> NoAddr, params |-> {}]

Discover(x)     == [Blank EXCEPT !.type = "Discover", !.xid = x]
Rebinding(x, a) == [Blank EXCEPT !.type = "Request", !.xid = x, !.ciaddr = a]
Renewing(x, a)  == [Rebinding(x, a) EXCEPT !.received_by_broadcast = FALSE]
Release(x, a)   == [Blank EXCEPT !.type = "Release", !.xid = x, !.yiaddr = a]
Decline(x)      == [Blank EXCEPT !.type = "Decline", !.xid = x]

(* Every kind of packet that writes the table.                             *)
RacePackets == {Discover(x1), Discover(x2), Renewing(x1, 1),
                Release(x1, 1), Decline(x1)}

=============================================================================
