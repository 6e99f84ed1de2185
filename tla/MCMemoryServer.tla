---------------------------- MODULE MCMemoryServer ----------------------------
(***************************************************************************)
(* Instances of MemoryServer for TLC.  The scope is 1..2; 8 and 9 are the  *)
(* addresses of two listeners and 7 is a relay.                            *)
(***************************************************************************)
EXTENDS MemoryServer, TLC

CONSTANTS x1, x2, c1

MCAddr == {0, 1, 2, 7, 8, 9}
MCXid == {x1, x2}

Blank == [op |-> "BootRequest", type |-> "Missing", xid |-> x1, client |-> c1,
          flag |-> FALSE, received_by_broadcast |-> TRUE,
          ciaddr |-> 0, yiaddr |-> 0, giaddr |-> 0,
          requested |-> NoAddr, server_id |-> NoAddr, params |-> {}]

Relayed(p) == [p EXCEPT !.giaddr = 7, !.received_by_broadcast = FALSE]

Discover(x) == [Blank EXCEPT !.type = "Discover", !.xid = x]
Selecting(x, a, s) == [Blank EXCEPT !.type = "Request", !.xid = x,
                                    !.requested = a, !.server_id = s]
Rebinding(x, a) == [Blank EXCEPT !.type = "Request", !.xid = x, !.ciaddr = a]
Renewing(x, a)  == [Rebinding(x, a) EXCEPT !.received_by_broadcast = FALSE]
Reboot(x, a)    == [Blank EXCEPT !.type = "Request", !.xid = x, !.requested = a]
Inform(x)       == [Blank EXCEPT !.type = "Inform", !.xid = x]

(* Both servers of the link hear the broadcasts; a relayed client and a    *)
(* direct one run the exchange side by side, through every exit of the     *)
(* methods that RacePackets of MCMemoryStore does not call.                *)
ExchangePackets ==
  {Discover(x1), Selecting(x1, 1, 9), Selecting(x1, 2, 8),
   Relayed(Discover(x2)), Relayed(Selecting(x2, 1, 9)),
   Renewing(x1, 1), Relayed(Rebinding(x2, 1)),
   Reboot(x1, 1), Reboot(x1, 0), Inform(x1)}

TaskSymmetry == Permutations(Tasks)
=============================================================================
