--------------------------- MODULE MCNetboxServer ---------------------------
(***************************************************************************)
(* Instance of NetboxServer for TLC: one subnet, where 1 and 2 can be      *)
(* leased and 3 is the listener.                                           *)
(***************************************************************************)
EXTENDS NetboxServer, TLC

CONSTANTS x1, c1, c2

MCAddr == {0, 1, 2, 3}

Blank == [op |-> "BootRequest", type |-> "Missing", xid |-> x1, client |-> c1,
          flag |-> FALSE, received_by_broadcast |-> TRUE,
          ciaddr |-> 0, yiaddr |-> 0, giaddr |-> 0,
          requested |-> NoAddr, server_id |-> NoAddr, params |-> {}]

Discover(c) == [Blank EXCEPT !.type = "Discover", !.client = c,
                             !.requested = IF c = c1 THEN 1 ELSE NoAddr]
Selecting   == [Blank EXCEPT !.type = "Request", !.requested = 1,
                             !.server_id = 3]
Rebinding   == [Blank EXCEPT !.type = "Request", !.ciaddr = 1]
Release     == [Blank EXCEPT !.type = "Release", !.ciaddr = 1]
Decline     == [Blank EXCEPT !.type = "Decline", !.requested = 1]

McPackets == {Discover(c1), Discover(c2), Selecting, Rebinding, Release,
              Decline}

TaskSymmetry == Permutations(Tasks)
=============================================================================
