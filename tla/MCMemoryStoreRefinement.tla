---------------------- MODULE MCMemoryStoreRefinement ----------------------
(***************************************************************************)
(* One task against AddressBook: scope 1..2, listener 9.                   *)
(***************************************************************************)
EXTENDS MemoryStoreRefinement

CONSTANTS x1, x2, c1

MCAddr == {0, 1, 2, 9}
MCXid == {x1, x2}

Request(type, x, ci, yi, req, sid) ==
  [op |-> "BootRequest", type |-> type, xid |-> x, client |-> c1, flag |-> FALSE,
   received_by_broadcast |-> TRUE, ciaddr |-> ci, yiaddr |-> yi, giaddr |-> 0,
   requested |-> req, server_id |-> sid, params |-> {}]

(* Every method, for both transactions and both addresses.                 *)
MCPackets ==
  UNION {{Request("Discover", x, 0, 0, NoAddr, NoAddr),
          Request("Decline", x, 0, 0, NoAddr, NoAddr)} : x \in MCXid}
  \cup {Request("Request", x1, 0, 0, a, NoAddr) : a \in {1, 2}}
  \cup {Request("Request", x, 0, 0, 1, 9) : x \in MCXid}
  \cup {Request("Request", x1, a, 0, NoAddr, NoAddr) : a \in {1, 2}}
  \cup {Request("Release", x2, 0, a, NoAddr, NoAddr) : a \in {1, 2}}
=============================================================================
