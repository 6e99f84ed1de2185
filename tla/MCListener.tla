----------------------------- MODULE MCListener -----------------------------
(***************************************************************************)
(* TLC instance of Listener: two addresses on one interface; datagrams     *)
(* shorter than, as long as and longer than the buffer, and one that comes *)
(* in elsewhere.                                                           *)
(***************************************************************************)
EXTENDS Listener

CONSTANTS l1, l2

McIface == [l \in {l1, l2} |-> "eth0"]

McDatagrams == {[to |-> Broadcast, iface |-> "eth0", length |-> 2],
                [to |-> l1, iface |-> "eth0", length |-> 3],
                [to |-> l2, iface |-> "eth0", length |-> 1],
                [to |-> Broadcast, iface |-> "eth1", length |-> 1]}
=============================================================================
