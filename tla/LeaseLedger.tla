---------------------------- MODULE LeaseLedger ----------------------------
(***************************************************************************)
(* What the NetBox backend may do with an address, however many requests   *)
(* it handles at once: an address is leased to one client at a time, who   *)
(* may decline it and even get it back; it has to be free before another   *)
(* client can have it.                                                     *)
(***************************************************************************)
CONSTANTS Address, Holder, Nobody

VARIABLES tenant,  \* the client each address was leased to, or Nobody
          declined \* the addresses that client has declined

ledger == <<tenant, declined>>

LedgerInit ==
  /\ tenant = [a \in Address |-> Nobody]
  /\ declined = {}

Lend(a, c) ==
  /\ tenant[a] = Nobody
  /\ tenant' = [tenant EXCEPT ![a] = c]
  /\ UNCHANGED declined

Condemn(a) ==
  /\ tenant[a] # Nobody
  /\ declined' = declined \cup {a}
  /\ UNCHANGED tenant

(* A request that was under way when the address was declined.             *)
Reinstate(a) ==
  /\ declined' = declined \ {a}
  /\ UNCHANGED tenant

Vacate(a) ==
  /\ tenant' = [tenant EXCEPT ![a] = Nobody]
  /\ declined' = declined \ {a}

LedgerNext ==
  \E a \in Address : \/ \E c \in Holder : Lend(a, c)
                     \/ Condemn(a)
                     \/ Reinstate(a)
                     \/ Vacate(a)

LedgerSpec == LedgerInit /\ [][LedgerNext]_ledger
=============================================================================
