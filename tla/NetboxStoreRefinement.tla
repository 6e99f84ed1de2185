----------------------- MODULE NetboxStoreRefinement -----------------------
(***************************************************************************)
(* The NetBox store as a LeaseLedger.  NetBox's table says by whom an      *)
(* address is held, but not who declined it: owner is added to remember    *)
(* the client each lease was made for.                                     *)
(***************************************************************************)
EXTENDS NetboxStore

CONSTANT Nobody

ASSUME NobodyAssumption == Nobody \notin Client

VARIABLE owner \* history: whom NetBox made each lease for

ledgerVars == <<vars, owner>>

OwnerInit == Init /\ owner = [i \in Ids |-> Nobody]

Remember ==
  owner' = [i \in Ids |-> IF i \in issued' \ issued THEN leases'[i].client
                          ELSE owner[i]]

OwnerNext == Next /\ Remember

OwnerSpec == OwnerInit /\ [][OwnerNext]_ledgerVars
-----------------------------------------------------------------------------
(* The leases of address a.                                                *)
LeasesOf(a) == {i \in Ids : Present(i) /\ leases[i].address = a}

clientOf(i) == IF leases[i].client = Declined THEN owner[i]
               ELSE leases[i].client

tenantOf == [a \in Pool |->
               IF LeasesOf(a) = {} THEN Nobody
               ELSE clientOf(CHOOSE i \in LeasesOf(a) : TRUE)]

declinedOf == {a \in Pool : \E i \in LeasesOf(a) : leases[i].client = Declined}

Ledger == INSTANCE LeaseLedger
            WITH Address <- Pool, Holder <- Client, Nobody <- Nobody,
                 tenant <- tenantOf, declined <- declinedOf

(* However the requests of all tasks interleave, fail, or take effect      *)
(* without an answer, no address passes from one client to another without *)
(* being free in between; a declined one goes back to its own client only. *)
ImplementsLedger == Ledger!LedgerSpec
=============================================================================
