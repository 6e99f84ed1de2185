----------------------------- MODULE AddressBook -----------------------------
(***************************************************************************)
(* What a lease store promises, whatever its representation: an address is *)
(* bound to at most one transaction, a binding is only given away once it  *)
(* has run out, and renewing never shortens it.  The DhcpStore trait of    *)
(* backends/mod.rs has no words for this; it is what its callers rely on.  *)
(***************************************************************************)
EXTENDS Naturals

CONSTANTS Address, Transaction, Duration, Nobody

VARIABLES holder, \* the transaction each address is bound to, or Nobody
          until,  \* when the binding runs out
          time

bookVars == <<holder, until, time>>

BookInit ==
  /\ holder = [a \in Address |-> Nobody]
  /\ until = [a \in Address |-> 0]
  /\ time = 0

Vacant(a) == holder[a] = Nobody \/ until[a] <= time

(* A binding lasts Duration from some moment of the request that asked for *)
(* it, so it is never stretched beyond Duration from now.                  *)
Assign(a, x, e) ==
  /\ Vacant(a)
  /\ e <= time + Duration
  /\ holder' = [holder EXCEPT ![a] = x]
  /\ until' = [until EXCEPT ![a] = e]
  /\ UNCHANGED time

Prolong(a, e) ==
  /\ holder[a] # Nobody
  /\ until[a] <= e /\ e <= time + Duration
  /\ until' = [until EXCEPT ![a] = e]
  /\ UNCHANGED <<holder, time>>

Forget(a) ==
  /\ holder[a] # Nobody
  /\ holder' = [holder EXCEPT ![a] = Nobody]
  /\ until' = [until EXCEPT ![a] = 0]
  /\ UNCHANGED time

Pass == time' = time + 1 /\ UNCHANGED <<holder, until>>

BookNext ==
  \/ \E a \in Address, e \in 0 .. time + Duration :
       \/ \E x \in Transaction : Assign(a, x, e)
       \/ Prolong(a, e)
       \/ Forget(a)
  \/ Pass

BookSpec == BookInit /\ [][BookNext]_bookVars
=============================================================================
