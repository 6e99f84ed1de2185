----------------------------- MODULE ServerClaims -----------------------------
(***************************************************************************)
(* What comments of the source say of the server and the code does not do. *)
(* Two history variables record what clients were told and have said.      *)
(***************************************************************************)
EXTENDS MemoryServer

VARIABLES promised, \* until when the last ACK lets a client use each address
          declined  \* addresses a DECLINE took out of the table

claimVars == <<serverVars, promised, declined>>

ClaimInit ==
  /\ ServerInit
  /\ promised = [a \in Addr |-> 0]
  /\ declined = {}

(* An ACK carries AddressTime, the whole lease duration, and the client    *)
(* counts from the ACK.  Release and decline end the promise.              *)
Acknowledging == wire' # NoReply /\ wire'.reply.type = "Acknowledge"

Removing(t, methods) ==
  pc[t] = "remove" /\ pc'[t] = "finished" /\ method(pkt[t]) \in methods

ClaimNext ==
  /\ ServerNext
  /\ promised' = [a \in Addr |->
       IF Acknowledging /\ wire'.reply.yiaddr = a THEN now + LeaseDuration
       ELSE IF \E t \in Tasks : Removing(t, {"release", "decline"}) /\ ip[t] = a
            THEN 0 ELSE promised[a]]
  /\ declined' = declined \cup
       {ip[t] : t \in {u \in Tasks : Removing(u, {"decline"})}}

ClaimSpec == ClaimInit /\ [][ClaimNext]_claimVars
-----------------------------------------------------------------------------
(* memory.rs:212-217 on INIT-REBOOT: if the requested address is not valid *)
(* or not available any more, send a DHCPNAK.  Here: not in the table.     *)
RebootDenialIsNak ==
  [][\A t \in Tasks :
       pc[t] = "refused" /\ pc'[t] = "idle" /\ method(pkt[t]) = "init_reboot"
         => wire' # NoReply /\ wire'.reply.type = "NegAcknowledge"]_claimVars

(* memory.rs:331-332 on DECLINE: the address should be marked invalid.     *)
DeclinedIsNotOffered ==
  wire # NoReply /\ wire.reply.type = "Offer" => wire.reply.yiaddr \notin declined

(* backends/mod.rs:55: is_current() is true while the lease has not        *)
(* expired.  Here: for as long as the client was told it may use it.       *)
PromisedLeaseIsCurrent ==
  \A a \in Addr : now < promised[a] => contains_key(a) /\ is_current(db[a])
=============================================================================
