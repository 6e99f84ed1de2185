---------------------------- MODULE NetboxServer ----------------------------
(***************************************************************************)
(* server.rs over the NetBox store: process_packet_data around the calls,  *)
(* the reply, and a process that may die and be started again at any time. *)
(* The leases are in NetBox and outlive it; what it was doing does not.    *)
(***************************************************************************)
EXTENDS NetboxStoreRefinement

CONSTANTS Listeners \* the addresses getifaddrs() yields

ASSUME NetboxServerAssumption ==
  /\ Listeners \subseteq Addr
  /\ \A p \in Packets, l \in Listeners : origin_ip(p, l) \in Origins

VARIABLES via,       \* the listener each task answers for
          orphans,   \* tasks of a process that has died
          promised,  \* history: <<client, address>> of every OFFER and ACK
                     \* sent, until the lease is given up or dropped
          withdrawn, \* history: tasks whose lease is given up or dropped
                     \* after the store granted it and before they answer
          late       \* history: the promises such a task made

history == <<promised, withdrawn, late>>

serverVars == <<ledgerVars, via, orphans, history>>

ServerInit ==
  /\ OwnerInit
  /\ via = [t \in Tasks |-> Unspecified]
  /\ orphans = {}
  /\ promised = {} /\ withdrawn = {} /\ late = {}

Datagram(t, p, l) ==
  /\ pc[t] = "idle"
  /\ accepts(p, l)
  /\ Call(t, p, origin_ip(p, l))
  /\ via' = [via EXCEPT ![t] = l]
  /\ UNCHANGED <<orphans, history>>

Yiaddr(t) == IF pc[t] = "granted" THEN items[t][1].address ELSE Unspecified

Answer(t) == reply_to(pkt[t], pc[t], Yiaddr(t), via[t])

Destination(t) == determine_response_dest(pkt[t], Answer(t))

Ready(t) == /\ pc[t] \in Result \ {"failed"} /\ t \notin orphans
            /\ Answer(t) # NoReply /\ Destination(t) # Nowhere

(* What the answer tells its client it has.                                *)
Told(t) == IF pc[t] = "granted" THEN {<<pkt[t].client, Yiaddr(t)>>} ELSE {}

(* send_to succeeds.  Nobody looks at the lease again before.              *)
Respond(t) ==
  /\ Ready(t)
  /\ promised' = promised \cup Told(t)
  /\ late' = IF t \in withdrawn THEN late \cup Told(t) ELSE late \ Told(t)
  /\ withdrawn' = withdrawn \ {t}
  /\ Return(t)
  /\ via' = [via EXCEPT ![t] = Unspecified]
  /\ UNCHANGED orphans

(* No answer, nowhere to send it, send_to fails, or the reply is lost.     *)
FallSilent(t) ==
  /\ Return(t)
  /\ via' = [via EXCEPT ![t] = Unspecified]
  /\ orphans' = orphans \ {t}
  /\ withdrawn' = withdrawn \ {t}
  /\ UNCHANGED <<promised, late>>

(* The bookkeeping of leases that end: what was promised of them, and what *)
(* is about to be.                                                         *)
Withdraw(ended) ==
  /\ promised' = promised \ ended
  /\ late' = late \ ended
  /\ withdrawn' = withdrawn \cup {u \in Tasks : Told(u) \cap ended # {}}

(* What a client gives up, from the moment its RELEASE or DECLINE is acted *)
(* on.                                                                     *)
GivenUp(t) == IF pc[t] \in {"delete", "decline"}
              THEN {pkt[t].client} \X given_up_addresses(pkt[t]) ELSE {}

InStore(t) ==
  /\ t \notin orphans
  /\ Work(t)
  /\ Withdraw(GivenUp(t))
  /\ UNCHANGED <<via, orphans>>

Writing == {"post", "acknowledge", "delete", "decline"}

(* The process dies and is restarted.  A request that was already sent may *)
(* still reach NetBox, later than what the new process sends.              *)
Crash ==
  /\ \E t \in Tasks \ orphans : pc[t] # "idle"
  /\ orphans' = {t \in Tasks : pc[t] # "idle"}
  /\ pc' = [t \in Tasks |-> IF pc[t] \in {"idle"} \cup Writing THEN pc[t]
                            ELSE "failed"]
  /\ items' = [t \in Tasks |-> IF pc[t] \in Writing THEN items[t] ELSE <<>>]
  /\ UNCHANGED <<leases, issued, pkt, origin, overtaken, via, history>>

(* ... once, and nobody goes on from there.                                *)
LateRequest(t) ==
  /\ t \in orphans
  /\ acknowledge(t) \/ post(t) \/ delete(t) \/ decline(t) \/ RequestFails(t)
  /\ pc'[t] = "failed"
  /\ Withdraw(GivenUp(t))
  /\ UNCHANGED <<via, orphans>>

(* A lease NetBox drops of its own accord is nobody's promise any more.    *)
Dropped(i) ==
  /\ Purge(i)
  /\ Withdraw(Client \X {leases[i].address})
  /\ UNCHANGED <<via, orphans>>

ServerStep ==
  \/ \E t \in Tasks : \/ \E p \in Packets, l \in Listeners : Datagram(t, p, l)
                      \/ InStore(t)
                      \/ Respond(t)
                      \/ FallSilent(t)
                      \/ LateRequest(t)
  \/ \E i \in Ids : Dropped(i)
  \/ Crash

ServerNext == ServerStep /\ Remember

ServerSpec == ServerInit /\ [][ServerNext]_serverVars
-----------------------------------------------------------------------------
(* Every OFFER and ACK speaks of a lease that is in NetBox in the client's *)
(* name, from when it is sent until the client gives the lease up or       *)
(* NetBox drops it: over crashes and restarts, requests that arrive late   *)
(* or never, other packets of this client at the same time, and whatever   *)
(* other clients do.  The one exception is the answer that is overtaken on *)
(* its way out: between the request that made or renewed the lease and     *)
(* send_to, the same client's RELEASE or DECLINE of the address is acted   *)
(* on, or NetBox drops the lease.                                          *)
PromiseKept ==
  \A q \in promised : \/ \E i \in OwnIds(q[1]) : leases[i].address = q[2]
                     \/ q \in late

(* A client is told that it may not use its address, or told nothing at    *)
(* all, only if no address it names on the subnet was promised to it,      *)
(* leaving aside what it was promised late.  Another task of the same      *)
(* client under way excuses it.                                            *)
NoFalseDenial ==
  \A t \in Tasks : pc[t] \in {"mismatch", "refused"} /\ t \notin overtaken =>
    ~\E q \in promised \ late :
       /\ q[1] = pkt[t].client
       /\ Named(pkt[t]) = {q[2]}
       /\ same_subnet(q[2], compare_ip(pkt[t], origin[t]))

(* A reply goes to the relay; else a NAK by broadcast, since the client's  *)
(* address is wrong; else an ACK to the address it confirms, if the client *)
(* uses one, and by broadcast if it does not.  Whatever the lease, there   *)
(* is a way to it.                                                         *)
ReplyReachesClient ==
  \A t \in Tasks : pc[t] \in {"granted", "mismatch"} =>
    LET req == pkt[t]  rep == Answer(t)  dest == Destination(t) IN
    IF Specified(req.giaddr) THEN dest = [ip |-> req.giaddr, port |-> 67]
    ELSE IF rep.type = "NegAcknowledge" \/ ~Specified(req.ciaddr)
         THEN dest = [ip |-> Broadcast, port |-> 68]
         ELSE dest = [ip |-> req.ciaddr, port |-> 68]
              /\ (req.type = "Request" => rep.yiaddr = req.ciaddr)
=============================================================================
