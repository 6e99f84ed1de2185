------------------------- MODULE MemoryServerProofs -------------------------
(***************************************************************************)
(* The exchange of MemoryServer for any listeners, packets, tasks and      *)
(* scope.  The server drives the store, so the invariant of the store      *)
(* (MemoryStoreProofs) holds under it as well; what the server adds is     *)
(* that a task works only on packets its listener accepts.                 *)
(***************************************************************************)
EXTENDS MemoryServer, MemoryStoreProofs

(* A task answers for a listener that accepted its packet.                 *)
ViaOK == via = [t \in Tasks |-> via[t]]

Accepted ==
  \A t \in Tasks : pc[t] # "idle" => accepts(pkt[t], via[t])

SInv == IInv /\ ViaOK /\ Accepted /\ AckCompletesExchange /\ ReplyReachesClient
-----------------------------------------------------------------------------
USE DEF serverVars, vars, history

(* The server's steps are the store's: it calls the methods with a packet  *)
(* and the listener's or the relay's address, and takes their results.     *)
LEMMA ServerStepIsStoreStep == [ServerNext]_serverVars => [Next]_vars
<1>. SUFFICES ASSUME [ServerNext]_serverVars PROVE [Next]_vars
  OBVIOUS
<1>1. ASSUME NEW t \in Tasks, NEW p \in Packets, NEW l \in Listeners,
             Datagram(t, p, l)
      PROVE  Next
  <2>1. origin_ip(p, l) \in Origins /\ Call(t, p, origin_ip(p, l))
    BY <1>1, ServerAssumption DEF Datagram
  <2>. QED  BY <2>1 DEF Next
<1>2. ASSUME NEW t \in Tasks, InStore(t) \/ Respond(t) \/ FallSilent(t)
      PROVE  Next
  BY <1>2 DEF InStore, Respond, FallSilent, Next
<1>3. CASE Clock
  BY <1>3 DEF Clock, Next
<1>. QED  BY <1>1, <1>2, <1>3 DEF ServerNext

(* A lease that reaches the reply is of the packet's own exchange.         *)
LEMMA GrantFacts ==
  ASSUME IInv, NEW t \in Tasks, pc[t] = "granted"
  PROVE  /\ pkt[t] \in Packets
         /\ lease[t].yiaddr = ip[t] /\ ip[t] \in Scope
         /\ <<ip[t], lease[t].xid>> \in offered /\ lease[t].xid \in Xid
         /\ \/ method(pkt[t]) = "discover"
            \/ AskedFor(t)
         /\ method(pkt[t]) = "selecting" => lease[t].xid = pkt[t].xid
BY DEF IInv, TasksLocal, Local, Copy, Lease

(* What each method says of the packet's fields.                           *)
LEMMA FieldFacts ==
  ASSUME NEW p \in Packets
  PROVE  /\ method(p) = "discover" => p.type = "Discover"
         /\ method(p) \in {"selecting", "init_reboot", "renewing", "rebinding"}
              => p.type = "Request"
         /\ method(p) \in {"selecting", "init_reboot"} =>
              has_requested(p) /\ ~Specified(p.ciaddr)
         /\ method(p) = "selecting" => has_server_id(p)
         /\ method(p) \in {"renewing", "rebinding"} =>
              ~has_requested(p) /\ Specified(p.ciaddr)
BY DEF method, client_state, IsSelecting, IsInitReboot, IsRenewing, IsRebinding

(* The address of an ACK is the one the packet asked for.                  *)
LEMMA AskedFacts ==
  ASSUME IInv, NEW t \in Tasks, pc[t] = "granted", method(pkt[t]) # "discover"
  PROVE  ip[t] = Asked(pkt[t])
BY GrantFacts, FieldFacts DEF AskedFor, Asked, renewed_ip
-----------------------------------------------------------------------------
(* The inductive invariant holds initially.                                *)
LEMMA ServerInitInv == ServerInit => SInv
<1>. SUFFICES ASSUME ServerInit PROVE SInv
  OBVIOUS
<1>1. IInv
  BY InvariantInit DEF ServerInit
<1>2. ViaOK /\ Accepted
  BY DEF ServerInit, Init, ViaOK, Accepted
<1>3. AckCompletesExchange /\ ReplyReachesClient
  BY DEF ServerInit, AckCompletesExchange, ReplyReachesClient
<1>. QED  BY <1>1, <1>2, <1>3 DEF SInv

(* A task keeps its packet and its listener for as long as it is busy.     *)
LEMMA AcceptedStep ==
  ASSUME SInv, [ServerNext]_serverVars
  PROVE  (ViaOK /\ Accepted)'
<1>. USE DEF SInv, IInv, TypeOK
<1>1. ASSUME NEW t \in Tasks, NEW p \in Packets, NEW l \in Listeners,
             Datagram(t, p, l)
      PROVE  (ViaOK /\ Accepted)'
  <2>1. PICK step \in {"scan", "lookup", "lookup_xid", "remove", "failed"},
             a \in Addr \cup {ScopeLo} : Begin(t, p, origin_ip(p, l), step, a)
    BY <1>1, BeginFacts, ServerAssumption DEF Datagram, Starts
  <2>2. /\ \A u \in Tasks : u # t => /\ pc'[u] = pc[u]
                                     /\ pkt'[u] = pkt[u]
                                     /\ via'[u] = via[u]
        /\ pkt'[t] = p /\ via'[t] = l /\ accepts(p, l)
    BY <1>1, <2>1 DEF Begin, Datagram, ViaOK
  <2>3. via' = [u \in Tasks |-> via'[u]]
    BY <1>1 DEF Datagram, ViaOK
  <2>. QED  BY <2>2, <2>3 DEF Accepted, ViaOK
<1>2. ASSUME NEW t \in Tasks, Work(t)
      PROVE  pkt' = pkt /\ \A u \in Tasks : pc'[u] # "idle" => pc[u] # "idle"
  BY <1>2 DEF Work, ScanTaken, ScanFree, ReclaimExpired, RefuseDiscover,
     BuildLease, LookUpMissing, LookUpSelecting, LookUpInitReboot,
     LookUpRenewing, LookUp, RefreshLease, store_lease, LookUpXid,
     LookUpXidMissing, remove_lease
<1>3. ASSUME NEW t \in Tasks, InStore(t) PROVE (ViaOK /\ Accepted)'
  BY <1>2, <1>3 DEF InStore, ViaOK, Accepted
<1>4. ASSUME NEW t \in Tasks, Respond(t) \/ FallSilent(t)
      PROVE  (ViaOK /\ Accepted)'
  <2>1. /\ via' = [via EXCEPT ![t] = Unspecified]
        /\ pc' = [pc EXCEPT ![t] = "idle"]
        /\ pkt' = [pkt EXCEPT ![t] = NoPacket]
    BY <1>4 DEF Respond, FallSilent, Return
  <2>2. /\ \A u \in Tasks : u # t => /\ pc'[u] = pc[u]
                                     /\ pkt'[u] = pkt[u]
                                     /\ via'[u] = via[u]
        /\ pc'[t] = "idle"
    BY <2>1 DEF ViaOK
  <2>3. via' = [u \in Tasks |-> via'[u]]
    BY <2>1 DEF ViaOK
  <2>. QED  BY <2>2, <2>3 DEF Accepted, ViaOK
<1>5. CASE Clock \/ UNCHANGED serverVars
  BY <1>5 DEF Clock, Tick, Accepted, ViaOK
<1>. QED  BY <1>1, <1>3, <1>4, <1>5 DEF ServerNext

(* An answer is the response to a grant: the memory store has no other     *)
(* result that server.rs answers.                                          *)
LEMMA AnswerFacts ==
  ASSUME NEW t \in Tasks, pc[t] \in Result, Answer(t) # NoReply
  PROVE  /\ pc[t] = "granted"
         /\ Answer(t) = response(pkt[t], lease[t].yiaddr, via[t])
<1>1. ASSUME pc[t] \in {"refused", "failed", "finished"}
      PROVE  Answer(t) = NoReply
  BY <1>1 DEF Answer, reply_to
<1>2. pc[t] = "granted"
  BY <1>1 DEF Result
<1>. QED  BY <1>2 DEF Answer, reply_to

(* What is put on the network answers the client that asked.               *)
LEMMA RespondStep ==
  ASSUME SInv, NEW t \in Tasks, Respond(t)
  PROVE  (AckCompletesExchange /\ ReplyReachesClient)'
<1>. DEFINE p == pkt[t]
            r == response(p, ip[t], via[t])
<1>1. /\ pc[t] = "granted" /\ Answer(t) = r /\ Destination(t) # Nowhere
      /\ wire' = [request |-> p, via |-> via[t], reply |-> r,
                  dest |-> determine_response_dest(p, r)]
      /\ offered' = offered
  BY AnswerFacts, GrantFacts DEF SInv, Respond, Destination, Return
<1>2. /\ p \in Packets /\ accepts(p, via[t])
      /\ <<ip[t], lease[t].xid>> \in offered /\ lease[t].xid \in Xid
      /\ method(p) = "selecting" => lease[t].xid = p.xid
  BY <1>1, GrantFacts DEF SInv, Accepted
<1>3. /\ r.type = reply_type(p) /\ r.yiaddr = ip[t] /\ r.server_id = via[t]
      /\ wire'.request = p /\ wire'.reply = r
      /\ wire'.dest = determine_response_dest(p, r)
  BY <1>1 DEF response
<1>4. r.type = "Acknowledge" => method(p) # "discover"
  BY <1>2, <1>3, FieldFacts DEF reply_type
<1>5. r.type # "NegAcknowledge"
  BY <1>3 DEF reply_type
<1>6. method(p) # "discover" => ip[t] = Asked(p) /\ AskedFor(t)
  BY <1>1, AskedFacts, GrantFacts DEF SInv
<1>7. AckCompletesExchange'
  <2>1. method(p) = "selecting" => via[t] = p.server_id
    BY <1>2, FieldFacts DEF accepts
  <2>. QED
    BY <1>1, <1>2, <1>3, <1>4, <1>6, <2>1 DEF AckCompletesExchange
<1>8. ReplyReachesClient'
  <2>1. ASSUME Specified(p.giaddr)
        PROVE  wire'.dest = [ip |-> p.giaddr, port |-> 67]
    BY <1>3, <2>1 DEF determine_response_dest
  <2>2. ASSUME ~Specified(p.giaddr), ~Specified(p.ciaddr)
        PROVE  wire'.dest = [ip |-> Broadcast, port |-> 68]
    <3>1. determine_response_dest(p, r) # Nowhere
      BY <1>1 DEF Destination
    <3>. QED  BY <1>3, <1>5, <2>2, <3>1 DEF determine_response_dest
  <2>3. ASSUME ~Specified(p.giaddr), Specified(p.ciaddr), r.type = "Acknowledge"
        PROVE  wire'.dest = [ip |-> r.yiaddr, port |-> 68]
    <3>1. ~has_requested(p) /\ p.ciaddr = ip[t]
      BY <1>2, <1>4, <1>6, <2>3, FieldFacts DEF AskedFor, Asked
    <3>. QED  BY <1>3, <1>5, <2>3, <3>1 DEF determine_response_dest
  <2>. QED  BY <1>3, <2>1, <2>2, <2>3 DEF ReplyReachesClient
<1>. QED  BY <1>7, <1>8

(* The inductive invariant is preserved by every step.                     *)
LEMMA ServerStepInv == SInv /\ [ServerNext]_serverVars => SInv'
<1>. SUFFICES ASSUME SInv, [ServerNext]_serverVars PROVE SInv'
  OBVIOUS
<1>1. IInv'
  BY ServerStepIsStoreStep, InvariantStep DEF SInv
<1>2. (ViaOK /\ Accepted)'
  BY AcceptedStep
<1>3. (AckCompletesExchange /\ ReplyReachesClient)'
  <2>1. CASE \E t \in Tasks : Respond(t)
    BY <2>1, RespondStep
  <2>2. CASE wire' = NoReply
    BY <2>2 DEF AckCompletesExchange, ReplyReachesClient
  <2>3. CASE UNCHANGED serverVars
    BY <2>3 DEF SInv, AckCompletesExchange, ReplyReachesClient
  <2>. QED
    BY <2>1, <2>2, <2>3 DEF ServerNext, Datagram, InStore, FallSilent, Clock
<1>. QED  BY <1>1, <1>2, <1>3 DEF SInv

(* SInv holds in every reachable state of the server.                      *)
THEOREM ServerInvariant == ServerSpec => []SInv
BY ServerInitInv, ServerStepInv, PTL DEF ServerSpec

(* An ACK carries the address its client asked for, one that a DISCOVER    *)
(* was offered, and to a SELECTING client it comes from the server that the*)
(* client chose and for its own transaction, whatever the listeners hear   *)
(* and however their tasks interleave (AckCompletesExchange).              *)
THEOREM AcksCompleteExchanges == ServerSpec => []AckCompletesExchange
<1>1. SInv => AckCompletesExchange
  BY DEF SInv
<1>. QED  BY <1>1, ServerInvariant, PTL

(* Every answer goes to the relay, by broadcast, or to the address it      *)
(* confirms (ReplyReachesClient).                                          *)
THEOREM RepliesReachClients == ServerSpec => []ReplyReachesClient
<1>1. SInv => ReplyReachesClient
  BY DEF SInv
<1>. QED  BY <1>1, ServerInvariant, PTL

(* The table is never changed for an answer that determine_response_dest   *)
(* then has nowhere to send, unless the scope holds 0.0.0.0 itself         *)
(* (GrantIsRoutable).                                                      *)
THEOREM GrantsAreRoutable ==
  ASSUME Unspecified \notin Scope
  PROVE  ServerSpec => []GrantIsRoutable
<1>1. SInv => GrantIsRoutable
  <2>. SUFFICES ASSUME SInv, NEW t \in Tasks, pc[t] = "granted"
                PROVE  Destination(t) # Nowhere
    BY DEF GrantIsRoutable
  <2>. DEFINE r == response(pkt[t], ip[t], via[t])
  <2>1. Answer(t) = r /\ Specified(ip[t])
    BY GrantFacts DEF SInv, Answer, reply_to, Specified
  <2>2. r.yiaddr = ip[t] /\ r.type # "NegAcknowledge"
    BY DEF response, reply_type
  <2>3. ASSUME Specified(pkt[t].giaddr)
        PROVE  determine_response_dest(pkt[t], r) = [ip |-> pkt[t].giaddr, port |-> 67]
    BY <2>3 DEF determine_response_dest
  <2>4. ASSUME ~Specified(pkt[t].giaddr), Specified(pkt[t].ciaddr)
        PROVE  determine_response_dest(pkt[t], r) = [ip |-> pkt[t].ciaddr, port |-> 68]
    BY <2>2, <2>4 DEF determine_response_dest
  <2>5. ASSUME ~Specified(pkt[t].giaddr), ~Specified(pkt[t].ciaddr)
        PROVE  determine_response_dest(pkt[t], r) = [ip |-> Broadcast, port |-> 68]
    BY <2>1, <2>2, <2>5 DEF determine_response_dest
  <2>. QED  BY <2>1, <2>3, <2>4, <2>5 DEF Destination, Nowhere
<1>. QED  BY <1>1, ServerInvariant, PTL
=============================================================================
