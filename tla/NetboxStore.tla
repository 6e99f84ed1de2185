----------------------------- MODULE NetboxStore -----------------------------
(***************************************************************************)
(* backends/netbox.rs: the lease store that keeps its leases in NetBox.    *)
(*                                                                         *)
(* The backend has no state of its own.  A method is a sequence of REST    *)
(* requests: a GET for each page of the client's leases, then the POST,    *)
(* PUT or DELETE requests that follow from what was read.  Between two     *)
(* requests any other task, and NetBox itself, may change the leases, so   *)
(* one action is one request or the code up to the next one.               *)
(*                                                                         *)
(* NetBox is external and modelled as the backend uses it: POST makes a    *)
(* lease with a new url and a free address of the subnet, PUT replaces the *)
(* lease at its url whole, PUT and DELETE fail where there is none, and    *)
(* GET lists leases in the order of their creation.  A page holds one      *)
(* lease: longer ones are the behaviours in which nothing happens between  *)
(* two pages.                                                              *)
(***************************************************************************)
EXTENDS Packet, FiniteSets, Sequences

CONSTANTS Tasks,      \* tasks that can be inside the store at once
          Packets,    \* the packets that can arrive
          Origins,    \* what the server passes as recv_ip
          Pool,       \* the addresses NetBox may lease
          SubnetSize, \* addresses of one subnet, from the leases' prefix
          MaxId,      \* bound on the leases ever created
          Declined,   \* DECLINED_CLIENT_ID
          NoLease, NoPacket

Ids == 1 .. MaxId

(* The id stands for the url as well.  Options, times and host name do not *)
(* steer any step.                                                         *)
Lease == [id : Ids, client : Client \cup {Declined}, address : Pool,
          acknowledged : BOOLEAN]

ASSUME NetboxAssumption ==
  /\ Packets \subseteq DhcpPacket
  /\ Origins \subseteq Addr
  /\ Pool \subseteq Addr
  /\ SubnetSize \in Nat \ {0}
  /\ MaxId \in Nat
  /\ Declined \notin Client
  /\ NoLease \notin Lease
  /\ NoPacket \notin DhcpPacket

VARIABLES leases, \* NetBox's table: the lease of each id, or NoLease
          issued, \* the ids NetBox has given out so far
          pc,     \* where each task is
          pkt,    \* the packet it works on
          origin, \* its recv_ip argument
          items,  \* its copies: those read, then those not yet looked at,
                  \* or the lease it returns
          overtaken \* history: tasks whose client gained or lost a lease
                    \* by somebody else's doing while they were under way

vars == <<leases, issued, pc, pkt, origin, items, overtaken>>

Result == {"granted", "refused", "mismatch", "failed", "finished"}

Request == {"list", "post", "acknowledge", "delete", "decline"}

Step == {"idle", "choose"} \cup Request \cup Result

-----------------------------------------------------------------------------
Present(i) == leases[i] # NoLease

(* Whose lease i is in a table: nobody's if it is not there.               *)
holder(table, i) == IF table[i] = NoLease THEN {} ELSE {table[i].client}

(* A wrong OwnIds, for DeclineUndoneOnlyByOverlap: the query is not        *)
(* limited to the client.                                                  *)
AllIds(c) == {i \in Ids : Present(i)}

(* GET lease_url?client_id=c.                                              *)
OwnIds(c) == {i \in Ids : Present(i) /\ leases[i].client = c}

position(i, own) == Cardinality({j \in own : j < i})

same_subnet(a, b) == a \div SubnetSize = b \div SubnetSize

(* The address a REQUEST's leases are checked against for locality.        *)
compare_ip(p, o) == IF Specified(p.ciaddr) THEN p.ciaddr ELSE o

(* receiving_ip of a new lease.                                            *)
receiving_ip(p, o) == IF Specified(p.giaddr) THEN p.giaddr ELSE o

(* A wrong asks_for, for GrantIsRecorded: option 50 is not compared.       *)
asks_for_ciaddr(p, l) == Specified(p.ciaddr) => p.ciaddr = l.address

(* A wrong asks_for, for NoFalseDenial: an unspecified ciaddr is compared. *)
asks_for_unspecified(p, l) == /\ p.ciaddr = l.address
                              /\ has_requested(p) => p.requested = l.address

asks_for(p, l) == /\ Specified(p.ciaddr) => p.ciaddr = l.address
                  /\ has_requested(p) => p.requested = l.address

(* A wrong update_from_packet, for AddressLeasedOnce: the lease is moved   *)
(* to the address of option 50 as well.                                    *)
update_with_requested(l, p) ==
  [l EXCEPT !.client = p.client,
            !.address = IF has_requested(p) THEN p.requested ELSE @]

(* The client id of option 61, if there is one, and then it is p.client.   *)
(* Without one the lease has the client already, as it was found by it.    *)
update_from_packet(l, p) == [l EXCEPT !.client = p.client]

least(K) == CHOOSE k \in K : \A j \in K : k <= j

(* The bookkeeping of a change to lease i that the tasks of doers make.    *)
Overtake(doers, i) ==
  overtaken' = overtaken \cup
    {u \in Tasks \ doers : /\ pc[u] # "idle"
                           /\ holder(leases', i) # holder(leases, i)
                           /\ pkt[u].client \in holder(leases, i)
                                               \cup holder(leases', i)}

-----------------------------------------------------------------------------
Init ==
  /\ leases = [i \in Ids |-> NoLease]
  /\ issued = {}
  /\ pc = [t \in Tasks |-> "idle"]
  /\ pkt = [t \in Tasks |-> NoPacket]
  /\ origin = [t \in Tasks |-> Unspecified]
  /\ items = [t \in Tasks |-> <<>>]
  /\ overtaken = {}

(* Every method starts with the list of the client's leases; a packet      *)
(* without a method does not reach the store.  recv_ip is the relay if     *)
(* there is one.                                                           *)
Call(t, p, o) ==
  /\ pc[t] = "idle"
  /\ Specified(p.giaddr) => o = p.giaddr
  /\ pc' = [pc EXCEPT ![t] = IF method(p) = "none" THEN "failed" ELSE "list"]
  /\ pkt' = [pkt EXCEPT ![t] = p]
  /\ origin' = [origin EXCEPT ![t] = o]
  /\ UNCHANGED <<leases, issued, items, overtaken>>

(* A wrong get_page, for RefusalIsJustified: `next` is not followed.       *)
get_first_page(t) ==
  /\ pc[t] = "list"
  /\ LET own == OwnIds(pkt[t].client)
         page == {i \in own : position(i, own) = 0}
     IN  items' = [items EXCEPT ![t] =
           IF page = {} THEN <<>> ELSE <<leases[CHOOSE i \in page : TRUE]>>]
  /\ pc' = [pc EXCEPT ![t] = "choose"]
  /\ UNCHANGED <<leases, issued, pkt, origin, overtaken>>

(* One page.  Its `next` says whether there was another when it was        *)
(* served; that one may be empty when it is fetched.                       *)
get_page(t) ==
  /\ pc[t] = "list"
  /\ LET own == OwnIds(pkt[t].client)
         offset == Len(items[t])
         page == {i \in own : position(i, own) = offset}
     IN  /\ items' = [items EXCEPT ![t] =
              IF page = {} THEN @
              ELSE Append(@, leases[CHOOSE i \in page : TRUE])]
         /\ pc' = [pc EXCEPT ![t] =
              IF offset + 1 < Cardinality(own) THEN "list" ELSE "choose"]
  /\ UNCHANGED <<leases, issued, pkt, origin, overtaken>>

-----------------------------------------------------------------------------
(* What each method makes of the list.  Nothing is sent here.              *)
Choose(t, methods, next, copies) ==
  /\ pc[t] = "choose" /\ method(pkt[t]) \in methods
  /\ pc' = [pc EXCEPT ![t] = next]
  /\ items' = [items EXCEPT ![t] = copies]
  /\ UNCHANGED <<leases, issued, pkt, origin, overtaken>>

(* The copies of task t on the subnet of address a, as places in its list. *)
OnSubnetOf(t, a) ==
  {k \in DOMAIN items[t] : same_subnet(items[t][k].address, a)}

FirstOf(t, K) == IF K = {} THEN <<>> ELSE <<items[t][least(K)]>>

(* A wrong get_lease, for NewLeaseOnlyIfNone: a lease that is not the      *)
(* address of option 50 does not count.                                    *)
get_lease_requested(t) ==
  LET local == {k \in OnSubnetOf(t, origin[t]) : asks_for(pkt[t], items[t][k])}
  IN  Choose(t, {"discover", "inform"},
             IF local = {} THEN "post" ELSE "acknowledge", FirstOf(t, local))

(* A wrong get_lease, for TypeOK: the list is taken to have a lease.       *)
get_lease_any(t) ==
  Choose(t, {"discover", "inform"}, "acknowledge",
         FirstOf(t, OnSubnetOf(t, origin[t])))

(* DISCOVER and INFORM: the first lease on the subnet of recv_ip, or a new *)
(* one.                                                                    *)
get_lease(t) ==
  LET local == OnSubnetOf(t, origin[t])
  IN  Choose(t, {"discover", "inform"},
             IF local = {} THEN "post" ELSE "acknowledge", FirstOf(t, local))

(* Every REQUEST: the first lease on the subnet that is the address asked  *)
(* for.  None on the subnet is silence, none with the address is a NAK.    *)
renew_lease(t) ==
  LET local == OnSubnetOf(t, compare_ip(pkt[t], origin[t]))
      asked == {k \in local : asks_for(pkt[t], items[t][k])}
  IN  Choose(t, {"selecting", "init_reboot", "renewing", "rebinding"},
             IF local = {} THEN "refused"
             ELSE IF asked = {} THEN "mismatch" ELSE "acknowledge",
             FirstOf(t, asked))

(* Wrong given_up_addresses, for RemovalIsComplete: yiaddr, which the      *)
(* memory store uses, for ciaddr; for LeaseKeptUnlessGivenUp:              *)
(* every lease of the client goes.                                         *)
given_up_yiaddr(p) == IF method(p) = "release" THEN {p.yiaddr} ELSE {p.requested}

given_up_all(p) == Pool

(* The addresses delete_lease and decline_lease look for.  Without option  *)
(* 50 no address is the declined one.                                      *)
given_up_addresses(p) ==
  IF method(p) = "release" THEN {p.ciaddr} ELSE {p.requested}

(* Where in the list s the loops of a RELEASE or DECLINE stop.             *)
Doomed(s, p) == {k \in DOMAIN s : s[k].address \in given_up_addresses(p)}

delete_lease(t) ==
  Choose(t, {"release"},
         IF Doomed(items[t], pkt[t]) = {} THEN "finished" ELSE "delete", items[t])

decline_lease(t) ==
  Choose(t, {"decline"},
         IF Doomed(items[t], pkt[t]) = {} THEN "finished" ELSE "decline", items[t])

-----------------------------------------------------------------------------
(* The requests that change a lease.  Any of them may take effect although *)
(* its answer never arrives or cannot be decoded: the outcome "failed".    *)

(* The first copy is dealt with; on an error the others are given up.      *)
Proceed(t, next, copies) ==
  \/ /\ pc' = [pc EXCEPT ![t] = next]
     /\ items' = [items EXCEPT ![t] = copies]
  \/ /\ pc' = [pc EXCEPT ![t] = "failed"]
     /\ items' = [items EXCEPT ![t] = <<>>]

(* NetBox's side of PUT and DELETE: the lease at the url of l becomes new. *)
Replace(t, l, new) ==
  /\ Present(l.id)
  /\ leases' = [leases EXCEPT ![l.id] = new]
  /\ Overtake({t}, l.id)
  /\ UNCHANGED <<issued, pkt, origin>>

acknowledge(t) ==
  /\ pc[t] = "acknowledge"
  /\ LET l == Head(items[t])
         new == [update_from_packet(l, pkt[t]) EXCEPT !.acknowledged = TRUE]
     IN  Replace(t, l, new) /\ Proceed(t, "granted", <<new>>)

(* POST: NetBox picks a free address of the receiving subnet.              *)
post(t) ==
  /\ pc[t] = "post"
  /\ \E i \in Ids \ issued, a \in Pool :
       /\ \A j \in Ids : j < i => j \in issued
       /\ same_subnet(a, receiving_ip(pkt[t], origin[t]))
       /\ \A j \in Ids : Present(j) => leases[j].address # a
       /\ LET new == [id |-> i, client |-> pkt[t].client, address |-> a,
                      acknowledged |-> FALSE]
          IN  /\ leases' = [leases EXCEPT ![i] = new]
              /\ Proceed(t, "granted", <<new>>)
       /\ issued' = issued \cup {i}
       /\ Overtake({t}, i)
  /\ UNCHANGED <<pkt, origin>>

(* delete and decline go on with the copies after the one dealt with.      *)
ProceedWithRest(t, k) ==
  LET rest == SubSeq(items[t], k + 1, Len(items[t]))
  IN  Proceed(t, IF Doomed(rest, pkt[t]) = {} THEN "finished" ELSE pc[t], rest)

(* A wrong delete, for PromiseKept: the first lease of the list, not the   *)
(* one that was found.                                                     *)
delete_first(t) ==
  /\ pc[t] = "delete"
  /\ LET k == least(Doomed(items[t], pkt[t]))
     IN  Replace(t, items[t][1], NoLease) /\ ProceedWithRest(t, k)

delete(t) ==
  /\ pc[t] = "delete"
  /\ LET k == least(Doomed(items[t], pkt[t]))
     IN  Replace(t, items[t][k], NoLease) /\ ProceedWithRest(t, k)

decline(t) ==
  /\ pc[t] = "decline"
  /\ LET k == least(Doomed(items[t], pkt[t]))
         l == items[t][k]
     IN  Replace(t, l, [l EXCEPT !.client = Declined]) /\ ProceedWithRest(t, k)

(* send_request: the connection fails, NetBox answers with an error, or an *)
(* answer cannot be decoded, and nothing has changed.                      *)
RequestFails(t) ==
  /\ pc[t] \in Request
  /\ pc' = [pc EXCEPT ![t] = "failed"]
  /\ items' = [items EXCEPT ![t] = <<>>]
  /\ UNCHANGED <<leases, issued, pkt, origin, overtaken>>

-----------------------------------------------------------------------------
(* The method's result goes back to process_packet_data.                   *)
Return(t) ==
  /\ pc[t] \in Result
  /\ pc' = [pc EXCEPT ![t] = "idle"]
  /\ pkt' = [pkt EXCEPT ![t] = NoPacket]
  /\ origin' = [origin EXCEPT ![t] = Unspecified]
  /\ items' = [items EXCEPT ![t] = <<>>]
  /\ overtaken' = overtaken \ {t}
  /\ UNCHANGED <<leases, issued>>

(* NetBox, or its administrator, drops a lease.                            *)
Purge(i) ==
  /\ Present(i)
  /\ leases' = [leases EXCEPT ![i] = NoLease]
  /\ Overtake({}, i)
  /\ UNCHANGED <<issued, pc, pkt, origin, items>>

Work(t) ==
  \/ get_page(t)
  \/ get_lease(t)
  \/ renew_lease(t)
  \/ delete_lease(t)
  \/ decline_lease(t)
  \/ acknowledge(t)
  \/ post(t)
  \/ delete(t)
  \/ decline(t)
  \/ RequestFails(t)

Next ==
  \/ \E t \in Tasks : \/ \E p \in Packets, o \in Origins : Call(t, p, o)
                      \/ Work(t)
                      \/ Return(t)
  \/ \E i \in Ids : Purge(i)

Spec == Init /\ [][Next]_vars

-----------------------------------------------------------------------------
(* The type of every variable, and the copies a request needs are there.   *)
TypeOK ==
  /\ leases \in [Ids -> Lease \cup {NoLease}]
  /\ issued \subseteq Ids
  /\ pc \in [Tasks -> Step]
  /\ pkt \in [Tasks -> Packets \cup {NoPacket}]
  /\ origin \in [Tasks -> Addr]
  /\ items \in [Tasks -> Seq(Lease)]
  /\ overtaken \subseteq Tasks
  /\ \A t \in Tasks :
       /\ pc[t] \in {"acknowledge", "granted"} => items[t] # <<>>
       /\ pc[t] \in {"delete", "decline"} => Doomed(items[t], pkt[t]) # {}

(* An address has at most one lease, declined or not: NetBox looks when it *)
(* makes one, and no PUT ever moves a lease to another address, although   *)
(* each writes all of a lease that was read some time ago.                 *)
AddressLeasedOnce ==
  \A i, j \in Ids :
    Present(i) /\ Present(j) /\ leases[i].address = leases[j].address => i = j

(* The addresses a REQUEST says are its client's.                          *)
Named(p) == {a \in {p.ciaddr} : Specified(a)} \cup ({p.requested} \ {NoAddr})

OnSubnet(c, a) ==
  {i \in OwnIds(c) : same_subnet(leases[i].address, a)}

(* A method that succeeds returns a lease that NetBox has for this client, *)
(* on the subnet of the request; a REQUEST gets the address it names, and  *)
(* the lease is marked as acknowledged.  Only a lease that came or went    *)
(* while the method ran can make it otherwise, although every PUT writes   *)
(* back what an earlier GET had read.                                      *)
GrantIsRecorded ==
  \A t \in Tasks : pc[t] = "granted" /\ t \notin overtaken =>
    LET p == pkt[t]
        l == Head(items[t])
    IN  /\ Present(l.id)
        /\ leases[l.id].client = p.client
        /\ leases[l.id].address = l.address
        /\ p.type = "Request" =>
             /\ Named(p) \subseteq {l.address}
             /\ same_subnet(l.address, compare_ip(p, origin[t]))
             /\ leases[l.id].acknowledged

(* Silence and NAK are what the table says: a REQUEST is left unanswered   *)
(* only if the client has no lease on the subnet, and denied only if it    *)
(* has some there but none with the address it uses, whatever page the     *)
(* lease is on, unless leases of the client changed meanwhile.             *)
RefusalIsJustified ==
  \A t \in Tasks : pc[t] \in {"refused", "mismatch"} /\ t \notin overtaken =>
    LET local == OnSubnet(pkt[t].client, compare_ip(pkt[t], origin[t]))
    IN  /\ pc[t] = "refused" => local = {}
        /\ pc[t] = "mismatch" =>
             /\ local # {}
             /\ \A i \in local : ~(Named(pkt[t]) \subseteq {leases[i].address})

(* A RELEASE or DECLINE that reports success has reached every lease it is *)
(* about, also when there are several; the methods stop at the first       *)
(* request that fails, and then report that.                               *)
RemovalIsComplete ==
  \A t \in Tasks : pc[t] = "finished" /\ t \notin overtaken =>
    \A i \in OwnIds(pkt[t].client) :
      /\ method(pkt[t]) = "release" => leases[i].address # pkt[t].ciaddr
      /\ method(pkt[t]) = "decline" => leases[i].address # pkt[t].requested

(* A declined lease gets a client again only by the PUT of a task that     *)
(* read it before it was declined: save() sends the whole lease, and       *)
(* nothing compares it with what NetBox has by then.                       *)
DeclineUndoneOnlyByOverlap ==
  [][\A i \in Ids :
       /\ Present(i) /\ leases[i].client = Declined
       /\ Present(i)' /\ leases'[i].client # Declined
       => \E t \in overtaken : pc'[t] # pc[t]]_vars

(* The packet gives up address a of its client.                            *)
GivesUp(p, a) == \/ method(p) = "release" /\ p.ciaddr = a
                 \/ method(p) = "decline" /\ p.requested = a

(* However requests interleave and fail, the backend takes a lease from a  *)
(* client only for that client's own RELEASE or DECLINE of the address; a  *)
(* copy that is written back never carries another client.                 *)
LeaseKeptUnlessGivenUp ==
  [][\A i \in Ids :
       /\ Present(i) /\ leases[i].client \in Client
       /\ holder(leases', i) # holder(leases, i)
       => \/ \E t \in Tasks :
               /\ <<pc[t], items[t]>>' # <<pc[t], items[t]>>
               /\ pkt[t].client = leases[i].client
               /\ GivesUp(pkt[t], leases[i].address)
          \/ UNCHANGED <<pc, items>>]_vars

(* A client is given a second lease on a subnet only if two of its packets *)
(* were handled at once: get_lease looks at all its leases first.          *)
NewLeaseOnlyIfNone ==
  [][\A t \in Tasks :
       pc[t] = "post" /\ issued' # issued /\ pc'[t] # "post"
         => t \in overtaken \/ OnSubnet(pkt[t].client, origin[t]) = {}]_vars
=============================================================================
