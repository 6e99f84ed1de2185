-------------------------- MODULE NetboxStoreProofs --------------------------
(***************************************************************************)
(* NetboxStore for any number of tasks, clients, leases and addresses.     *)
(*                                                                         *)
(* A PUT writes what a GET has read some time before, so the invariant is  *)
(* about copies: a copy never disagrees with NetBox about the address of a *)
(* lease, and as long as nobody overtook the task, nor about its client.   *)
(***************************************************************************)
EXTENDS NetboxStoreRefinement, TLAPS, WellFoundedInduction,
        SequenceTheorems, FiniteSetTheorems

(* NetBox's table: leases are filed under their ids.                       *)
Filed == \A i \in Ids : Present(i) => i \in issued /\ leases[i].id = i

(* What is true of every copy, however old.                                *)
Copied(l) == /\ l.id \in issued
             /\ Present(l.id) => leases[l.id].address = l.address

Local(t) ==
  /\ pc[t] # "idle" => pkt[t] \in Packets
  /\ pc[t] = "idle" => items[t] = <<>>
  /\ \A k \in DOMAIN items[t] :
       Copied(items[t][k]) /\ items[t][k].client = pkt[t].client
  /\ pc[t] = "post" => method(pkt[t]) \in {"discover", "inform"}
  /\ pc[t] = "delete" => method(pkt[t]) = "release"
  /\ pc[t] = "decline" => method(pkt[t]) = "decline"
  /\ pc[t] \in {"acknowledge", "granted"} /\ pkt[t].type = "Request" =>
       /\ asks_for(pkt[t], items[t][1])
       /\ same_subnet(items[t][1].address, compare_ip(pkt[t], origin[t]))

TasksLocal == \A t \in Tasks : Local(t)

(* What is true of a copy until somebody else changes whose lease it is.   *)
Current(l) == Present(l.id) /\ leases[l.id].client = l.client

Undisturbed(t) ==
  /\ pc[t] \in {"list", "choose", "acknowledge", "granted"} =>
       \A k \in DOMAIN items[t] : Current(items[t][k])
  /\ pc[t] = "granted" /\ pkt[t].type = "Request" =>
       leases[items[t][1].id].acknowledged

Held == \A t \in Tasks : t \notin overtaken => Undisturbed(t)

IInv == TypeOK /\ AddressLeasedOnce /\ Filed /\ TasksLocal /\ Held
-----------------------------------------------------------------------------
LEMMA LeastIn ==
  ASSUME NEW K, K \subseteq Nat, K # {}
  PROVE  least(K) \in K /\ \A j \in K : least(K) <= j
<1>. DEFINE R == OpToRel(<, Nat)
<1>1. IsWellFoundedOn(R, Nat)
  BY NatLessThanWellFounded, Zenon
<1>2. \A j, k \in Nat : j < k => <<j, k>> \in R
  BY DEF OpToRel
<1>. HIDE DEF R
<1>3. PICK k \in K : \A j \in K : ~(<<j, k>> \in R)
  BY <1>1, WFMin
<1>4. ASSUME NEW j \in K PROVE k <= j
  <2>1. j \in Nat /\ k \in Nat
    OBVIOUS
  <2>2. ~(j < k)
    BY <1>2, <1>3, <2>1, Zenon
  <2>. QED
    BY <2>1, <2>2
<1>. QED
  BY <1>3, <1>4 DEF least

(* What the choice of the method says of the packet.                       *)
LEMMA MethodFacts ==
  ASSUME NEW p \in Packets
  PROVE  /\ p.client \in Client /\ p.client # Declined
         /\ method(p) \in {"discover", "inform"} => p.type # "Request"
         /\ method(p) \in {"selecting", "init_reboot", "renewing", "rebinding"}
              => p.type = "Request"
<1>1. p \in DhcpPacket /\ Declined \notin Client
  BY NetboxAssumption
<1>2. p.client \in Client
  BY <1>1 DEF DhcpPacket
<1>3. method(p) \in {"discover", "inform"} => p.type # "Request"
  BY DEF method
<1>4. method(p) \in {"selecting", "init_reboot", "renewing", "rebinding"}
        => p.type = "Request"
  BY DEF method
<1>. QED
  BY <1>1, <1>2, <1>3, <1>4
(* What the invariant says of a copy.                                      *)
LEMMA CopyFacts ==
  ASSUME IInv, NEW t \in Tasks, NEW k \in DOMAIN items[t]
  PROVE  /\ items[t][k] \in Lease /\ items[t][k].id \in Ids
         /\ Copied(items[t][k]) /\ items[t][k].client = pkt[t].client
         /\ pkt[t] \in Packets /\ items[t][k].client # Declined
         /\ pc[t] # "idle"
<1>1. items[t] \in Seq(Lease) /\ Local(t)
  BY DEF IInv, TypeOK, TasksLocal
<1>2. items[t][k] \in Lease
  BY <1>1
<1>3. pc[t] # "idle"
  <2>1. \A j \in DOMAIN <<>> : FALSE
    OBVIOUS
  <2>. QED
    BY <1>1, <2>1 DEF Local
<1>4. items[t][k].id \in Ids
  BY <1>2 DEF Lease
<1>5. pkt[t] \in Packets /\ Copied(items[t][k]) /\ items[t][k].client = pkt[t].client
  BY <1>1, <1>3 DEF Local
<1>. QED
  BY <1>2, <1>3, <1>4, <1>5, MethodFacts

LEMMA FirstCopy ==
  ASSUME IInv, NEW t \in Tasks, acknowledge(t)
  PROVE  1 \in DOMAIN items[t] /\ pc[t] = "acknowledge" /\ pc'[t] # pc[t]
<1>1. items[t] \in Seq(Lease) /\ items[t] # <<>>
  BY DEF acknowledge, IInv, TypeOK
<1>2. pc[t] = "acknowledge" /\ pc'[t] # pc[t]
  BY DEF acknowledge, Proceed, IInv, TypeOK
<1>. QED
  BY <1>1, <1>2
-----------------------------------------------------------------------------
(* A step of task t changes what only t can change.                        *)
Only(t) ==
  /\ \A u \in Tasks \ {t} :
       /\ pc'[u] = pc[u] /\ items'[u] = items[u]
       /\ pkt'[u] = pkt[u] /\ origin'[u] = origin[u]

(* What t has to establish for itself.                                     *)
OwnPart(t) ==
  /\ pc \in [Tasks -> Step]
  /\ pkt \in [Tasks -> Packets \cup {NoPacket}]
  /\ origin \in [Tasks -> Addr]
  /\ items \in [Tasks -> Seq(Lease)]
  /\ pc[t] \in {"acknowledge", "granted"} => items[t] # <<>>
  /\ pc[t] \in {"delete", "decline"} => Doomed(items[t], pkt[t]) # {}
  /\ Local(t)
  /\ t \notin overtaken => Undisturbed(t)

(* No copy comes from nowhere: it is of a lease its task had a copy of, or *)
(* as NetBox has it.                                                       *)
From(u, l) ==
  \/ \E j \in DOMAIN items[u] : l.id = items[u][j].id /\ l.client = items[u][j].client
  \/ leases'[l.id] # NoLease /\ leases'[l.id].client = l.client

Traced == \A u \in Tasks : \A k \in DOMAIN items'[u] : From(u, items'[u][k])

LEMMA TracedByOne ==
  ASSUME NEW t \in Tasks,
         \A u \in Tasks \ {t} : items'[u] = items[u],
         \A k \in DOMAIN items'[t] : From(t, items'[t][k])
  PROVE  Traced
<1>. SUFFICES ASSUME NEW u \in Tasks, NEW k \in DOMAIN items'[u]
              PROVE  From(u, items'[u][k])
  BY DEF Traced
<1>1. CASE u = t
  BY <1>1
<1>2. CASE u # t
  <2>1. items'[u] = items[u]
    BY <1>2
  <2>. QED
    BY <2>1 DEF From
<1>. QED
  BY <1>1, <1>2

(* A step that leaves NetBox alone disturbs nobody else.                   *)
LEMMA LocalStep ==
  ASSUME IInv, NEW t \in Tasks, Only(t), OwnPart(t)',
         UNCHANGED <<leases, issued>>,
         overtaken' \subseteq overtaken, overtaken \ {t} \subseteq overtaken'
  PROVE  IInv'
<1>1. /\ TypeOK'
  BY DEF IInv, TypeOK, OwnPart, Only
<1>2. AddressLeasedOnce' /\ Filed'
  BY DEF IInv, AddressLeasedOnce, Filed, Present
<1>3. TasksLocal'
  <2>. SUFFICES ASSUME NEW u \in Tasks \ {t} PROVE Local(u)'
    BY DEF TasksLocal, OwnPart
  <2>. QED
    BY DEF IInv, TasksLocal, Local, Only, Copied, Present
<1>4. Held'
  <2>. SUFFICES ASSUME NEW u \in Tasks \ {t}, u \notin overtaken'
                PROVE  Undisturbed(u)'
    BY DEF Held, OwnPart
  <2>. QED
    BY DEF IInv, Held, Undisturbed, Only, Current, Present
<1>. QED
  BY <1>1, <1>2, <1>3, <1>4 DEF IInv

(* FirstOf yields a copy of the list, or nothing.                          *)
LEMMA FirstOfFacts ==
  ASSUME TypeOK, NEW t \in Tasks, NEW K \in SUBSET DOMAIN items[t]
  PROVE  LET s == FirstOf(t, K)
         IN  /\ s \in Seq(Lease)
             /\ \A k \in DOMAIN s : \E j \in DOMAIN items[t] : s[k] = items[t][j]
             /\ K # {} => s # <<>> /\ \E k \in K : s[1] = items[t][k]
<1>1. items[t] \in Seq(Lease) /\ K \subseteq Nat
  BY DEF TypeOK
<1>2. CASE K = {}
  BY <1>2 DEF FirstOf
<1>3. CASE K # {}
  <2>. DEFINE k == least(K)
  <2>1. k \in K /\ FirstOf(t, K) = <<items[t][k]>>
    BY <1>1, <1>3, LeastIn DEF FirstOf
  <2>. HIDE DEF k
  <2>2. items[t][k] \in Lease /\ k \in DOMAIN items[t]
    BY <1>1, <2>1
  <2>. DEFINE l == items[t][k]
  <2>. HIDE DEF l
  <2>3. /\ <<l>> \in Seq({l}) /\ <<l>> # <<>> /\ <<l>>[1] = l
        /\ \A j \in DOMAIN <<l>> : <<l>>[j] = l
    OBVIOUS
  <2>4. l \in Lease => <<l>> \in Seq(Lease)
    OBVIOUS
  <2>. QED
    BY <2>1, <2>2, <2>3, <2>4 DEF l
<1>. QED
  BY <1>2, <1>3

(* What follows the list: the task keeps some of its copies and goes on    *)
(* with a state that fits them.                                            *)
LEMMA ChoiceStep ==
  ASSUME IInv, NEW t \in Tasks, NEW x \in Step \ {"idle", "granted"},
         NEW s \in Seq(Lease),
         pc[t] # "idle",
         pc' = [pc EXCEPT ![t] = x], items' = [items EXCEPT ![t] = s],
         UNCHANGED <<leases, issued, pkt, origin, overtaken>>,
         pc[t] \in {"list", "choose"} \/ s = <<>>,
         \A k \in DOMAIN s : \E j \in DOMAIN items[t] : s[k] = items[t][j],
         x = "post" => method(pkt[t]) \in {"discover", "inform"},
         x = "acknowledge" =>
           /\ s # <<>>
           /\ pkt[t].type = "Request" =>
                /\ asks_for(pkt[t], s[1])
                /\ same_subnet(s[1].address, compare_ip(pkt[t], origin[t])),
         x \in {"delete", "decline"} => Doomed(s, pkt[t]) # {},
         x = "delete" => method(pkt[t]) = "release",
         x = "decline" => method(pkt[t]) = "decline"
  PROVE  IInv' /\ Traced
<1>1. Only(t)
  BY DEF Only, IInv, TypeOK
<1>2. /\ pc' \in [Tasks -> Step] /\ items' \in [Tasks -> Seq(Lease)]
      /\ pkt' \in [Tasks -> Packets \cup {NoPacket}] /\ origin' \in [Tasks -> Addr]
      /\ pc'[t] = x /\ items'[t] = s /\ pkt'[t] = pkt[t] /\ origin'[t] = origin[t]
  BY DEF IInv, TypeOK
<1>3. /\ pc'[t] \in {"acknowledge", "granted"} => items'[t] # <<>>
      /\ pc'[t] \in {"delete", "decline"} => Doomed(items'[t], pkt'[t]) # {}
  BY <1>2
<1>4. Local(t)'
  BY <1>2 DEF IInv, TasksLocal, Local, Copied, Present
<1>5. t \notin overtaken' => Undisturbed(t)'
  BY <1>2 DEF IInv, Held, Undisturbed, Current, Present
<1>6. Traced
  BY <1>1, <1>2 DEF Traced, From, Only
<1>. QED
  BY <1>1, <1>2, <1>3, <1>4, <1>5, <1>6, LocalStep DEF OwnPart
-----------------------------------------------------------------------------
LEMMA CallStep ==
  ASSUME IInv, NEW t \in Tasks, NEW p \in Packets, NEW o \in Origins, Call(t, p, o)
  PROVE  IInv' /\ Traced
<1>1. Only(t)
  BY DEF Only, IInv, TypeOK, Call
<1>2. /\ pc' \in [Tasks -> Step] /\ items' \in [Tasks -> Seq(Lease)]
      /\ pkt' \in [Tasks -> Packets \cup {NoPacket}] /\ origin' \in [Tasks -> Addr]
      /\ pc'[t] \in {"failed", "list"} /\ items'[t] = <<>> /\ pkt'[t] = p
  BY NetboxAssumption DEF IInv, TypeOK, Call, Step, Request, Result, TasksLocal, Local
<1>3. Local(t)' /\ Undisturbed(t)'
  BY <1>2 DEF Local, Undisturbed
<1>4. Traced
  <2>1. \A k \in DOMAIN <<>> : FALSE
    OBVIOUS
  <2>. QED
    BY <1>1, <1>2, <2>1, TracedByOne DEF Only
<1>. QED
  BY <1>1, <1>2, <1>3, <1>4, LocalStep DEF OwnPart, Call

LEMMA ReturnStep ==
  ASSUME IInv, NEW t \in Tasks, Return(t)
  PROVE  IInv' /\ Traced
<1>1. Only(t)
  BY DEF Only, IInv, TypeOK, Return
<1>2. /\ pc' \in [Tasks -> Step] /\ items' \in [Tasks -> Seq(Lease)]
      /\ pkt' \in [Tasks -> Packets \cup {NoPacket}] /\ origin' \in [Tasks -> Addr]
      /\ pc'[t] = "idle" /\ items'[t] = <<>>
  BY NetboxAssumption, AddrAssumption DEF IInv, TypeOK, Return, Step, Unspecified
<1>3. Local(t)' /\ Undisturbed(t)'
  BY <1>2 DEF Local, Undisturbed
<1>4. Traced
  <2>1. \A k \in DOMAIN <<>> : FALSE
    OBVIOUS
  <2>. QED
    BY <1>1, <1>2, <2>1, TracedByOne DEF Only
<1>. QED
  BY <1>1, <1>2, <1>3, <1>4, LocalStep DEF OwnPart, Return

LEMMA GetPageStep ==
  ASSUME IInv, NEW t \in Tasks, get_page(t)
  PROVE  IInv' /\ Traced
<1>. DEFINE own == OwnIds(pkt[t].client)
            offset == Len(items[t])
            page == {i \in own : position(i, own) = offset}
            i0 == CHOOSE i \in page : TRUE
            s == IF page = {} THEN items[t] ELSE Append(items[t], leases[i0])
            x == IF offset + 1 < Cardinality(own) THEN "list" ELSE "choose"
<1>1. /\ pc[t] = "list" /\ pc' = [pc EXCEPT ![t] = x]
      /\ items' = [items EXCEPT ![t] = s]
      /\ UNCHANGED <<leases, issued, pkt, origin, overtaken>>
  BY DEF get_page, IInv, TypeOK
<1>. HIDE DEF x
<1>2. page # {} => /\ i0 \in Ids /\ Present(i0) /\ leases[i0].client = pkt[t].client
                   /\ leases[i0] \in Lease /\ leases[i0].id = i0 /\ i0 \in issued
  BY DEF OwnIds, IInv, TypeOK, Filed, Present
<1>3. x \in {"list", "choose"}
  BY DEF x
<1>. HIDE DEF i0, page
<1>4. /\ s \in Seq(Lease)
      /\ \A k \in DOMAIN s : \/ k \in DOMAIN items[t] /\ s[k] = items[t][k]
                             \/ page # {} /\ s[k] = leases[i0]
  BY <1>2 DEF IInv, TypeOK
<1>5. Only(t)
  BY <1>1 DEF Only, IInv, TypeOK
<1>6. /\ pc' \in [Tasks -> Step] /\ items' \in [Tasks -> Seq(Lease)]
      /\ pkt' \in [Tasks -> Packets \cup {NoPacket}] /\ origin' \in [Tasks -> Addr]
      /\ pc'[t] = x /\ items'[t] = s /\ pkt'[t] = pkt[t] /\ origin'[t] = origin[t]
  BY <1>1, <1>3, <1>4 DEF IInv, TypeOK, Step, Request
<1>. HIDE DEF s
<1>7. Local(t)'
  <2>1. pkt[t] \in Packets
    BY <1>1 DEF IInv, TasksLocal, Local
  <2>2. ASSUME NEW k \in DOMAIN s
        PROVE  Copied(s[k]) /\ s[k].client = pkt[t].client
    BY <1>2, <1>4 DEF IInv, TasksLocal, Local, Copied, Present
  <2>3. ASSUME NEW k \in DOMAIN items'[t]
        PROVE  Copied(items[t][k])' /\ items'[t][k].client = pkt'[t].client
    BY <1>1, <1>6, <2>2 DEF Copied, Present
  <2>. QED
    BY <1>3, <1>6, <2>1, <2>3 DEF Local
<1>8. t \notin overtaken' => Undisturbed(t)'
  BY <1>1, <1>2, <1>3, <1>4, <1>6 DEF IInv, Held, Undisturbed, Current, Present
<1>9. Traced
  <2>1. ASSUME NEW k \in DOMAIN items'[t] PROVE From(t, items'[t][k])
    BY <1>1, <1>2, <1>4, <1>6 DEF From, Present
  <2>. QED
    BY <1>5, <2>1, TracedByOne DEF Only
<1>. QED
  BY <1>1, <1>3, <1>5, <1>6, <1>7, <1>8, <1>9, LocalStep DEF OwnPart

(* The disjuncts of Work that send nothing, and a request that fails.      *)
LEMMA GetLeaseStep ==
  ASSUME IInv, NEW t \in Tasks, get_lease(t)
  PROVE  IInv' /\ Traced
<1>. DEFINE local == OnSubnetOf(t, origin[t])
            s == FirstOf(t, local)
            x == IF local = {} THEN "post" ELSE "acknowledge"
<1>1. /\ pc[t] = "choose" /\ method(pkt[t]) \in {"discover", "inform"}
      /\ pc' = [pc EXCEPT ![t] = x] /\ items' = [items EXCEPT ![t] = s]
      /\ UNCHANGED <<leases, issued, pkt, origin, overtaken>>
  BY DEF get_lease, Choose
<1>2. local \in SUBSET DOMAIN items[t] /\ items[t] \in Seq(Lease) /\ TypeOK
  BY DEF OnSubnetOf, IInv, TypeOK
<1>3. pkt[t] \in Packets
  BY <1>1 DEF IInv, TasksLocal, Local
<1>4. pkt[t].type # "Request"
  BY <1>1, <1>3, MethodFacts
<1>. HIDE DEF local
<1>6. /\ s \in Seq(Lease)
      /\ \A k \in DOMAIN s : \E j \in DOMAIN items[t] : s[k] = items[t][j]
      /\ local # {} => s # <<>>
  BY <1>2, FirstOfFacts
<1>. HIDE DEF s
<1>7. x \in Step \ {"idle", "granted", "delete", "decline"} /\ (x = "acknowledge" => local # {})
  BY DEF Step, Request
<1>. HIDE DEF x
<1>. QED
  BY <1>1, <1>4, <1>6, <1>7, ChoiceStep

LEMMA RenewLeaseStep ==
  ASSUME IInv, NEW t \in Tasks, renew_lease(t)
  PROVE  IInv' /\ Traced
<1>. DEFINE local == OnSubnetOf(t, compare_ip(pkt[t], origin[t]))
            asked == {k \in local : asks_for(pkt[t], items[t][k])}
            s == FirstOf(t, asked)
            x == IF local = {} THEN "refused"
                 ELSE IF asked = {} THEN "mismatch" ELSE "acknowledge"
<1>1. /\ pc[t] = "choose"
      /\ pc' = [pc EXCEPT ![t] = x] /\ items' = [items EXCEPT ![t] = s]
      /\ UNCHANGED <<leases, issued, pkt, origin, overtaken>>
  BY DEF renew_lease, Choose
<1>2. asked \in SUBSET DOMAIN items[t] /\ items[t] \in Seq(Lease) /\ TypeOK
  BY DEF OnSubnetOf, IInv, TypeOK
<1>3. \A k \in asked :
         /\ asks_for(pkt[t], items[t][k])
         /\ same_subnet(items[t][k].address, compare_ip(pkt[t], origin[t]))
  BY DEF OnSubnetOf
<1>4. x \in {"refused", "mismatch", "acknowledge"} /\ (x = "acknowledge" => asked # {})
  OBVIOUS
<1>. HIDE DEF x, asked
<1>6. /\ s \in Seq(Lease)
      /\ \A k \in DOMAIN s : \E j \in DOMAIN items[t] : s[k] = items[t][j]
      /\ asked # {} => s # <<>> /\ \E k \in asked : s[1] = items[t][k]
  BY <1>2, FirstOfFacts
<1>. HIDE DEF s
<1>7. x = "acknowledge" =>
        /\ s # <<>>
        /\ asks_for(pkt[t], s[1])
        /\ same_subnet(s[1].address, compare_ip(pkt[t], origin[t]))
  BY <1>3, <1>4, <1>6
<1>8. x \in Step \ {"idle", "granted"} /\ x \notin {"post", "delete", "decline"}
  BY <1>4 DEF Step, Request, Result
<1>. QED
  BY <1>1, <1>6, <1>7, <1>8, ChoiceStep

LEMMA GiveUpStep ==
  ASSUME IInv, NEW t \in Tasks, delete_lease(t) \/ decline_lease(t)
  PROVE  IInv' /\ Traced
<1>1. PICK x \in {"finished", "delete", "decline"} :
        /\ x = "delete" => method(pkt[t]) = "release"
        /\ x = "decline" => method(pkt[t]) = "decline"
        /\ x # "finished" => Doomed(items[t], pkt[t]) # {}
        /\ pc[t] = "choose" /\ pc' = [pc EXCEPT ![t] = x]
        /\ items' = [items EXCEPT ![t] = items[t]]
        /\ UNCHANGED <<leases, issued, pkt, origin, overtaken>>
  <2>1. CASE Doomed(items[t], pkt[t]) = {}
    BY <2>1 DEF delete_lease, decline_lease, Choose
  <2>2. CASE Doomed(items[t], pkt[t]) # {} /\ delete_lease(t)
    BY <2>2 DEF delete_lease, Choose
  <2>3. CASE Doomed(items[t], pkt[t]) # {} /\ decline_lease(t)
    BY <2>3 DEF decline_lease, Choose
  <2>. QED
    BY <2>1, <2>2, <2>3
<1>2. items[t] \in Seq(Lease)
  BY DEF IInv, TypeOK
<1>3. x \in Step \ {"idle", "granted"} /\ x \notin {"post", "acknowledge"}
  BY <1>1 DEF Step, Request, Result
<1>. QED
  BY <1>1, <1>2, <1>3, ChoiceStep

LEMMA RequestFailsStep ==
  ASSUME IInv, NEW t \in Tasks, RequestFails(t)
  PROVE  IInv' /\ Traced
<1>1. /\ pc[t] # "idle" /\ pc' = [pc EXCEPT ![t] = "failed"]
      /\ items' = [items EXCEPT ![t] = <<>>]
      /\ UNCHANGED <<leases, issued, pkt, origin, overtaken>>
  BY DEF RequestFails, Request
<1>2. /\ "failed" \in Step \ {"idle", "granted"} /\ <<>> \in Seq(Lease)
      /\ \A k \in DOMAIN <<>> : FALSE
  BY DEF Step, Result
<1>. QED
  BY <1>1, <1>2, ChoiceStep
-----------------------------------------------------------------------------
(* NetBox's table changes in two ways only.                                *)
Replaces(i, new) ==
  /\ Present(i) /\ leases' = [leases EXCEPT ![i] = new] /\ UNCHANGED issued
  /\ new # NoLease =>
       /\ new \in Lease /\ new.id = i /\ new.address = leases[i].address
       /\ new.client = leases[i].client /\ new.client # Declined
            /\ leases[i].acknowledged => new.acknowledged

Creates(i, new) ==
  /\ i \notin issued /\ issued' = issued \cup {i}
  /\ leases' = [leases EXCEPT ![i] = new]
  /\ new \in Lease /\ new.id = i /\ new.client # Declined
  /\ \A j \in Ids : Present(j) => leases[j].address # new.address

(* A change of the table disturbs nobody but those it overtakes.           *)
LEMMA TableStep ==
  ASSUME IInv, NEW A \in SUBSET Tasks, NEW i \in Ids,
         NEW new \in Lease \cup {NoLease},
         Replaces(i, new) \/ Creates(i, new),
         Overtake(A, i),
         pc' \in [Tasks -> Step], items' \in [Tasks -> Seq(Lease)],
         pkt' = pkt, origin' = origin,
         \A u \in Tasks \ A : pc'[u] = pc[u] /\ items'[u] = items[u],
         \A u \in A : OwnPart(u)'
  PROVE  IInv'
<1>1. /\ leases' \in [Ids -> Lease \cup {NoLease}]
      /\ leases'[i] = new /\ \A j \in Ids \ {i} : leases'[j] = leases[j]
      /\ issued' \in SUBSET Ids /\ issued \subseteq issued'
      /\ overtaken \subseteq overtaken' /\ overtaken' \subseteq Tasks
  BY DEF IInv, TypeOK, Replaces, Creates, Overtake
<1>2. TypeOK'
  BY <1>1 DEF IInv, TypeOK, OwnPart
<1>3. Filed'
  BY <1>1 DEF IInv, Filed, Replaces, Creates, Present
<1>4. AddressLeasedOnce'
  BY <1>1 DEF IInv, AddressLeasedOnce, Replaces, Creates, Present
<1>5. \A l \in Lease : Copied(l) => Copied(l)'
  BY <1>1 DEF Replaces, Creates, Copied, Present
<1>6. TasksLocal'
  <2>. SUFFICES ASSUME NEW u \in Tasks \ A PROVE Local(u)'
    BY DEF TasksLocal, OwnPart
  <2>1. items[u] \in Seq(Lease) /\ Local(u)
    BY DEF IInv, TypeOK, TasksLocal
  <2>2. ASSUME NEW k \in DOMAIN items[u]
        PROVE  Copied(items[u][k])'
    <3>1. items[u][k] \in Lease /\ Copied(items[u][k])
      BY <2>1 DEF Local
    <3>2. items'[u][k] = items[u][k]
      OBVIOUS
    <3>. QED
      BY <1>5, <3>1, <3>2 DEF Copied, Present
  <2>. QED
    BY <2>1, <2>2 DEF Local, Copied, Present
<1>7. Held'
  <2>. SUFFICES ASSUME NEW u \in Tasks \ A, u \notin overtaken'
                PROVE  Undisturbed(u)'
    BY DEF Held, OwnPart
  <2>1. items[u] \in Seq(Lease) /\ Local(u) /\ Undisturbed(u)
    BY <1>1 DEF IInv, TypeOK, TasksLocal, Held
  <2>2. \/ pc[u] = "idle" \/ holder(leases', i) = holder(leases, i)
        \/ pkt[u].client \notin holder(leases, i)
    BY DEF Overtake
  <2>3. ASSUME NEW k \in DOMAIN items[u], Current(items[u][k])
        PROVE  /\ Current(items[u][k])'
               /\ leases[items[u][k].id].acknowledged
                    => leases'[items[u][k].id].acknowledged
    <3>. DEFINE l == items[u][k]
    <3>1. /\ pc[u] # "idle" /\ l \in Lease /\ Copied(l) /\ l.client = pkt[u].client
          /\ l.client # Declined
      BY <2>1, MethodFacts DEF Local
    <3>2. CASE l.id = i
      <4>1. Replaces(i, new) /\ holder(leases, i) = {l.client}
        BY <2>3, <3>1, <3>2 DEF Copied, Current, Creates, holder, Present
      <4>2. new # NoLease /\ new.client = l.client
        BY <1>1, <2>2, <3>1, <4>1 DEF holder
      <4>. QED
        BY <1>1, <2>3, <3>1, <3>2, <4>1, <4>2 DEF Replaces, Current, Present
    <3>3. CASE l.id # i
      BY <1>1, <2>3, <3>1, <3>3 DEF Current, Present, Lease
    <3>. QED
      BY <3>2, <3>3
  <2>4. pc[u] = "granted" => 1 \in DOMAIN items[u]
    BY <2>1 DEF IInv, TypeOK
  <2>. QED
    BY <2>1, <2>3, <2>4 DEF Undisturbed, Current, Present
<1>. QED
  BY <1>2, <1>3, <1>4, <1>6, <1>7 DEF IInv

-----------------------------------------------------------------------------
LEMMA OneOrNone ==
  ASSUME NEW l \in Lease, NEW s \in {<<l>>, <<>>}
  PROVE  /\ s \in Seq(Lease)
         /\ \A k \in DOMAIN s : k = 1 /\ s[k] = l
         /\ s = <<l>> => s # <<>> /\ s[1] = l
<1>1. CASE s = <<>>
  BY <1>1
<1>2. CASE s = <<l>>
  <2>1. <<l>> \in Seq(Lease) /\ <<l>> # <<>> /\ <<l>>[1] = l /\ DOMAIN <<l>> = {1}
    OBVIOUS
  <2>. QED
    BY <1>2, <2>1
<1>. QED
  BY <1>1, <1>2

(* The steps that change a lease: what becomes of it, and the invariant.   *)
LEMMA AcknowledgeStep ==
  ASSUME IInv, NEW t \in Tasks, acknowledge(t)
  PROVE  /\ IInv' /\ Traced
         /\ \E new \in Lease : Replaces(items[t][1].id, new)
                             /\ new.client = items[t][1].client
         /\ Overtake({t}, items[t][1].id)
<1>. DEFINE l == items[t][1]
            i == l.id
            new == [update_from_packet(l, pkt[t]) EXCEPT !.acknowledged = TRUE]
<1>1. /\ items[t] \in Seq(Lease) /\ items[t] # <<>> /\ 1 \in DOMAIN items[t]
      /\ Head(items[t]) = l /\ l \in Lease /\ pkt[t] \in Packets
      /\ pc[t] = "acknowledge"
  BY DEF acknowledge, IInv, TypeOK, TasksLocal, Local
<1>2. Copied(l) /\ l.client = pkt[t].client /\ l.client # Declined
  BY <1>1, MethodFacts DEF IInv, TasksLocal, Local
<1>3. /\ new \in Lease /\ new.id = i /\ new.address = l.address /\ new.acknowledged
      /\ new.client = l.client /\ i \in Ids
  BY <1>1, <1>2, NetboxAssumption DEF update_from_packet, Lease
<1>4. /\ Present(i) /\ leases' = [leases EXCEPT ![i] = new]
      /\ Overtake({t}, i) /\ UNCHANGED <<issued, pkt, origin>>
  BY <1>1 DEF acknowledge, Replace
<1>5. PICK x \in {"granted", "failed"}, s \in {<<new>>, <<>>} :
         /\ pc' = [pc EXCEPT ![t] = x] /\ items' = [items EXCEPT ![t] = s]
         /\ x = "granted" => s = <<new>>
  BY <1>1, Zenon DEF acknowledge, Proceed
<1>. HIDE DEF new, l
<1>6. Replaces(i, new)
  BY <1>2, <1>3, <1>4 DEF Replaces, Copied
<1>7. /\ s \in Seq(Lease) /\ x \in Step /\ x \in {"granted", "failed"}
      /\ \A k \in DOMAIN s : k = 1 /\ s[k] = new
      /\ x = "granted" => s # <<>> /\ s[1] = new
  BY <1>3, <1>5, OneOrNone DEF Step, Result
<1>8. /\ pc' \in [Tasks -> Step] /\ items' \in [Tasks -> Seq(Lease)]
      /\ pkt' \in [Tasks -> Packets \cup {NoPacket}] /\ origin' \in [Tasks -> Addr]
      /\ pc'[t] = x /\ items'[t] = s /\ pkt'[t] = pkt[t] /\ origin'[t] = origin[t]
      /\ \A u \in Tasks \ {t} : pc'[u] = pc[u] /\ items'[u] = items[u]
      /\ leases'[i] = new /\ new # NoLease
  BY <1>3, <1>4, <1>5, <1>7, NetboxAssumption DEF IInv, TypeOK
<1>9. pkt[t].type = "Request" =>
        /\ asks_for(pkt[t], new)
        /\ same_subnet(new.address, compare_ip(pkt[t], origin[t]))
  BY <1>1, <1>3 DEF IInv, TasksLocal, Local, asks_for, l
<1>10. Local(t)'
  <2>1. ASSUME NEW k \in DOMAIN items'[t]
        PROVE  Copied(items[t][k])' /\ items'[t][k].client = pkt'[t].client
    BY <1>2, <1>3, <1>4, <1>7, <1>8 DEF Copied, Present
  <2>. QED
    BY <1>1, <1>7, <1>8, <1>9, <2>1 DEF Local
<1>11. Undisturbed(t)'
  BY <1>3, <1>7, <1>8 DEF Undisturbed, Current, Present
<1>12. OwnPart(t)'
  BY <1>7, <1>8, <1>10, <1>11 DEF OwnPart
<1>13. IInv'
  BY <1>3, <1>4, <1>6, <1>8, <1>12, TableStep
<1>14. Traced
  <2>1. ASSUME NEW k \in DOMAIN items'[t] PROVE From(t, items'[t][k])
    BY <1>3, <1>7, <1>8 DEF From
  <2>. QED
    BY <1>8, <2>1, TracedByOne
<1>. QED
  BY <1>3, <1>4, <1>6, <1>13, <1>14 DEF l

LEMMA PostStep ==
  ASSUME IInv, NEW t \in Tasks, post(t)
  PROVE  /\ IInv' /\ Traced
         /\ \E i \in Ids, new \in Lease : Creates(i, new) /\ Overtake({t}, i)
<1>1. PICK i \in Ids \ issued, a \in Pool :
        LET new == [id |-> i, client |-> pkt[t].client, address |-> a,
                    acknowledged |-> FALSE]
        IN  /\ \A j \in Ids : Present(j) => leases[j].address # a
            /\ leases' = [leases EXCEPT ![i] = new]
            /\ Proceed(t, "granted", <<new>>)
            /\ issued' = issued \cup {i}
            /\ Overtake({t}, i)
            /\ UNCHANGED <<pkt, origin>>
  BY Zenon DEF post
<1>. DEFINE new == [id |-> i, client |-> pkt[t].client, address |-> a,
                    acknowledged |-> FALSE]
<1>2. pkt[t] \in Packets /\ pkt[t].type # "Request"
  BY MethodFacts DEF post, IInv, TasksLocal, Local
<1>3. /\ new \in Lease /\ new.id = i /\ new.address = a /\ new.client = pkt[t].client
      /\ new.client # Declined
  BY <1>2, MethodFacts DEF Lease
<1>5. PICK x \in {"granted", "failed"}, s \in {<<new>>, <<>>} :
         /\ pc' = [pc EXCEPT ![t] = x] /\ items' = [items EXCEPT ![t] = s]
         /\ x = "granted" => s = <<new>>
  BY <1>1, Zenon DEF Proceed
<1>. HIDE DEF new
<1>6. Creates(i, new)
  BY <1>1, <1>3 DEF Creates, new
<1>7. /\ s \in Seq(Lease) /\ x \in Step /\ x \in {"granted", "failed"}
      /\ \A k \in DOMAIN s : k = 1 /\ s[k] = new
      /\ x = "granted" => s # <<>> /\ s[1] = new
  BY <1>3, <1>5, OneOrNone DEF Step, Result
<1>8. /\ pc' \in [Tasks -> Step] /\ items' \in [Tasks -> Seq(Lease)]
      /\ pkt' \in [Tasks -> Packets \cup {NoPacket}] /\ origin' \in [Tasks -> Addr]
      /\ pc'[t] = x /\ items'[t] = s /\ pkt'[t] = pkt[t] /\ origin'[t] = origin[t]
      /\ \A u \in Tasks \ {t} : pc'[u] = pc[u] /\ items'[u] = items[u]
      /\ leases'[i] = new /\ new # NoLease /\ i \in issued'
  BY <1>1, <1>3, <1>5, <1>7, NetboxAssumption DEF IInv, TypeOK, Creates, new
<1>10. Local(t)'
  <2>1. ASSUME NEW k \in DOMAIN items'[t]
        PROVE  Copied(items[t][k])' /\ items'[t][k].client = pkt'[t].client
    BY <1>3, <1>7, <1>8 DEF Copied, Present
  <2>. QED
    BY <1>2, <1>7, <1>8, <2>1 DEF Local
<1>11. Undisturbed(t)'
  BY <1>2, <1>3, <1>7, <1>8 DEF Undisturbed, Current, Present
<1>12. OwnPart(t)'
  BY <1>7, <1>8, <1>10, <1>11 DEF OwnPart
<1>9. /\ Overtake({t}, i) /\ pkt' = pkt /\ origin' = origin
      /\ i \in Ids /\ {t} \in SUBSET Tasks /\ new \in Lease \cup {NoLease}
      /\ pc' \in [Tasks -> Step] /\ items' \in [Tasks -> Seq(Lease)]
      /\ \A u \in Tasks \ {t} : pc'[u] = pc[u] /\ items'[u] = items[u]
      /\ \A u \in {t} : OwnPart(u)'
  BY <1>1, <1>3, <1>8, <1>12
<1>13. IInv'
  BY <1>6, <1>9, TableStep
<1>14. Traced
  <2>1. ASSUME NEW k \in DOMAIN items'[t] PROVE From(t, items'[t][k])
    BY <1>3, <1>7, <1>8 DEF From
  <2>. QED
    BY <1>8, <2>1, TracedByOne
<1>. QED
  BY <1>3, <1>6, <1>9, <1>13, <1>14

(* The loops of a RELEASE and a DECLINE.                                   *)
LEMMA RemoveStep ==
  ASSUME IInv, NEW t \in Tasks, delete(t) \/ decline(t)
  PROVE  /\ IInv' /\ Traced
         /\ \E k \in Doomed(items[t], pkt[t]), new \in Lease \cup {NoLease} :
              /\ Replaces(items[t][k].id, new)
              /\ new = NoLease \/ new.client = Declined
              /\ pc[t] = "delete" <=> new = NoLease
              /\ Overtake({t}, items[t][k].id)
         /\ <<pc[t], items[t]>>' # <<pc[t], items[t]>>
<1>. DEFINE K == Doomed(items[t], pkt[t])
            k == least(K)
            l == items[t][k]
            rest == SubSeq(items[t], k + 1, Len(items[t]))
            new == IF pc[t] = "delete" THEN NoLease ELSE [l EXCEPT !.client = Declined]
            good == IF Doomed(rest, pkt[t]) = {} THEN "finished" ELSE pc[t]
<1>1. /\ items[t] \in Seq(Lease) /\ K # {} /\ K \subseteq DOMAIN items[t]
      /\ pc[t] \in {"delete", "decline"}
  BY DEF IInv, TypeOK, delete, decline, Doomed
<1>2. k \in K /\ k \in 1 .. Len(items[t])
  BY <1>1, LeastIn
<1>3. /\ Replace(t, l, new)
      /\ \/ pc' = [pc EXCEPT ![t] = good] /\ items' = [items EXCEPT ![t] = rest]
         \/ pc' = [pc EXCEPT ![t] = "failed"] /\ items' = [items EXCEPT ![t] = <<>>]
  BY <1>1 DEF delete, decline, ProceedWithRest, Proceed
<1>. HIDE DEF k
<1>4. /\ l \in Lease /\ Copied(l) /\ l.client = pkt[t].client /\ l.id \in Ids
      /\ pkt[t] \in Packets
  <2>1. l \in Lease /\ k \in DOMAIN items[t]
    BY <1>1, <1>2
  <2>2. Copied(l) /\ l.client = pkt[t].client /\ pkt[t] \in Packets
    BY <1>1, <2>1 DEF IInv, TasksLocal, Local
  <2>. QED
    BY <2>1, <2>2 DEF Lease
<1>5. /\ rest \in Seq(Lease)
      /\ \A j \in DOMAIN rest : rest[j] = items[t][k + j] /\ k + j \in DOMAIN items[t]
      /\ Len(rest) < Len(items[t])
  BY <1>1, <1>2, SubSeqProperties
<1>. HIDE DEF rest, l, K
<1>6. /\ Present(l.id) /\ leases' = [leases EXCEPT ![l.id] = new]
      /\ Overtake({t}, l.id) /\ UNCHANGED <<issued, pkt, origin>>
  BY <1>3 DEF Replace
<1>7. /\ new \in Lease \cup {NoLease} /\ (new = NoLease \/ new.client = Declined)
      /\ (pc[t] = "delete" <=> new = NoLease)
      /\ new # NoLease => new \in Lease /\ new.id = l.id /\ new.address = l.address
  BY <1>4, NetboxAssumption DEF Lease
<1>. HIDE DEF new
<1>8. Replaces(l.id, new)
  BY <1>4, <1>6, <1>7 DEF Replaces, Copied
<1>9. PICK x \in {good, "failed"}, s \in {rest, <<>>} :
        /\ pc' = [pc EXCEPT ![t] = x] /\ items' = [items EXCEPT ![t] = s]
        /\ \/ x = good /\ s = rest
           \/ x = "failed" /\ s = <<>>
  BY <1>3
<1>10. /\ x \in Step /\ x \in {"finished", "failed", "delete", "decline"}
       /\ x \in {"delete", "decline"} => Doomed(s, pkt[t]) # {}
       /\ s \in Seq(Lease) /\ (x = pc[t] => s # items[t])
       /\ x = "delete" => method(pkt[t]) = "release"
       /\ x = "decline" => method(pkt[t]) = "decline"
       /\ \A j \in DOMAIN s : \E m \in DOMAIN items[t] : s[j] = items[t][m]
  <2>1. CASE x = "failed" /\ s = <<>>
    BY <1>1, <2>1 DEF Step, Result
  <2>2. CASE x = good /\ s = rest
    BY <1>1, <1>2, <1>5, <2>2 DEF Step, Result, Request, IInv, TasksLocal, Local
  <2>. QED
    BY <1>9, <2>1, <2>2
<1>11. /\ pc' \in [Tasks -> Step] /\ items' \in [Tasks -> Seq(Lease)]
       /\ pkt' \in [Tasks -> Packets \cup {NoPacket}] /\ origin' \in [Tasks -> Addr]
       /\ pc'[t] = x /\ items'[t] = s /\ pkt'[t] = pkt[t] /\ origin'[t] = origin[t]
       /\ \A u \in Tasks \ {t} : pc'[u] = pc[u] /\ items'[u] = items[u]
  BY <1>6, <1>9, <1>10 DEF IInv, TypeOK
<1>12. Local(t)'
  <2>1. ASSUME NEW j \in DOMAIN items'[t]
        PROVE  Copied(items[t][j])' /\ items'[t][j].client = pkt'[t].client
    <3>1. PICK m \in DOMAIN items[t] : s[j] = items[t][m]
      BY <1>10, <1>11
    <3>2. Copied(s[j]) /\ s[j].client = pkt[t].client /\ s[j] \in Lease
      BY <1>1, <3>1 DEF IInv, TasksLocal, Local
    <3>3. items'[t][j] = s[j]
      BY <1>11
    <3>4. leases'[s[j].id] = IF s[j].id = l.id THEN new ELSE leases[s[j].id]
      BY <1>4, <1>6, <3>2 DEF IInv, TypeOK, Lease
    <3>. QED
      BY <1>4, <1>6, <1>7, <1>11, <3>2, <3>3, <3>4 DEF Copied, Present
  <2>. QED
    BY <1>4, <1>10, <1>11, <2>1 DEF Local
<1>13. Undisturbed(t)'
  BY <1>10, <1>11 DEF Undisturbed
<1>14. OwnPart(t)'
  BY <1>10, <1>11, <1>12, <1>13 DEF OwnPart
<1>15. IInv'
  BY <1>4, <1>6, <1>7, <1>8, <1>11, <1>14, TableStep
<1>16. Traced
  <2>1. ASSUME NEW j \in DOMAIN items'[t] PROVE From(t, items'[t][j])
    BY <1>10, <1>11 DEF From
  <2>. QED
    BY <1>11, <2>1, TracedByOne
<1>. QED
  BY <1>2, <1>6, <1>7, <1>8, <1>10, <1>11, <1>15, <1>16 DEF l, K

LEMMA PurgeStep ==
  ASSUME IInv, NEW i \in Ids, Purge(i)
  PROVE  IInv' /\ Traced /\ Replaces(i, NoLease) /\ Overtake({}, i)
<1>1. /\ Replaces(i, NoLease) /\ Overtake({}, i)
      /\ pc' = pc /\ items' = items /\ pkt' = pkt /\ origin' = origin
  BY DEF Purge, Replaces
<1>2. IInv'
  <2>1. /\ {} \in SUBSET Tasks /\ NoLease \in Lease \cup {NoLease}
        /\ pc' \in [Tasks -> Step] /\ items' \in [Tasks -> Seq(Lease)]
        /\ \A u \in Tasks \ {} : pc'[u] = pc[u] /\ items'[u] = items[u]
        /\ \A u \in {} : OwnPart(u)'
    BY <1>1 DEF IInv, TypeOK
  <2>. QED
    BY <1>1, <2>1, TableStep
<1>3. Traced
  BY <1>1 DEF Traced, From
<1>. QED
  BY <1>1, <1>2, <1>3
-----------------------------------------------------------------------------
(* Every step keeps the invariant, and a step that changes the table is    *)
(* one of the five that do.                                                *)
LEMMA InvariantStep ==
  ASSUME IInv, [Next]_vars
  PROVE  /\ IInv' /\ Traced
         /\ \/ UNCHANGED <<leases, issued>>
            \/ \E i \in Ids, new \in Lease : Creates(i, new)
            \/ \E t \in Tasks, new \in Lease :
                 /\ acknowledge(t)
                 /\ Replaces(items[t][1].id, new) /\ new.client = items[t][1].client
            \/ \E t \in Tasks : \E k \in Doomed(items[t], pkt[t]) :
                 \E new \in Lease \cup {NoLease} :
                   /\ \/ delete(t) /\ new = NoLease
                      \/ decline(t) /\ new # NoLease
                   /\ new = NoLease \/ new.client = Declined
                   /\ Replaces(items[t][k].id, new)
                   /\ <<pc[t], items[t]>>' # <<pc[t], items[t]>>
            \/ \E i \in Ids : Replaces(i, NoLease) /\ UNCHANGED <<pc, items>>
<1>1. CASE UNCHANGED vars
  <2>1. IInv'
    BY <1>1 DEF vars, IInv, TypeOK, AddressLeasedOnce, Filed, TasksLocal, Local, Held,
                Undisturbed, Current, Copied, Present
  <2>. QED
    BY <1>1, <2>1 DEF vars, Traced, From
<1>2. ASSUME NEW t \in Tasks, NEW p \in Packets, NEW o \in Origins, Call(t, p, o)
      PROVE  IInv' /\ Traced /\ UNCHANGED <<leases, issued>>
  BY <1>2, CallStep DEF Call
<1>3. ASSUME NEW t \in Tasks, Return(t)
      PROVE  IInv' /\ Traced /\ UNCHANGED <<leases, issued>>
  BY <1>3, ReturnStep DEF Return
<1>4. ASSUME NEW t \in Tasks, get_page(t)
      PROVE  IInv' /\ Traced /\ UNCHANGED <<leases, issued>>
  BY <1>4, GetPageStep DEF get_page
<1>5. ASSUME NEW t \in Tasks,
             get_lease(t) \/ renew_lease(t) \/ delete_lease(t) \/ decline_lease(t)
      PROVE  IInv' /\ Traced /\ UNCHANGED <<leases, issued>>
  <2>1. UNCHANGED <<leases, issued>>
    BY <1>5 DEF get_lease, renew_lease, delete_lease, decline_lease, Choose
  <2>. QED
    BY <1>5, <2>1, GetLeaseStep, RenewLeaseStep, GiveUpStep
<1>6. ASSUME NEW t \in Tasks, RequestFails(t)
      PROVE  IInv' /\ Traced /\ UNCHANGED <<leases, issued>>
  BY <1>6, RequestFailsStep DEF RequestFails
<1>7. ASSUME NEW t \in Tasks, delete(t) \/ decline(t)
      PROVE  /\ IInv' /\ Traced
             /\ \E k \in Doomed(items[t], pkt[t]) :
                 \E new \in Lease \cup {NoLease} :
                   /\ \/ delete(t) /\ new = NoLease
                      \/ decline(t) /\ new # NoLease
                   /\ new = NoLease \/ new.client = Declined
                   /\ Replaces(items[t][k].id, new)
                   /\ <<pc[t], items[t]>>' # <<pc[t], items[t]>>
  <2>1. (delete(t) => pc[t] = "delete") /\ (decline(t) => pc[t] = "decline")
    BY DEF delete, decline
  <2>. QED
    BY <1>7, <2>1, RemoveStep
<1>. QED
  BY <1>1, <1>2, <1>3, <1>4, <1>5, <1>6, <1>7, AcknowledgeStep, PostStep, PurgeStep
     DEF Next, Work, Purge

LEMMA InvariantStart == Init => IInv
<1>. SUFFICES ASSUME Init PROVE IInv
  OBVIOUS
<1>1. TypeOK
  BY AddrAssumption DEF Init, TypeOK, Step, Unspecified
<1>2. AddressLeasedOnce /\ Filed
  BY DEF Init, AddressLeasedOnce, Filed, Present
<1>3. TasksLocal /\ Held
  BY DEF Init, TasksLocal, Local, Held, Undisturbed
<1>. QED
  BY <1>1, <1>2, <1>3 DEF IInv

LEMMA Invariant == Spec => []IInv
<1>1. IInv /\ [Next]_vars => IInv'
  BY InvariantStep
<1>. QED
  BY <1>1, InvariantStart, PTL DEF Spec

(* Whatever tasks, clients and leases there are, the store's variables     *)
(* keep their types, and a request that needs a copy has one.              *)
THEOREM NetboxTypeCorrect == Spec => []TypeOK
<1>1. IInv => TypeOK
  BY DEF IInv
<1>. QED
  BY <1>1, Invariant, PTL

(* An address never has two leases, although every PUT writes a whole      *)
(* lease that was read some requests before.                               *)
THEOREM NetboxAddressLeasedOnce == Spec => []AddressLeasedOnce
<1>1. IInv => AddressLeasedOnce
  BY DEF IInv
<1>. QED
  BY <1>1, Invariant, PTL

(* What the invariant says of a task with a grant.                         *)
LEMMA GrantFacts == IInv => GrantIsRecorded
<1>. SUFFICES ASSUME IInv, NEW t \in Tasks, pc[t] = "granted", t \notin overtaken
              PROVE  LET p == pkt[t]
                         l == Head(items[t])
                     IN  /\ Present(l.id)
                         /\ leases[l.id].client = p.client
                         /\ leases[l.id].address = l.address
                         /\ p.type = "Request" =>
                              /\ Named(p) \subseteq {l.address}
                              /\ same_subnet(l.address, compare_ip(p, origin[t]))
                              /\ leases[l.id].acknowledged
  BY DEF GrantIsRecorded
<1>1. /\ items[t] \in Seq(Lease) /\ items[t] # <<>> /\ 1 \in DOMAIN items[t]
      /\ Head(items[t]) = items[t][1] /\ Local(t) /\ Undisturbed(t)
  BY DEF IInv, TypeOK, TasksLocal, Held
<1>2. /\ Copied(items[t][1]) /\ items[t][1].client = pkt[t].client
      /\ Current(items[t][1])
  BY <1>1 DEF Local, Undisturbed
<1>3. ASSUME pkt[t].type = "Request"
      PROVE  /\ Named(pkt[t]) \subseteq {items[t][1].address}
             /\ same_subnet(items[t][1].address, compare_ip(pkt[t], origin[t]))
             /\ leases[items[t][1].id].acknowledged
  <2>1. asks_for(pkt[t], items[t][1])
    BY <1>1, <1>3 DEF Local
  <2>2. Named(pkt[t]) \subseteq {items[t][1].address}
    BY <2>1 DEF asks_for, Named, has_requested
  <2>. QED
    BY <1>1, <1>3, <2>2 DEF Local, Undisturbed
<1>. QED
  BY <1>1, <1>2, <1>3 DEF Copied, Current

(* A method that nobody overtook returns a lease that NetBox has for its   *)
(* client, at the address and on the subnet that were asked for.           *)
THEOREM NetboxGrantIsRecorded == Spec => []GrantIsRecorded
<1>1. IInv => GrantIsRecorded
  BY GrantFacts
<1>. QED
  BY <1>1, Invariant, PTL

(* A PUT that brings a declined lease back is an overtaken task's.         *)
LEMMA DeclineUndoneStep ==
  ASSUME IInv, [Next]_vars, NEW i \in Ids,
         Present(i), leases[i].client = Declined,
         Present(i)', leases'[i].client # Declined
  PROVE  \E t \in overtaken : pc'[t] # pc[t]
<1>1. IInv' /\ i \in issued /\ leases'[i] # leases[i]
  BY InvariantStep DEF IInv, Filed, Present
<1>2. ~ \E j \in Ids, new \in Lease : Creates(j, new)
  BY <1>1 DEF Creates, IInv, TypeOK
<1>3. ASSUME NEW j \in Ids, NEW new \in Lease \cup {NoLease},
             new = NoLease \/ new.client = Declined
      PROVE  ~Replaces(j, new)
  BY <1>1, <1>3 DEF Replaces, Present, IInv, TypeOK
<1>4. \A t \in Tasks : \A k \in Doomed(items[t], pkt[t]) : items[t][k].id \in Ids
  BY CopyFacts DEF Doomed
<1>5. PICK t \in Tasks, new \in Lease :
        /\ acknowledge(t)
        /\ Replaces(items[t][1].id, new) /\ new.client = items[t][1].client
  BY <1>1, <1>2, <1>3, <1>4, InvariantStep
<1>6. 1 \in DOMAIN items[t] /\ pc[t] = "acknowledge" /\ pc'[t] # pc[t]
  BY <1>5, FirstCopy
<1>7. items[t][1].id \in Ids /\ items[t][1].client # Declined
  BY <1>6, CopyFacts
<1>8. items[t][1].id = i
  BY <1>1, <1>5, <1>7 DEF Replaces, Present, IInv, TypeOK
<1>9. t \in overtaken
  BY <1>6, <1>7, <1>8 DEF IInv, Held, Undisturbed, Current
<1>. QED
  BY <1>6, <1>9

(* A declined address comes back into use only by a task that held a copy  *)
(* of the lease from before it was declined.                               *)
THEOREM NetboxDeclineUndoneOnlyByOverlap == Spec => DeclineUndoneOnlyByOverlap
<1>1. IInv /\ [Next]_vars =>
        [\A i \in Ids :
           /\ Present(i) /\ leases[i].client = Declined
           /\ Present(i)' /\ leases'[i].client # Declined
           => \E t \in overtaken : pc'[t] # pc[t]]_vars
  BY DeclineUndoneStep
<1>. QED
  BY <1>1, Invariant, PTL DEF Spec, DeclineUndoneOnlyByOverlap
-----------------------------------------------------------------------------
(* What a task knows of its client's leases until somebody else changes    *)
(* them: the pages read so far hold those that come first, and what the    *)
(* method concludes from the list is true of the table.                    *)
HasCopy(t, i) == \E k \in DOMAIN items[t] : items[t][k].id = i

Seen(t) ==
  LET own == OwnIds(pkt[t].client) IN
  /\ pc[t] = "list" =>
       \A i \in own : position(i, own) < Len(items[t]) => HasCopy(t, i)
  /\ pc[t] = "choose" => \A i \in own : HasCopy(t, i)
  /\ pc[t] = "post" => OnSubnet(pkt[t].client, origin[t]) = {}
  /\ pc[t] = "refused" =>
       OnSubnet(pkt[t].client, compare_ip(pkt[t], origin[t])) = {}
  /\ pc[t] = "mismatch" =>
       /\ OnSubnet(pkt[t].client, compare_ip(pkt[t], origin[t])) # {}
       /\ \A i \in OnSubnet(pkt[t].client, compare_ip(pkt[t], origin[t])) :
            ~(Named(pkt[t]) \subseteq {leases[i].address})
  /\ pc[t] \in {"delete", "decline"} =>
       \A i \in own : leases[i].address \in given_up_addresses(pkt[t]) => HasCopy(t, i)
  /\ pc[t] = "finished" =>
       \A i \in own : leases[i].address \notin given_up_addresses(pkt[t])

Seeing == \A t \in Tasks : t \notin overtaken => Seen(t)
LEMMA OwnFinite ==
  ASSUME NEW S \in SUBSET Ids
  PROVE  IsFiniteSet(S) /\ Cardinality(S) \in Nat
<1>1. IsFiniteSet(Ids)
  BY NetboxAssumption, FS_Interval DEF Ids
<1>. QED
  BY <1>1, FS_Subset, FS_CardinalityType

LEMMA Positions ==
  ASSUME NEW S \in SUBSET Ids, NEW i \in S
  PROVE  /\ position(i, S) \in Nat /\ position(i, S) < Cardinality(S)
         /\ \A j \in S : position(j, S) = position(i, S) => j = i
<1>. DEFINE below(j) == {k \in S : k < j}
<1>1. S \subseteq Int /\ Ids \subseteq Int
  BY NetboxAssumption DEF Ids
<1>2. ASSUME NEW T \in SUBSET S, NEW U \in SUBSET T, U # T
      PROVE  /\ Cardinality(U) \in Nat /\ Cardinality(T) \in Nat
             /\ Cardinality(U) < Cardinality(T)
  <2>1. IsFiniteSet(T) /\ Cardinality(T) \in Nat /\ Cardinality(U) \in Nat
    BY OwnFinite
  <2>2. Cardinality(U) <= Cardinality(T) /\ Cardinality(T) # Cardinality(U)
    BY <1>2, <2>1, FS_Subset
  <2>. QED
    BY <2>1, <2>2
<1>3. ASSUME NEW j \in S, NEW k \in S, j < k
      PROVE  Cardinality(below(j)) < Cardinality(below(k))
  <2>1. \A m \in S : m < j => m < k
    BY <1>1, <1>3
  <2>2. below(j) \in SUBSET below(k) /\ below(k) \in SUBSET S
    BY <2>1
  <2>3. j \in below(k) /\ j \notin below(j)
    BY <1>1, <1>3
  <2>. HIDE DEF below
  <2>. QED
    BY <1>2, <2>2, <2>3
<1>4. Cardinality(below(i)) \in Nat /\ Cardinality(below(i)) < Cardinality(S)
  <2>1. below(i) \in SUBSET S /\ i \notin below(i)
    BY <1>1
  <2>. QED
    BY <1>2, <2>1
<1>5. ASSUME NEW j \in S, Cardinality(below(j)) = Cardinality(below(i))
      PROVE  j = i
  <2>1. j < i \/ i < j \/ j = i
    BY <1>1
  <2>2. Cardinality(below(i)) \in Nat
    BY <1>4
  <2>. QED
    BY <1>3, <1>5, <2>1, <2>2
<1>. QED
  BY <1>4, <1>5 DEF position

(* What the leases of client c look like does not change.                  *)
SameView(c) ==
  /\ OwnIds(c)' = OwnIds(c)
  /\ \A i \in OwnIds(c) : leases'[i].address = leases[i].address

LEMMA SeenKept ==
  ASSUME NEW u \in Tasks, SameView(pkt[u].client), Seen(u),
         pc'[u] = pc[u], items'[u] = items[u], pkt'[u] = pkt[u], origin'[u] = origin[u]
  PROVE  Seen(u)'
<1>1. \A i : HasCopy(u, i)' <=> HasCopy(u, i)
  BY DEF HasCopy
<1>2. \A a : OnSubnet(pkt[u].client, a)' = OnSubnet(pkt[u].client, a)
  BY DEF OnSubnet, SameView
<1>. QED
  BY <1>1, <1>2 DEF Seen, SameView, OnSubnet

LEMMA ViewKept ==
  ASSUME IInv, NEW A \in SUBSET Tasks, NEW i \in Ids,
         NEW new \in Lease \cup {NoLease}, Replaces(i, new) \/ Creates(i, new),
         Overtake(A, i), NEW u \in Tasks \ A, pc[u] # "idle", u \notin overtaken',
         pkt'[u] = pkt[u]
  PROVE  SameView(pkt[u].client) /\ u \notin overtaken
<1>1. /\ leases \in [Ids -> Lease \cup {NoLease}]
      /\ leases'[i] = new /\ \A j \in Ids \ {i} : leases'[j] = leases[j]
      /\ Present(i) => leases[i].id = i /\ i \in issued
  BY DEF IInv, TypeOK, Replaces, Creates, Filed
<1>2. \/ holder(leases', i) = holder(leases, i)
      \/ pkt[u].client \notin holder(leases, i) \cup holder(leases', i)
  BY DEF Overtake
<1>3. i \in OwnIds(pkt[u].client) <=> pkt[u].client \in holder(leases, i)
  BY <1>1 DEF OwnIds, holder, Present
<1>4. i \in OwnIds(pkt[u].client)' <=> pkt[u].client \in holder(leases', i)
  BY <1>1 DEF OwnIds, holder, Present
<1>5. OwnIds(pkt[u].client)' = OwnIds(pkt[u].client)
  BY <1>1, <1>2, <1>3, <1>4 DEF OwnIds, Present
<1>6. i \in OwnIds(pkt[u].client) => leases'[i].address = leases[i].address
  BY <1>1, <1>5 DEF OwnIds, Replaces, Creates, Present
<1>. QED
  BY <1>1, <1>5, <1>6 DEF SameView, Overtake, OwnIds

(* Whoever does not act and is not overtaken still sees what it saw.       *)
LEMMA OthersSee ==
  ASSUME IInv, Seeing, NEW A \in SUBSET Tasks,
         \A u \in Tasks \ A : /\ pc'[u] = pc[u] /\ items'[u] = items[u]
                              /\ pkt'[u] = pkt[u] /\ origin'[u] = origin[u],
         \/ leases' = leases /\ overtaken \ A \subseteq overtaken'
         \/ \E i \in Ids, new \in Lease \cup {NoLease} :
              (Replaces(i, new) \/ Creates(i, new)) /\ Overtake(A, i)
  PROVE  \A u \in Tasks \ A : u \notin overtaken' => Seen(u)'
<1>. SUFFICES ASSUME NEW u \in Tasks \ A, u \notin overtaken' PROVE Seen(u)'
  OBVIOUS
<1>1. CASE pc[u] = "idle"
  BY <1>1 DEF Seen
<1>2. CASE leases' = leases /\ overtaken \ A \subseteq overtaken'
  <2>1. SameView(pkt[u].client)
    BY <1>2 DEF SameView, OwnIds, Present
  <2>2. Seen(u)
    BY <1>2 DEF Seeing
  <2>. QED
    BY <2>1, <2>2, SeenKept
<1>3. CASE pc[u] # "idle" /\ \E i \in Ids, new \in Lease \cup {NoLease} :
              (Replaces(i, new) \/ Creates(i, new)) /\ Overtake(A, i)
  <2>1. SameView(pkt[u].client) /\ u \notin overtaken
    BY <1>3, ViewKept
  <2>2. Seen(u)
    BY <2>1 DEF Seeing
  <2>. QED
    BY <2>1, <2>2, SeenKept
<1>. QED
  BY <1>1, <1>2, <1>3

LEMMA GetPageSees ==
  ASSUME IInv, NEW t \in Tasks, get_page(t), Seen(t)
  PROVE  Seen(t)'
<1>. DEFINE own == OwnIds(pkt[t].client)
            offset == Len(items[t])
            page == {i \in own : position(i, own) = offset}
            i0 == CHOOSE i \in page : TRUE
<1>1. /\ pc[t] = "list" /\ own' = own
      /\ items'[t] = (IF page = {} THEN items[t] ELSE Append(items[t], leases[i0]))
      /\ pc'[t] = (IF offset + 1 < Cardinality(own) THEN "list" ELSE "choose")
  BY DEF get_page, IInv, TypeOK, OwnIds, Present
<1>2. items[t] \in Seq(Lease) /\ offset \in Nat /\ own \in SUBSET Ids
  BY DEF IInv, TypeOK, OwnIds
<1>3. page # {} => i0 \in page /\ leases[i0].id = i0 /\ leases[i0] \in Lease
  BY DEF IInv, TypeOK, Filed, OwnIds, Present
<1>4. \A i \in own : position(i, own) < offset => HasCopy(t, i)
  BY <1>1 DEF Seen
<1>5. \A i : HasCopy(t, i) => HasCopy(t, i)'
  BY <1>1, <1>2, <1>3 DEF HasCopy
<1>6. \A i \in page : i = i0
  BY <1>2, <1>3, Positions
<1>7. ASSUME NEW i \in page
      PROVE  HasCopy(t, i)'
  <2>1. i = i0 /\ page # {}
    BY <1>6
  <2>. HIDE DEF i0, page
  <2>2. /\ offset + 1 \in DOMAIN items'[t]
        /\ items'[t][offset + 1] = leases[i0]
    BY <1>1, <1>2, <1>3, <2>1
  <2>. QED
    BY <1>3, <2>1, <2>2 DEF HasCopy
<1>8. \A i \in own : position(i, own) \in Nat /\ position(i, own) < Cardinality(own)
  BY <1>2, Positions
<1>9. Cardinality(own) \in Nat
  BY <1>2, OwnFinite
<1>. HIDE DEF i0
<1>10. ASSUME NEW i \in own, position(i, own) < offset + 1
       PROVE  HasCopy(t, i)'
  <2>1. position(i, own) < offset \/ i \in page
    BY <1>2, <1>8, <1>10
  <2>. QED
    BY <1>4, <1>5, <1>7, <2>1
<1>11. Len(items'[t]) \in {offset, offset + 1}
  BY <1>1, <1>2
<1>12. pkt'[t] = pkt[t]
  BY DEF get_page
<1>13. \A i \in own : position(i, own)' = position(i, own)
  <2>. HIDE DEF own
  <2>. QED
    BY <1>1 DEF position
<1>14. CASE pc'[t] = "list"
  <2>1. \A i \in own : position(i, own) < Len(items'[t]) => HasCopy(t, i)'
    BY <1>2, <1>8, <1>10, <1>11
  <2>. HIDE DEF own, offset, page
  <2>2. \A i \in own' : position(i, own)' < Len(items'[t]) => HasCopy(t, i)'
    BY <1>1, <1>13, <2>1 DEF own
  <2>. QED
    BY <1>14, <2>2 DEF Seen, own
<1>15. CASE pc'[t] = "choose"
  <2>1. ~(offset + 1 < Cardinality(own))
    BY <1>1, <1>15
  <2>2. \A i \in own : HasCopy(t, i)'
    BY <1>2, <1>8, <1>9, <1>10, <2>1
  <2>. QED
    BY <1>1, <1>15, <2>2 DEF Seen
<1>. QED
  BY <1>1, <1>14, <1>15

(* A copy and the lease it is of agree about the address, and while nobody *)
(* overtakes the task also about the client.                               *)
LEMMA CopyAndLease ==
  ASSUME IInv, NEW t \in Tasks, NEW k \in DOMAIN items[t]
  PROVE  /\ items[t][k].id \in OwnIds(pkt[t].client) =>
              leases[items[t][k].id].address = items[t][k].address
         /\ pc[t] = "choose" /\ t \notin overtaken =>
              items[t][k].id \in OwnIds(pkt[t].client)
<1>1. /\ items[t][k].id \in Ids /\ Copied(items[t][k])
      /\ items[t][k].client = pkt[t].client
  BY CopyFacts
<1>2. pc[t] = "choose" /\ t \notin overtaken => Current(items[t][k])
  BY DEF IInv, Held, Undisturbed
<1>. QED
  BY <1>1, <1>2 DEF Copied, Current, OwnIds

(* What the copies say of a subnet is what the table says.                 *)
LEMMA CopiesOnSubnet ==
  ASSUME IInv, NEW t \in Tasks, pc[t] = "choose", t \notin overtaken, Seen(t), NEW a
  PROVE  /\ \A i \in OnSubnet(pkt[t].client, a) : \E k \in OnSubnetOf(t, a) :
              items[t][k].address = leases[i].address
         /\ \A k \in OnSubnetOf(t, a) : items[t][k].id \in OnSubnet(pkt[t].client, a)
<1>1. ASSUME NEW i \in OnSubnet(pkt[t].client, a)
      PROVE  \E k \in OnSubnetOf(t, a) : items[t][k].address = leases[i].address
  <2>1. i \in OwnIds(pkt[t].client) /\ same_subnet(leases[i].address, a)
    BY DEF OnSubnet
  <2>2. PICK k \in DOMAIN items[t] : items[t][k].id = i
    BY <2>1 DEF Seen, HasCopy
  <2>3. leases[i].address = items[t][k].address
    BY <2>1, <2>2, CopyAndLease
  <2>. QED
    BY <2>1, <2>3 DEF OnSubnetOf
<1>2. ASSUME NEW k \in OnSubnetOf(t, a)
      PROVE  items[t][k].id \in OnSubnet(pkt[t].client, a)
  <2>1. k \in DOMAIN items[t] /\ same_subnet(items[t][k].address, a)
    BY DEF OnSubnetOf
  <2>. QED
    BY <2>1, CopyAndLease DEF OnSubnet
<1>. QED
  BY <1>1, <1>2

LEMMA GetLeaseSees ==
  ASSUME IInv, NEW t \in Tasks, get_lease(t), t \notin overtaken, Seen(t)
  PROVE  Seen(t)'
<1>. DEFINE local == OnSubnetOf(t, origin[t])
<1>1. /\ pc[t] = "choose" /\ leases' = leases
      /\ pkt' = pkt /\ origin' = origin
      /\ pc'[t] = IF local = {} THEN "post" ELSE "acknowledge"
  BY DEF get_lease, Choose, IInv, TypeOK
<1>2. local = {} => OnSubnet(pkt[t].client, origin[t]) = {}
  BY <1>1, CopiesOnSubnet
<1>3. OnSubnet(pkt[t].client, origin[t])' = OnSubnet(pkt[t].client, origin[t])
  BY <1>1 DEF OnSubnet, OwnIds, Present
<1>. QED
  BY <1>1, <1>2, <1>3 DEF Seen

(* asks_for is the code's way to compare the addresses a REQUEST names.    *)
LEMMA AsksForNamed ==
  ASSUME NEW p, NEW l
  PROVE  Named(p) \subseteq {l.address} => asks_for(p, l)
BY DEF Named, asks_for, has_requested

LEMMA RenewLeaseSees ==
  ASSUME IInv, NEW t \in Tasks, renew_lease(t), t \notin overtaken, Seen(t)
  PROVE  Seen(t)'
<1>. DEFINE a == compare_ip(pkt[t], origin[t])
            local == OnSubnetOf(t, a)
            asked == {k \in local : asks_for(pkt[t], items[t][k])}
            own == OnSubnet(pkt[t].client, a)
<1>1. /\ pc[t] = "choose" /\ leases' = leases
      /\ pkt' = pkt /\ origin' = origin
      /\ pc'[t] = IF local = {} THEN "refused"
                  ELSE IF asked = {} THEN "mismatch" ELSE "acknowledge"
  BY DEF renew_lease, Choose, IInv, TypeOK
<1>2. /\ \A i \in own : \E k \in local : items[t][k].address = leases[i].address
      /\ \A k \in local : items[t][k].id \in own
  BY <1>1, CopiesOnSubnet
<1>3. own' = own /\ Named(pkt[t])' = Named(pkt[t])
  BY <1>1 DEF OnSubnet, OwnIds, Present
<1>4. ASSUME asked = {}, NEW i \in own
      PROVE  ~(Named(pkt[t]) \subseteq {leases[i].address})
  <2>1. PICK k \in local : items[t][k].address = leases[i].address
    BY <1>2
  <2>. QED
    BY <1>4, <2>1, AsksForNamed
<1>5. CASE pc'[t] = "refused"
  <2>1. own' = {}
    BY <1>1, <1>2, <1>3, <1>5
  <2>. QED
    BY <1>5, <2>1 DEF Seen
<1>6. CASE pc'[t] = "mismatch"
  <2>1. /\ own' # {}
        /\ \A i \in own' : ~(Named(pkt[t])' \subseteq {leases'[i].address})
    <3>. HIDE DEF a
    <3>. QED
      BY <1>1, <1>2, <1>3, <1>4, <1>6
  <2>. QED
    BY <1>6, <2>1 DEF Seen
<1>7. CASE pc'[t] = "acknowledge"
  BY <1>7 DEF Seen
<1>. QED
  BY <1>1, <1>5, <1>6, <1>7

LEMMA GiveUpSees ==
  ASSUME IInv, NEW t \in Tasks, delete_lease(t) \/ decline_lease(t), Seen(t)
  PROVE  Seen(t)'
<1>1. /\ pc[t] = "choose" /\ leases' = leases /\ pkt' = pkt /\ items'[t] = items[t]
      /\ \/ pc'[t] = "finished" /\ Doomed(items[t], pkt[t]) = {}
         \/ pc'[t] \in {"delete", "decline"}
  BY DEF delete_lease, decline_lease, Choose, IInv, TypeOK
<1>2. OwnIds(pkt[t].client)' = OwnIds(pkt[t].client)
  BY <1>1 DEF OwnIds, Present
<1>3. ASSUME NEW i \in OwnIds(pkt[t].client)
      PROVE  /\ HasCopy(t, i)'
             /\ Doomed(items[t], pkt[t]) = {} =>
                  leases[i].address \notin given_up_addresses(pkt[t])
  <2>1. PICK k \in DOMAIN items[t] : items[t][k].id = i
    BY <1>1 DEF Seen, HasCopy
  <2>2. leases[i].address = items[t][k].address
    BY <2>1, CopyAndLease
  <2>. QED
    BY <1>1, <2>1, <2>2 DEF HasCopy, Doomed
<1>. QED
  BY <1>1, <1>2, <1>3 DEF Seen

(* The copies after the first one found hold the others that there are.    *)
LEMMA RemoveSees ==
  ASSUME IInv, NEW t \in Tasks, delete(t) \/ decline(t),
         t \notin overtaken => Seen(t), t \notin overtaken
  PROVE  Seen(t)'
<1>. DEFINE K == Doomed(items[t], pkt[t])
            k == least(K)
            n == Len(items[t])
            rest == SubSeq(items[t], k + 1, n)
            l == items[t][k]
            c == pkt[t].client
<1>1. /\ items[t] \in Seq(Lease) /\ K # {} /\ K \subseteq DOMAIN items[t]
      /\ pc[t] \in {"delete", "decline"} /\ n \in Nat
  BY DEF IInv, TypeOK, delete, decline, Doomed
<1>2. k \in K /\ k \in 1 .. n /\ \A j \in K : k <= j
  BY <1>1, LeastIn
<1>3. /\ leases' = [leases EXCEPT ![l.id] = IF pc[t] = "delete" THEN NoLease
                                            ELSE [l EXCEPT !.client = Declined]]
      /\ pkt' = pkt
      /\ \/ /\ pc'[t] = (IF Doomed(rest, pkt[t]) = {} THEN "finished" ELSE pc[t])
            /\ items'[t] = rest
         \/ pc'[t] = "failed"
  <2>1. \/ /\ pc' = [pc EXCEPT ![t] = IF Doomed(rest, pkt[t]) = {} THEN "finished"
                                     ELSE pc[t]]
           /\ items' = [items EXCEPT ![t] = rest]
        \/ pc' = [pc EXCEPT ![t] = "failed"]
    BY <1>1 DEF delete, decline, ProceedWithRest, Proceed
  <2>2. pc \in [Tasks -> Step] /\ items \in [Tasks -> Seq(Lease)]
    BY DEF IInv, TypeOK
  <2>. HIDE DEF rest, k
  <2>3. \/ /\ pc'[t] = (IF Doomed(rest, pkt[t]) = {} THEN "finished" ELSE pc[t])
           /\ items'[t] = rest
        \/ pc'[t] = "failed"
    BY <2>1, <2>2
  <2>. USE DEF k
  <2>4. CASE delete(t)
    BY <2>3, <2>4 DEF delete, Replace
  <2>5. CASE decline(t)
    BY <2>3, <2>5 DEF decline, Replace
  <2>. QED
    BY <2>4, <2>5
<1>. HIDE DEF k
<1>4. /\ l.id \in Ids /\ Copied(l) /\ l.client = c /\ c # Declined /\ l \in Lease
      /\ pkt[t] \in Packets
  BY <1>1, <1>2, CopyFacts
<1>5. /\ DOMAIN rest = 1 .. n - k
      /\ \A j \in 1 .. n - k : rest[j] = items[t][k + j]
  <2>1. \A j \in k + 1 .. n : items[t][j] \in Lease
    BY <1>1, <1>2
  <2>2. /\ rest \in Seq(Lease)
        /\ Len(rest) = IF k + 1 <= n THEN n - (k + 1) + 1 ELSE 0
        /\ \A j \in 1 .. n - (k + 1) + 1 : rest[j] = items[t][k + 1 + j - 1]
    BY <1>1, <1>2, <2>1, SubSeqProperties
  <2>. HIDE DEF rest
  <2>3. Len(rest) = n - k /\ DOMAIN rest = 1 .. Len(rest)
    BY <1>1, <1>2, <2>2
  <2>4. ASSUME NEW j \in 1 .. n - k
        PROVE  rest[j] = items[t][k + j]
    <3>1. j \in 1 .. n - (k + 1) + 1 /\ k + 1 + j - 1 = k + j
      BY <1>1, <1>2, <2>4
    <3>. QED
      BY <2>2, <3>1
  <2>. QED
    BY <2>3, <2>4
<1>. HIDE DEF l, rest
<1>6. ASSUME NEW i \in OwnIds(c)'
      PROVE  i # l.id /\ i \in OwnIds(c) /\ leases'[i] = leases[i]
  <2>. DEFINE new == IF pc[t] = "delete" THEN NoLease ELSE [l EXCEPT !.client = Declined]
  <2>1. new = NoLease \/ new.client = Declined
    BY <1>4 DEF Lease
  <2>2. i \in Ids /\ Present(i)' /\ leases'[i].client = c
    BY <1>3, <1>6 DEF OwnIds
  <2>3. leases'[l.id] = new /\ \A j \in Ids \ {l.id} : leases'[j] = leases[j]
    BY <1>3, <1>4 DEF IInv, TypeOK
  <2>4. i # l.id
    BY <1>4, <2>1, <2>2, <2>3 DEF Present
  <2>. QED
    BY <2>2, <2>3, <2>4 DEF OwnIds, Present
<1>7. ASSUME NEW i \in OwnIds(c)', leases'[i].address \in given_up_addresses(pkt[t])
      PROVE  \E j \in Doomed(rest, pkt[t]) : rest[j].id = i
  <2>1. i # l.id /\ i \in OwnIds(c) /\ leases[i].address \in given_up_addresses(pkt[t])
    BY <1>6, <1>7
  <2>2. PICK m \in DOMAIN items[t] : items[t][m].id = i
    BY <1>1, <2>1 DEF Seen, HasCopy
  <2>3. leases[i].address = items[t][m].address
    BY <2>1, <2>2, CopyAndLease
  <2>4. m \in K /\ m # k
    BY <2>1, <2>2, <2>3 DEF Doomed, l
  <2>5. m - k \in 1 .. n - k /\ k + (m - k) = m
    BY <1>1, <1>2, <2>4
  <2>6. rest[m - k] = items[t][m] /\ m - k \in DOMAIN rest
    BY <1>5, <2>5
  <2>. QED
    BY <2>1, <2>2, <2>3, <2>6 DEF Doomed
<1>8. CASE pc'[t] = "failed"
  BY <1>8 DEF Seen
<1>9. CASE items'[t] = rest /\ pc'[t] = "finished" /\ Doomed(rest, pkt[t]) = {}
  BY <1>3, <1>7, <1>9 DEF Seen
<1>10. CASE items'[t] = rest /\ pc'[t] = pc[t]
  <2>1. \A i \in OwnIds(c)' : leases'[i].address \in given_up_addresses(pkt[t])
          => \E j \in DOMAIN items'[t] : items'[t][j].id = i
    BY <1>7, <1>10 DEF Doomed
  <2>. QED
    BY <1>1, <1>3, <1>10, <2>1 DEF Seen, HasCopy
<1>. QED
  BY <1>3, <1>8, <1>9, <1>10

LEMMA SeenStep ==
  ASSUME IInv, Seeing, [Next]_vars
  PROVE  Seeing'
<1>1. CASE UNCHANGED vars
  BY <1>1 DEF vars, Seeing, Seen, HasCopy, OwnIds, OnSubnet, Present
<1>2. ASSUME NEW t \in Tasks, t \notin overtaken' => Seen(t)',
             \A u \in Tasks \ {t} : /\ pc'[u] = pc[u] /\ items'[u] = items[u]
                                    /\ pkt'[u] = pkt[u] /\ origin'[u] = origin[u],
             \/ leases' = leases /\ overtaken \ {t} \subseteq overtaken'
             \/ \E i \in Ids, new \in Lease \cup {NoLease} :
                  (Replaces(i, new) \/ Creates(i, new)) /\ Overtake({t}, i)
      PROVE  Seeing'
  <2>1. {t} \in SUBSET Tasks
    OBVIOUS
  <2>. QED
    BY <1>2, <2>1, OthersSee DEF Seeing
<1>3. ASSUME NEW t \in Tasks, NEW p \in Packets, NEW o \in Origins, Call(t, p, o)
      PROVE  Seeing'
  <2>1. /\ leases' = leases /\ overtaken' = overtaken
        /\ pc'[t] \in {"failed", "list"} /\ items'[t] = <<>>
        /\ Only(t)
    BY <1>3 DEF Call, Only, IInv, TypeOK, TasksLocal, Local
  <2>2. \A S \in SUBSET Ids : \A i \in S : ~(position(i, S) < 0)
    BY Positions
  <2>3. OwnIds(pkt[t].client)' \in SUBSET Ids
    BY DEF OwnIds
  <2>4. Len(items'[t]) = 0
    BY <2>1
  <2>5. \A i \in OwnIds(pkt[t].client)' :
          ~(position(i, OwnIds(pkt[t].client)') < Len(items'[t]))
    BY <2>2, <2>3, <2>4
  <2>6. Seen(t)'
    <3>1. \A i : position(i, OwnIds(pkt[t].client))' =
                 position(i, OwnIds(pkt[t].client)')
      BY DEF position
    <3>. QED
      BY <2>1, <2>5, <3>1 DEF Seen
  <2>. QED
    BY <1>2, <2>1, <2>6 DEF Only
<1>4. ASSUME NEW t \in Tasks, Return(t) \/ RequestFails(t)
      PROVE  Seeing'
  <2>1. /\ leases' = leases /\ overtaken \ {t} \subseteq overtaken'
        /\ pc'[t] \in {"idle", "failed"} /\ Only(t)
    BY <1>4 DEF Return, RequestFails, Only, IInv, TypeOK
  <2>2. Seen(t)'
    BY <2>1 DEF Seen
  <2>. QED
    BY <1>2, <2>1, <2>2 DEF Only
<1>5. ASSUME NEW t \in Tasks, get_page(t) \/ get_lease(t) \/ renew_lease(t)
                              \/ delete_lease(t) \/ decline_lease(t)
      PROVE  Seeing'
  <2>1. leases' = leases /\ overtaken' = overtaken /\ Only(t)
    BY <1>5 DEF get_page, get_lease, renew_lease, delete_lease, decline_lease, Choose,
                Only, IInv, TypeOK
  <2>2. t \notin overtaken => Seen(t)'
    BY <1>5, GetPageSees, GetLeaseSees, RenewLeaseSees, GiveUpSees DEF Seeing
  <2>. QED
    BY <1>2, <2>1, <2>2 DEF Only
<1>6. ASSUME NEW t \in Tasks, acknowledge(t) \/ post(t)
      PROVE  Seeing'
  <2>1. /\ pc'[t] \in {"granted", "failed"} /\ Only(t)
    BY <1>6, Zenon DEF acknowledge, post, Proceed, Replace, Only, IInv, TypeOK
  <2>2. Seen(t)'
    BY <2>1 DEF Seen
  <2>3. \E i \in Ids, new \in Lease \cup {NoLease} :
          (Replaces(i, new) \/ Creates(i, new)) /\ Overtake({t}, i)
    <3>1. acknowledge(t) => items[t][1].id \in Ids
      BY FirstCopy, CopyFacts
    <3>. QED
      BY <1>6, <3>1, AcknowledgeStep, PostStep
  <2>. QED
    BY <1>2, <2>1, <2>2, <2>3 DEF Only
<1>7. ASSUME NEW t \in Tasks, delete(t) \/ decline(t)
      PROVE  Seeing'
  <2>1. Only(t)
    BY <1>7, Zenon DEF delete, decline, ProceedWithRest, Proceed, Replace, Only, IInv, TypeOK
  <2>2. overtaken \subseteq overtaken'
    BY <1>7 DEF delete, decline, Replace, Overtake
  <2>3. t \notin overtaken' => Seen(t)'
    BY <1>7, <2>2, RemoveSees DEF Seeing
  <2>4. \E i \in Ids, new \in Lease \cup {NoLease} :
          (Replaces(i, new) \/ Creates(i, new)) /\ Overtake({t}, i)
    <3>1. \A k \in Doomed(items[t], pkt[t]) : items[t][k].id \in Ids
      BY CopyFacts DEF Doomed
    <3>. QED
      BY <1>7, <3>1, RemoveStep
  <2>. QED
    BY <1>2, <2>1, <2>3, <2>4 DEF Only
<1>8. ASSUME NEW i \in Ids, Purge(i)
      PROVE  Seeing'
  <2>1. /\ {} \in SUBSET Tasks /\ Replaces(i, NoLease) /\ Overtake({}, i)
        /\ UNCHANGED <<pc, pkt, origin, items>>
    BY <1>8, PurgeStep DEF Purge
  <2>. QED
    BY <2>1, OthersSee DEF Seeing
<1>. QED
  BY <1>1, <1>3, <1>4, <1>5, <1>6, <1>7, <1>8 DEF Next, Work

SInv == IInv /\ Seeing

LEMMA SeenInvariant == Spec => []SInv
<1>1. Init => SInv
  BY InvariantStart DEF Init, SInv, Seeing, Seen
<1>2. SInv /\ [Next]_vars => SInv'
  BY InvariantStep, SeenStep DEF SInv
<1>. QED
  BY <1>1, <1>2, PTL DEF Spec

(* What tasks have seen makes a refusal or denial just.                    *)
LEMMA RefusalFacts == SInv => RefusalIsJustified
BY DEF SInv, Seeing, Seen, RefusalIsJustified

(* A REQUEST that was refused or denied, and that nobody overtook, had no  *)
(* lease on its subnet, or none at the address it names, on whatever page  *)
(* its leases were.                                                        *)
THEOREM NetboxRefusalIsJustified == Spec => []RefusalIsJustified
<1>1. SInv => RefusalIsJustified
  BY RefusalFacts
<1>. QED
  BY <1>1, SeenInvariant, PTL

(* What tasks have seen makes a removal complete.                          *)
LEMMA RemovalFacts == SInv => RemovalIsComplete
<1>1. \A p : method(p) = "release" => p.ciaddr \in given_up_addresses(p)
  BY DEF given_up_addresses
<1>2. \A p : method(p) = "decline" => p.requested \in given_up_addresses(p)
  BY DEF given_up_addresses
<1>. QED
  BY <1>1, <1>2 DEF SInv, Seeing, Seen, RemovalIsComplete

(* A RELEASE or DECLINE that reports success leaves its client no lease at *)
(* the address it gives up, however many there were.                       *)
THEOREM NetboxRemovalIsComplete == Spec => []RemovalIsComplete
<1>1. SInv => RemovalIsComplete
  BY RemovalFacts
<1>. QED
  BY <1>1, SeenInvariant, PTL

LEMMA NewLeaseStep ==
  ASSUME SInv, [Next]_vars, NEW t \in Tasks, pc[t] = "post",
         issued' # issued, pc'[t] # "post"
  PROVE  t \in overtaken \/ OnSubnet(pkt[t].client, origin[t]) = {}
BY DEF SInv, Seeing, Seen

(* A task of a client makes it a new lease only if it has none on the      *)
(* subnet, or another one came or went while the task was looking.         *)
THEOREM NetboxNewLeaseOnlyIfNone == Spec => NewLeaseOnlyIfNone
<1>1. SInv /\ [Next]_vars =>
        [\A t \in Tasks :
           pc[t] = "post" /\ issued' # issued /\ pc'[t] # "post"
             => t \in overtaken \/ OnSubnet(pkt[t].client, origin[t]) = {}]_vars
  BY NewLeaseStep
<1>. QED
  BY <1>1, SeenInvariant, PTL DEF Spec, NewLeaseOnlyIfNone
-----------------------------------------------------------------------------
(* With the owner of each lease remembered: a lease is its owner's unless  *)
(* it is declined, and so is every copy of it, however old.                *)
Owned ==
  /\ owner \in [Ids -> Client \cup {Nobody}]
  /\ \A i \in issued : owner[i] \in Client
  /\ \A i \in Ids : Present(i) => leases[i].client \in {owner[i], Declined}
  /\ \A t \in Tasks : \A k \in DOMAIN items[t] :
       items[t][k].client = owner[items[t][k].id]

OInv == IInv /\ Owned

LEMMA OwnedStep ==
  ASSUME OInv, [OwnerNext]_ledgerVars
  PROVE  /\ OInv' /\ [Next]_vars
         /\ \A i \in issued : owner'[i] = owner[i]
         /\ \A i \in Ids, new \in Lease : Creates(i, new) => owner'[i] = new.client
<1>1. [Next]_vars
  BY DEF OwnerNext, Remember, ledgerVars
<1>2. IInv' /\ Traced
  BY <1>1, InvariantStep DEF OInv
<1>3. /\ issued \subseteq Ids /\ leases \in [Ids -> Lease \cup {NoLease}] /\ Filed
      /\ issued' \subseteq Ids /\ leases' \in [Ids -> Lease \cup {NoLease}] /\ Filed'
  BY <1>2 DEF OInv, IInv, TypeOK
<1>4. \A i \in issued : owner'[i] = owner[i]
  BY <1>3 DEF OwnerNext, Remember, ledgerVars, OInv, Owned
<1>5. \A i \in Ids, new \in Lease :
        Creates(i, new) => /\ owner'[i] = new.client /\ owner'[i] \in Client
                           /\ owner' = [owner EXCEPT ![i] = new.client]
  <2>. SUFFICES ASSUME NEW i \in Ids, NEW new \in Lease, Creates(i, new)
                PROVE  /\ owner'[i] = new.client /\ owner'[i] \in Client
                       /\ owner' = [owner EXCEPT ![i] = new.client]
    OBVIOUS
  <2>1. issued' \ issued = {i} /\ issued' # issued /\ leases'[i] = new
    BY <1>3 DEF Creates
  <2>2. owner' = [j \in Ids |-> IF j \in issued' \ issued THEN leases'[j].client
                               ELSE owner[j]]
    BY <2>1 DEF OwnerNext, Remember, ledgerVars, vars
  <2>3. new.client \in Client
    BY DEF Creates, Lease
  <2>. QED
    BY <2>1, <2>2, <2>3 DEF OInv, Owned
<1>6. \/ issued' = issued /\ owner' = owner
      \/ \E i \in Ids, new \in Lease : Creates(i, new)
  <2>1. issued' = issued => owner' = owner
    BY DEF OwnerNext, Remember, ledgerVars, OInv, Owned
  <2>. QED
    BY <1>1, <2>1, InvariantStep DEF OInv, Replaces
<1>7. /\ owner' \in [Ids -> Client \cup {Nobody}]
      /\ \A i \in issued' : owner'[i] \in Client
  <2>1. CASE issued' = issued /\ owner' = owner
    BY <2>1 DEF OInv, Owned
  <2>2. CASE \E i \in Ids, new \in Lease : Creates(i, new)
    <3>1. PICK i \in Ids, new \in Lease : Creates(i, new)
      BY <2>2
    <3>2. /\ owner'[i] \in Client /\ issued' = issued \cup {i}
          /\ owner' = [owner EXCEPT ![i] = new.client] /\ new.client \in Client
      BY <1>5, <3>1 DEF Creates, OInv, Owned
    <3>. QED
      BY <1>4, <3>2 DEF OInv, Owned
  <2>. QED
    BY <1>6, <2>1, <2>2
<1>8. ASSUME NEW i \in Ids, Present(i)'
      PROVE  leases'[i].client \in {owner'[i], Declined}
  <2>1. i \in issued => /\ owner'[i] = owner[i]
                        /\ Present(i) => leases[i].client \in {owner[i], Declined}
    BY <1>4 DEF OInv, Owned
  <2>2. Present(i) => i \in issued
    BY <1>3 DEF Filed
  <2>3. CASE UNCHANGED <<leases, issued>>
    BY <1>8, <2>1, <2>2, <2>3 DEF Present
  <2>4. CASE \E j \in Ids, new \in Lease : Creates(j, new)
    <3>1. PICK j \in Ids, new \in Lease : Creates(j, new)
      BY <2>4
    <3>2. CASE i = j
      BY <1>3, <1>5, <3>1, <3>2 DEF Creates
    <3>3. CASE i # j
      BY <1>3, <1>8, <2>1, <2>2, <3>1, <3>3 DEF Creates, Present
    <3>. QED
      BY <3>2, <3>3
  <2>5. ASSUME NEW t \in Tasks, NEW new \in Lease, acknowledge(t),
               Replaces(items[t][1].id, new), new.client = items[t][1].client
        PROVE  leases'[i].client \in {owner'[i], Declined}
    <3>1. 1 \in DOMAIN items[t]
      BY <2>5, FirstCopy DEF OInv
    <3>2. items[t][1].id \in Ids /\ new.client = owner[items[t][1].id]
      BY <2>5, <3>1, CopyFacts DEF OInv, Owned
    <3>. QED
      BY <1>3, <1>8, <2>1, <2>2, <2>5, <3>2 DEF Replaces, Present
  <2>6. ASSUME NEW j \in Ids, NEW new \in Lease \cup {NoLease},
               new = NoLease \/ new.client = Declined, Replaces(j, new)
        PROVE  leases'[i].client \in {owner'[i], Declined}
    BY <1>3, <1>8, <2>1, <2>2, <2>6 DEF Replaces, Present
  <2>7. \A t \in Tasks : \A k \in Doomed(items[t], pkt[t]) : items[t][k].id \in Ids
    BY CopyFacts DEF Doomed, OInv
  <2>. QED
    BY <1>1, <2>3, <2>4, <2>5, <2>6, <2>7, InvariantStep DEF OInv
<1>9. ASSUME NEW t \in Tasks, NEW k \in DOMAIN items'[t]
      PROVE  items'[t][k].client = owner'[items'[t][k].id]
  <2>. DEFINE l == items'[t][k]
  <2>1. items'[t] \in Seq(Lease) /\ Local(t)'
    BY <1>2 DEF IInv, TypeOK, TasksLocal
  <2>2. \A j \in DOMAIN <<>> : FALSE
    OBVIOUS
  <2>3. pkt'[t] \in Packets /\ l.client = pkt'[t].client /\ l \in Lease
    BY <2>1, <2>2 DEF Local
  <2>4. l.client # Declined /\ l.id \in Ids
    BY <2>3, MethodFacts DEF Lease
  <2>5. From(t, l)
    BY <1>2 DEF Traced
  <2>. HIDE DEF l
  <2>6. ASSUME NEW j \in DOMAIN items[t],
               l.id = items[t][j].id, l.client = items[t][j].client
        PROVE  l.client = owner'[l.id]
    <3>1. Copied(items[t][j]) /\ items[t][j].client = owner[items[t][j].id]
      BY CopyFacts DEF OInv, Owned
    <3>. QED
      BY <1>4, <2>6, <3>1 DEF Copied
  <2>7. ASSUME leases'[l.id] # NoLease, leases'[l.id].client = l.client
        PROVE  l.client = owner'[l.id]
    <3>1. leases'[l.id].client \in {owner'[l.id], Declined}
      BY <1>8, <2>4, <2>7 DEF Present
    <3>. QED
      BY <2>4, <2>7, <3>1
  <2>8. l.client = owner'[l.id]
    <3>1. CASE leases'[l.id] # NoLease /\ leases'[l.id].client = l.client
      BY <2>7, <3>1
    <3>2. CASE \E j \in DOMAIN items[t] :
                  l.id = items[t][j].id /\ l.client = items[t][j].client
      BY <2>6, <3>2
    <3>. QED
      BY <2>5, <3>1, <3>2 DEF From
  <2>. QED
    BY <2>8 DEF l
<1>. QED
  BY <1>1, <1>2, <1>4, <1>5, <1>7, <1>8, <1>9 DEF OInv, Owned

LEMMA OwnedStart == OwnerInit => OInv
<1>. SUFFICES ASSUME OwnerInit PROVE OInv
  OBVIOUS
<1>1. Owned
  BY DEF OwnerInit, Init, Owned, Present
<1>. QED
  BY <1>1, InvariantStart DEF OwnerInit, OInv

LEMMA OwnedInvariant == OwnerSpec => []OInv
<1>1. OInv /\ [OwnerNext]_ledgerVars => OInv'
  BY OwnedStep
<1>. QED
  BY <1>1, OwnedStart, PTL DEF OwnerSpec

(* A lease is lost to its client by that client's own packet only.         *)
LEMMA LeaseKeptStep ==
  ASSUME OInv, [OwnerNext]_ledgerVars, NEW i \in Ids,
         Present(i), leases[i].client \in Client,
         holder(leases', i) # holder(leases, i)
  PROVE  \/ \E t \in Tasks :
              /\ <<pc[t], items[t]>>' # <<pc[t], items[t]>>
              /\ pkt[t].client = leases[i].client
              /\ GivesUp(pkt[t], leases[i].address)
         \/ UNCHANGED <<pc, items>>
<1>1. /\ IInv /\ [Next]_vars /\ Owned /\ i \in issued
      /\ leases[i].client = owner[i]
      /\ leases \in [Ids -> Lease \cup {NoLease}] /\ leases'[i] # leases[i]
  BY OwnedStep, NetboxAssumption DEF OInv, Owned, IInv, TypeOK, Filed, holder
<1>2. ~ \E j \in Ids, new \in Lease : Creates(j, new)
  BY <1>1 DEF Creates
<1>3. ASSUME NEW t \in Tasks, NEW new \in Lease, acknowledge(t),
             Replaces(items[t][1].id, new), new.client = items[t][1].client
      PROVE  FALSE
  <2>1. 1 \in DOMAIN items[t]
    BY <1>1, <1>3, FirstCopy
  <2>2. items[t][1].id \in Ids /\ new.client = owner[items[t][1].id]
    BY <1>1, <1>3, <2>1, CopyFacts DEF Owned
  <2>3. items[t][1].id = i /\ leases'[i] = new /\ new # NoLease
    BY <1>1, <1>3, <2>2, NetboxAssumption DEF Replaces
  <2>. QED
    BY <1>1, <2>2, <2>3 DEF holder, Present
<1>4. ASSUME NEW t \in Tasks, NEW k \in Doomed(items[t], pkt[t]),
             NEW new \in Lease \cup {NoLease},
             delete(t) \/ decline(t), Replaces(items[t][k].id, new),
             <<pc[t], items[t]>>' # <<pc[t], items[t]>>
      PROVE  /\ pkt[t].client = leases[i].client
             /\ GivesUp(pkt[t], leases[i].address)
  <2>1. k \in DOMAIN items[t] /\ items[t][k].address \in given_up_addresses(pkt[t])
    BY DEF Doomed
  <2>2. /\ items[t][k].id \in Ids /\ Copied(items[t][k])
        /\ items[t][k].client = pkt[t].client
        /\ items[t][k].client = owner[items[t][k].id]
    BY <1>1, <2>1, CopyFacts DEF Owned
  <2>3. items[t][k].id = i
    BY <1>1, <1>4, <2>2 DEF Replaces
  <2>4. method(pkt[t]) \in {"release", "decline"}
    BY <1>1, <1>4 DEF delete, decline, IInv, TasksLocal, Local
  <2>. QED
    BY <1>1, <2>1, <2>2, <2>3, <2>4 DEF Copied, GivesUp, given_up_addresses
<1>. QED
  BY <1>1, <1>2, <1>3, <1>4, InvariantStep

(* The backend takes a lease from a client only for that client's own      *)
(* RELEASE or DECLINE of the address, however its requests interleave and  *)
(* fail: no copy, however old, is written back in another client's name.   *)
THEOREM NetboxLeaseKeptUnlessGivenUp == OwnerSpec => LeaseKeptUnlessGivenUp
<1>1. OInv /\ [OwnerNext]_ledgerVars =>
        [\A i \in Ids :
           /\ Present(i) /\ leases[i].client \in Client
           /\ holder(leases', i) # holder(leases, i)
           => \/ \E t \in Tasks :
                   /\ <<pc[t], items[t]>>' # <<pc[t], items[t]>>
                   /\ pkt[t].client = leases[i].client
                   /\ GivesUp(pkt[t], leases[i].address)
              \/ UNCHANGED <<pc, items>>]_vars
  BY LeaseKeptStep
<1>. QED
  BY <1>1, OwnedInvariant, PTL DEF OwnerSpec, LeaseKeptUnlessGivenUp
-----------------------------------------------------------------------------
(* The ledger: an address is the owner's of its only lease.                *)
Booked ==
  /\ tenantOf \in [Pool -> Client \cup {Nobody}] /\ declinedOf \subseteq Pool
  /\ \A i \in Ids : Present(i) =>
       /\ leases[i].address \in Pool
       /\ tenantOf[leases[i].address] = owner[i]
       /\ leases[i].address \in declinedOf <=> leases[i].client = Declined
  /\ \A a \in Pool : (\A i \in Ids : Present(i) => leases[i].address # a) =>
       tenantOf[a] = Nobody /\ a \notin declinedOf

LEMMA LedgerFacts == OInv => Booked
<1>. SUFFICES ASSUME OInv PROVE Booked
  OBVIOUS
<1>1. \A i \in Ids : Present(i) => /\ clientOf(i) = owner[i] /\ owner[i] \in Client
                                  /\ leases[i].address \in Pool
  BY DEF OInv, IInv, TypeOK, Filed, Owned, clientOf, Present, Lease
<1>2. \A i \in Ids : Present(i) => LeasesOf(leases[i].address) = {i}
  BY DEF OInv, IInv, AddressLeasedOnce, LeasesOf
<1>3. \A a \in Pool : \/ LeasesOf(a) = {}
                      \/ \E i \in Ids : /\ Present(i) /\ leases[i].address = a
                                       /\ LeasesOf(a) = {i}
  BY <1>2 DEF LeasesOf
<1>4. \A i \in Ids : Present(i) => tenantOf[leases[i].address] = owner[i]
  BY <1>1, <1>2 DEF tenantOf
<1>5. tenantOf \in [Pool -> Client \cup {Nobody}]
  <2>1. \A a \in Pool : tenantOf[a] \in Client \cup {Nobody}
    BY <1>1, <1>3, <1>4 DEF tenantOf
  <2>. QED
    BY <2>1 DEF tenantOf
<1>6. \A i \in Ids : Present(i) =>
        (leases[i].address \in declinedOf <=> leases[i].client = Declined)
  BY <1>1, <1>2 DEF declinedOf
<1>7. \A a \in Pool : (\A i \in Ids : Present(i) => leases[i].address # a) =>
        tenantOf[a] = Nobody /\ a \notin declinedOf
  BY <1>3 DEF tenantOf, declinedOf
<1>8. declinedOf \subseteq Pool
  BY DEF declinedOf
<1>. QED
  BY <1>1, <1>4, <1>5, <1>6, <1>7, <1>8 DEF Booked

LEMMA LedgerFactsLater ==
  ASSUME OInv' PROVE Booked'
<1>1. (OInv => Booked)'
  BY LedgerFacts, PTL
<1>. QED
  BY <1>1

(* A change that concerns address a only leaves the ledger's other pages   *)
(* alone.                                                                  *)
LEMMA OtherAddresses ==
  ASSUME OInv, OInv', NEW a \in Pool,
         \A i \in issued : owner'[i] = owner[i],
         \A i \in Ids : \/ leases'[i] = leases[i]
                       \/ /\ Present(i) => leases[i].address = a
                          /\ Present(i)' => leases'[i].address = a
  PROVE  /\ \A b \in Pool \ {a} : tenantOf'[b] = tenantOf[b]
         /\ \A b \in Pool \ {a} : b \in declinedOf' <=> b \in declinedOf
<1>. SUFFICES ASSUME NEW b \in Pool \ {a}
              PROVE  tenantOf'[b] = tenantOf[b] /\ (b \in declinedOf' <=> b \in declinedOf)
  OBVIOUS
<1>1. /\ \A i \in Ids : Present(i)' =>
           /\ tenantOf'[leases'[i].address] = owner'[i]
           /\ leases'[i].address \in declinedOf' <=> leases'[i].client = Declined
      /\ (\A i \in Ids : Present(i)' => leases'[i].address # b) =>
           tenantOf'[b] = Nobody /\ b \notin declinedOf'
  BY LedgerFactsLater DEF Booked
<1>2. CASE \E i \in Ids : Present(i) /\ leases[i].address = b
  <2>1. PICK i \in Ids : Present(i) /\ leases[i].address = b
    BY <1>2
  <2>2. leases'[i] = leases[i] /\ Present(i)' /\ owner'[i] = owner[i]
    BY <2>1 DEF Present, OInv, IInv, Filed
  <2>. QED
    BY <1>1, <2>1, <2>2, LedgerFacts DEF Booked
<1>3. CASE \A i \in Ids : Present(i) => leases[i].address # b
  <2>1. \A i \in Ids : Present(i)' => leases'[i].address # b
    BY <1>3 DEF Present
  <2>. QED
    BY <1>1, <1>3, <2>1, LedgerFacts DEF Booked
<1>. QED
  BY <1>2, <1>3

(* The abstract step that each step of the store takes.                    *)
LEMMA LedgerStep ==
  ASSUME OInv, [OwnerNext]_ledgerVars
  PROVE  [Ledger!LedgerNext]_(Ledger!ledger)
<1>1. /\ IInv /\ [Next]_vars /\ Owned /\ OInv'
      /\ \A i \in issued : owner'[i] = owner[i]
      /\ \A i \in Ids, new \in Lease : Creates(i, new) => owner'[i] = new.client
      /\ Booked /\ Booked' /\ Filed /\ issued \subseteq Ids
      /\ leases \in [Ids -> Lease \cup {NoLease}]
  BY OwnedStep, LedgerFacts, LedgerFactsLater DEF OInv, IInv, TypeOK
<1>2. ASSUME NEW a \in Pool,
             \A i \in Ids : \/ leases'[i] = leases[i]
                           \/ /\ Present(i) => leases[i].address = a
                              /\ Present(i)' => leases'[i].address = a
      PROVE  /\ tenantOf' = [tenantOf EXCEPT ![a] = tenantOf'[a]]
             /\ tenantOf'[a] = tenantOf[a] => tenantOf' = tenantOf
             /\ a \in declinedOf' => declinedOf' = declinedOf \cup {a}
             /\ a \notin declinedOf' => declinedOf' = declinedOf \ {a}
             /\ (a \in declinedOf' <=> a \in declinedOf) => declinedOf' = declinedOf
  <2>1. /\ \A b \in Pool \ {a} : tenantOf'[b] = tenantOf[b]
        /\ \A b \in Pool \ {a} : b \in declinedOf' <=> b \in declinedOf
    BY <1>1, <1>2, OtherAddresses DEF OInv
  <2>2. /\ tenantOf \in [Pool -> Client \cup {Nobody}] /\ declinedOf \subseteq Pool
        /\ tenantOf' \in [Pool -> Client \cup {Nobody}] /\ declinedOf' \subseteq Pool
    BY <1>1 DEF Booked
  <2>. QED
    BY <2>1, <2>2
<1>3. CASE UNCHANGED <<leases, issued>>
  <2>1. owner' = owner
    BY <1>1, <1>3 DEF OwnerNext, Remember, ledgerVars, Owned
  <2>. QED
    BY <1>3, <2>1 DEF Ledger!ledger, tenantOf, declinedOf, LeasesOf, clientOf, Present
<1>4. ASSUME NEW i \in Ids, NEW new \in Lease, Creates(i, new)
      PROVE  Ledger!LedgerNext
  <2>. DEFINE a == new.address
  <2>1. a \in Pool /\ new.client \in Client /\ leases'[i] = new /\ Present(i)'
    BY <1>1, <1>4, NetboxAssumption DEF Creates, Lease, Present
  <2>2. tenantOf[a] = Nobody /\ a \notin declinedOf
    BY <1>1, <1>4, <2>1 DEF Creates, Booked
  <2>3. tenantOf'[a] = new.client /\ a \notin declinedOf'
    <3>1. owner'[i] = new.client /\ new.client # Declined
      BY <1>1, <1>4 DEF Creates
    <3>2. /\ tenantOf'[leases'[i].address] = owner'[i]
          /\ leases'[i].address \in declinedOf' <=> leases'[i].client = Declined
      BY <1>1, <2>1 DEF Booked
    <3>. QED
      BY <2>1, <3>1, <3>2
  <2>4. \A j \in Ids : \/ leases'[j] = leases[j]
                      \/ /\ Present(j) => leases[j].address = a
                         /\ Present(j)' => leases'[j].address = a
    BY <1>1, <1>4, <2>1 DEF Creates, Filed
  <2>. HIDE DEF a
  <2>5. Ledger!Lend(a, new.client)
    BY <1>2, <2>1, <2>2, <2>3, <2>4 DEF Ledger!Lend
  <2>. QED
    BY <2>1, <2>5 DEF Ledger!LedgerNext
<1>5. ASSUME NEW i \in Ids, NEW new \in Lease \cup {NoLease}, Replaces(i, new),
             new # NoLease => new.client \in {owner[i], Declined}
      PROVE  Ledger!LedgerNext
  <2>. DEFINE a == leases[i].address
  <2>1. /\ a \in Pool /\ Present(i) /\ leases'[i] = new /\ owner'[i] = owner[i]
        /\ tenantOf[a] = owner[i] /\ owner[i] \in Client
    BY <1>1, <1>5 DEF Replaces, Booked, Filed, Owned
  <2>2. \A j \in Ids : \/ leases'[j] = leases[j]
                      \/ /\ Present(j) => leases[j].address = a
                         /\ Present(j)' => leases'[j].address = a
    BY <1>1, <1>5, <2>1 DEF Replaces, Present
  <2>3. CASE new = NoLease
    <3>1. \A j \in Ids : Present(j)' => leases'[j].address # a
      BY <1>1, <1>5, <2>1, <2>3 DEF Replaces, Present, IInv, AddressLeasedOnce
    <3>2. tenantOf'[a] = Nobody /\ a \notin declinedOf'
      BY <1>1, <2>1, <3>1 DEF Booked
    <3>. HIDE DEF a
    <3>3. Ledger!Vacate(a)
      BY <1>2, <2>1, <2>2, <3>2 DEF Ledger!Vacate
    <3>. QED
      BY <2>1, <3>3 DEF Ledger!LedgerNext
  <2>4. CASE new # NoLease
    <3>1. /\ Present(i)' /\ leases'[i].address = a
          /\ leases'[i].client \in {owner[i], Declined}
      BY <1>5, <2>1, <2>4 DEF Replaces, Present
    <3>2. /\ tenantOf'[a] = tenantOf[a] /\ tenantOf[a] # Nobody
          /\ a \in declinedOf' <=> new.client = Declined
      BY <1>1, <2>1, <3>1, NobodyAssumption DEF Booked
    <3>. HIDE DEF a
    <3>3. CASE new.client = Declined
      BY <1>2, <2>1, <2>2, <3>2, <3>3 DEF Ledger!LedgerNext, Ledger!Condemn
    <3>4. CASE new.client # Declined
      BY <1>2, <2>1, <2>2, <3>2, <3>4 DEF Ledger!LedgerNext, Ledger!Reinstate
    <3>. QED
      BY <3>3, <3>4
  <2>. QED
    BY <2>3, <2>4
<1>6. ASSUME NEW t \in Tasks, NEW new \in Lease, acknowledge(t),
             Replaces(items[t][1].id, new), new.client = items[t][1].client
      PROVE  Ledger!LedgerNext
  <2>1. 1 \in DOMAIN items[t]
    BY <1>1, <1>6, FirstCopy
  <2>2. items[t][1].id \in Ids /\ new.client = owner[items[t][1].id]
    BY <1>1, <1>6, <2>1, CopyFacts DEF Owned
  <2>. QED
    BY <1>5, <1>6, <2>2
<1>7. \A t \in Tasks : \A k \in Doomed(items[t], pkt[t]) : items[t][k].id \in Ids
  BY <1>1, CopyFacts DEF Doomed
<1>8. \A i \in Ids : Replaces(i, NoLease) => Ledger!LedgerNext
  BY <1>5
<1>. QED
  BY <1>1, <1>3, <1>4, <1>5, <1>6, <1>7, <1>8, InvariantStep

(* With an empty table every address is free.                              *)
LEMMA LedgerStart == OwnerInit => Ledger!LedgerInit
<1>. SUFFICES ASSUME OwnerInit PROVE Ledger!LedgerInit
  OBVIOUS
<1>1. \A i \in Ids : ~Present(i)
  BY DEF OwnerInit, Init, Present
<1>2. \A a \in Pool : LeasesOf(a) = {}
  BY <1>1 DEF LeasesOf
<1>. QED
  BY <1>2 DEF Ledger!LedgerInit, tenantOf, declinedOf

(* NetBox's table, read as a ledger, changes only as the ledger allows: an *)
(* address passes from one client to another only over being free, and     *)
(* who may have it back after a decline is the client that declined it.    *)
THEOREM NetboxImplementsLedger == OwnerSpec => ImplementsLedger
<1>1. OwnerInit => Ledger!LedgerInit
  BY LedgerStart
<1>2. OInv /\ [OwnerNext]_ledgerVars => [Ledger!LedgerNext]_(Ledger!ledger)
  BY LedgerStep
<1>. QED
  BY <1>1, <1>2, OwnedInvariant, PTL DEF OwnerSpec, ImplementsLedger, Ledger!LedgerSpec
=============================================================================
