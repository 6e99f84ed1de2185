-------------------------- MODULE NetboxServerProofs --------------------------
(***************************************************************************)
(* NetboxServer for any number of tasks, clients, leases and crashes.      *)
(*                                                                         *)
(* Every step of the server but a crash is a step of the store, so what    *)
(* NetboxStoreProofs shows of the store holds here as well, once a crash   *)
(* is seen to keep its invariant.  The promises come on top: a lease goes  *)
(* from a client only when the client gives it up or NetBox drops it, and  *)
(* then the promise goes with it, made already or about to be.             *)
(***************************************************************************)
EXTENDS NetboxServer, NetboxStoreProofs

(* The store's invariant.                                                  *)
StoreInv == OInv /\ Seeing

(* NetBox has a lease of address a for client c.                           *)
Leased(c, a) == \E i \in OwnIds(c) : leases[i].address = a

(* What a task is about to tell its client is so, also if the task is in   *)
(* overtaken, unless it is withdrawn.                                      *)
Backed == \A t \in Tasks \ withdrawn : \A q \in Told(t) : Leased(q[1], q[2])

Promised == promised \subseteq Client \X Pool /\ PromiseKept

PInv == StoreInv /\ Promised /\ Backed
-----------------------------------------------------------------------------
(* What the server does is what the store does, or a crash.                *)
LEMMA ServerStepIsStoreStep ==
  ASSUME [ServerNext]_serverVars
  PROVE  [OwnerNext]_ledgerVars \/ (Crash /\ Remember)
<1>1. CASE UNCHANGED serverVars
  BY <1>1 DEF serverVars
<1>2. ASSUME NEW t \in Tasks, NEW p \in Packets, NEW l \in Listeners, Datagram(t, p, l)
      PROVE  Next
  BY <1>2, NetboxServerAssumption DEF Datagram, Next
<1>3. ASSUME NEW t \in Tasks, InStore(t) \/ LateRequest(t)
      PROVE  Next
  BY <1>3 DEF InStore, LateRequest, Work, Next
<1>4. ASSUME NEW t \in Tasks, Respond(t) \/ FallSilent(t)
      PROVE  Next
  BY <1>4 DEF Respond, FallSilent, Next
<1>5. ASSUME NEW i \in Ids, Dropped(i)
      PROVE  Next
  BY <1>5 DEF Dropped, Next
<1>. QED
  BY <1>1, <1>2, <1>3, <1>4, <1>5 DEF ServerNext, ServerStep, OwnerNext

(* A crash leaves NetBox alone; a task whose request is on its way keeps   *)
(* what it needs for it, every other is done.                              *)
LEMMA CrashFacts ==
  ASSUME StoreInv, Crash, Remember
  PROVE  /\ UNCHANGED <<leases, issued, pkt, origin, overtaken, history, owner>>
         /\ pc' \in [Tasks -> Step] /\ items' \in [Tasks -> Seq(Lease)]
         /\ \A t \in Tasks :
              \/ pc[t] \in Writing /\ pc'[t] = pc[t] /\ items'[t] = items[t]
              \/ pc[t] = "idle" /\ pc'[t] = "idle" /\ items'[t] = <<>>
              \/ pc[t] # "idle" /\ pc'[t] = "failed" /\ items'[t] = <<>>
<1>1. /\ leases \in [Ids -> Lease \cup {NoLease}] /\ pc \in [Tasks -> Step]
      /\ items \in [Tasks -> Seq(Lease)] /\ owner \in [Ids -> Client \cup {Nobody}]
  BY DEF StoreInv, OInv, Owned, IInv, TypeOK
<1>2. UNCHANGED <<leases, issued, pkt, origin, overtaken, history>>
  BY DEF Crash
<1>3. owner' = owner
  BY <1>1, <1>2 DEF Remember
<1>4. \A t \in Tasks :
        /\ pc'[t] = IF pc[t] \in {"idle"} \cup Writing THEN pc[t] ELSE "failed"
        /\ items'[t] = IF pc[t] \in Writing THEN items[t] ELSE <<>>
  BY DEF Crash
<1>5. \A t \in Tasks : pc'[t] \in Step /\ items'[t] \in Seq(Lease)
  <2>1. <<>> \in Seq(Lease) /\ "failed" \in Step
    BY DEF Step, Result
  <2>. QED
    BY <1>1, <1>4, <2>1
<1>6. pc' \in [Tasks -> Step] /\ items' \in [Tasks -> Seq(Lease)]
  BY <1>5 DEF Crash
<1>. QED
  BY <1>2, <1>3, <1>4, <1>6 DEF Writing

LEMMA CrashStep ==
  ASSUME StoreInv, Crash, Remember
  PROVE  StoreInv'
<1>1. \A k \in DOMAIN <<>> : FALSE
  OBVIOUS
<1>2. TypeOK'
  BY CrashFacts DEF StoreInv, OInv, IInv, TypeOK, Writing
<1>3. AddressLeasedOnce' /\ Filed'
  BY CrashFacts DEF StoreInv, OInv, IInv, AddressLeasedOnce, Filed, Present
<1>4. ASSUME NEW t \in Tasks
      PROVE  /\ Local(t)' /\ (t \notin overtaken' => Undisturbed(t)' /\ Seen(t)')
             /\ \A k \in DOMAIN items'[t] : items'[t][k].client = owner'[items'[t][k].id]
  <2>1. /\ UNCHANGED <<leases, issued, pkt, origin, overtaken, owner>>
        /\ Local(t) /\ (t \notin overtaken => Undisturbed(t) /\ Seen(t))
        /\ \A k \in DOMAIN items[t] : items[t][k].client = owner[items[t][k].id]
    BY CrashFacts DEF StoreInv, OInv, IInv, TasksLocal, Held, Seeing, Owned
  <2>2. CASE pc'[t] = pc[t] /\ items'[t] = items[t]
    BY <2>1, <2>2 DEF Local, Copied, Undisturbed, Current, Seen, HasCopy, OwnIds,
                      OnSubnet, Present
  <2>3. CASE /\ pc'[t] \in {"idle", "failed"} /\ items'[t] = <<>>
             /\ (pc'[t] # "idle" => pc[t] # "idle")
    BY <1>1, <2>1, <2>3 DEF Local, Undisturbed, Seen
  <2>. QED
    BY <2>2, <2>3, CrashFacts
<1>5. TasksLocal' /\ Held' /\ Seeing'
  BY <1>4 DEF TasksLocal, Held, Seeing
<1>6. Owned'
  BY <1>4, CrashFacts DEF StoreInv, OInv, Owned, Present
<1>. QED
  BY <1>2, <1>3, <1>5, <1>6 DEF StoreInv, OInv, IInv

LEMMA StoreInvStep ==
  ASSUME StoreInv, [ServerNext]_serverVars
  PROVE  StoreInv'
<1>1. CASE [OwnerNext]_ledgerVars
  BY <1>1, OwnedStep, SeenStep DEF StoreInv, OInv
<1>2. CASE Crash /\ Remember
  BY <1>2, CrashStep
<1>. QED
  BY <1>1, <1>2, ServerStepIsStoreStep

LEMMA StoreInvStart == ServerInit => StoreInv
BY OwnedStart DEF ServerInit, OwnerInit, Init, StoreInv, Seeing, Seen

LEMMA StoreInvariant == ServerSpec => []StoreInv
<1>1. StoreInv /\ [ServerNext]_serverVars => StoreInv'
  BY StoreInvStep
<1>. QED
  BY <1>1, StoreInvStart, PTL DEF ServerSpec
-----------------------------------------------------------------------------
(* What the store's runs show holds of the server, whatever it crashes in. *)

(* An address has one lease, also when requests of a process that died     *)
(* reach NetBox after those of its successor.                              *)
THEOREM ServerAddressLeasedOnce == ServerSpec => []AddressLeasedOnce
<1>1. StoreInv => AddressLeasedOnce
  BY DEF StoreInv, OInv, IInv
<1>. QED
  BY <1>1, StoreInvariant, PTL

(* A grant that is about to be sent is in NetBox, after any crashes.       *)
THEOREM ServerGrantIsRecorded == ServerSpec => []GrantIsRecorded
<1>1. StoreInv => GrantIsRecorded
  BY GrantFacts DEF StoreInv, OInv
<1>. QED
  BY <1>1, StoreInvariant, PTL

(* A refusal or denial is what NetBox's table says, after any crashes.     *)
THEOREM ServerRefusalIsJustified == ServerSpec => []RefusalIsJustified
<1>1. StoreInv => RefusalIsJustified
  BY RefusalFacts DEF StoreInv, OInv, SInv
<1>. QED
  BY <1>1, StoreInvariant, PTL

(* A RELEASE or DECLINE that succeeds has removed all there is to remove,  *)
(* after any crashes.                                                      *)
THEOREM ServerRemovalIsComplete == ServerSpec => []RemovalIsComplete
<1>1. StoreInv => RemovalIsComplete
  BY RemovalFacts DEF StoreInv, OInv, SInv
<1>. QED
  BY <1>1, StoreInvariant, PTL

(* A crash changes no lease and sends nothing.                             *)
LEMMA CrashSendsNothing ==
  ASSUME Crash
  PROVE  UNCHANGED <<leases, issued>>
BY DEF Crash

(* A declined address comes back only by the PUT of a task that read the   *)
(* lease before, be it of this process or of one that died.                *)
THEOREM ServerDeclineUndoneOnlyByOverlap == ServerSpec => DeclineUndoneOnlyByOverlap
<1>1. StoreInv /\ [ServerNext]_serverVars =>
        [\A i \in Ids :
           /\ Present(i) /\ leases[i].client = Declined
           /\ Present(i)' /\ leases'[i].client # Declined
           => \E t \in overtaken : pc'[t] # pc[t]]_vars
  <2>. SUFFICES ASSUME StoreInv, [ServerNext]_serverVars, NEW i \in Ids,
                       Present(i), leases[i].client = Declined,
                       Present(i)', leases'[i].client # Declined
                PROVE  \E t \in overtaken : pc'[t] # pc[t]
    OBVIOUS
  <2>1. ~Crash
    BY CrashSendsNothing
  <2>2. [Next]_vars
    BY <2>1, ServerStepIsStoreStep DEF OwnerNext, Remember, ledgerVars
  <2>. QED
    BY <2>2, DeclineUndoneStep DEF StoreInv, OInv
<1>. QED
  BY <1>1, StoreInvariant, PTL DEF ServerSpec, DeclineUndoneOnlyByOverlap

(* A client loses a lease only by its own RELEASE or DECLINE, whatever     *)
(* crashes and whatever arrives late.                                      *)
THEOREM ServerLeaseKeptUnlessGivenUp == ServerSpec => LeaseKeptUnlessGivenUp
<1>1. StoreInv /\ [ServerNext]_serverVars =>
        [\A i \in Ids :
           /\ Present(i) /\ leases[i].client \in Client
           /\ holder(leases', i) # holder(leases, i)
           => \/ \E t \in Tasks :
                   /\ <<pc[t], items[t]>>' # <<pc[t], items[t]>>
                   /\ pkt[t].client = leases[i].client
                   /\ GivesUp(pkt[t], leases[i].address)
              \/ UNCHANGED <<pc, items>>]_vars
  <2>. SUFFICES ASSUME StoreInv, [ServerNext]_serverVars, NEW i \in Ids,
                       Present(i), leases[i].client \in Client,
                       holder(leases', i) # holder(leases, i)
                PROVE  \/ \E t \in Tasks :
                            /\ <<pc[t], items[t]>>' # <<pc[t], items[t]>>
                            /\ pkt[t].client = leases[i].client
                            /\ GivesUp(pkt[t], leases[i].address)
                       \/ UNCHANGED <<pc, items>>
    OBVIOUS
  <2>1. ~Crash
    BY CrashSendsNothing
  <2>. QED
    BY <2>1, ServerStepIsStoreStep, LeaseKeptStep DEF StoreInv
<1>. QED
  BY <1>1, StoreInvariant, PTL DEF ServerSpec, LeaseKeptUnlessGivenUp

(* A client gets a second lease on a subnet only if two of its packets     *)
(* were handled at once, the dead process's included.                      *)
THEOREM ServerNewLeaseOnlyIfNone == ServerSpec => NewLeaseOnlyIfNone
<1>1. StoreInv =>
        \A t \in Tasks : pc[t] = "post" =>
          t \in overtaken \/ OnSubnet(pkt[t].client, origin[t]) = {}
  BY DEF StoreInv, Seeing, Seen
<1>2. StoreInv /\ [ServerNext]_serverVars =>
        [\A t \in Tasks :
           pc[t] = "post" /\ issued' # issued /\ pc'[t] # "post"
             => t \in overtaken \/ OnSubnet(pkt[t].client, origin[t]) = {}]_vars
  BY <1>1
<1>. QED
  BY <1>2, StoreInvariant, PTL DEF ServerSpec, NewLeaseOnlyIfNone

(* NetBox's table stays a ledger over crashes and late requests: no        *)
(* address passes from one client to another without being free first.     *)
THEOREM ServerImplementsLedger == ServerSpec => ImplementsLedger
<1>1. ServerInit => Ledger!LedgerInit
  BY LedgerStart DEF ServerInit
<1>2. StoreInv /\ [ServerNext]_serverVars => [Ledger!LedgerNext]_(Ledger!ledger)
  <2>. SUFFICES ASSUME StoreInv, [ServerNext]_serverVars
                PROVE  [Ledger!LedgerNext]_(Ledger!ledger)
    OBVIOUS
  <2>1. CASE [OwnerNext]_ledgerVars
    BY <2>1, LedgerStep DEF StoreInv
  <2>2. CASE Crash /\ Remember
    <3>1. UNCHANGED <<leases, owner>>
      BY <2>2, CrashFacts
    <3>. QED
      BY <3>1 DEF Ledger!ledger, tenantOf, declinedOf, LeasesOf, clientOf, Present
  <2>. QED
    BY <2>1, <2>2, ServerStepIsStoreStep
<1>. QED
  BY <1>1, <1>2, StoreInvariant, PTL DEF ServerSpec, ImplementsLedger, Ledger!LedgerSpec
-----------------------------------------------------------------------------
(* A client's address is taken from it only by a task that is to give it   *)
(* up.                                                                     *)
LEMMA WorkKeepsLease ==
  ASSUME StoreInv, NEW t \in Tasks, Work(t), NEW c \in Client, NEW a, Leased(c, a)
  PROVE  \/ Leased(c, a)'
         \/ /\ pc[t] \in {"delete", "decline"} /\ c = pkt[t].client
            /\ a \in given_up_addresses(pkt[t])
<1>1. /\ IInv /\ Owned /\ leases \in [Ids -> Lease \cup {NoLease}]
      /\ Filed /\ Declined \notin Client
  BY NetboxAssumption DEF StoreInv, OInv, IInv, TypeOK
<1>2. PICK i \in Ids : Present(i) /\ leases[i].client = c /\ leases[i].address = a
  BY DEF Leased, OwnIds
<1>3. i \in issued /\ c = owner[i]
  BY <1>1, <1>2 DEF Filed, Owned
<1>4. leases'[i] = leases[i] => Leased(c, a)'
  BY <1>2 DEF Leased, OwnIds, Present
<1>5. ASSUME get_page(t) \/ get_lease(t) \/ renew_lease(t) \/ delete_lease(t)
               \/ decline_lease(t) \/ RequestFails(t)
      PROVE  leases' = leases
  BY <1>5 DEF get_page, get_lease, renew_lease, delete_lease, decline_lease, Choose,
              RequestFails
<1>6. CASE post(t)
  <2>1. PICK j \in Ids, new \in Lease : Creates(j, new)
    BY <1>1, <1>6, PostStep
  <2>2. leases'[i] = leases[i]
    BY <1>1, <1>3, <2>1 DEF Creates
  <2>. QED
    BY <1>4, <2>2
<1>7. CASE acknowledge(t)
  <2>1. PICK new \in Lease : /\ Replaces(items[t][1].id, new)
                             /\ new.client = items[t][1].client
    BY <1>1, <1>7, AcknowledgeStep
  <2>2. 1 \in DOMAIN items[t]
    BY <1>1, <1>7, FirstCopy
  <2>3. items[t][1].id \in Ids /\ new.client = owner[items[t][1].id] /\ new # NoLease
    BY <1>1, <2>1, <2>2, CopyFacts, NetboxAssumption DEF Owned
  <2>4. CASE items[t][1].id = i
    <3>1. leases'[i] = new /\ new.client = c /\ new.address = a
      BY <1>1, <1>2, <1>3, <2>1, <2>3, <2>4 DEF Replaces
    <3>. QED
      BY <1>2, <2>3, <3>1 DEF Leased, OwnIds, Present
  <2>5. CASE items[t][1].id # i
    BY <1>1, <1>4, <2>1, <2>3, <2>5 DEF Replaces
  <2>. QED
    BY <2>4, <2>5
<1>8. CASE delete(t) \/ decline(t)
  <2>1. PICK k \in Doomed(items[t], pkt[t]), new \in Lease \cup {NoLease} :
          Replaces(items[t][k].id, new)
    BY <1>1, <1>8, RemoveStep
  <2>2. k \in DOMAIN items[t] /\ items[t][k].address \in given_up_addresses(pkt[t])
    BY DEF Doomed
  <2>3. /\ items[t][k].id \in Ids /\ Copied(items[t][k])
        /\ items[t][k].client = pkt[t].client
        /\ items[t][k].client = owner[items[t][k].id]
    BY <1>1, <2>2, CopyFacts DEF Owned
  <2>4. pc[t] \in {"delete", "decline"}
    BY <1>8 DEF delete, decline
  <2>5. CASE items[t][k].id = i
    BY <1>2, <1>3, <2>2, <2>3, <2>4, <2>5 DEF Copied
  <2>6. CASE items[t][k].id # i
    BY <1>1, <1>4, <2>1, <2>3, <2>6 DEF Replaces
  <2>. QED
    BY <2>5, <2>6
<1>. QED
  BY <1>4, <1>5, <1>6, <1>7, <1>8 DEF Work

(* A task of the store works on its own copies.                            *)
LEMMA WorkFrame ==
  ASSUME StoreInv, NEW t \in Tasks, Work(t)
  PROVE  /\ pkt' = pkt
         /\ \A u \in Tasks \ {t} : pc'[u] = pc[u] /\ items'[u] = items[u]
<1>1. pc \in [Tasks -> Step] /\ items \in [Tasks -> Seq(Lease)]
  BY DEF StoreInv, OInv, IInv, TypeOK
<1>2. CASE \/ get_page(t) \/ get_lease(t) \/ renew_lease(t) \/ delete_lease(t)
           \/ decline_lease(t) \/ RequestFails(t)
  BY <1>1, <1>2 DEF get_page, get_lease, renew_lease, delete_lease, decline_lease,
                    Choose, RequestFails
<1>3. CASE acknowledge(t) \/ delete(t) \/ decline(t)
  BY <1>1, <1>3 DEF acknowledge, delete, decline, Replace, Proceed, ProceedWithRest
<1>4. CASE post(t)
  BY <1>1, <1>4 DEF post, Proceed
<1>. QED
  BY <1>2, <1>3, <1>4 DEF Work

(* A grant is a request that wrote the lease of its answer to NetBox.      *)
LEMMA GrantWrites ==
  ASSUME StoreInv, NEW t \in Tasks, Work(t), pc'[t] = "granted"
  PROVE  \E new \in Lease : /\ items'[t] = <<new>> /\ new.client = pkt[t].client
                            /\ leases'[new.id] = new
<1>1. /\ IInv /\ pc \in [Tasks -> Step] /\ items \in [Tasks -> Seq(Lease)]
      /\ leases \in [Ids -> Lease \cup {NoLease}]
  BY DEF StoreInv, OInv, IInv, TypeOK
<1>2. acknowledge(t) \/ post(t)
  <2>1. \/ get_page(t) \/ get_lease(t) \/ renew_lease(t) \/ delete_lease(t)
        \/ decline_lease(t) \/ RequestFails(t)
        => pc'[t] # "granted"
    BY <1>1 DEF get_page, get_lease, renew_lease, delete_lease, decline_lease,
                Choose, RequestFails
  <2>2. delete(t) \/ decline(t) => pc'[t] # "granted"
    BY <1>1 DEF delete, decline, ProceedWithRest, Proceed
  <2>. QED
    BY <2>1, <2>2 DEF Work
<1>3. CASE acknowledge(t)
  <2>. DEFINE l == Head(items[t])
              new == [update_from_packet(l, pkt[t]) EXCEPT !.acknowledged = TRUE]
  <2>1. 1 \in DOMAIN items[t] /\ l = items[t][1]
    BY <1>1, <1>3, FirstCopy
  <2>2. l \in Lease /\ l.id \in Ids /\ pkt[t] \in Packets
    BY <1>1, <2>1, CopyFacts
  <2>3. new \in Lease /\ new.id = l.id /\ new.client = pkt[t].client
    BY <2>2, MethodFacts DEF update_from_packet, Lease
  <2>4. leases' = [leases EXCEPT ![l.id] = new] /\ Proceed(t, "granted", <<new>>)
    BY <1>3 DEF acknowledge, Replace
  <2>. HIDE DEF new, l
  <2>5. items'[t] = <<new>>
    BY <1>1, <2>4 DEF Proceed
  <2>6. leases'[new.id] = new
    BY <1>1, <2>2, <2>3, <2>4
  <2>. QED
    BY <2>3, <2>5, <2>6
<1>4. CASE post(t)
  <2>1. PICK i \in Ids \ issued, a \in Pool :
          LET new == [id |-> i, client |-> pkt[t].client, address |-> a,
                      acknowledged |-> FALSE]
          IN  /\ leases' = [leases EXCEPT ![i] = new]
              /\ Proceed(t, "granted", <<new>>)
    BY <1>4, Zenon DEF post
  <2>. DEFINE new == [id |-> i, client |-> pkt[t].client, address |-> a,
                      acknowledged |-> FALSE]
  <2>2. pkt[t] \in Packets
    BY <1>1, <1>4 DEF post, IInv, TasksLocal, Local
  <2>3. new \in Lease /\ new.id = i /\ new.client = pkt[t].client
    BY <2>2, MethodFacts DEF Lease
  <2>4. leases' = [leases EXCEPT ![i] = new] /\ Proceed(t, "granted", <<new>>)
    BY <2>1
  <2>. HIDE DEF new
  <2>5. items'[t] = <<new>>
    BY <1>1, <2>4 DEF Proceed
  <2>6. leases'[new.id] = new
    BY <1>1, <2>3, <2>4
  <2>. QED
    BY <2>3, <2>5, <2>6
<1>. QED
  BY <1>2, <1>3, <1>4

(* What a task tells is about a client and an address there are.           *)
LEMMA ToldFacts ==
  ASSUME StoreInv, NEW t \in Tasks, NEW q \in Told(t)
  PROVE  /\ pc[t] = "granted" /\ q = <<pkt[t].client, items[t][1].address>>
         /\ q \in Client \X Pool
<1>1. pc[t] = "granted" /\ q = <<pkt[t].client, items[t][1].address>>
  BY DEF Told, Yiaddr
<1>2. IInv /\ items[t] \in Seq(Lease) /\ items[t] # <<>>
  BY <1>1 DEF StoreInv, OInv, IInv, TypeOK
<1>3. 1 \in DOMAIN items[t]
  BY <1>2
<1>4. items[t][1] \in Lease /\ pkt[t] \in Packets
  BY <1>2, <1>3, CopyFacts
<1>. QED
  BY <1>1, <1>4, MethodFacts DEF Lease

(* A step of the store keeps every lease it does not withdraw.             *)
LEMMA WorkWithdraws ==
  ASSUME StoreInv, NEW t \in Tasks, Work(t), NEW q \in Client \X Pool,
         Leased(q[1], q[2]), q \notin GivenUp(t)
  PROVE  Leased(q[1], q[2])'
<1>1. q = <<q[1], q[2]>> /\ q[1] \in Client
  OBVIOUS
<1>2. ~(/\ pc[t] \in {"delete", "decline"} /\ q[1] = pkt[t].client
        /\ q[2] \in given_up_addresses(pkt[t]))
  BY <1>1 DEF GivenUp
<1>3. \A c \in Client : \A a : Leased(c, a) =>
        \/ Leased(c, a)'
        \/ /\ pc[t] \in {"delete", "decline"} /\ c = pkt[t].client
           /\ a \in given_up_addresses(pkt[t])
  BY WorkKeepsLease
<1>. QED
  BY <1>1, <1>2, <1>3

(* What tasks are about to tell stays so over a step of the store, or is   *)
(* withdrawn.                                                              *)
LEMMA WorkBacked ==
  ASSUME StoreInv, Backed, NEW t \in Tasks, Work(t), Withdraw(GivenUp(t))
  PROVE  Backed'
<1>. SUFFICES ASSUME NEW u \in Tasks, u \notin withdrawn', NEW q \in Told(u)'
              PROVE  Leased(q[1], q[2])'
  BY DEF Backed
<1>1. pc'[u] = "granted" /\ q = <<pkt'[u].client, items'[u][1].address>>
  BY DEF Told, Yiaddr
<1>2. CASE u = t
  <2>1. PICK new \in Lease : /\ items'[t] = <<new>> /\ new.client = pkt[t].client
                             /\ leases'[new.id] = new
    BY <1>1, <1>2, GrantWrites
  <2>2. pkt'[t].client = pkt[t].client /\ items'[t][1] = new
    BY <2>1, WorkFrame
  <2>3. q[1] = new.client /\ q[2] = new.address
    BY <1>1, <1>2, <2>1, <2>2
  <2>4. new.id \in Ids /\ new # NoLease
    BY NetboxAssumption DEF Lease
  <2>. QED
    BY <2>1, <2>3, <2>4 DEF Leased, OwnIds, Present
<1>3. CASE u # t
  <2>1. pc'[u] = pc[u] /\ items'[u] = items[u] /\ pkt'[u] = pkt[u]
    BY <1>3, WorkFrame
  <2>2. q \in Told(u)
    BY <1>1, <2>1 DEF Told, Yiaddr
  <2>3. u \notin withdrawn /\ q \notin GivenUp(t)
    BY <2>2 DEF Withdraw
  <2>4. Leased(q[1], q[2]) /\ q \in Client \X Pool
    BY <2>2, <2>3, ToldFacts DEF Backed
  <2>. QED
    BY <2>3, <2>4, WorkWithdraws
<1>. QED
  BY <1>2, <1>3

(* When NetBox drops a lease, all who were told of it, or are about to be, *)
(* are withdrawn from.                                                     *)
LEMMA DroppedKeeps ==
  ASSUME StoreInv, NEW i \in Ids, Dropped(i), NEW q \in Client \X Pool,
         Leased(q[1], q[2]), q \notin Client \X {leases[i].address}
  PROVE  Leased(q[1], q[2])'
<1>1. leases' = [leases EXCEPT ![i] = NoLease] /\ leases \in [Ids -> Lease \cup {NoLease}]
  BY DEF Dropped, Purge, StoreInv, OInv, IInv, TypeOK
<1>2. PICK j \in OwnIds(q[1]) : leases[j].address = q[2]
  BY DEF Leased
<1>3. j # i /\ j \in Ids
  BY <1>2 DEF OwnIds
<1>4. leases'[j] = leases[j]
  BY <1>1, <1>3
<1>. QED
  BY <1>2, <1>4 DEF Leased, OwnIds, Present

LEMMA BackedStep ==
  ASSUME PInv, [ServerNext]_serverVars
  PROVE  Backed'
<1>1. /\ StoreInv /\ Backed
      /\ pc \in [Tasks -> Step] /\ items \in [Tasks -> Seq(Lease)]
      /\ pkt \in [Tasks -> Packets \cup {NoPacket}]
  BY DEF PInv, StoreInv, OInv, IInv, TypeOK
<1>2. ASSUME leases' = leases,
             \A t \in Tasks :
               \/ pc'[t] # "granted"
               \/ /\ pc'[t] = pc[t] /\ pkt'[t] = pkt[t] /\ items'[t] = items[t]
                  /\ t \notin withdrawn' => t \notin withdrawn
      PROVE  Backed'
  <2>1. ASSUME NEW t \in Tasks, t \notin withdrawn', NEW q \in Told(t)'
        PROVE  Leased(q[1], q[2])
    <3>1. q \in Told(t) /\ t \notin withdrawn
      BY <1>2, <2>1 DEF Told, Yiaddr
    <3>. QED
      BY <1>1, <2>1, <3>1 DEF Backed
  <2>2. \A c, b : Leased(c, b) => Leased(c, b)'
    BY <1>2 DEF Leased, OwnIds, Present
  <2>. QED
    BY <2>1, <2>2 DEF Backed
<1>3. ASSUME NEW t \in Tasks, InStore(t) \/ LateRequest(t)
      PROVE  Backed'
  BY <1>1, <1>3, WorkBacked DEF InStore, LateRequest, Work
<1>4. ASSUME NEW t \in Tasks, Respond(t) \/ FallSilent(t)
      PROVE  Backed'
  <2>1. /\ leases' = leases /\ pc' = [pc EXCEPT ![t] = "idle"]
        /\ pkt' = [pkt EXCEPT ![t] = NoPacket] /\ items' = [items EXCEPT ![t] = <<>>]
        /\ withdrawn' = withdrawn \ {t}
    BY <1>4 DEF Respond, FallSilent, Return
  <2>2. ASSUME NEW u \in Tasks
        PROVE  \/ pc'[u] # "granted"
               \/ /\ pc'[u] = pc[u] /\ pkt'[u] = pkt[u] /\ items'[u] = items[u]
                  /\ u \notin withdrawn' => u \notin withdrawn
    BY <1>1, <2>1
  <2>. QED
    BY <1>2, <2>1, <2>2
<1>5. ASSUME NEW t \in Tasks, NEW p \in Packets, NEW l \in Listeners, Datagram(t, p, l)
      PROVE  Backed'
  <2>1. /\ leases' = leases /\ withdrawn' = withdrawn /\ items' = items
        /\ pc' = [pc EXCEPT ![t] = IF method(p) = "none" THEN "failed" ELSE "list"]
        /\ pkt' = [pkt EXCEPT ![t] = p]
    BY <1>5 DEF Datagram, Call, history
  <2>2. ASSUME NEW u \in Tasks
        PROVE  \/ pc'[u] # "granted"
               \/ /\ pc'[u] = pc[u] /\ pkt'[u] = pkt[u] /\ items'[u] = items[u]
                  /\ u \notin withdrawn' => u \notin withdrawn
    BY <1>1, <2>1
  <2>. QED
    BY <1>2, <2>1, <2>2
<1>6. ASSUME NEW i \in Ids, Dropped(i)
      PROVE  Backed'
  <2>1. UNCHANGED <<pc, pkt, items>> /\ Withdraw(Client \X {leases[i].address})
    BY <1>6 DEF Dropped, Purge
  <2>2. ASSUME NEW u \in Tasks, u \notin withdrawn', NEW q \in Told(u)
        PROVE  Leased(q[1], q[2])'
    <3>1. u \notin withdrawn /\ q \notin Client \X {leases[i].address}
      BY <2>1, <2>2 DEF Withdraw
    <3>2. q \in Client \X Pool /\ Leased(q[1], q[2])
      BY <1>1, <2>2, <3>1, ToldFacts DEF Backed
    <3>. QED
      BY <1>1, <1>6, <3>1, <3>2, DroppedKeeps
  <2>. QED
    BY <2>1, <2>2 DEF Backed, Told, Yiaddr
<1>7. CASE Crash
  <2>1. leases' = leases /\ \A u \in Tasks : pc'[u] # "granted"
    BY <1>7 DEF Crash, Writing
  <2>. QED
    BY <1>2, <2>1
<1>8. CASE UNCHANGED serverVars
  BY <1>2, <1>8 DEF serverVars, ledgerVars, vars, history
<1>. QED
  BY <1>3, <1>4, <1>5, <1>6, <1>7, <1>8 DEF ServerNext, ServerStep
-----------------------------------------------------------------------------
LEMMA PromiseStep ==
  ASSUME PInv, [ServerNext]_serverVars
  PROVE  Promised'
<1>1. /\ StoreInv /\ Backed /\ promised \subseteq Client \X Pool
      /\ \A q \in promised \ late : Leased(q[1], q[2])
  BY DEF PInv, Promised, PromiseKept, Leased
<1>2. ASSUME promised' \subseteq Client \X Pool,
             \A q \in promised' \ late' : Leased(q[1], q[2])'
      PROVE  Promised'
  BY <1>2 DEF Promised, PromiseKept, Leased
<1>3. ASSUME leases' = leases, promised' = promised, late' = late
      PROVE  Promised'
  BY <1>1, <1>2, <1>3 DEF Leased, OwnIds, Present
<1>4. ASSUME NEW ended, Withdraw(ended),
             \A q \in promised \ late :
               Leased(q[1], q[2]) /\ q \notin ended => Leased(q[1], q[2])'
      PROVE  Promised'
  <2>1. /\ promised' \subseteq promised
        /\ \A q \in promised' \ late' : q \in promised \ late /\ q \notin ended
    BY <1>4 DEF Withdraw
  <2>. QED
    BY <1>1, <1>2, <1>4, <2>1
<1>5. ASSUME NEW t \in Tasks, InStore(t) \/ LateRequest(t)
      PROVE  Promised'
  <2>1. Work(t) /\ Withdraw(GivenUp(t))
    BY <1>5 DEF InStore, LateRequest, Work
  <2>. QED
    BY <1>1, <1>4, <2>1, WorkWithdraws
<1>6. ASSUME NEW t \in Tasks, Respond(t)
      PROVE  Promised'
  <2>1. /\ leases' = leases /\ promised' = promised \cup Told(t)
        /\ late' = IF t \in withdrawn THEN late \cup Told(t) ELSE late \ Told(t)
    BY <1>6 DEF Respond, Return
  <2>2. promised' \subseteq Client \X Pool
    BY <1>1, <2>1, ToldFacts
  <2>3. ASSUME NEW q \in promised' \ late'
        PROVE  Leased(q[1], q[2])
    <3>1. CASE q \in Told(t)
      BY <1>1, <2>1, <2>3, <3>1 DEF Backed
    <3>2. CASE q \notin Told(t)
      BY <1>1, <2>1, <2>3, <3>2
    <3>. QED
      BY <3>1, <3>2
  <2>. QED
    BY <1>2, <2>1, <2>2, <2>3 DEF Leased, OwnIds, Present
<1>7. ASSUME NEW i \in Ids, Dropped(i)
      PROVE  Promised'
  <2>1. Withdraw(Client \X {leases[i].address})
    BY <1>7 DEF Dropped
  <2>. QED
    BY <1>1, <1>4, <1>7, <2>1, DroppedKeeps
<1>8. ASSUME NEW t \in Tasks, NEW p \in Packets, NEW l \in Listeners, Datagram(t, p, l)
      PROVE  Promised'
  BY <1>3, <1>8 DEF Datagram, Call, history
<1>9. ASSUME NEW t \in Tasks, FallSilent(t)
      PROVE  Promised'
  BY <1>3, <1>9 DEF FallSilent, Return
<1>10. CASE Crash
  BY <1>3, <1>10 DEF Crash, history
<1>11. CASE UNCHANGED serverVars
  BY <1>3, <1>11 DEF serverVars, ledgerVars, vars, history
<1>. QED
  BY <1>5, <1>6, <1>7, <1>8, <1>9, <1>10, <1>11 DEF ServerNext, ServerStep

LEMMA PromiseInvariant == ServerSpec => []PInv
<1>1. ServerInit => PInv
  BY StoreInvStart DEF ServerInit, OwnerInit, Init, PInv, Promised, PromiseKept,
                       Backed, Told
<1>2. PInv /\ [ServerNext]_serverVars => PInv'
  BY PromiseStep, BackedStep, StoreInvStep DEF PInv
<1>. QED
  BY <1>1, <1>2, PTL DEF ServerSpec

(* Every OFFER and ACK that is sent, whoever overtook its task, speaks of  *)
(* a lease NetBox has for the client, and goes on to be true until the     *)
(* client gives the lease up or NetBox drops it: over crashes, restarts,   *)
(* requests that arrive late or never, and all other packets.  False from  *)
(* the start is only what the client itself gave up, or NetBox dropped,    *)
(* after the lease was written and before the answer was sent.             *)
THEOREM ServerPromiseKept == ServerSpec => []PromiseKept
<1>1. PInv => PromiseKept
  BY DEF PInv, Promised
<1>. QED
  BY <1>1, PromiseInvariant, PTL

(* Nobody is denied, or left without an answer about, the address on its   *)
(* subnet that it was promised, not late, and names.                       *)
THEOREM ServerNoFalseDenial == ServerSpec => []NoFalseDenial
<1>1. PInv => NoFalseDenial
  <2>. SUFFICES ASSUME PInv, NEW t \in Tasks, pc[t] \in {"mismatch", "refused"},
                       t \notin overtaken,
                       NEW q \in promised \ late, q[1] = pkt[t].client,
                       Named(pkt[t]) = {q[2]},
                       same_subnet(q[2], compare_ip(pkt[t], origin[t]))
                PROVE  FALSE
    BY DEF NoFalseDenial
  <2>1. PICK i \in OwnIds(q[1]) : leases[i].address = q[2]
    BY DEF PInv, Promised, PromiseKept
  <2>2. i \in OnSubnet(pkt[t].client, compare_ip(pkt[t], origin[t]))
    BY <2>1 DEF OnSubnet
  <2>3. RefusalIsJustified
    BY RefusalFacts DEF PInv, StoreInv, OInv, SInv
  <2>. QED
    BY <2>1, <2>2, <2>3 DEF RefusalIsJustified
<1>. QED
  BY <1>1, PromiseInvariant, PTL

(* Every OFFER, ACK and NAK has somewhere to go, and goes where its client *)
(* can hear it, unless NetBox leases 0.0.0.0 itself.                       *)
THEOREM ServerReplyReachesClient ==
  ASSUME Unspecified \notin Pool
  PROVE  ServerSpec => []ReplyReachesClient
<1>1. StoreInv => ReplyReachesClient
  <2>. SUFFICES ASSUME StoreInv, NEW t \in Tasks, pc[t] \in {"granted", "mismatch"}
                PROVE  LET req == pkt[t]  rep == Answer(t)  dest == Destination(t) IN
                       IF Specified(req.giaddr) THEN dest = [ip |-> req.giaddr, port |-> 67]
                       ELSE IF rep.type = "NegAcknowledge" \/ ~Specified(req.ciaddr)
                            THEN dest = [ip |-> Broadcast, port |-> 68]
                            ELSE dest = [ip |-> req.ciaddr, port |-> 68]
                                 /\ (req.type = "Request" => rep.yiaddr = req.ciaddr)
    BY DEF ReplyReachesClient
  <2>. DEFINE p == pkt[t]
              r == Answer(t)
              dest == determine_response_dest(p, r)
  <2>1. Destination(t) = dest
    BY DEF Destination
  <2>2. ASSUME Specified(p.giaddr)
        PROVE  dest = [ip |-> p.giaddr, port |-> 67]
    BY <2>2 DEF determine_response_dest
  <2>3. ASSUME ~Specified(p.giaddr), r.type = "NegAcknowledge"
        PROVE  dest = [ip |-> Broadcast, port |-> 68]
    BY <2>3 DEF determine_response_dest
  <2>4. ASSUME ~Specified(p.giaddr), r.type # "NegAcknowledge", Specified(p.ciaddr)
        PROVE  dest = [ip |-> p.ciaddr, port |-> 68]
    BY <2>4 DEF determine_response_dest
  <2>5. ASSUME ~Specified(p.giaddr), r.type # "NegAcknowledge", ~Specified(p.ciaddr),
               Specified(r.yiaddr)
        PROVE  dest = [ip |-> Broadcast, port |-> 68]
    BY <2>5 DEF determine_response_dest
  <2>6. CASE pc[t] = "mismatch"
    <3>1. r = nak(p)
      BY <2>6 DEF Answer, reply_to
    <3>2. r.type = "NegAcknowledge"
      BY <3>1 DEF nak
    <3>. QED
      BY <2>1, <2>2, <2>3, <3>2
  <2>7. CASE pc[t] = "granted"
    <3>1. /\ r = response(p, items[t][1].address, via[t])
      BY <2>7 DEF Answer, reply_to, Yiaddr
    <3>2. r.type = reply_type(p) /\ r.yiaddr = items[t][1].address
      BY <3>1 DEF response
    <3>3. r.type # "NegAcknowledge"
      BY <3>2 DEF reply_type
    <3>4. items[t] \in Seq(Lease) /\ items[t] # <<>> /\ Local(t)
      BY <2>7 DEF StoreInv, OInv, IInv, TypeOK, TasksLocal
    <3>5. items[t][1] \in Lease
      BY <3>4
    <3>6. Specified(r.yiaddr)
      BY <3>2, <3>5 DEF Lease, Specified
    <3>7. p.type = "Request" /\ Specified(p.ciaddr) => r.yiaddr = p.ciaddr
      BY <2>7, <3>2, <3>4 DEF Local, asks_for
    <3>. HIDE DEF p, r, dest
    <3>. QED
      BY <2>1, <2>2, <2>4, <2>5, <3>3, <3>6, <3>7 DEF p, r
  <2>. QED
    BY <2>6, <2>7
<1>. QED
  BY <1>1, StoreInvariant, PTL
=============================================================================
