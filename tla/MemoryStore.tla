----------------------------- MODULE MemoryStore -----------------------------
(***************************************************************************)
(* backends/memory.rs: the in-memory lease table and the DhcpStore methods *)
(* the server calls on it.                                                 *)
(*                                                                         *)
(* The table is an Arc<Mutex<HashMap>>.  No method holds the mutex for     *)
(* longer than one of the DatabaseMethods, and get_unused_ip_addr takes it *)
(* anew for every address, so one action here is at most one critical      *)
(* section.  The methods run in the tokio tasks the listeners spawn, one   *)
(* per datagram; a task of Tasks is one such task, reused once its         *)
(* datagram is dealt with.                                                 *)
(***************************************************************************)
EXTENDS Packet, FiniteSets

CONSTANTS Tasks,         \* tasks that can be inside the store at once
          Packets,       \* the packets that can arrive
          Origins,       \* what the server passes as recv_ip
          ScopeLo,       \* scope[0]
          ScopeHi,       \* scope[1], which get_unused_ip_addr leaves out
          SubnetSize,    \* addresses of one subnet, from subnet_mask
          Configured,    \* option codes the configuration gives a value
          LeaseDuration, \* 60 * 60 seconds, in ticks
          MaxTime,       \* bound on the clock
          NoLease, NoPacket

Scope == ScopeLo .. ScopeHi - 1

Lease == [xid : Xid, yiaddr : Addr, lease_time : Nat, options : SUBSET Code]

ASSUME StoreAssumption ==
  /\ Packets \subseteq DhcpPacket
  /\ Origins \subseteq Addr
  /\ ScopeLo \in Nat
  /\ ScopeHi \in Nat
  /\ Scope \subseteq Addr
  /\ SubnetSize \in Nat \ {0}
  /\ Configured \subseteq Code
  /\ LeaseDuration \in Nat \ {0}
  /\ MaxTime \in Nat
  /\ NoLease \notin Lease
  /\ NoPacket \notin DhcpPacket

VARIABLES db,      \* the table: the lease of each address, or NoLease
          now,     \* Utc::now()
          pc,      \* where each task is
          pkt,     \* the packet it works on
          origin,  \* its recv_ip argument
          ip,      \* the address it is looking at
          lease,   \* its copy of a lease
          (* History, read by no action:                                   *)
          overtaken, \* tasks whose address was changed after they read it
          freeSince, \* scope addresses free ever since the task's call
          offered    \* <<address, xid>> pairs a DISCOVER has stored

real    == <<db, now, pc, pkt, origin, ip, lease>>
history == <<overtaken, freeSince, offered>>
vars    == <<db, now, pc, pkt, origin, ip, lease, overtaken, freeSince, offered>>

Result == {"granted", "refused", "failed", "finished"}

Step == {"idle", "scan", "lookup", "lookup_xid", "stamp", "store",
         "remove", "evict"} \cup Result

-----------------------------------------------------------------------------
is_current(l) == now < l.lease_time + LeaseDuration

contains_key(a) == db[a] # NoLease

(* process_params: an option is answered when it was asked for and is      *)
(* configured.  There is no arm for the subnet mask: response() adds that  *)
(* option to the reply, and the lease in the table never has it.           *)
DefaultParams == {"SubnetMask", "Router", "DomainServer"}

process_params(codes) == (codes \cap Configured) \ {"SubnetMask"}

requested_params(p) == IF p.params = {} THEN DefaultParams ELSE p.params

same_subnet(a, b) == a \div SubnetSize = b \div SubnetSize

(* A wrong renewed_ip, for TypeOK: without the fall back to ciaddr.        *)
renewed_ip_requested(p) == p.requested

(* The address a REQUEST in RENEWING or REBINDING is about.                *)
renewed_ip(p) == IF has_requested(p) THEN p.requested ELSE p.ciaddr

(* Steps between reading an address in the table and acting on it.         *)
Holding == {"stamp", "store", "remove", "evict"}

(* The bookkeeping of a critical section in which t changed the entry of a.*)
Overtake(t, a) ==
  overtaken' = overtaken \cup
    {u \in Tasks \ {t} : pc[u] \in Holding /\ ip[u] = a /\ db'[a] # db[a]}

-----------------------------------------------------------------------------
Init ==
  /\ db = [a \in Addr |-> NoLease]
  /\ now = 0
  /\ pc = [t \in Tasks |-> "idle"]
  /\ pkt = [t \in Tasks |-> NoPacket]
  /\ origin = [t \in Tasks |-> Unspecified]
  /\ ip = [t \in Tasks |-> Unspecified]
  /\ lease = [t \in Tasks |-> NoLease]
  /\ overtaken = {}
  /\ freeSince = [t \in Tasks |-> {}]
  /\ offered = {}

(* Task t takes up packet p and goes on at step, looking at address a.     *)
Begin(t, p, o, step, a) ==
  /\ pc[t] = "idle"
  /\ pc' = [pc EXCEPT ![t] = step]
  /\ pkt' = [pkt EXCEPT ![t] = p]
  /\ origin' = [origin EXCEPT ![t] = o]
  /\ ip' = [ip EXCEPT ![t] = a]
  /\ freeSince' = [freeSince EXCEPT ![t] = {b \in Scope : ~contains_key(b)}]
  /\ UNCHANGED <<db, now, lease, overtaken, offered>>

(* A wrong handle_discover, for NoSpuriousRefusal: scope[0] is left out,   *)
(* as scope[1] is.                                                         *)
handle_discover_exclusive(t, p, o) ==
  method(p) = "discover" /\ Begin(t, p, o, "scan", ScopeLo + 1)

handle_discover(t, p, o) ==
  method(p) = "discover" /\ Begin(t, p, o, "scan", ScopeLo)

handle_request_selecting(t, p, o) ==
  /\ method(p) = "selecting"
  /\ Begin(t, p, o, "lookup", p.requested)

handle_request_init_reboot(t, p, o) ==
  /\ method(p) = "init_reboot"
  /\ Begin(t, p, o, IF Specified(p.requested) THEN "lookup" ELSE "failed",
           p.requested)

handle_request_renewing(t, p, o) ==
  /\ method(p) \in {"renewing", "rebinding"}
  /\ Begin(t, p, o, IF Specified(renewed_ip(p)) THEN "lookup" ELSE "failed",
           renewed_ip(p))

handle_release(t, p, o) ==
  method(p) = "release" /\ Begin(t, p, o, "remove", p.yiaddr)

handle_decline(t, p, o) ==
  method(p) = "decline" /\ Begin(t, p, o, "lookup_xid", Unspecified)

(* handle_inform is not implemented; the rest never reaches the store.     *)
handle_other(t, p, o) ==
  method(p) \in {"inform", "none"} /\ Begin(t, p, o, "failed", Unspecified)

Call(t, p, o) ==
  /\ pc[t] = "idle"
  /\ \/ handle_discover(t, p, o)
     \/ handle_request_selecting(t, p, o)
     \/ handle_request_init_reboot(t, p, o)
     \/ handle_request_renewing(t, p, o)
     \/ handle_release(t, p, o)
     \/ handle_decline(t, p, o)
     \/ handle_other(t, p, o)

-----------------------------------------------------------------------------
(* The steps of handle_discover.                                           *)

(* A wrong ScanTaken, for CallReturns: the loop does not advance.          *)
ScanStays(t) ==
  /\ pc[t] = "scan" /\ ip[t] \in Scope /\ contains_key(ip[t])
  /\ UNCHANGED vars

(* get_unused_ip_addr, one address under the mutex: taken, or found.       *)
ScanTaken(t) ==
  /\ pc[t] = "scan" /\ ip[t] \in Scope /\ contains_key(ip[t])
  /\ ip' = [ip EXCEPT ![t] = @ + 1]
  /\ UNCHANGED <<db, now, pc, pkt, origin, lease, history>>

ScanFree(t) ==
  /\ pc[t] = "scan" /\ ip[t] \in Scope /\ ~contains_key(ip[t])
  /\ pc' = [pc EXCEPT ![t] = "stamp"]
  /\ UNCHANGED <<db, now, pkt, origin, ip, lease, history>>

(* A wrong Expired, for LeaseTakenOnlyByOverlap and ImplementsAddressBook: *)
(* is_current is not asked.                                                *)
ExpiredOrNot == {a \in Addr : contains_key(a)}

Expired == {a \in Addr : contains_key(a) /\ ~is_current(db[a])}

(* get_exprired_lease_ip_addr, once the scope is exhausted: some expired   *)
(* lease, in the order of the HashMap.                                     *)
ReclaimExpired(t) ==
  /\ pc[t] = "scan" /\ ip[t] \notin Scope
  /\ \E a \in Expired : ip' = [ip EXCEPT ![t] = a]
  /\ pc' = [pc EXCEPT ![t] = "stamp"]
  /\ UNCHANGED <<db, now, pkt, origin, lease, history>>

RefuseDiscover(t) ==
  /\ pc[t] = "scan" /\ ip[t] \notin Scope
  /\ Expired = {}
  /\ pc' = [pc EXCEPT ![t] = "refused"]
  /\ UNCHANGED <<db, now, pkt, origin, ip, lease, history>>

(* The new lease, and the instant Lease::default() puts in it.             *)
BuildLease(t) ==
  /\ pc[t] = "stamp" /\ method(pkt[t]) = "discover"
  /\ lease' = [lease EXCEPT ![t] =
       [xid |-> pkt[t].xid, yiaddr |-> ip[t], lease_time |-> now,
        options |-> process_params(requested_params(pkt[t]))]]
  /\ pc' = [pc EXCEPT ![t] = "store"]
  /\ UNCHANGED <<db, now, pkt, origin, ip, history>>

-----------------------------------------------------------------------------
(* get_lease_for_ip and what each REQUEST does with the lease it finds.    *)
LookUp(t, states, next) ==
  /\ method(pkt[t]) \in states
  /\ pc' = [pc EXCEPT ![t] = next]
  /\ lease' = [lease EXCEPT ![t] = db[ip[t]]]
  /\ UNCHANGED <<db, now, pkt, origin, ip, history>>

LookUpMissing(t) ==
  /\ pc[t] = "lookup" /\ ~contains_key(ip[t])
  /\ LookUp(t, {"selecting", "init_reboot", "renewing", "rebinding"}, "refused")

(* A wrong LookUpSelecting, for GrantMatchesRequest: xid is not compared.  *)
LookUpSelectingAny(t) ==
  /\ pc[t] = "lookup" /\ contains_key(ip[t])
  /\ LookUp(t, {"selecting"}, "granted")

LookUpSelecting(t) ==
  /\ pc[t] = "lookup" /\ contains_key(ip[t])
  /\ LookUp(t, {"selecting"},
            IF db[ip[t]].xid = pkt[t].xid THEN "granted" ELSE "refused")

(* A lease without a subnet mask option is an error; otherwise a client on *)
(* another network loses the entry, and in both cases the lease is stored. *)
LookUpInitReboot(t) ==
  /\ pc[t] = "lookup" /\ contains_key(ip[t])
  /\ LookUp(t, {"init_reboot"},
            IF "SubnetMask" \notin db[ip[t]].options THEN "failed"
            ELSE IF same_subnet(ip[t], origin[t]) THEN "stamp" ELSE "evict")

LookUpRenewing(t) ==
  /\ pc[t] = "lookup" /\ contains_key(ip[t])
  /\ LookUp(t, {"renewing", "rebinding"}, "stamp")

(* A wrong RefreshLease, for TableConsistent: lease_time becomes the       *)
(* expiry instead of the start of the lease.                               *)
RefreshToExpiry(t) ==
  /\ pc[t] = "stamp" /\ method(pkt[t]) # "discover"
  /\ lease' = [lease EXCEPT ![t].lease_time = now + LeaseDuration]
  /\ pc' = [pc EXCEPT ![t] = "store"]
  /\ UNCHANGED <<db, now, pkt, origin, ip, history>>

RefreshLease(t) ==
  /\ pc[t] = "stamp" /\ method(pkt[t]) # "discover"
  /\ lease' = [lease EXCEPT ![t].lease_time = now]
  /\ pc' = [pc EXCEPT ![t] = "store"]
  /\ UNCHANGED <<db, now, pkt, origin, ip, history>>

store_lease(t) ==
  /\ pc[t] = "store"
  /\ db' = [db EXCEPT ![lease[t].yiaddr] = lease[t]]
  /\ pc' = [pc EXCEPT ![t] = "granted"]
  /\ Overtake(t, lease[t].yiaddr)
  /\ freeSince' = [u \in Tasks |-> freeSince[u] \ {lease[t].yiaddr}]
  /\ offered' = IF method(pkt[t]) = "discover"
                THEN offered \cup {<<lease[t].yiaddr, lease[t].xid>>}
                ELSE offered
  /\ UNCHANGED <<now, pkt, origin, ip, lease>>

-----------------------------------------------------------------------------
(* A wrong OfXid, for LeaseTakenOnlyByOverlap: xid is not compared.        *)
OfAnyXid(x) == {a \in Addr : contains_key(a)}

(* get_lease_for_xid: some lease of the transaction, in HashMap order.     *)
OfXid(x) == {a \in Addr : contains_key(a) /\ db[a].xid = x}

LookUpXid(t) ==
  /\ pc[t] = "lookup_xid"
  /\ \E a \in OfXid(pkt[t].xid) :
       /\ ip' = [ip EXCEPT ![t] = db[a].yiaddr]
       /\ lease' = [lease EXCEPT ![t] = db[a]]
  /\ pc' = [pc EXCEPT ![t] = "remove"]
  /\ UNCHANGED <<db, now, pkt, origin, history>>

LookUpXidMissing(t) ==
  /\ pc[t] = "lookup_xid" /\ OfXid(pkt[t].xid) = {}
  /\ pc' = [pc EXCEPT ![t] = "finished"]
  /\ UNCHANGED <<db, now, pkt, origin, ip, lease, history>>

(* remove_lease: the end of a RELEASE or DECLINE, or the middle of an      *)
(* INIT-REBOOT.                                                            *)
remove_lease(t) ==
  /\ pc[t] \in {"remove", "evict"}
  /\ db' = [db EXCEPT ![ip[t]] = NoLease]
  /\ pc' = [pc EXCEPT ![t] = IF pc[t] = "remove" THEN "finished" ELSE "stamp"]
  /\ Overtake(t, ip[t])
  /\ UNCHANGED <<now, pkt, origin, ip, lease, freeSince, offered>>

-----------------------------------------------------------------------------
(* The method's result goes back to process_packet_data.                   *)
Return(t) ==
  /\ pc[t] \in Result
  /\ pc' = [pc EXCEPT ![t] = "idle"]
  /\ pkt' = [pkt EXCEPT ![t] = NoPacket]
  /\ origin' = [origin EXCEPT ![t] = Unspecified]
  /\ ip' = [ip EXCEPT ![t] = Unspecified]
  /\ lease' = [lease EXCEPT ![t] = NoLease]
  /\ overtaken' = overtaken \ {t}
  /\ freeSince' = [freeSince EXCEPT ![t] = {}]
  /\ UNCHANGED <<db, now, offered>>

Tick ==
  /\ now < MaxTime
  /\ now' = now + 1
  /\ UNCHANGED <<db, pc, pkt, origin, ip, lease, history>>

Work(t) ==
  \/ ScanTaken(t)
  \/ ScanFree(t)
  \/ ReclaimExpired(t)
  \/ RefuseDiscover(t)
  \/ BuildLease(t)
  \/ LookUpMissing(t)
  \/ LookUpSelecting(t)
  \/ LookUpInitReboot(t)
  \/ LookUpRenewing(t)
  \/ RefreshLease(t)
  \/ store_lease(t)
  \/ LookUpXid(t)
  \/ LookUpXidMissing(t)
  \/ remove_lease(t)

Next ==
  \/ \E t \in Tasks : \/ \E p \in Packets, o \in Origins : Call(t, p, o)
                      \/ Work(t)
                      \/ Return(t)
  \/ Tick

Spec == Init /\ [][Next]_vars

(* tokio runs every ready task, and no task keeps the mutex.               *)
Fairness == \A t \in Tasks : WF_vars(Work(t) \/ Return(t))

FairSpec == Spec /\ Fairness

-----------------------------------------------------------------------------
(* The type of every variable.  ip runs one past the scope while scanning. *)
TypeOK ==
  /\ db \in [Addr -> Lease \cup {NoLease}]
  /\ now \in Nat
  /\ pc \in [Tasks -> Step]
  /\ pkt \in [Tasks -> Packets \cup {NoPacket}]
  /\ origin \in [Tasks -> Addr]
  /\ ip \in [Tasks -> Nat]
  /\ lease \in [Tasks -> Lease \cup {NoLease}]
  /\ overtaken \subseteq Tasks
  /\ freeSince \in [Tasks -> SUBSET Scope]
  /\ offered \subseteq Addr \X Xid

(* The table only ever holds leases the server itself offered: inside the  *)
(* scope, filed under the address they carry, not from the future, and     *)
(* still of the transaction whose DISCOVER created them, however many      *)
(* renewals wrote an older copy back.                                      *)
TableConsistent ==
  \A a \in Addr : contains_key(a) =>
    /\ a \in Scope
    /\ db[a].yiaddr = a
    /\ db[a].lease_time <= now
    /\ <<a, db[a].xid>> \in offered

(* A DISCOVER is answered "no lease available" only if every address of    *)
(* the scope was taken at some moment of its call, although the mutex is   *)
(* released between any two addresses that get_unused_ip_addr looks at.    *)
NoSpuriousRefusal ==
  \A t \in Tasks :
    pc[t] = "refused" /\ method(pkt[t]) = "discover" => freeSince[t] = {}

(* A method that succeeds hands back a lease the server has offered.  For  *)
(* DISCOVER and SELECTING it is the lease of the packet's own transaction, *)
(* and for every REQUEST it is the address the client asked for.           *)
GrantMatchesRequest ==
  \A t \in Tasks : pc[t] = "granted" =>
    /\ <<lease[t].yiaddr, lease[t].xid>> \in offered
    /\ method(pkt[t]) \in {"discover", "selecting"}
          => lease[t].xid = pkt[t].xid
    /\ method(pkt[t]) = "selecting" => lease[t].yiaddr = pkt[t].requested
    /\ method(pkt[t]) \in {"renewing", "rebinding"}
          => lease[t].yiaddr = renewed_ip(pkt[t])

(* The entry of a ceases to protect its holder: it goes, passes to another *)
(* transaction, or its expiry moves back.                                  *)
Loses(a) ==
  /\ contains_key(a)
  /\ is_current(db[a])
  /\ \/ db'[a] = NoLease
     \/ db'[a].xid # db[a].xid
     \/ db'[a].lease_time < db[a].lease_time

(* The ways a task may make that happen.                                   *)
MayTake(t, a) ==
  \/ t \in overtaken
  \/ method(pkt[t]) = "release" /\ pkt[t].yiaddr = a
  \/ method(pkt[t]) = "decline" /\ pkt[t].xid = db[a].xid

(* A lease that is current is never lost, except through a RELEASE that    *)
(* names its address, a DECLINE of its own transaction, or a task that     *)
(* read the entry before another task changed it (the store does not look  *)
(* again before it writes).  Without such an overlap no interleaving gives *)
(* an address that is in use to somebody else.                             *)
LeaseTakenOnlyByOverlap ==
  [][\A a \in Addr :
       Loses(a) => \E t \in Tasks : pc'[t] # pc[t] /\ MayTake(t, a)]_vars

(* Every call of the store returns: the scan passes each address once, and *)
(* no step waits for another task.                                         *)
CallReturns == \A t \in Tasks : pc[t] # "idle" ~> pc[t] = "idle"
=============================================================================
