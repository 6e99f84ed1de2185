-------------------------- MODULE MemoryStoreProofs --------------------------
(***************************************************************************)
(* The safety properties of MemoryStore for every number of tasks, every   *)
(* scope and every set of packets.                                         *)
(*                                                                         *)
(* The inductive invariant has four parts besides the types: what is in    *)
(* the table, what a task knows at each of its steps, what the scan has    *)
(* established, and what still holds of the entry a task has read as long  *)
(* as nobody overtook it.  The last is what the refinement rests on.       *)
(***************************************************************************)
EXTENDS MemoryStoreRefinement, TLAPS

(* The table: TableConsistent, and no lease has a subnet mask option, which*)
(* is what keeps an INIT-REBOOT from going past its lookup.                *)
Table ==
  /\ TableConsistent
  /\ \A a \in Addr : contains_key(a) => "SubnetMask" \notin db[a].options

(* A REQUEST is about the address the client asked for.                    *)
AskedFor(t) ==
  /\ ip[t] \in Addr
  /\ method(pkt[t]) \in {"selecting", "init_reboot", "renewing", "rebinding"}
  /\ method(pkt[t]) \in {"selecting", "init_reboot"} => ip[t] = pkt[t].requested
  /\ method(pkt[t]) \in {"renewing", "rebinding"} => ip[t] = renewed_ip(pkt[t])

(* The lease a task has built or read.                                     *)
Copy(t) ==
  /\ lease[t] \in Lease
  /\ lease[t].yiaddr = ip[t]
  /\ ip[t] \in Scope
  /\ lease[t].lease_time <= now
  /\ "SubnetMask" \notin lease[t].options
  /\ \/ method(pkt[t]) = "discover"
     \/ AskedFor(t) /\ <<ip[t], lease[t].xid>> \in offered
  /\ method(pkt[t]) \in {"discover", "selecting"} => lease[t].xid = pkt[t].xid
  /\ pc[t] = "granted" => <<ip[t], lease[t].xid>> \in offered

Local(t) ==
  /\ pc[t] # "idle" => pkt[t] \in Packets
  /\ pc[t] = "scan" => method(pkt[t]) = "discover" /\ ScopeLo <= ip[t]
  /\ pc[t] = "lookup" => AskedFor(t)
  /\ pc[t] = "lookup_xid" => method(pkt[t]) = "decline"
  /\ pc[t] = "remove" =>
       /\ ip[t] \in Addr
       /\ \/ method(pkt[t]) = "decline"
          \/ method(pkt[t]) = "release" /\ ip[t] = pkt[t].yiaddr
  /\ pc[t] # "evict"
  /\ pc[t] = "stamp" /\ method(pkt[t]) = "discover" => ip[t] \in Scope
  /\ pc[t] = "stamp" /\ method(pkt[t]) # "discover" => Copy(t)
  /\ pc[t] \in {"store", "granted"} => Copy(t)

TasksLocal == \A t \in Tasks : Local(t)

(* freeSince says what its name says, and the scan has left it behind.     *)
Scanned ==
  \A t \in Tasks :
    /\ \A a \in freeSince[t] : db[a] = NoLease
    /\ pc[t] = "scan" => \A a \in freeSince[t] : ip[t] <= a
    /\ pc[t] = "refused" /\ method(pkt[t]) = "discover" => freeSince[t] = {}

(* What a task read about its address still holds unless it was overtaken. *)
Undisturbed(t) ==
  /\ pc[t] \in {"stamp", "store"} /\ method(pkt[t]) = "discover"
     /\ contains_key(ip[t]) => ~is_current(db[ip[t]])
  /\ pc[t] \in {"stamp", "store"} /\ method(pkt[t]) # "discover" =>
       /\ contains_key(ip[t])
       /\ db[ip[t]].xid = lease[t].xid
       /\ db[ip[t]].lease_time <= lease[t].lease_time
  /\ pc[t] = "remove" /\ method(pkt[t]) = "decline" =>
       contains_key(ip[t]) /\ db[ip[t]].xid = pkt[t].xid

Held == \A t \in Tasks : t \notin overtaken => Undisturbed(t)

IInv == TypeOK /\ Table /\ TasksLocal /\ Scanned /\ Held
-----------------------------------------------------------------------------
USE DEF vars, history

(* What the choice of the method says of the packet.                       *)
LEMMA MethodFacts ==
  ASSUME NEW p \in Packets
  PROVE  /\ p \in DhcpPacket
         /\ method(p) = "selecting" => p.requested \in Addr
         /\ method(p) = "init_reboot" => p.requested \in Addr
         /\ method(p) \in {"renewing", "rebinding"} => renewed_ip(p) \in Addr
         /\ p.xid \in Xid /\ p.yiaddr \in Addr
<1>1. p \in DhcpPacket
  BY StoreAssumption
<1>2. method(p) \in {"selecting", "init_reboot"} => has_requested(p)
  BY DEF method, client_state, IsSelecting, IsInitReboot, IsRenewing, IsRebinding
<1>. QED
  BY <1>1, <1>2 DEF DhcpPacket, has_requested, renewed_ip

(* Scope addresses are addresses, and the bounds are numbers.              *)
LEMMA ScopeFacts ==
  /\ Scope \subseteq Addr
  /\ Addr \subseteq Nat
  /\ ScopeLo \in Nat
  /\ \A a \in Nat : a \in Scope <=> ScopeLo <= a /\ a < ScopeHi
BY AddrAssumption, StoreAssumption DEF Scope

(* Where each method starts, and on which address.                         *)
Starts(t, p, o, step, a) ==
  /\ Begin(t, p, o, step, a)
  /\ step = "scan" => method(p) = "discover" /\ a = ScopeLo
  /\ step = "lookup" =>
       /\ a \in Addr
       /\ method(p) \in {"selecting", "init_reboot", "renewing", "rebinding"}
       /\ method(p) \in {"selecting", "init_reboot"} => a = p.requested
       /\ method(p) \in {"renewing", "rebinding"} => a = renewed_ip(p)
  /\ step = "lookup_xid" => method(p) = "decline"
  /\ step = "remove" => method(p) = "release" /\ a = p.yiaddr /\ a \in Addr

(* Begin sets one task up and leaves the table alone.                      *)
LEMMA BeginFacts ==
  ASSUME NEW t \in Tasks, NEW p \in Packets, NEW o \in Origins, Call(t, p, o)
  PROVE  \E step \in {"scan", "lookup", "lookup_xid", "remove", "failed"},
            a \in Addr \cup {ScopeLo} :
           Starts(t, p, o, step, a)
<1>1. CASE handle_discover(t, p, o)
  BY <1>1 DEF handle_discover, Starts
<1>2. CASE handle_request_selecting(t, p, o)
  BY <1>2, MethodFacts DEF handle_request_selecting, Starts
<1>3. CASE handle_request_init_reboot(t, p, o)
  <2>1. CASE Specified(p.requested)
    BY <1>3, <2>1, MethodFacts DEF handle_request_init_reboot, Starts
  <2>2. CASE ~Specified(p.requested)
    BY <1>3, <2>2, MethodFacts DEF handle_request_init_reboot, Starts
  <2>. QED BY <2>1, <2>2
<1>4. CASE handle_request_renewing(t, p, o)
  <2>1. CASE Specified(renewed_ip(p))
    BY <1>4, <2>1, MethodFacts DEF handle_request_renewing, Starts
  <2>2. CASE ~Specified(renewed_ip(p))
    BY <1>4, <2>2, MethodFacts DEF handle_request_renewing, Starts
  <2>. QED BY <2>1, <2>2
<1>5. CASE handle_release(t, p, o)
  BY <1>5, MethodFacts DEF handle_release, Starts
<1>6. CASE handle_decline(t, p, o)
  BY <1>6, AddrAssumption DEF handle_decline, Starts, Unspecified
<1>7. CASE handle_other(t, p, o)
  BY <1>7, AddrAssumption DEF handle_other, Starts, Unspecified
<1>. QED
  BY <1>1, <1>2, <1>3, <1>4, <1>5, <1>6, <1>7 DEF Call

(* A lease built by handle_discover is a lease.                            *)
LEMMA ParamsFacts ==
  ASSUME NEW p \in Packets
  PROVE  /\ process_params(requested_params(p)) \subseteq Code
         /\ "SubnetMask" \notin process_params(requested_params(p))
BY StoreAssumption DEF process_params
-----------------------------------------------------------------------------
(* The initial state is well typed.                                        *)
LEMMA TypeInit == Init => TypeOK
BY AddrAssumption, StoreAssumption
DEF Init, TypeOK, Step, Unspecified

(* Every call leaves the variables well typed.                             *)
LEMMA TypeCall ==
  ASSUME TypeOK, NEW t \in Tasks, NEW p \in Packets, NEW o \in Origins,
         Call(t, p, o)
  PROVE  TypeOK'
<1>1. PICK step \in {"scan", "lookup", "lookup_xid", "remove", "failed"},
           a \in Addr \cup {ScopeLo} : Begin(t, p, o, step, a)
  BY BeginFacts DEF Starts
<1>2. a \in Nat /\ step \in Step /\ o \in Addr
  BY ScopeFacts, StoreAssumption DEF Step, Result
<1>. QED
  BY <1>1, <1>2 DEF Begin, TypeOK

(* Every step leaves the variables well typed.                             *)
LEMMA TypeStep == TypeOK /\ TasksLocal /\ [Next]_vars => TypeOK'
<1>. SUFFICES ASSUME TypeOK, TasksLocal, [Next]_vars PROVE TypeOK'
  OBVIOUS
<1>1. ASSUME NEW t \in Tasks, NEW p \in Packets, NEW o \in Origins, Call(t, p, o)
      PROVE  TypeOK'
  BY <1>1, TypeCall
<1>2. ASSUME NEW t \in Tasks, ScanTaken(t) PROVE TypeOK'
  BY <1>2, ScopeFacts DEF ScanTaken, TypeOK
<1>3. ASSUME NEW t \in Tasks, ScanFree(t) PROVE TypeOK'
  BY <1>3 DEF ScanFree, TypeOK, Step
<1>4. ASSUME NEW t \in Tasks, ReclaimExpired(t) PROVE TypeOK'
  BY <1>4, ScopeFacts DEF ReclaimExpired, Expired, TypeOK, Step
<1>5. ASSUME NEW t \in Tasks, RefuseDiscover(t) PROVE TypeOK'
  BY <1>5 DEF RefuseDiscover, TypeOK, Step, Result
<1>6. ASSUME NEW t \in Tasks, BuildLease(t) PROVE TypeOK'
  <2>1. pkt[t] \in Packets /\ ip[t] \in Addr
    BY <1>6, ScopeFacts DEF BuildLease, TasksLocal, Local
  <2>. QED
    BY <1>6, <2>1, MethodFacts, ParamsFacts DEF BuildLease, TypeOK, Step, Lease
<1>7. ASSUME NEW t \in Tasks, NEW states, NEW next \in Step,
             pc[t] = "lookup", LookUp(t, states, next)
      PROVE  TypeOK'
  <2>1. ip[t] \in Addr
    BY <1>7 DEF TasksLocal, Local, AskedFor
  <2>. QED
    BY <1>7, <2>1 DEF LookUp, TypeOK
<1>8. ASSUME NEW t \in Tasks, LookUpMissing(t) PROVE TypeOK'
  BY <1>7, <1>8 DEF LookUpMissing, Step, Result
<1>9. ASSUME NEW t \in Tasks, LookUpSelecting(t) PROVE TypeOK'
  BY <1>7, <1>9 DEF LookUpSelecting, Step, Result
<1>10. ASSUME NEW t \in Tasks, LookUpInitReboot(t) PROVE TypeOK'
  BY <1>7, <1>10 DEF LookUpInitReboot, Step, Result
<1>11. ASSUME NEW t \in Tasks, LookUpRenewing(t) PROVE TypeOK'
  BY <1>7, <1>11 DEF LookUpRenewing, Step, Result
<1>12. ASSUME NEW t \in Tasks, RefreshLease(t) PROVE TypeOK'
  <2>1. lease[t] \in Lease
    BY <1>12 DEF RefreshLease, TasksLocal, Local, Copy
  <2>. QED
    BY <1>12, <2>1 DEF RefreshLease, TypeOK, Step, Lease
<1>13. ASSUME NEW t \in Tasks, store_lease(t) PROVE TypeOK'
  <2>1. lease[t] \in Lease
    BY <1>13 DEF store_lease, TasksLocal, Local, Copy
  <2>. QED
    BY <1>13, <2>1 DEF store_lease, Overtake, TypeOK, Step, Result, Lease
<1>14. ASSUME NEW t \in Tasks, LookUpXid(t) PROVE TypeOK'
  <2>1. PICK a \in OfXid(pkt[t].xid) : /\ ip' = [ip EXCEPT ![t] = db[a].yiaddr]
                                       /\ lease' = [lease EXCEPT ![t] = db[a]]
    BY <1>14 DEF LookUpXid
  <2>2. db[a] \in Lease /\ db[a].yiaddr \in Nat
    BY ScopeFacts DEF OfXid, contains_key, TypeOK, Lease
  <2>. QED
    BY <1>14, <2>1, <2>2 DEF LookUpXid, TypeOK, Step
<1>15. ASSUME NEW t \in Tasks, LookUpXidMissing(t) PROVE TypeOK'
  BY <1>15 DEF LookUpXidMissing, TypeOK, Step, Result
<1>16. ASSUME NEW t \in Tasks, remove_lease(t) PROVE TypeOK'
  BY <1>16 DEF remove_lease, Overtake, TypeOK, Step, Result
<1>17. ASSUME NEW t \in Tasks, Return(t) PROVE TypeOK'
  BY <1>17, AddrAssumption DEF Return, TypeOK, Step, Unspecified
<1>18. CASE Tick
  BY <1>18 DEF Tick, TypeOK
<1>19. CASE UNCHANGED vars
  BY <1>19 DEF TypeOK
<1>. QED
  BY <1>1, <1>2, <1>3, <1>4, <1>5, <1>6, <1>8, <1>9, <1>10, <1>11, <1>12, <1>13,
     <1>14, <1>15, <1>16, <1>17, <1>18, <1>19 DEF Next, Work
-----------------------------------------------------------------------------
(* Only store_lease and remove_lease write the table, and only             *)
(* store_lease records an offer.                                           *)
LEMMA QuietStep ==
  ASSUME [Next]_vars,
         \A t \in Tasks : ~store_lease(t) /\ ~remove_lease(t)
  PROVE  db' = db /\ offered' = offered
<1>1. ASSUME NEW t \in Tasks, NEW p \in Packets, NEW o \in Origins, Call(t, p, o)
      PROVE  db' = db /\ offered' = offered
  BY <1>1, BeginFacts DEF Starts, Begin
<1>2. ASSUME NEW t \in Tasks, Work(t) PROVE db' = db /\ offered' = offered
  BY <1>2 DEF Work, ScanTaken, ScanFree, ReclaimExpired, RefuseDiscover,
     BuildLease, LookUpMissing, LookUpSelecting, LookUpInitReboot,
     LookUpRenewing, LookUp, RefreshLease, LookUpXid, LookUpXidMissing
<1>3. ASSUME NEW t \in Tasks, Return(t) PROVE db' = db /\ offered' = offered
  BY <1>3 DEF Return
<1>4. CASE Tick
  BY <1>4 DEF Tick
<1>5. CASE UNCHANGED vars
  BY <1>5
<1>. QED
  BY <1>1, <1>2, <1>3, <1>4, <1>5 DEF Next

(* The clock does not go back.                                             *)
LEMMA Monotone ==
  ASSUME TypeOK, [Next]_vars
  PROVE  now' \in Nat /\ now <= now' /\ offered \subseteq offered'
<1>1. now \in Nat
  BY DEF TypeOK
<1>2. ASSUME NEW t \in Tasks, NEW p \in Packets, NEW o \in Origins, Call(t, p, o)
      PROVE  now' = now
  BY <1>2, BeginFacts DEF Starts, Begin
<1>3. ASSUME NEW t \in Tasks, Work(t)
      PROVE  now' = now /\ offered \subseteq offered'
  BY <1>3 DEF Work, ScanTaken, ScanFree, ReclaimExpired, RefuseDiscover,
     BuildLease, LookUpMissing, LookUpSelecting, LookUpInitReboot,
     LookUpRenewing, LookUp, RefreshLease, store_lease, LookUpXid,
     LookUpXidMissing, remove_lease
<1>4. ASSUME NEW t \in Tasks, Return(t) PROVE now' = now
  BY <1>4 DEF Return
<1>5. CASE Tick
  BY <1>1, <1>5 DEF Tick
<1>6. ASSUME NEW t \in Tasks, store_lease(t) PROVE now' = now /\ offered \subseteq offered'
  BY <1>6 DEF store_lease
<1>7. ASSUME NEW t \in Tasks, remove_lease(t) PROVE now' = now /\ offered \subseteq offered'
  BY <1>7 DEF remove_lease
<1>8. CASE \A t \in Tasks : ~store_lease(t) /\ ~remove_lease(t)
  BY <1>1, <1>2, <1>3, <1>4, <1>5, <1>8, QuietStep DEF Next
<1>. QED
  BY <1>1, <1>6, <1>7, <1>8

(* What a writer does to the table, in terms of its own address.           *)
LEMMA StoreFacts ==
  ASSUME TypeOK, TasksLocal, NEW t \in Tasks, store_lease(t)
  PROVE  /\ ip[t] \in Scope /\ ip[t] \in Addr
         /\ db' = [db EXCEPT ![ip[t]] = lease[t]]
         /\ lease[t] \in Lease /\ lease[t] # NoLease
         /\ lease[t].yiaddr = ip[t]
         /\ lease[t].lease_time <= now
         /\ "SubnetMask" \notin lease[t].options
         /\ <<ip[t], lease[t].xid>> \in offered'
         /\ now' = now
<1>1. Copy(t)
  BY DEF TasksLocal, Local, store_lease
<1>2. method(pkt[t]) # "discover" => AskedFor(t) /\ <<ip[t], lease[t].xid>> \in offered
  BY <1>1 DEF Copy
<1>. QED
  BY <1>1, <1>2, ScopeFacts, StoreAssumption DEF Copy, store_lease

(* Every step keeps the table consistent.                                  *)
LEMMA TableStep == TypeOK /\ Table /\ TasksLocal /\ [Next]_vars => Table'
<1>. SUFFICES ASSUME TypeOK, Table, TasksLocal, [Next]_vars PROVE Table'
  OBVIOUS
<1>1. now \in Nat /\ now' \in Nat /\ now <= now' /\ offered \subseteq offered'
  BY Monotone DEF TypeOK
<1>2. ASSUME NEW a \in Addr, contains_key(a) PROVE db[a].lease_time \in Nat
  BY <1>2 DEF TypeOK, contains_key, Lease
<1>3. CASE \A t \in Tasks : ~store_lease(t) /\ ~remove_lease(t)
  <2>1. db' = db
    BY <1>3, QuietStep
  <2>. QED
    BY <1>1, <1>2, <2>1 DEF Table, TableConsistent, contains_key
<1>4. ASSUME NEW t \in Tasks, store_lease(t) PROVE Table'
  <2>1. \A a \in Addr : db'[a] = IF a = ip[t] THEN lease[t] ELSE db[a]
    BY <1>4, StoreFacts DEF TypeOK
  <2>. QED
    BY <1>1, <1>2, <1>4, <2>1, StoreFacts DEF Table, TableConsistent, contains_key
<1>5. ASSUME NEW t \in Tasks, remove_lease(t) PROVE Table'
  <2>1. \A a \in Addr : db'[a] = NoLease \/ db'[a] = db[a]
    BY <1>5 DEF remove_lease, TypeOK
  <2>. QED
    BY <1>1, <1>2, <2>1 DEF Table, TableConsistent, contains_key
<1>. QED
  BY <1>3, <1>4, <1>5
-----------------------------------------------------------------------------
(* A step of another task, or of the clock, leaves what t knows in place.  *)
LEMMA LocalFrame ==
  ASSUME TypeOK, NEW t \in Tasks, Local(t),
         pc'[t] = pc[t], pkt'[t] = pkt[t], ip'[t] = ip[t], lease'[t] = lease[t],
         now' \in Nat, now <= now', offered \subseteq offered'
  PROVE  Local(t)'
<1>1. Copy(t) => Copy(t)'
  BY DEF Copy, AskedFor, TypeOK, Lease
<1>. QED
  BY <1>1 DEF Local, AskedFor

(* The steps touch the local state of the task that takes them only.       *)
LEMMA OtherTask ==
  ASSUME TypeOK, [Next]_vars, NEW t \in Tasks,
         \A p \in Packets, o \in Origins : ~Call(t, p, o),
         ~Work(t), ~Return(t)
  PROVE  pc'[t] = pc[t] /\ pkt'[t] = pkt[t] /\ ip'[t] = ip[t] /\ lease'[t] = lease[t]
<1>. USE DEF TypeOK
<1>1. ASSUME NEW u \in Tasks, u # t, NEW p \in Packets, NEW o \in Origins, Call(u, p, o)
      PROVE  pc'[t] = pc[t] /\ pkt'[t] = pkt[t] /\ ip'[t] = ip[t] /\ lease'[t] = lease[t]
  BY <1>1, BeginFacts DEF Starts, Begin
<1>2. ASSUME NEW u \in Tasks, u # t, Work(u)
      PROVE  pc'[t] = pc[t] /\ pkt'[t] = pkt[t] /\ ip'[t] = ip[t] /\ lease'[t] = lease[t]
  BY <1>2 DEF Work, ScanTaken, ScanFree, ReclaimExpired, RefuseDiscover,
     BuildLease, LookUpMissing, LookUpSelecting, LookUpInitReboot,
     LookUpRenewing, LookUp, RefreshLease, store_lease, LookUpXid,
     LookUpXidMissing, remove_lease
<1>3. ASSUME NEW u \in Tasks, u # t, Return(u)
      PROVE  pc'[t] = pc[t] /\ pkt'[t] = pkt[t] /\ ip'[t] = ip[t] /\ lease'[t] = lease[t]
  BY <1>3 DEF Return
<1>4. CASE Tick
  BY <1>4 DEF Tick
<1>5. CASE UNCHANGED vars
  BY <1>5
<1>. QED
  BY <1>1, <1>2, <1>3, <1>4, <1>5 DEF Next

(* Every step keeps what the tasks know of their own leases.               *)
LEMMA LocalStep == TypeOK /\ Table /\ TasksLocal /\ [Next]_vars => TasksLocal'
<1>. SUFFICES ASSUME TypeOK, Table, TasksLocal, [Next]_vars, NEW t \in Tasks
              PROVE  Local(t)'
  BY DEF TasksLocal
<1>0. now \in Nat /\ now' \in Nat /\ now <= now' /\ offered \subseteq offered'
  BY Monotone DEF TypeOK
<1>l. Local(t)
  BY DEF TasksLocal
<1>1. ASSUME NEW p \in Packets, NEW o \in Origins, Call(t, p, o) PROVE Local(t)'
  <2>1. PICK step \in {"scan", "lookup", "lookup_xid", "remove", "failed"},
             a \in Addr \cup {ScopeLo} :
           Starts(t, p, o, step, a)
    BY <1>1, BeginFacts
  <2>2. pc'[t] = step /\ pkt'[t] = p /\ ip'[t] = a
    BY <2>1 DEF Starts, Begin, TypeOK
  <2>3. step = "lookup" => AskedFor(t)'
    BY <2>1, <2>2 DEF Starts, AskedFor
  <2>. QED
    BY <2>1, <2>2, <2>3, ScopeFacts DEF Starts, Local
<1>2. CASE ScanTaken(t)
  <2>1. ip'[t] = ip[t] + 1 /\ pc'[t] = "scan"
    BY <1>2 DEF ScanTaken, TypeOK
  <2>. QED
    BY <1>2, <1>l, <2>1, ScopeFacts DEF ScanTaken, Local, TypeOK
<1>3. CASE ScanFree(t)
  BY <1>3, <1>l DEF ScanFree, Local, TypeOK
<1>4. CASE ReclaimExpired(t)
  BY <1>4, <1>l DEF ReclaimExpired, Expired, Local, TypeOK, Table, TableConsistent
<1>5. CASE RefuseDiscover(t)
  BY <1>5, <1>l DEF RefuseDiscover, Local, TypeOK
<1>6. CASE BuildLease(t)
  <2>1. /\ pkt[t] \in Packets /\ ip[t] \in Scope /\ ip[t] \in Addr
        /\ pkt'[t] = pkt[t] /\ ip'[t] = ip[t] /\ pc'[t] = "store"
        /\ method(pkt[t]) = "discover"
    BY <1>6, <1>l, ScopeFacts DEF BuildLease, Local, TypeOK
  <2>2. lease'[t] = [xid |-> pkt[t].xid, yiaddr |-> ip[t], lease_time |-> now,
                     options |-> process_params(requested_params(pkt[t]))]
    BY <1>6 DEF BuildLease, TypeOK
  <2>3. lease'[t] \in Lease
    BY <1>0, <2>1, <2>2, MethodFacts, ParamsFacts DEF Lease
  <2>4. Copy(t)'
    BY <1>0, <1>6, <2>1, <2>2, <2>3, ParamsFacts DEF Copy, BuildLease
  <2>. QED
    BY <2>1, <2>4 DEF Local
<1>7. ASSUME pc[t] = "lookup", NEW states, NEW next \in Step, LookUp(t, states, next)
      PROVE  /\ pc'[t] = next /\ pkt'[t] = pkt[t] /\ ip'[t] = ip[t]
             /\ lease'[t] = db[ip[t]] /\ now' = now /\ offered' = offered
             /\ method(pkt[t]) \in states /\ pkt[t] \in Packets
             /\ AskedFor(t) /\ AskedFor(t)'
  BY <1>7, <1>l DEF LookUp, Local, AskedFor, TypeOK
<1>8. CASE LookUpMissing(t)
  <2>. "refused" \in Step
    BY DEF Step, Result
  <2>. QED
    BY <1>7, <1>8 DEF LookUpMissing, Local
<1>9. ASSUME pc[t] = "lookup", contains_key(ip[t]), NEW states, NEW next \in Step,
             LookUp(t, states, next), next # "granted",
             method(pkt[t]) \in {"renewing", "rebinding"}
      PROVE  Copy(t)'
  <2>1. /\ db[ip[t]] \in Lease /\ ip[t] \in Scope /\ db[ip[t]].yiaddr = ip[t]
        /\ db[ip[t]].lease_time <= now /\ "SubnetMask" \notin db[ip[t]].options
        /\ <<ip[t], db[ip[t]].xid>> \in offered
    BY <1>7, <1>9 DEF Table, TableConsistent, contains_key, TypeOK, AskedFor
  <2>. QED
    BY <1>7, <1>9, <2>1 DEF Copy
<1>10. CASE LookUpSelecting(t)
  <2>1. PICK next \in {"granted", "refused"} :
           /\ LookUp(t, {"selecting"}, next)
           /\ next = "granted" => db[ip[t]].xid = pkt[t].xid
    BY <1>10 DEF LookUpSelecting
  <2>2. next \in Step
    BY DEF Step, Result
  <2>3. /\ db[ip[t]] \in Lease /\ ip[t] \in Scope /\ db[ip[t]].yiaddr = ip[t]
        /\ db[ip[t]].lease_time <= now /\ "SubnetMask" \notin db[ip[t]].options
        /\ <<ip[t], db[ip[t]].xid>> \in offered
    BY <1>7, <1>10, <2>1, <2>2
    DEF LookUpSelecting, Table, TableConsistent, contains_key, TypeOK, AskedFor
  <2>4. next = "granted" => Copy(t)'
    BY <1>7, <1>10, <2>1, <2>2, <2>3 DEF LookUpSelecting, Copy
  <2>. QED
    BY <1>7, <1>10, <2>1, <2>2, <2>4 DEF LookUpSelecting, Local
<1>11. CASE LookUpInitReboot(t)
  <2>1. "SubnetMask" \notin db[ip[t]].options
    BY <1>11, <1>l DEF LookUpInitReboot, Local, AskedFor, Table
  <2>2. LookUp(t, {"init_reboot"}, "failed") /\ "failed" \in Step
    BY <1>11, <2>1 DEF LookUpInitReboot, Step, Result
  <2>. QED
    BY <1>7, <1>11, <2>2 DEF LookUpInitReboot, Local
<1>12. CASE LookUpRenewing(t)
  <2>1. LookUp(t, {"renewing", "rebinding"}, "stamp") /\ "stamp" \in Step
    BY <1>12 DEF LookUpRenewing, Step
  <2>. QED
    BY <1>7, <1>9, <1>12, <2>1 DEF LookUpRenewing, Local
<1>13. CASE RefreshLease(t)
  <2>1. Copy(t) /\ pc'[t] = "store" /\ pkt'[t] = pkt[t] /\ ip'[t] = ip[t]
    BY <1>13, <1>l DEF RefreshLease, Local, TypeOK
  <2>2. lease'[t] = [lease[t] EXCEPT !.lease_time = now]
    BY <1>13 DEF RefreshLease, TypeOK
  <2>3. /\ lease'[t] \in Lease /\ lease'[t].yiaddr = lease[t].yiaddr
        /\ lease'[t].xid = lease[t].xid /\ lease'[t].options = lease[t].options
        /\ lease'[t].lease_time = now
    BY <1>0, <2>1, <2>2 DEF Copy, Lease
  <2>4. Copy(t)'
    BY <1>0, <1>13, <2>1, <2>3 DEF Copy, AskedFor, RefreshLease
  <2>. QED
    BY <1>13, <1>l, <2>1, <2>4 DEF Local, RefreshLease
<1>14. CASE store_lease(t)
  <2>1. Copy(t) /\ pc'[t] = "granted" /\ UNCHANGED <<pkt, ip, lease, now>>
    BY <1>14, <1>l DEF store_lease, Local, TypeOK
  <2>2. <<ip[t], lease[t].xid>> \in offered'
    BY <1>14, StoreFacts
  <2>3. Copy(t)'
    BY <1>0, <2>1, <2>2 DEF Copy, AskedFor
  <2>. QED
    BY <1>14, <1>l, <2>1, <2>3 DEF Local, store_lease
<1>15. CASE LookUpXid(t)
  <2>1. PICK a \in OfXid(pkt[t].xid) : ip' = [ip EXCEPT ![t] = db[a].yiaddr]
    BY <1>15 DEF LookUpXid
  <2>2. ip'[t] \in Addr /\ pc'[t] = "remove" /\ pkt'[t] = pkt[t]
    BY <1>15, <2>1 DEF LookUpXid, OfXid, TypeOK, Table, TableConsistent
  <2>. QED
    BY <1>15, <1>l, <2>2 DEF LookUpXid, Local
<1>16. CASE LookUpXidMissing(t)
  BY <1>16, <1>l DEF LookUpXidMissing, Local, TypeOK
<1>17. CASE remove_lease(t)
  BY <1>17, <1>l DEF remove_lease, Local, TypeOK
<1>18. CASE Return(t)
  BY <1>18 DEF Return, Local, TypeOK
<1>19. CASE /\ \A p \in Packets, o \in Origins : ~Call(t, p, o)
            /\ ~Work(t) /\ ~Return(t)
  BY <1>0, <1>l, <1>19, OtherTask, LocalFrame
<1>. QED
  BY <1>1, <1>2, <1>3, <1>4, <1>5, <1>6, <1>8, <1>10, <1>11, <1>12, <1>13, <1>14,
     <1>15, <1>16, <1>17, <1>18, <1>19 DEF Work
-----------------------------------------------------------------------------
(* Scanned is preserved: a store strikes its address from every freeSince, *)
(* and the scan moves past an address only when it is taken.               *)
LEMMA ScannedStep ==
  TypeOK /\ TasksLocal /\ Scanned /\ [Next]_vars => Scanned'
<1>. SUFFICES ASSUME TypeOK, TasksLocal, Scanned, [Next]_vars PROVE Scanned'
  OBVIOUS
<1>0. \A t \in Tasks : freeSince[t] \subseteq Scope /\ freeSince[t] \subseteq Nat
                      /\ freeSince[t] \subseteq Addr
  BY ScopeFacts DEF TypeOK
<1>1. ASSUME NEW t \in Tasks, NEW p \in Packets, NEW o \in Origins, Call(t, p, o)
      PROVE  Scanned'
  <2>1. PICK step \in {"scan", "lookup", "lookup_xid", "remove", "failed"},
             a \in Addr \cup {ScopeLo} : Starts(t, p, o, step, a)
    BY <1>1, BeginFacts
  <2>2. /\ \A u \in Tasks : u # t => /\ freeSince'[u] = freeSince[u] /\ pc'[u] = pc[u]
                                     /\ ip'[u] = ip[u] /\ pkt'[u] = pkt[u]
        /\ freeSince'[t] = {b \in Scope : ~contains_key(b)}
        /\ pc'[t] = step /\ ip'[t] = a /\ db' = db
    BY <2>1 DEF Starts, Begin, TypeOK
  <2>3. step = "scan" => a = ScopeLo
    BY <2>1 DEF Starts
  <2>4. \A b \in freeSince'[t] : db'[b] = NoLease /\ ScopeLo <= b
    BY <2>2, ScopeFacts DEF contains_key
  <2>. SUFFICES ASSUME NEW u \in Tasks
                PROVE  /\ \A b \in freeSince'[u] : db'[b] = NoLease
                       /\ pc'[u] = "scan" => \A b \in freeSince'[u] : ip'[u] <= b
                       /\ pc'[u] = "refused" /\ method(pkt'[u]) = "discover"
                            => freeSince'[u] = {}
    BY DEF Scanned
  <2>5. CASE u = t
    BY <2>2, <2>3, <2>4, <2>5
  <2>6. CASE u # t
    BY <2>2, <2>6 DEF Scanned
  <2>. QED
    BY <2>5, <2>6
<1>2. ASSUME NEW t \in Tasks, ScanTaken(t) PROVE Scanned'
  <2>1. \A a \in freeSince[t] : ip[t] <= a /\ ip[t] # a /\ a \in Nat /\ ip[t] \in Nat
    BY <1>0, <1>2 DEF Scanned, ScanTaken, contains_key, TypeOK
  <2>2. \A a \in freeSince[t] : ip[t] + 1 <= a
    BY <2>1
  <2>3. /\ \A u \in Tasks : u # t => ip'[u] = ip[u]
        /\ ip'[t] = ip[t] + 1 /\ UNCHANGED <<db, pc, pkt, freeSince>>
        /\ pc[t] = "scan"
    BY <1>2 DEF ScanTaken, TypeOK
  <2>. QED
    BY <2>2, <2>3 DEF Scanned
<1>3. ASSUME NEW t \in Tasks, RefuseDiscover(t) PROVE Scanned'
  <2>1. freeSince[t] = {}
    <3>1. ScopeLo <= ip[t] /\ ip[t] \in Nat /\ ip[t] \notin Scope
      BY <1>3 DEF RefuseDiscover, TasksLocal, Local, TypeOK
    <3>2. ASSUME NEW a \in freeSince[t] PROVE FALSE
      <4>1. a \in Scope /\ a \in Nat /\ ip[t] <= a
        BY <1>0, <1>3 DEF RefuseDiscover, Scanned
      <4>. QED
        BY <3>1, <4>1, StoreAssumption DEF Scope
    <3>. QED BY <3>2
  <2>2. /\ \A u \in Tasks : u # t => pc'[u] = pc[u]
        /\ pc'[t] = "refused" /\ UNCHANGED <<db, ip, pkt, freeSince>>
    BY <1>3 DEF RefuseDiscover, TypeOK
  <2>. QED
    BY <2>1, <2>2 DEF Scanned
<1>4. ASSUME NEW t \in Tasks, pc'[t] # "scan",
             pc'[t] = "refused" => method(pkt[t]) # "discover",
             \A u \in Tasks : u # t => pc'[u] = pc[u] /\ ip'[u] = ip[u],
             UNCHANGED <<db, pkt, freeSince>>
      PROVE  Scanned'
  BY <1>4 DEF Scanned
<1>5. ASSUME NEW t \in Tasks,
             \/ ScanFree(t) \/ ReclaimExpired(t) \/ BuildLease(t)
             \/ RefreshLease(t) \/ LookUpXid(t) \/ LookUpXidMissing(t)
      PROVE  Scanned'
  <2>1. CASE ScanFree(t)
    BY <1>4, <2>1 DEF ScanFree, TypeOK
  <2>2. CASE ReclaimExpired(t)
    BY <1>4, <2>2 DEF ReclaimExpired, TypeOK
  <2>3. CASE BuildLease(t)
    BY <1>4, <2>3 DEF BuildLease, TypeOK
  <2>4. CASE RefreshLease(t)
    BY <1>4, <2>4 DEF RefreshLease, TypeOK
  <2>5. CASE LookUpXid(t)
    BY <1>4, <2>5 DEF LookUpXid, TypeOK
  <2>6. CASE LookUpXidMissing(t)
    BY <1>4, <2>6 DEF LookUpXidMissing, TypeOK
  <2>. QED BY <1>5, <2>1, <2>2, <2>3, <2>4, <2>5, <2>6
<1>6. ASSUME NEW t \in Tasks,
             \/ LookUpMissing(t) \/ LookUpSelecting(t)
             \/ LookUpInitReboot(t) \/ LookUpRenewing(t)
      PROVE  Scanned'
  <2>1. CASE LookUpMissing(t)
    BY <1>4, <2>1 DEF LookUpMissing, LookUp, TypeOK
  <2>2. CASE LookUpSelecting(t)
    BY <1>4, <2>2 DEF LookUpSelecting, LookUp, TypeOK
  <2>3. CASE LookUpInitReboot(t)
    BY <1>4, <2>3 DEF LookUpInitReboot, LookUp, TypeOK
  <2>4. CASE LookUpRenewing(t)
    BY <1>4, <2>4 DEF LookUpRenewing, LookUp, TypeOK
  <2>. QED BY <1>6, <2>1, <2>2, <2>3, <2>4
<1>7. ASSUME NEW t \in Tasks, store_lease(t) PROVE Scanned'
  <2>1. /\ \A a \in Addr : a # ip[t] => db'[a] = db[a]
        /\ \A u \in Tasks : freeSince'[u] = freeSince[u] \ {ip[t]}
        /\ \A u \in Tasks : u # t => pc'[u] = pc[u]
        /\ pc'[t] = "granted" /\ UNCHANGED <<ip, pkt>>
    BY <1>7, StoreFacts DEF store_lease, TypeOK
  <2>. QED
    BY <1>0, <2>1 DEF Scanned
<1>8. ASSUME NEW t \in Tasks, remove_lease(t) PROVE Scanned'
  <2>1. /\ \A a \in Addr : db'[a] = db[a] \/ db'[a] = NoLease
        /\ \A u \in Tasks : u # t => pc'[u] = pc[u]
        /\ pc'[t] \in {"finished", "stamp"} /\ UNCHANGED <<ip, pkt, freeSince>>
    BY <1>8 DEF remove_lease, TypeOK
  <2>. QED
    BY <1>0, <2>1 DEF Scanned
<1>9. ASSUME NEW t \in Tasks, Return(t) PROVE Scanned'
  BY <1>9 DEF Return, Scanned, TypeOK
<1>10. CASE Tick
  BY <1>10 DEF Tick, Scanned
<1>11. CASE UNCHANGED vars
  BY <1>11 DEF Scanned
<1>. QED
  BY <1>1, <1>2, <1>3, <1>5, <1>6, <1>7, <1>8, <1>9, <1>10, <1>11 DEF Next, Work
-----------------------------------------------------------------------------
(* As long as the entry t has read is not changed, what t read stays true: *)
(* an expired lease stays expired.                                         *)
LEMMA HeldFrame ==
  ASSUME TypeOK, NEW t \in Tasks, Local(t), Undisturbed(t),
         pc'[t] = pc[t], pkt'[t] = pkt[t], ip'[t] = ip[t], lease'[t] = lease[t],
         now' \in Nat, now <= now',
         pc[t] \in Holding => db'[ip[t]] = db[ip[t]]
  PROVE  Undisturbed(t)'
<1>1. CASE pc[t] \in {"stamp", "store"} /\ method(pkt[t]) = "discover"
  <2>1. ip[t] \in Addr /\ db'[ip[t]] = db[ip[t]]
    BY <1>1, ScopeFacts DEF Local, Copy, Holding
  <2>2. contains_key(ip[t]) => db[ip[t]].lease_time \in Nat
    BY <2>1 DEF contains_key, TypeOK, Lease
  <2>3. contains_key(ip[t]) => ~is_current(db[ip[t]])
    BY <1>1 DEF Undisturbed
  <2>4. (contains_key(ip[t]) => ~is_current(db[ip[t]]))'
    BY <2>1, <2>2, <2>3, StoreAssumption DEF contains_key, is_current, TypeOK
  <2>. QED
    BY <1>1, <2>4 DEF Undisturbed
<1>2. CASE ~(pc[t] \in {"stamp", "store"} /\ method(pkt[t]) = "discover")
  BY <1>2 DEF Undisturbed, contains_key, Holding
<1>. QED
  BY <1>1, <1>2

(* Held is preserved: a write to an address some other task has read puts  *)
(* that task into overtaken.                                               *)
LEMMA HeldStep ==
  TypeOK /\ Table /\ TasksLocal /\ Held /\ [Next]_vars => Held'
<1>. SUFFICES ASSUME TypeOK, Table, TasksLocal, Held, [Next]_vars,
                     NEW t \in Tasks, t \notin overtaken'
              PROVE  Undisturbed(t)'
  BY DEF Held
<1>0. now \in Nat /\ now' \in Nat /\ now <= now'
  BY Monotone DEF TypeOK
<1>l. Local(t)
  BY DEF TasksLocal
<1>1. ASSUME NEW p \in Packets, NEW o \in Origins, Call(t, p, o)
      PROVE  Undisturbed(t)'
  <2>1. PICK step \in {"scan", "lookup", "lookup_xid", "remove", "failed"},
             a \in Addr \cup {ScopeLo} : Starts(t, p, o, step, a)
    BY <1>1, BeginFacts
  <2>. QED
    BY <2>1 DEF Starts, Begin, Undisturbed, TypeOK
<1>2. CASE Return(t)
  BY <1>2 DEF Return, Undisturbed, TypeOK
<1>3. CASE /\ \A p \in Packets, o \in Origins : ~Call(t, p, o)
           /\ ~Work(t) /\ ~Return(t)
  <2>1. pc'[t] = pc[t] /\ pkt'[t] = pkt[t] /\ ip'[t] = ip[t] /\ lease'[t] = lease[t]
    BY <1>3, OtherTask
  <2>2. t \notin overtaken /\ (pc[t] \in Holding => db'[ip[t]] = db[ip[t]])
    <3>1. CASE \A u \in Tasks : ~store_lease(u) /\ ~remove_lease(u) /\ ~Return(u)
      <4>1. db' = db
        BY <3>1, QuietStep
      <4>2. overtaken' = overtaken
        <5>1. ASSUME NEW u \in Tasks, NEW p \in Packets, NEW o \in Origins, Call(u, p, o)
              PROVE  overtaken' = overtaken
          BY <5>1, BeginFacts DEF Starts, Begin
        <5>2. ASSUME NEW u \in Tasks, Work(u) PROVE overtaken' = overtaken
          BY <3>1, <5>2 DEF Work, ScanTaken, ScanFree, ReclaimExpired, RefuseDiscover,
             BuildLease, LookUpMissing, LookUpSelecting, LookUpInitReboot,
             LookUpRenewing, LookUp, RefreshLease, LookUpXid, LookUpXidMissing
        <5>3. CASE Tick
          BY <5>3 DEF Tick
        <5>. QED
          BY <3>1, <5>1, <5>2, <5>3 DEF Next
      <4>. QED
        BY <4>1, <4>2
    <3>2. ASSUME NEW u \in Tasks, store_lease(u) \/ remove_lease(u)
          PROVE  t \notin overtaken /\ (pc[t] \in Holding => db'[ip[t]] = db[ip[t]])
      <4>1. u # t
        BY <1>3, <3>2 DEF Work
      <4>2. PICK l \in Lease \cup {NoLease} :
               db' = [db EXCEPT ![ip[u]] = l] /\ Overtake(u, ip[u])
        BY <3>2, StoreFacts DEF store_lease, remove_lease
      <4>. QED
        BY <4>1, <4>2 DEF Overtake, TypeOK
    <3>3. ASSUME NEW u \in Tasks, Return(u)
          PROVE  t \notin overtaken /\ db' = db
      BY <1>3, <3>3 DEF Return
    <3>. QED
      BY <3>1, <3>2, <3>3
  <2>. QED
    BY <1>0, <1>l, <2>1, <2>2, HeldFrame DEF Held
<1>4. CASE store_lease(t) \/ remove_lease(t)
  BY <1>4, <1>l DEF store_lease, remove_lease, Local, Undisturbed, TypeOK
<1>5. ASSUME Work(t), ~store_lease(t), ~remove_lease(t)
      PROVE  db' = db /\ t \notin overtaken /\ now' = now /\ pkt' = pkt
  BY <1>5 DEF Work, ScanTaken, ScanFree, ReclaimExpired, RefuseDiscover,
     BuildLease, LookUpMissing, LookUpSelecting, LookUpInitReboot,
     LookUpRenewing, LookUp, RefreshLease, LookUpXid, LookUpXidMissing
<1>6. CASE ScanFree(t)
  <2>1. pc'[t] = "stamp" /\ ip'[t] = ip[t] /\ db' = db /\ pkt' = pkt
        /\ method(pkt[t]) = "discover" /\ ~contains_key(ip[t])
    BY <1>6, <1>l DEF ScanFree, TypeOK, Local
  <2>. QED
    BY <2>1 DEF Undisturbed, contains_key
<1>7. CASE ReclaimExpired(t)
  <2>1. PICK a \in Expired : ip' = [ip EXCEPT ![t] = a]
    BY <1>7 DEF ReclaimExpired
  <2>2. pc'[t] = "stamp" /\ ip'[t] = a /\ db' = db /\ pkt' = pkt /\ now' = now
        /\ method(pkt[t]) = "discover" /\ ~is_current(db[a])
    BY <1>7, <1>l, <2>1 DEF ReclaimExpired, Expired, TypeOK, Local
  <2>. QED
    BY <2>2 DEF Undisturbed, is_current
<1>8. CASE BuildLease(t)
  <2>1. pc[t] = "stamp" /\ pc'[t] = "store" /\ ip' = ip /\ db' = db
        /\ pkt' = pkt /\ now' = now /\ method(pkt[t]) = "discover"
        /\ t \notin overtaken
    BY <1>8 DEF BuildLease, TypeOK
  <2>. QED
    BY <2>1 DEF Held, Undisturbed, contains_key, is_current
<1>9. CASE LookUpRenewing(t)
  <2>1. /\ pc'[t] = "stamp" /\ ip' = ip /\ db' = db /\ pkt' = pkt
        /\ lease'[t] = db[ip[t]] /\ contains_key(ip[t]) /\ ip[t] \in Addr
        /\ method(pkt[t]) # "discover"
    BY <1>9, <1>l DEF LookUpRenewing, LookUp, TypeOK, Local, AskedFor
  <2>2. db[ip[t]].lease_time \in Nat
    BY <2>1 DEF contains_key, TypeOK, Lease
  <2>. QED
    BY <2>1, <2>2 DEF Undisturbed, contains_key
<1>10. CASE RefreshLease(t)
  <2>1. /\ pc[t] = "stamp" /\ pc'[t] = "store" /\ ip' = ip /\ db' = db
        /\ pkt' = pkt /\ method(pkt[t]) # "discover" /\ t \notin overtaken
        /\ lease'[t] = [lease[t] EXCEPT !.lease_time = now]
    BY <1>10 DEF RefreshLease, TypeOK
  <2>2. lease[t] \in Lease /\ ip[t] \in Addr
    BY <1>l, <2>1, ScopeFacts DEF Local, Copy
  <2>3. lease'[t].lease_time = now /\ lease'[t].xid = lease[t].xid
    BY <2>1, <2>2 DEF Lease
  <2>4. contains_key(ip[t]) /\ db[ip[t]].xid = lease[t].xid /\ db[ip[t]].lease_time <= now
    BY <2>1, <2>2 DEF Held, Undisturbed, Table, TableConsistent
  <2>. QED
    BY <2>1, <2>3, <2>4 DEF Undisturbed, contains_key
<1>11. CASE LookUpXid(t)
  <2>1. PICK a \in OfXid(pkt[t].xid) : ip' = [ip EXCEPT ![t] = db[a].yiaddr]
    BY <1>11 DEF LookUpXid
  <2>2. ip'[t] = a /\ pc'[t] = "remove" /\ db' = db /\ pkt' = pkt
        /\ contains_key(a) /\ db[a].xid = pkt[t].xid
    BY <1>11, <2>1 DEF LookUpXid, OfXid, TypeOK, Table, TableConsistent
  <2>. QED
    BY <2>2 DEF Undisturbed, contains_key
<1>12. ASSUME pc'[t] \notin Holding PROVE Undisturbed(t)'
  BY <1>12 DEF Undisturbed, Holding
<1>13. CASE ScanTaken(t) \/ RefuseDiscover(t) \/ LookUpXidMissing(t)
  BY <1>12, <1>13 DEF ScanTaken, RefuseDiscover, LookUpXidMissing, TypeOK, Holding
<1>14. CASE LookUpMissing(t) \/ LookUpSelecting(t)
  BY <1>12, <1>14 DEF LookUpMissing, LookUpSelecting, LookUp, TypeOK, Holding
<1>15. CASE LookUpInitReboot(t)
  <2>1. "SubnetMask" \notin db[ip[t]].options
    BY <1>15, <1>l DEF LookUpInitReboot, Local, AskedFor, Table
  <2>. QED
    BY <1>12, <1>15, <2>1 DEF LookUpInitReboot, LookUp, TypeOK, Holding
<1>. QED
  BY <1>1, <1>2, <1>3, <1>4, <1>6, <1>7, <1>8, <1>9, <1>10, <1>11, <1>13, <1>14,
     <1>15 DEF Work
-----------------------------------------------------------------------------
(* The inductive invariant holds initially.                                *)
LEMMA InvariantInit == Init => IInv
<1>. SUFFICES ASSUME Init PROVE IInv
  OBVIOUS
<1>1. TypeOK
  BY TypeInit
<1>2. Table
  BY DEF Init, Table, TableConsistent, contains_key
<1>3. TasksLocal /\ Scanned /\ Held
  BY DEF Init, TasksLocal, Local, Scanned, Held, Undisturbed
<1>. QED
  BY <1>1, <1>2, <1>3 DEF IInv

(* The inductive invariant is preserved by every step.                     *)
LEMMA InvariantStep == IInv /\ [Next]_vars => IInv'
BY TypeStep, TableStep, LocalStep, ScannedStep, HeldStep DEF IInv

(* IInv holds in every reachable state.                                    *)
THEOREM Invariant == Spec => []IInv
BY InvariantInit, InvariantStep, PTL DEF Spec

(* The variables keep their types, whatever packets arrive.                *)
THEOREM TypeCorrect == Spec => []TypeOK
BY Invariant, PTL DEF IInv

(* The table holds nothing but leases the server offered, filed under      *)
(* their own address (TableConsistent).                                    *)
THEOREM TableIsConsistent == Spec => []TableConsistent
<1>1. IInv => TableConsistent
  BY DEF IInv, Table
<1>. QED
  BY <1>1, Invariant, PTL

(* No DISCOVER is refused while an address of the scope is free during its *)
(* whole call (NoSpuriousRefusal).                                         *)
THEOREM RefusalIsJustified == Spec => []NoSpuriousRefusal
<1>1. IInv => NoSpuriousRefusal
  BY DEF IInv, Scanned, NoSpuriousRefusal
<1>. QED
  BY <1>1, Invariant, PTL

(* What a method grants was offered, and answers the packet it was called  *)
(* for (GrantMatchesRequest).                                              *)
THEOREM GrantsMatchRequests == Spec => []GrantMatchesRequest
<1>1. IInv => GrantMatchesRequest
  BY DEF IInv, TasksLocal, Local, Copy, AskedFor, GrantMatchesRequest
<1>. QED
  BY <1>1, Invariant, PTL

(* One step: a current lease is lost only to an overtaken task, to a       *)
(* RELEASE of its address or to a DECLINE of its transaction.              *)
LEMMA LeaseTakenStep ==
  ASSUME IInv, [Next]_vars, NEW a \in Addr, Loses(a)
  PROVE  \E t \in Tasks : pc'[t] # pc[t] /\ MayTake(t, a)
<1>. USE DEF IInv
<1>1. db'[a] # db[a]
  BY DEF Loses, TypeOK, Lease, contains_key
<1>2. PICK t \in Tasks : store_lease(t) \/ remove_lease(t)
  BY <1>1, QuietStep
<1>3. Local(t) /\ (t \notin overtaken => Undisturbed(t))
  BY DEF TasksLocal, Held
<1>4. CASE store_lease(t)
  <2>1. pc[t] = "store" /\ pc'[t] = "granted" /\ a = ip[t]
        /\ db'[a] = lease[t] /\ lease[t] \in Lease /\ lease[t] # NoLease
    BY <1>1, <1>4, StoreFacts DEF store_lease, TypeOK
  <2>2. t \in overtaken
    <3>1. SUFFICES ASSUME t \notin overtaken PROVE FALSE
      OBVIOUS
    <3>2. CASE method(pkt[t]) = "discover"
      BY <1>3, <2>1, <3>1, <3>2 DEF Undisturbed, Loses
    <3>3. CASE method(pkt[t]) # "discover"
      <4>1. db[a].xid = lease[t].xid /\ db[a].lease_time <= lease[t].lease_time
        BY <1>3, <2>1, <3>1, <3>3 DEF Undisturbed
      <4>2. db[a].lease_time \in Nat /\ lease[t].lease_time \in Nat
        BY <2>1 DEF Loses, contains_key, TypeOK, Lease
      <4>. QED
        BY <2>1, <4>1, <4>2 DEF Loses
    <3>. QED BY <3>2, <3>3
  <2>. QED
    BY <2>1, <2>2 DEF MayTake
<1>5. CASE remove_lease(t)
  <2>1. pc[t] = "remove" /\ pc'[t] = "finished" /\ a = ip[t]
    BY <1>1, <1>3, <1>5 DEF remove_lease, Local, TypeOK
  <2>2. MayTake(t, a)
    BY <1>3, <2>1 DEF MayTake, Local, Undisturbed
  <2>. QED
    BY <2>1, <2>2
<1>. QED
  BY <1>2, <1>4, <1>5

(* The store never gives away or shortens a current lease, except by       *)
(* overlapping calls, RELEASE or DECLINE (LeaseTakenOnlyByOverlap).        *)
THEOREM LeaseIsProtected == Spec => LeaseTakenOnlyByOverlap
<1>1. IInv /\ [Next]_vars =>
        [\A a \in Addr : Loses(a) =>
           \E t \in Tasks : pc'[t] # pc[t] /\ MayTake(t, a)]_vars
  BY LeaseTakenStep
<1>. QED
  BY <1>1, Invariant, PTL DEF Spec, LeaseTakenOnlyByOverlap
-----------------------------------------------------------------------------
(* Who, besides the clock, changes what the book is read from.             *)
LEMMA TickOrQuiet ==
  ASSUME TypeOK, [Next]_vars
  PROVE  \/ Tick
         \/ now' = now /\ db' = db
         \/ now' = now /\ \E t \in Tasks : store_lease(t) \/ remove_lease(t)
<1>1. ASSUME NEW t \in Tasks, NEW p \in Packets, NEW o \in Origins, Call(t, p, o)
      PROVE  now' = now /\ db' = db
  BY <1>1, BeginFacts DEF Starts, Begin
<1>2. ASSUME NEW t \in Tasks, Work(t)
      PROVE  now' = now /\ (db' = db \/ store_lease(t) \/ remove_lease(t))
  BY <1>2 DEF Work, ScanTaken, ScanFree, ReclaimExpired, RefuseDiscover,
     BuildLease, LookUpMissing, LookUpSelecting, LookUpInitReboot,
     LookUpRenewing, LookUp, RefreshLease, store_lease, LookUpXid,
     LookUpXidMissing, remove_lease
<1>3. ASSUME NEW t \in Tasks, Return(t)
      PROVE  now' = now /\ db' = db
  BY <1>3 DEF Return
<1>. QED
  BY <1>1, <1>2, <1>3 DEF Next

(* An entry that changes is one page of the book.                          *)
LEMMA OnePage ==
  ASSUME TypeOK, NEW a \in Scope, NEW l \in Lease \cup {NoLease},
         db' = [db EXCEPT ![a] = l]
  PROVE  /\ holderOf' = [holderOf EXCEPT ![a] = IF l = NoLease THEN Nobody ELSE l.xid]
         /\ untilOf' = [untilOf EXCEPT ![a] = IF l = NoLease THEN 0
                                              ELSE l.lease_time + LeaseDuration]
<1>1. db \in [Addr -> Lease \cup {NoLease}] /\ a \in Addr /\ Scope \subseteq Addr
  BY ScopeFacts DEF TypeOK
<1>2. \A b \in Scope : db'[b] = IF b = a THEN l ELSE db[b]
  BY <1>1
<1>3. \A b \in Scope :
        /\ holderOf'[b] = IF b = a THEN (IF l = NoLease THEN Nobody ELSE l.xid)
                          ELSE holderOf[b]
        /\ untilOf'[b] = IF b = a THEN (IF l = NoLease THEN 0
                                         ELSE l.lease_time + LeaseDuration)
                         ELSE untilOf[b]
  BY <1>2 DEF holderOf, untilOf, contains_key
<1>4. /\ holderOf = [b \in Scope |-> holderOf[b]] /\ holderOf' = [b \in Scope |-> holderOf'[b]]
      /\ untilOf = [b \in Scope |-> untilOf[b]] /\ untilOf' = [b \in Scope |-> untilOf'[b]]
  BY DEF holderOf, untilOf
<1>. QED
  BY <1>3, <1>4

(* The step of the book that each step of the store takes, if the task     *)
(* that writes has not been overtaken.                                     *)
LEMMA BookStep ==
  ASSUME IInv, overtaken = {}, [Next]_vars
  PROVE  [Book!BookNext]_(Book!bookVars)
<1>. USE DEF IInv
<1>1. now \in Nat /\ LeaseDuration \in Nat /\ now + LeaseDuration \in Nat
  BY StoreAssumption DEF TypeOK
<1>2. CASE Tick
  BY <1>2 DEF Tick, Book!BookNext, Book!Pass, holderOf, untilOf, contains_key
<1>3. CASE now' = now /\ db' = db
  BY <1>3 DEF Book!bookVars, holderOf, untilOf, contains_key
<1>4. ASSUME NEW t \in Tasks, store_lease(t), now' = now
      PROVE  Book!BookNext
  <2>. DEFINE a == ip[t]
              l == lease[t]
              e == l.lease_time + LeaseDuration
  <2>1. /\ a \in Scope /\ a \in Addr /\ db' = [db EXCEPT ![a] = l] /\ l \in Lease
        /\ l # NoLease /\ l.lease_time <= now /\ l.lease_time \in Nat /\ l.xid \in Xid
    BY <1>4, StoreFacts DEF Lease
  <2>2. /\ e \in 0 .. now + LeaseDuration
    BY <1>1, <2>1
  <2>3. /\ holderOf' = [holderOf EXCEPT ![a] = l.xid]
        /\ untilOf' = [untilOf EXCEPT ![a] = e]
    <3>. HIDE DEF a, l
    <3>. QED
      BY <2>1, OnePage
  <2>4. /\ holderOf[a] = (IF contains_key(a) THEN db[a].xid ELSE Nobody)
        /\ untilOf[a] = (IF contains_key(a) THEN db[a].lease_time + LeaseDuration ELSE 0)
    BY <2>1 DEF holderOf, untilOf
  <2>5. Undisturbed(t) /\ pc[t] = "store"
    BY <1>4 DEF Held, store_lease
  <2>6. contains_key(a) => db[a].lease_time \in Nat /\ db[a].xid \in Xid
    BY <2>1 DEF contains_key, TypeOK, Lease
  <2>7. CASE method(pkt[t]) = "discover"
    <3>1. holderOf[a] = Nobody \/ untilOf[a] <= now
      BY <1>1, <2>4, <2>5, <2>6, <2>7 DEF Undisturbed, is_current
    <3>. HIDE DEF a, l, e
    <3>2. Book!Assign(a, l.xid, e)
      BY <1>1, <1>4, <2>2, <2>3, <3>1 DEF Book!Assign, Book!Vacant
    <3>. QED
      BY <2>1, <2>2, <3>2 DEF Book!BookNext
  <2>8. CASE method(pkt[t]) # "discover"
    <3>1. contains_key(a) /\ db[a].xid = l.xid /\ db[a].lease_time <= l.lease_time
      BY <2>5, <2>8 DEF Undisturbed
    <3>2. holderOf[a] # Nobody /\ untilOf[a] <= e /\ holderOf[a] = l.xid
      BY <1>1, <2>1, <2>4, <2>6, <3>1, NobodyAssumption
    <3>3. holderOf' = holderOf
      <4>. HIDE DEF a, l
      <4>. QED
        BY <2>1, <2>3, <3>2 DEF holderOf
    <3>. HIDE DEF a, l, e
    <3>4. Book!Prolong(a, e)
      BY <1>1, <1>4, <2>2, <2>3, <3>2, <3>3 DEF Book!Prolong
    <3>. QED
      BY <2>1, <2>2, <3>4 DEF Book!BookNext
  <2>. QED
    BY <2>7, <2>8
<1>5. ASSUME NEW t \in Tasks, remove_lease(t), now' = now
      PROVE  [Book!BookNext]_(Book!bookVars)
  <2>. DEFINE a == ip[t]
  <2>1. db' = [db EXCEPT ![a] = NoLease]
    BY <1>5 DEF remove_lease
  <2>2. db \in [Addr -> Lease \cup {NoLease}]
    BY DEF TypeOK
  <2>3. CASE a \in Addr /\ contains_key(a)
    <3>1. a \in Scope /\ db[a] \in Lease
      BY <2>2, <2>3 DEF Table, TableConsistent, contains_key
    <3>2. holderOf[a] # Nobody
      BY <2>3, <3>1, NobodyAssumption DEF holderOf, Lease
    <3>3. /\ holderOf' = [holderOf EXCEPT ![a] = Nobody]
          /\ untilOf' = [untilOf EXCEPT ![a] = 0]
      <4>. HIDE DEF a
      <4>. QED
        BY <2>1, <3>1, OnePage
    <3>. HIDE DEF a
    <3>4. Book!Forget(a)
      BY <1>5, <3>2, <3>3 DEF Book!Forget
    <3>5. 0 \in 0 .. now + LeaseDuration
      BY <1>1
    <3>. QED
      BY <3>1, <3>4, <3>5 DEF Book!BookNext
  <2>4. CASE ~(a \in Addr /\ contains_key(a))
    <3>1. db' = db
      BY <2>1, <2>2, <2>4 DEF contains_key
    <3>. QED
      BY <1>5, <3>1 DEF Book!bookVars, holderOf, untilOf, contains_key
  <2>. QED
    BY <2>3, <2>4
<1>. QED
  BY <1>2, <1>3, <1>4, <1>5, TickOrQuiet

LEMMA BookStart == Init => Book!BookInit
BY ScopeFacts DEF Init, Book!BookInit, holderOf, untilOf, contains_key

(* As long as no task writes an entry that another is about to write, the  *)
(* store with any number of tasks keeps the promise of AddressBook: no     *)
(* address is given away before its lease has run out, and no lease gets   *)
(* shorter.                                                                *)
THEOREM BookKeptUnlessOvertaken ==
  Spec /\ [](overtaken = {}) => ImplementsAddressBook
<1>1. IInv /\ overtaken = {} /\ [Next]_vars => [Book!BookNext]_(Book!bookVars)
  BY BookStep
<1>. QED
  BY <1>1, BookStart, Invariant, PTL DEF Spec, ImplementsAddressBook, Book!BookSpec

(* A task can only be overtaken by another one.                            *)
LEMMA AloneNotOvertaken ==
  ASSUME \A t, u \in Tasks : t = u
  PROVE  Spec => [](overtaken = {})
<1>1. Init => overtaken = {}
  BY DEF Init
<1>2. overtaken = {} /\ [Next]_vars => (overtaken = {})'
  <2>. SUFFICES ASSUME overtaken = {}, [Next]_vars PROVE overtaken' = {}
    OBVIOUS
  <2>1. ASSUME NEW t \in Tasks, NEW p \in Packets, NEW o \in Origins, Call(t, p, o)
        PROVE  overtaken' = {}
    BY <2>1, BeginFacts DEF Starts, Begin
  <2>2. ASSUME NEW t \in Tasks, store_lease(t) \/ remove_lease(t)
        PROVE  overtaken' = {}
    BY <2>2 DEF store_lease, remove_lease, Overtake
  <2>3. ASSUME NEW t \in Tasks, Work(t), ~store_lease(t), ~remove_lease(t)
        PROVE  overtaken' = {}
    BY <2>3 DEF Work, ScanTaken, ScanFree, ReclaimExpired, RefuseDiscover,
       BuildLease, LookUpMissing, LookUpSelecting, LookUpInitReboot,
       LookUpRenewing, LookUp, RefreshLease, LookUpXid, LookUpXidMissing
  <2>4. ASSUME NEW t \in Tasks, Return(t)
        PROVE  overtaken' = {}
    BY <2>4 DEF Return
  <2>5. CASE Tick
    BY <2>5 DEF Tick
  <2>6. CASE UNCHANGED vars
    BY <2>6
  <2>. QED
    BY <2>1, <2>2, <2>3, <2>4, <2>5, <2>6 DEF Next
<1>. QED
  BY <1>1, <1>2, PTL DEF Spec

(* A store that handles one datagram at a time implements AddressBook, for *)
(* any scope, lease duration and sequence of packets.                      *)
THEOREM OneTaskImplementsBook ==
  ASSUME \A t, u \in Tasks : t = u
  PROVE  Spec => ImplementsAddressBook
BY AloneNotOvertaken, BookKeptUnlessOvertaken, PTL
=============================================================================
