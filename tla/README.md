# TLA+ models of rsdhcp

rsdhcp is a DHCPv4 server in Rust: one UDP listener per IPv4 address of the
host, a tokio task per datagram, and a lease store behind the `DhcpStore` trait,
either a table in memory or a NetBox instance reached over REST. This directory
holds TLA+ models of it, the TLC configurations that check them, and theorems
about them with proofs for TLAPS. Paths below are relative to `rsdhcp/src/`
unless they say otherwise.

## The system

| Component | State | Operations | Talks to |
|---|---|---|---|
| Listeners (`cmd/rsdhcp.rs`, `server.rs` `Server::serve`, `IPServer::serve`, `receive_packet`) | a socket and a receive buffer each, one shared `Arc<store>` | set up, receive, spawn a task per datagram | packet processing |
| Packet processing (`server.rs` `process_packet_data`, `determine_response_dest`) | none; the locals of a task | filter, dispatch, answer or fall silent | packet semantics, store |
| Packet semantics (`protocol/packet.rs`, `enums.rs`) | none | `client_state`, `broadcast_by_client`, `response`, `nak` | option codec |
| Reply layout (`packet.rs` `to_network`, `to_network_overflow`) | three byte buffers during one call | place each option, set option 52 | option codec |
| Option codec (`packet.rs` `from_network`, `option.rs`, `../rsdhcp_macros`) | a cursor | encode, decode | |
| Memory store (`backends/memory.rs`, `mod.rs`) | `Arc<Mutex<HashMap<Ipv4Addr, Lease>>>` | the eight `DhcpStore` methods over six `DatabaseMethods` | wall clock |
| NetBox store (`backends/netbox.rs`) | none of its own; leases live in NetBox | the same methods as GET, POST, PUT, DELETE | NetBox |
| Search-list compression (`util.rs`) | offsets of the suffixes seen | encode a list of names | memory store |
| Configuration, `main`, errors, `Display` | the parsed YAML | load once | |

### What is hard

* **Interleaving in the store.** Every `DatabaseMethods` call takes the mutex and
  lets go of it; `get_unused_ip_addr` does so for every address. A DISCOVER is
  a scan, a look for an expired lease and a store; a renewal reads a lease,
  changes its copy and writes it back. All listeners share the table.
* **Expiry.** `is_current()` compares the wall clock with a `lease_time` that is
  set at the OFFER and at a renewal, but not at the ACK of a SELECTING client.
* **The network.** Broadcasts reach several listeners, clients retransmit, and
  tasks are scheduled in any order, so every sequence of packets is possible.
* **Limits.** The scope excludes its end; a reply has to fit the client's
  message size, with room for option 52 and END in every area it uses.
* **Partial failure.** The table has changed before the destination of the reply
  is known and before `send_to`; NetBox updates stop at the first error; each of
  the eight calls that set a listener up may fail.
* **Crashes.** Leases in NetBox outlive the process. It can die after NetBox has made
  a lease and before the reply, and a request already sent can arrive after the
  restart and undo what has happened since.
* **Reuse of memory.** A listener writes each datagram over the last one, while tasks
  of earlier ones have not started.
* **Bytes.** A pad has no length, an option may end where the area ends, a value is not its
  payload, one byte holds the length of an option and fourteen bits an offset in a search list.

### What makes each component correct

* Memory store: a current lease is not taken from its transaction; what is
  granted was offered and is what was asked for; no address is refused that was
  free throughout; the table is consistent; every call returns.
* Packet processing: an ACK answers the exchange the client is in, from the server
  it chose; answers go where the client can hear them; a granted lease is
  never dropped for want of a destination.
* Reply layout: the datagram fits; a client that follows the rules reads
  exactly the options that were written; the essential ones come first;
  nothing is left out for no reason.
* NetBox store: what is granted, refused and denied agrees with NetBox's table;
  a lease goes only when its client gives it up; a declined lease stays
  declined; success means that every lease was reached; an address is free before
  another client gets it; what a client was told outlives a crash and other packets of its own.
* Codec: every byte sequence is read as the RFC says; what is decoded can be sent again
  without loss; what is sent is what is read. Compression: the payload says the names,
  and spells nothing out twice.
* Listeners: a failing one does not stop the others; a queued datagram reaches a task, or is the
  one whose control messages cannot be read;
  the task sees that datagram and no other.

`PROJECT.json` lists the hazards line by line with the properties that cover
each.

## Modules

| Module | Models | |
|---|---|---|
| `Packet` | a decoded packet and everything computed from it alone | operators |
| `MemoryStore` | the table and the methods, one action per critical section | state machine |
| `MemoryServer` | listeners and tasks over `MemoryStore`, requests and replies | composition |
| `AddressBook` | what a lease store promises, with no representation | abstract specification |
| `MemoryStoreRefinement` | the store as an `AddressBook` | refinement mapping |
| `ServerClaims` | `MemoryServer` with a record of what clients were told | history, claims of comments |
| `NetboxStore` | the NetBox backend, one action per REST request | state machine |
| `LeaseLedger` | who may hold an address after whom | abstract specification |
| `NetboxStoreRefinement` | the NetBox store as a `LeaseLedger` | history, refinement mapping |
| `NetboxServer` | tasks, replies and crashes over `NetboxStoreRefinement` | composition |
| `OptionOverload` | the layout of a reply's options | state machine |
| `OptionCodec` | an option area as bytes, read and written | state machine |
| `DomainCompression` | the payload of the search-list option | state machine |
| `SearchListOption` | a search list from the configuration to the client | composition of the two |
| `Listener` | from `main` to the start of a task | state machine |
| `MemoryStoreProofs`, `MemoryServerProofs` | the memory store, alone, as an `AddressBook` and under the server | theorems |
| `NetboxStoreProofs`, `NetboxServerProofs` | the NetBox store, alone, as a `LeaseLedger` and under the server with crashes | theorems |
| `OptionOverloadProofs`, `OptionCodecProofs`, `SearchListProofs` | the layout; the codec; the compression and its way to the client | theorems |
| `ListenerProofs` | the receive buffer | theorems |
| `MC...` | constants for TLC | |

### Packet

`DhcpPacket` keeps the fields the server looks at: operation, message type,
transaction, client identifier, broadcast flag, the addresses, the two address options and the
parameter list. Addresses are numbers, because the store scans a `u32` range.
`client_state` is split into the four conditions of a DHCPREQUEST; they
exclude each other, so a CASE says the same as the sequence of `if`s. `method`
is the dispatch of `process_packet_data`.

### MemoryStore

A task's position is `pc`, its arguments `pkt` and `origin` (`recv_ip`), its
locals `ip` and `lease`; `db` is the HashMap with `NoLease` for an absent key.
One action is at most one hold of the mutex:

| code | actions |
|---|---|
| entering a method, its early returns before the table | `handle_discover` ... `handle_other` |
| `get_unused_ip_addr`, one address | `ScanTaken`, `ScanFree` |
| `get_exprired_lease_ip_addr`; HashMap order is a choice | `ReclaimExpired`, `RefuseDiscover` |
| building the lease, `Utc::now()` | `BuildLease`, `RefreshLease` |
| `get_lease_for_ip` and what each REQUEST does with it | `LookUpMissing`, `LookUpSelecting`, `LookUpInitReboot`, `LookUpRenewing` |
| `get_lease_for_xid`; HashMap order is a choice | `LookUpXid`, `LookUpXidMissing` |
| `store_lease`, `remove_lease` | the same |
| the result back in `process_packet_data` | `Return` |

`Tick` is the wall clock, which here does not step back. A lease keeps its
transaction, address, start and the option codes it carries. The codes matter:
`process_params` never stores a subnet mask, and INIT-REBOOT gives up without
one, so its later steps are in the model and are not reachable. (That `pc` is
never `"evict"` is part of the proved invariant.) Three history variables
are written next to the steps and read by none: `overtaken` (tasks whose address
changed after they read it), `freeSince` (addresses free ever since a task's
call began) and `offered`.

Left out: the contents of options, `server_identifier` (set by the caller), the
poisoning of the mutex by a panic, and a `subnet_mask` in the configuration
that is no mask, on which `handle_discover` panics. `lease_duration` is the
constant 60 * 60 seconds of the code, in ticks.

### MemoryServer

`Datagram` is receiving, decoding, the server-identifier filter, and the call
of the store; a datagram that fails to decode changes nothing and has no step.
`Respond` is a reply that is sent, `FallSilent` every other end: errors without
an answer, no destination, `send_to` failing, or a reply lost on the way. Any packet of
`Packets` may arrive at any listener at any time and again, which covers loss,
duplication and reordering.

### OptionOverload

An option is the length of its encoding; one step is one iteration of the loop
of `to_network_overflow`, and `Finish` is the rest with the padding of
`to_network`. The options `response()` pushes first have their real
lengths, those after them any length of `Sizes`. `sname` is always empty in a
reply and is no variable.

### NetboxStore

The backend keeps nothing between calls; `leases` is NetBox's table by id (which
stands for the url), and `items` is a task's local list: the leases read so far,
then the ones it will deal with, then the one it returns.

| code | actions |
|---|---|
| entering a method | `Call` |
| `NetboxPaginatedList::get` and `all`, one page | `get_page` |
| what a method does with the list, up to the next request | `get_lease`, `renew_lease`, `delete_lease`, `decline_lease` |
| `acknowledge`, `decline` (PUT), `delete`, the POST of `get_lease` | `acknowledge`, `decline`, `delete`, `post` |
| an error of `send_request` that changed nothing | `RequestFails` |
| an error after the change took effect | the second outcome of `Proceed` |
| the result back in `process_packet_data` | `Return` |

NetBox is modelled as the backend relies on it: new urls are never used again, a
PUT or DELETE at a url that is gone fails, POST picks an address that no lease
has, lists are in the order of creation and paged by offset, and
a lease may be dropped at any time (`Purge`). A page holds one lease; with longer
pages there are fewer places for others to interfere, and no new behaviour.
`update_from_packet` cannot change the client id of a lease, since the lease was found by
it. `overtaken` are the tasks whose client gained or lost a lease while they were
under way. Left out: options, host names, the times of a lease, and the empty
client id of a packet with `hlen` 0.

### LeaseLedger and NetboxStoreRefinement

A ledger has the tenant of each address and the addresses their tenants declined. An address
goes from one tenant to another only through `Vacate`, and `Reinstate` gives a declined
one back to its own. NetBox's table forgets who declined a lease, so
`NetboxStoreRefinement` adds the history `owner`: whom each lease was made for. The
mapping needs no assumption that calls do not overlap.

### NetboxServer

`Datagram`, `Respond` and `FallSilent` are `process_packet_data` around the store, as in
`MemoryServer`. `Crash` loses everything the process was doing; a task that had a POST,
PUT or DELETE to send becomes an orphan, whose request may still reach NetBox, once and at any later
time (`LateRequest`), or never. Nobody reads its answer. There is no state to recover, so
the restarted process is the one that goes on. An orphan keeps its task until it is
done. `promised` records the leases that clients
were told of: it grows with every OFFER or ACK that is sent, whatever other tasks did meanwhile, and
shrinks when a RELEASE or DECLINE of the client is acted on or NetBox drops the lease (`Withdraw`).
The code does not look at a lease again between the request that wrote it and
`send_to`, so both can also happen to a lease a task is about to tell of. That task is then
`withdrawn`, and what it sends nevertheless is a promise made `late`.

### OptionCodec

One step is one iteration of the loop of `DhcpOptions::from_network` or of `to_network`. A packet
starts as bytes that arrive or as an option set the server built; it is
decoded, serialised and decoded by the other side. `DhcpOption` is the table of the enum: the type that each of
the 254 codes holds. `accepts` is when the conversion of a type fails, and `value` what it keeps, as the
bytes that it would be written as. The 240 bytes before the options are `header`: too short, without the
magic cookie, or good. `ByTheBook` in `ReadsWhatIsThere` is a reference decoder, written
from RFC 2132 as a recursive function. `DhcpOption::from_network` is not called by
anything in the repository and is left out.

### DomainCompression

A name is the sequence of its labels and a label the sequence of its bytes; one step is one iteration of the inner loop, and
`part_offsets` the HashMap of suffixes. `Decoded` is what a client makes of
the bytes, by RFC 1035: `NameAt` reads the name at an offset, and gives up when it has taken as many steps as there are
bytes, which only a payload that leads in circles can make it do. `pointer` loses the top bits of
an offset of 16384 or more, as the shift of a `u16` does. The properties are about proper names, of labels
of 1 to 63 bytes, and the root. For others the code promises nothing: a name with a trailing dot gets a
root name of its own after it, and a label of 64 to 255 bytes is written with a length byte
that means something else. That the loop ends is claimed of every list.

### SearchListOption

`PushDomainSearch` is the arm of `process_params` that turns the search list into
option 119, here between two other options of the reply. A behaviour either compresses a
list and sends it, or has no list and is `OptionCodec` alone, so that one
run checks both modules and the path between them.

### Listener

`stage` counts the eight calls of `IPServer::serve` before its loop. `Receive` is a
turn of the loop: `recvmsg` takes a datagram off the queue and writes it over the beginning of the buffer, and the whole buffer
is copied into the task's packet; `Take` is where `process_packet_data` cuts it to its length.
A turn fails in two ways. If `readable()` or `recvmsg` returns an error, nothing was received (`ReceiveFails`). If it is
`cmsgs()` that does, the datagram is off its queue and in the buffer, and the loop goes on
without it (`ControlMessagesFail`); the history `lost` has those datagrams.
`Arrive` is the kernel: a broadcast goes to every socket of the interface and a unicast
to one of them, since all are bound to 0.0.0.0:67 with SO_REUSEPORT, so any address of
an interface may answer for another. `Load` may fail, as reading the configuration
and listing the addresses may. `Server::serve` has returned when `main` is `"sleeping"`.

## Runs

Deadlock is checked in every run but four: `option_overload`, `search_list` and `option_long` stop when the
packet is built or read, and `listener` when all datagrams have come or every listener has
failed. The others keep running, since an idle task can take a packet.

| run | instance | shows |
|---|---|---|
| `store_race` | 2 tasks, 2 addresses, 5 packets that write the table, fairness | no lease taken without an overlap, no unjustified refusal, the table, every call returns |
| `store_refinement` | 1 task, 2 addresses, lease of 2 ticks, 4 ticks | the store implements `AddressBook` |
| `server_exchange` | 2 listeners, 2 tasks, a direct and a relayed client, 10 packets | types, grants, replies: content, address, existence |
| `option_overload` | limits none, 250, 576, 640; four options after the fixed ones | the five layout properties |
| `netbox_methods` | 1 task, 2 clients, 2 subnets, 3 leases ever, 11 packets | every exit of every method of the NetBox store against the table |
| `netbox_crash` | 2 tasks, 2 clients, 2 addresses, 2 leases ever, 6 packets, any number of crashes | the same between concurrent requests; the ledger; promises over crashes; denials; where replies go |
| `search_list` | the real bytes and code table; 38,000 option areas, 2,400 option sets, 3,900 lists | decoding, serialising and compressing, alone and together |
| `listener` | 2 listeners on one interface, 4 datagrams, 1 error of a receive, any set-up failure | buffers, start-up, no datagram lost after the queue but to `cmsgs()` |
| `claim_reboot`, `claim_decline`, `claim_promise` | 1 task | comments the code does not live up to |
| `option_long` | lists of four names with labels of 63 bytes | options that do not fit the length byte |

**Bounds.** Two tasks give every pairwise interleaving of methods. Two transactions are the least for an address to
change hands. The scope has two addresses, so that one
can be freed behind the scan while it looks at the other. `MaxTime` bounds the clock; with `LeaseDuration` 1 a lease expires at the
first tick. `store_race` has the packets that write the table, and `server_exchange` those of the other
methods, so that both together reach every exit. In
`option_overload` the lengths sit at and next to the capacities: 62 and 63
next to SNAME_BYTES - 1, 127 and 128 next to FILE_BYTES - 1, and sums of the
others reach `max_options_len` exactly. 250 is below the minimum of 576. In the NetBox runs two leases are enough for a
client to hold two on one subnet (after an overlap), one on each of two subnets, or to have a
list of two pages that changes between them; the third lease of `netbox_methods` lets a new one be
made beside them, and its relayed packets reach the second subnet, which `netbox_crash` does not have. `MaxId` bounds the leases ever created, so ids are not reused.
Crashes are not bounded. In `search_list` the areas are all of up to four bytes over pads, ENDs, lengths
and codes of each kind of type, all of six over fewer, and for each code every length that is the bound of some type, with an
option after it that must be found. Names have up to three labels of two kinds, which is
every way in which two names can share a suffix; labels of 63 bytes put the third name beyond offset 255.
The buffer of `listener` holds two bytes, and datagrams have one, two and three.
Task symmetry is used in `server_exchange` and `netbox_crash`, which have no liveness; tasks occur in no property by
name.

**Fairness.** In `MemoryStore`, `Fairness` is weak fairness of each task's own steps. tokio polls
every ready task, no method waits for anything but the mutex, and a hold of the
mutex is one step that ends. In `Listener` it is the same for `main`, each listener and the spawned
tasks: they are tasks of tokio too, and a queue that is not empty keeps its socket readable. That a call of the set-up succeeds,
or that a received datagram comes with readable control messages, is not assumed, only that the call returns. The loops of `SearchListOption` wait for
nothing. Nothing is assumed of arrivals, errors or the clock.
No liveness is stated of the NetBox store: its HTTP client has no timeout, so a
request that is never answered keeps its task for ever.

**Findings.** Each of the runs that TLC finds violated is a comment or a test that says something else than the code does
(`PROJECT.json`, "findings"): INIT-REBOOT never gets a DHCPNAK; a declined
address is offered again; a lease just acknowledged may count as expired,
because `lease_time` is that of the OFFER; and an option of 256 bytes or more, such as a long search
list, is not read back by the other side, because its length is cut to one byte.

Three comments more are seen to differ without a run. `Server::serve` is said to
return only on an error (`server.rs:49-50`), and returns when it has spawned the listeners. An `IPServer`
is said to be on a specific address (`server.rs:86`), and shares 0.0.0.0:67 with the others of
its interface. The NetBox store denies a REBINDING client whose `ciaddr` is not its lease, where one of two comments in
`renew_lease` (`netbox.rs:323-325`) keeps the NAK for RENEWING; the other (`netbox.rs:348-350`) describes the code.

What `LeaseTakenOnlyByOverlap` allows is as important as what it excludes: two
overlapping DISCOVERs can be offered one address, and an overlapping renewal
can bring a released lease back, because nothing is looked at again under the
mutex that writes. No text of the repository promises otherwise; the property
says that this is the only way. With one task there is no such way, which is
what `store_refinement` shows. The properties of `NetboxStore` are of the same kind:
overlapping calls of one client can leave it with two leases on a subnet or undo its
own DECLINE, and nothing else can. `ImplementsLedger` and `AddressLeasedOnce`
have no such exception: they hold through every overlap, lost answer and crash. `PromiseKept` holds through them as well, with an
exception of its own, much narrower than an overlap: an OFFER or ACK is not true when it is sent if the same client's
RELEASE or DECLINE of the address, perhaps one of a process that died, is acted on, or NetBox drops the lease, after the lease was
written and before the answer goes out. TLC reaches such answers (`late`), so the property fails without the exception;
`NoFalseDenial` leaves them aside too.

**Mutants.** Definitions commented "a wrong ..." are plausible bugs
(a dropped comparison, a bound off by one, a loop that does not advance).
No specification uses them; put in place of the definition they follow, they
break the property that the comment names.

## Proofs

Every safety invariant, action property and refinement that a passing run checks is also a theorem, for every
value of the constants that satisfies the named assumptions; what the runs show on their
instances, the proofs show for any number of tasks, clients, addresses, options, bytes and names. TLAPS checks them all. The few that have a
hypothesis of their own are named below.
`PROJECT.json` lists which theorem states which property.

### The memory store and its server

`MemoryStoreProofs` assumes `AddrAssumption` and `StoreAssumption`. None of the five safety properties that
`store_race` and `server_exchange` check is inductive alone. `IInv` adds

* `Table`: `TableConsistent`, and no lease in the table has a subnet mask;
* `TasksLocal`: what a task knows at each `pc`: which method it runs, on
  which address, and that its copy of a lease is filed under that address and
  was offered. `GrantMatchesRequest` follows from it, and `TableConsistent`
  needs it when the copy is written;
* `Scanned`: addresses in `freeSince` are free and ahead of the scan, so at the
  end of the scan there are none left;
* `Held`: what a task read of its entry is still true unless it is in
  `overtaken`. An expired lease stays expired and a renewed one only gets
  newer; this is what makes a store by a task that was not overtaken harmless.

`LeaseIsProtected` is an action property that follows from `IInv` before each step. The refinement does so, too:
a step from a state of `IInv` in which nobody is overtaken is a step of `AddressBook` or a stutter.
`BookKeptUnlessOvertaken` says this of any number of tasks, and `OneTaskImplementsBook` of one, which nobody can overtake.
Both use that the value for "no transaction" is none (`NobodyAssumption`).

`MemoryServerProofs` carries this to the server. Every step of `ServerNext` is a step of
`Next` or a stutter of it (`ServerStepIsStoreStep`, which uses `ServerAssumption`), so `IInv` holds under
`ServerSpec`. `SInv` adds that a busy task has a packet its listener accepts (`Accepted`), and
the two properties of `wire`. `AckCompletesExchange` rests on
`AskedFor`: the address in a task's lease is the one its packet names, and a
SELECTING packet that was accepted names the listener as its server. `GrantIsRoutable` has a hypothesis of
its own, that 0.0.0.0 is not in the scope: the configuration does not check it, and with it
an OFFER of 0.0.0.0 to a client without the broadcast flag has nowhere to go.

### The NetBox store and its server

`NetboxStoreProofs` assumes `NetboxAssumption`. `IInv` is `TypeOK` and `AddressLeasedOnce` with

* `Filed`: each lease in the table is filed under its own id, which has been issued;
* `TasksLocal`: what a task knows at each `pc`: its copies are its client's and of leases that were
  issued, and a lease that is still there has the address of every copy of it, however old; the copy it is
  about to write has the address its packet asked for;
* `Held`: the lease of each copy is still there and its client's, unless the task is in `overtaken`.

`AddressLeasedOnce` needs `TasksLocal`, because a PUT writes a whole lease: only since no copy
ever differs from the table in its address does no write move a lease. `GrantIsRecorded` is what `Held`
says of the last copy.

`Held` says that what a task has is there. A refusal, or the success of a RELEASE, rests on the converse, that what is there the
task has: `Seeing`. A task that nobody overtook and that has read n leases has a copy of the first n of its client (the
order of creation, counted by the cardinality of the ids below: a page is added at position n and nothing
moves, because whoever makes the positions move overtakes the task); so at the end of the list it has them all, and
what the method concludes from its list is true of the table. `RefusalIsJustified`, `RemovalIsComplete` and
`NewLeaseOnlyIfNone` are read off it.

For the refinement `OInv` adds `Owned`: a lease is its owner's or declined, and so is every copy its owner's. Each step then is one
action of the ledger or a stutter; the case that takes the work is an acknowledgement that is also a `Reinstate`.

`NetboxServerProofs` first shows that every step of the server is one of the store with its history, or a crash
(`ServerStepIsStoreStep`), and that a crash keeps the invariant: it leaves the table alone, and a task either
keeps its copies and its request or forgets everything. So all properties of the store hold under `ServerSpec`, with
requests of dead processes arriving at any time. `PromiseKept` follows by `WorkKeepsLease`: whatever a task does, an old one of a
dead process included, a client still has a lease of each address it had, except that the task is to give up this very address
for this very client, and then the promise goes in the same step. That a promise is true when it is made is `Backed`, the
conjunct of `PInv` that makes it inductive: a task that is about to answer and is not `withdrawn` tells of a lease that is there. `Held`
would give this only of tasks that nobody overtook; `Backed` has it of all, since the request that grants a lease has just written it
(`GrantWrites`), over whatever others did before, and from then on `WorkKeepsLease` applies. `NoFalseDenial` joins `PromiseKept` with
`RefusalIsJustified`. `ServerReplyReachesClient` has the hypothesis that NetBox does not lease 0.0.0.0, for
the reason given above.

### Options and search lists

`OptionOverloadProofs` proves the five properties of `OptionOverload` for any
limits and any option lengths. `LInv` adds that each area keeps room for its END and the option area for option 52 (`Room`),
that the counters agree with where options went (`Counted`), that the first four options have
used at most 6 bytes each when the loop gets to them (`HeadFirst`), and that what was left
out fits nowhere (`Full`).

`OptionCodecProofs` takes any bytes and any options, under `CodecAssumption`, which only says which is which.

* `TInv` and `DInv` give `TypeOK` and `DecodedIsSayable`; they rest on `ValueSayable`: trimming a text a second time changes nothing, nor
  does dropping the RCODEs again, and neither makes an accepted payload unacceptable.
* `RoundTrip`: while the packet is written, each option stands in `raw` where `mark` says, right after the one before
  (`Laid`), and later bytes leave it there; while it is read, the first options have been found and
  the cursor is where the next one was put (`Arriving`). END follows the last, so padding is not reached. `mark` is there for this proof.
* `ReadsWhatIsThere`: `Reading` says that what `ByTheBook` finds in the whole area is what has been decoded followed by what it finds
  behind the cursor (`Ahead`). Each iteration unfolds the reference decoder once.

`SearchListProofs` takes any lists of names, under `ListsAssumption`. What the bytes say is a set of
facts (`Fact`): from this offset to that one these labels are spelled, in the name that starts there. A fact is `Said`
if the bytes are a root, a pointer to a fact that ends before this name starts, or a label followed by a fact of the same name.
`SaidIsRead` is about the client alone: it reads every fact that is said, within the steps it has, since each step
brings it nearer to the end of a name, or to a name that ends before. `Told` is the invariant of the compression: each name so far
and each entry of `part_offsets` has its fact, and of the name under way each part is a label
whose rest is still to come. Facts outlive what is appended (`SaidStays`). `NamesRoundTrip` and
`OffsetsNameSuffixes` follow between names under `InReach`, that the payload has at most 16 kilobytes: the marker of a pointer takes two
bits of the offset, and beyond, the code writes a pointer to somewhere else. `SuffixSpelledOnce` has no such bound; `Spelled` says that the parts are
the suffixes of the names before and what has been written of this one, and that no two have the same suffix, because
only an unknown suffix is spelled out and the parts of this name are longer than the rest of it.

For `SearchListOption`, `SearchInv` joins the invariants of both modules with `Way`: the payload goes into
the reply when the last name is finished, and the reply is sent as it was made. `SearchListArrives` is then the round trip of
the codec followed by that of the names; the limit of 255 bytes on an option gives `InReach`.

The reference decoders are recursive functions. That such a function exists is shown first, for longer and longer ends
of the area (`BookExists`) or more and more steps (`ReaderExists`); then the definition's CHOOSE picks a
solution of its equation, and a statement about all positions is shown by its last counterexample (`Last`)
or by climbing from 0 (`Climb`), since the induction theorems of the library take an operator and cannot be
instantiated here. `NameAt` counts its steps for that reason as well: a recursion along pointers would not
be well-founded for arbitrary bytes.

### Listeners

`ListenerProofs` proves `TaskSeesItsDatagram` for any listeners, datagrams and size of the buffer. Its
`LInv` adds to the property that the queues hold datagrams (`QueueOK`), that each listener has one buffer
(`BufferOK`), and, of every task not yet started, that its copy of the buffer begins with its own
datagram and has that datagram's length (`Carries`); `CutToLength` turns that into the
bytes the task decodes. A datagram that is lost after `recvmsg` changes the buffer and no copy of it.

### Only model-checked

Liveness (`CallReturns`, `ListenerServes`, `QueuedIsTaken`, `LoopsEnd`), which
is out of TLAPS's reach here, as is ENABLED. The four runs that end in a violation are counterexamples and need no
theorem. No module declares a RECURSIVE operator.

## Not modelled

* Configuration: a YAML file read once, with no checks but types. Its values are constants
  of the modules; that it cannot be read is a choice of `Load`.
* Error types, `Display` and logging.
* The times, options and host names of NetBox leases. The lease time of an ACK comes from the copy
  that a GET returned, and how NetBox moves it is up to its plugin.
* The size of replies to clients that state no maximum (the code states no limit), and
  the header fields that are only copied.

## What could come next

1. `NetboxServer` with two subnets and a relay, if a larger instance is affordable.
2. The names with labels of more than 63 bytes: what exactly a client reads instead.
