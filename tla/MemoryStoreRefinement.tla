----------------------- MODULE MemoryStoreRefinement -----------------------
(***************************************************************************)
(* The memory store as an AddressBook.  With one task the store implements *)
(* it; with more it does so only while no task overtakes another, because  *)
(* a method lets go of the mutex between reading an entry and writing it   *)
(* (see LeaseTakenOnlyByOverlap).                                          *)
(***************************************************************************)
EXTENDS MemoryStore

CONSTANT Nobody

ASSUME NobodyAssumption == Nobody \notin Xid

holderOf == [a \in Scope |-> IF contains_key(a) THEN db[a].xid ELSE Nobody]

untilOf == [a \in Scope |->
              IF contains_key(a) THEN db[a].lease_time + LeaseDuration ELSE 0]

Book == INSTANCE AddressBook
          WITH Address <- Scope, Transaction <- Xid, Duration <- LeaseDuration,
               Nobody <- Nobody, time <- now,
               holder <- holderOf, until <- untilOf

(* Used by one task at a time, the store keeps the promise of AddressBook: *)
(* no step takes an address whose lease is current for another transaction *)
(* or shortens it, for any sequence of packets.                            *)
ImplementsAddressBook == Book!BookSpec
=============================================================================
