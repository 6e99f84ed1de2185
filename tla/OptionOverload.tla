---------------------------- MODULE OptionOverload ----------------------------
(***************************************************************************)
(* How a reply's options are laid out in the datagram: the loop of         *)
(* DhcpOptions::to_network_overflow, and DhcpPacket::to_network around it. *)
(* When the client states a maximum message size, options that do not fit  *)
(* go to the file field, then to the sname field, and are else left out.   *)
(*                                                                         *)
(* An option is the length of its encoding.  One step of the model is one  *)
(* iteration of the loop; nothing runs concurrently.                       *)
(***************************************************************************)
EXTENDS Integers, FiniteSets

CONSTANTS Limits,     \* max_client_message_size values
          NoLimit,    \* ... when the client gave none
          Sizes,      \* encoded lengths of options, code and length included
          Extra       \* options after the ones response() puts first

MIN_MAX_MESSAGE_LEN == 576
DHCP_HEADER_LEN     == 240
FILE_BYTES          == 128
SNAME_BYTES         == 64

(* A wrong RESERVED_BYTES, for DatagramFits: no room for option 52.        *)
RESERVED_FOR_END == 1

(* Option 52 and END.                                                      *)
RESERVED_BYTES == 4

(* response() starts with the message type, the server identifier, the     *)
(* lease time and the subnet mask.                                         *)
HeadCount == 4
Count == HeadCount + Extra
HeadSize == [k \in 1 .. HeadCount |-> IF k = 1 THEN 3 ELSE 6]

ASSUME LayoutAssumption == /\ \A l \in Limits : l \in Nat /\ l < 65536
                           /\ NoLimit \notin Limits
                           /\ \A n \in Sizes : n \in Nat /\ n > 1
                           /\ Extra \in Nat

Area == {"options", "file", "sname", "omitted"}

VARIABLES limit,    \* max_client_message_size of the packet
          use_file, \* file[0] == 0: no boot file occupies the field
          size,     \* the encoded length of each option
          i,        \* the option the loop is at
          bytes, file_bytes, sname_bytes, \* bytes written to each area
          area,     \* where each option went
          overload, \* the value of option 52, 0 when it is not sent
          sent      \* the length of the datagram, 0 until it is built

vars == <<limit, use_file, size, i, bytes, file_bytes, sname_bytes, area,
          overload, sent>>

larger(a, b) == IF a >= b THEN a ELSE b

(* A wrong max_options_len, for EssentialsInOptions: no minimum.           *)
max_as_given == limit - DHCP_HEADER_LEN

(* The `max` parameter of to_network_overflow.                             *)
max_options_len == larger(limit, MIN_MAX_MESSAGE_LEN) - DHCP_HEADER_LEN

FitsOptions(n) ==
  limit # NoLimit => bytes + n + RESERVED_BYTES <= max_options_len

FitsFile(n) == /\ limit # NoLimit
               /\ use_file
               /\ file_bytes + 1 + n <= FILE_BYTES

(* sname[0] == 0 always holds: response() never fills the field.           *)
FitsSname(n) == limit # NoLimit /\ sname_bytes + 1 + n <= SNAME_BYTES

Init ==
  /\ limit \in Limits \cup {NoLimit}
  /\ use_file \in BOOLEAN
  /\ \E rest \in [1 .. Extra -> Sizes] :
       size = [k \in 1 .. Count |-> IF k <= HeadCount THEN HeadSize[k]
                                    ELSE rest[k - HeadCount]]
  /\ i = 1
  /\ bytes = 0 /\ file_bytes = 0 /\ sname_bytes = 0
  /\ area = [k \in 1 .. Count |-> "omitted"]
  /\ overload = 0
  /\ sent = 0

Advance(a) ==
  /\ i <= Count
  /\ i' = i + 1
  /\ area' = [area EXCEPT ![i] = a]
  /\ UNCHANGED <<limit, use_file, size, overload, sent>>

PutOptions ==
  /\ Advance("options")
  /\ FitsOptions(size[i])
  /\ bytes' = bytes + size[i]
  /\ UNCHANGED <<file_bytes, sname_bytes>>

PutFile ==
  /\ Advance("file")
  /\ ~FitsOptions(size[i]) /\ FitsFile(size[i])
  /\ file_bytes' = file_bytes + size[i]
  /\ UNCHANGED <<bytes, sname_bytes>>

PutSname ==
  /\ Advance("sname")
  /\ ~FitsOptions(size[i]) /\ ~FitsFile(size[i]) /\ FitsSname(size[i])
  /\ sname_bytes' = sname_bytes + size[i]
  /\ UNCHANGED <<bytes, file_bytes>>

(* A wrong Omit, for OmittedOnlyWhenFull: sname may stay unused.           *)
OmitBeforeSname ==
  /\ Advance("omitted")
  /\ ~FitsOptions(size[i]) /\ ~FitsFile(size[i])
  /\ UNCHANGED <<bytes, file_bytes, sname_bytes>>

Omit ==
  /\ Advance("omitted")
  /\ ~FitsOptions(size[i]) /\ ~FitsFile(size[i]) /\ ~FitsSname(size[i])
  /\ UNCHANGED <<bytes, file_bytes, sname_bytes>>

(* Wrong overload_vals: the bits of the two fields swapped, for            *)
(* EveryPlacedOptionIsRead, and a sum out of range, for TypeOK.            *)
overload_swapped == (IF file_bytes > 0 THEN 2 ELSE 0)
                    + (IF sname_bytes > 0 THEN 1 ELSE 0)

overload_twice == (IF file_bytes > 0 THEN 2 ELSE 0)
                  + (IF sname_bytes > 0 THEN 2 ELSE 0)

overload_val == (IF file_bytes > 0 THEN 1 ELSE 0)
                + (IF sname_bytes > 0 THEN 2 ELSE 0)

(* to_network: header and option area, the latter padded to 60 bytes.      *)
datagram_len(n) == DHCP_HEADER_LEN + larger(n, 60)

(* Option 52 takes 3 bytes; END closes every area in use.                  *)
Finish ==
  /\ i > Count /\ sent = 0
  /\ overload' = overload_val
  /\ bytes' = bytes + (IF overload_val > 0 THEN 3 ELSE 0) + 1
  /\ file_bytes' = IF file_bytes > 0 THEN file_bytes + 1 ELSE 0
  /\ sname_bytes' = IF sname_bytes > 0 THEN sname_bytes + 1 ELSE 0
  /\ sent' = datagram_len(bytes')
  /\ UNCHANGED <<limit, use_file, size, i, area>>

Next == PutOptions \/ PutFile \/ PutSname \/ Omit \/ Finish

Spec == Init /\ [][Next]_vars
-----------------------------------------------------------------------------
TypeOK ==
  /\ limit \in Limits \cup {NoLimit}
  /\ use_file \in BOOLEAN
  /\ size \in [1 .. Count -> Sizes \cup {3, 6}]
  /\ i \in 1 .. Count + 1
  /\ bytes \in Nat /\ file_bytes \in Nat /\ sname_bytes \in Nat
  /\ area \in [1 .. Count -> Area]
  /\ overload \in 0 .. 3
  /\ sent \in Nat

(* The datagram is never longer than the client said it can take (nor than *)
(* the 576 bytes every client takes), END and option 52 included, and what *)
(* is copied into the two fields fits them: copy_from_slice would panic.   *)
DatagramFits ==
  sent # 0 /\ limit # NoLimit =>
    /\ sent <= larger(limit, MIN_MAX_MESSAGE_LEN)
    /\ file_bytes <= FILE_BYTES
    /\ sname_bytes <= SNAME_BYTES

(* The options a client needs before it looks at option 52, the message    *)
(* type first of all, are never pushed out of the option area.             *)
EssentialsInOptions ==
  sent # 0 => \A k \in 1 .. HeadCount : area[k] = "options"

(* What a client reads (RFC 2132, 9.3): the option area, then the fields   *)
(* that option 52 names.  It finds every option that was not left out, and *)
(* option 52 never sends it into a field without options.                  *)
ClientReads == {k \in 1 .. Count :
                  \/ area[k] = "options"
                  \/ area[k] = "file" /\ overload \in {1, 3}
                  \/ area[k] = "sname" /\ overload \in {2, 3}}

EveryPlacedOptionIsRead ==
  sent # 0 =>
    /\ ClientReads = {k \in 1 .. Count : area[k] # "omitted"}
    /\ overload \in {1, 3} => use_file /\ \E k \in 1 .. Count : area[k] = "file"
    /\ overload \in {2, 3} => \E k \in 1 .. Count : area[k] = "sname"

(* An option is left out only if no area has room for it even once the     *)
(* loop is over: a smaller one may pass it, but no space it could have     *)
(* used is left unused.                                                    *)
OmittedOnlyWhenFull ==
  i > Count /\ sent = 0 =>
    \A k \in 1 .. Count : area[k] = "omitted" =>
      ~FitsOptions(size[k]) /\ ~FitsFile(size[k]) /\ ~FitsSname(size[k])
=============================================================================
