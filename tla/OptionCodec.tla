----------------------------- MODULE OptionCodec -----------------------------
(***************************************************************************)
(* Options as bytes: the loop of DhcpOptions::from_network and what        *)
(* DhcpPacket::from_network checks before it, DhcpOptions::to_network with *)
(* the padding of DhcpPacket::to_network, DhcpOption::new and to_network   *)
(* (generated by rsdhcp_macros) and the value types of protocol/option.rs. *)
(*                                                                         *)
(* A packet is read, or built by the server, then serialised and read by   *)
(* the other side: the round trip of the tests, for any bytes.  One step   *)
(* is one iteration of the loop.                                           *)
(***************************************************************************)
EXTENDS Integers, Sequences

CONSTANTS Raws,   \* option areas that arrive
          Built,  \* option sets the server makes
          NotSent \* nothing has been serialised yet

Byte == 0 .. 255

PAD == 0
END == 255

(* The codes between PAD and END.                                          *)
Codes == 1 .. 254

Option == [code : Codes, data : Seq(Byte)]

ASSUME CodecAssumption ==
  /\ Raws \subseteq Seq(Byte)
  /\ Built \subseteq Seq(Option)
  /\ NotSent \notin Seq(Option)

VARIABLES header,   \* the 240 bytes before the options
          raw,      \* the option area being read
          position, \* the cursor: how many bytes of it have been read
          options,  \* the options decoded, or built
          status,   \* where the packet is
          sent,     \* what is serialised
          mark      \* history: where in raw each option of sent was put

packetVars == <<header, raw, position, options, status, sent, mark>>

-----------------------------------------------------------------------------
(* A wrong DhcpOption, for SearchListArrives: option 119 is a String.      *)
DhcpOptionTextual ==
  [c \in Codes |-> IF c = 119 THEN [kind |-> "text", width |-> 1]
                   ELSE [kind |-> "octets", width |-> 1]]

(* The enum DhcpOption: the type that the variant of each code holds.      *)
(* "fixed" is u8, u16, u32, i32 and Ipv4Addr, "list" a vector of those or  *)
(* of pairs, "octets" Vec<u8>, "text" String, "message" MessageType,       *)
(* "fqdn" ClientFqdn; "unknown" is a code without a variant.  width is the *)
(* bytes of one element.                                                   *)
DhcpOption ==
  LET Of(c) ==
        CASE c \in {19, 20, 23, 27} \cup 29 .. 31 \cup {34, 36, 37, 39, 46, 52}
               -> <<"fixed", 1>>
          [] c \in {13, 22, 26, 57} -> <<"fixed", 2>>
          [] c \in {1, 2, 16, 24, 28, 32, 35, 38, 50, 51, 54, 58, 59}
               -> <<"fixed", 4>>
          [] c = 25 -> <<"list", 2>>
          [] c \in 3 .. 11 \cup {41, 42, 44, 45, 48, 49, 65} \cup 68 .. 76
               -> <<"list", 4>>
          [] c \in {21, 33} -> <<"list", 8>>
          [] c \in {43, 55, 61, 80, 82, 119} -> <<"octets", 1>>
          [] c \in {12, 14, 15, 17, 18, 40, 47, 56, 60, 64, 66, 67} -> <<"text", 1>>
          [] c = 53 -> <<"message", 1>>
          [] c = 81 -> <<"fqdn", 1>>
          [] OTHER  -> <<"unknown", 1>>
  IN  [c \in Codes |-> [kind |-> Of(c)[1], width |-> Of(c)[2]]]

(* ValueSerde::from_network does not fail.                                 *)
accepts(c, d) ==
  LET rule == DhcpOption[c] IN
  \/ rule.kind = "fixed" /\ Len(d) = rule.width
  \/ rule.kind = "list" /\ Len(d) % rule.width = 0
  \/ rule.kind = "octets"
  \/ rule.kind = "text" /\ \A k \in DOMAIN d : d[k] < 128
  \/ rule.kind = "message" /\ Len(d) = 1 /\ d[1] \in 1 .. 8
  \/ rule.kind = "fqdn" /\ Len(d) >= 4

(* trim_end_matches: d without its trailing zeros.                         *)
trim_end(d) ==
  LET filled == {k \in DOMAIN d : d[k] # 0}
  IN  SubSeq(d, 1, IF filled = {} THEN 0
                   ELSE CHOOSE k \in filled : \A j \in filled : j <= k)

(* The value of a payload, as the bytes ValueSerde::to_network writes for  *)
(* it: a text loses its trailing zeros, the two RCODEs of a ClientFqdn are *)
(* not kept.                                                               *)
value(c, d) ==
  CASE DhcpOption[c].kind = "text" -> trim_end(d)
    [] DhcpOption[c].kind = "fqdn" -> [d EXCEPT ![2] = 255, ![3] = 255]
    [] OTHER -> d

(* A wrong to_network, for RoundTrip: the length counts the header.        *)
to_network_long(o) == <<o.code, (Len(o.data) + 2) % 256>> \o o.data

(* DhcpOption::to_network; `b.len() as u8` keeps the low byte.             *)
to_network(o) == <<o.code, Len(o.data) % 256>> \o o.data

(* DhcpPacket::to_network fills an option area up to 60 bytes with zeros.  *)
padded(bytes) == bytes \o [k \in 1 .. 60 - Len(bytes) |-> PAD]

-----------------------------------------------------------------------------
Init ==
  /\ \/ /\ header \in {"short", "foreign", "good"}
        /\ raw \in Raws /\ options = <<>> /\ status = "received"
     \/ /\ header = "good"
        /\ raw = <<>> /\ options \in Built /\ status = "decoded"
  /\ position = 0
  /\ sent = NotSent
  /\ mark = <<>>

AtHand == Len(raw) - position

(* Fewer than 240 bytes, or not the magic cookie: an error.                *)
RejectHeader ==
  /\ status = "received" /\ header # "good"
  /\ status' = "rejected"
  /\ UNCHANGED <<header, raw, position, options, sent, mark>>

(* A packet of exactly 240 bytes has no options.                           *)
AcceptHeader ==
  /\ status = "received" /\ header = "good"
  /\ status' = IF raw = <<>> THEN "decoded" ELSE "reading"
  /\ UNCHANGED <<header, raw, position, options, sent, mark>>

ReadEnd ==
  /\ status = "reading" /\ AtHand > 0 /\ raw[position + 1] = END
  /\ position' = position + 1
  /\ status' = "decoded"
  /\ UNCHANGED <<header, raw, options, sent, mark>>

(* A wrong ReadPad, for TypeOK: a pad is taken to have a length byte.      *)
PadWithLength ==
  /\ status = "reading" /\ AtHand > 0 /\ raw[position + 1] = PAD
  /\ position' = position + 2
  /\ UNCHANGED <<header, raw, options, status, sent, mark>>

ReadPad ==
  /\ status = "reading" /\ AtHand > 0 /\ raw[position + 1] = PAD
  /\ position' = position + 1
  /\ UNCHANGED <<header, raw, options, status, sent, mark>>

(* The code, the length and the payload of an option are all there.        *)
Framed ==
  /\ status = "reading" /\ AtHand > 1
  /\ raw[position + 1] \notin {PAD, END}
  /\ AtHand >= 2 + raw[position + 2]

Code == raw[position + 1]

Data == SubSeq(raw, position + 3, position + 2 + raw[position + 2])

(* A wrong ReadOption, for DecodedIsSayable: the payload is kept as it is. *)
ReadVerbatim ==
  /\ Framed /\ accepts(Code, Data)
  /\ options' = Append(options, [code |-> Code, data |-> Data])
  /\ position' = position + 2 + raw[position + 2]
  /\ UNCHANGED <<header, raw, status, sent, mark>>

ReadOption ==
  /\ Framed /\ accepts(Code, Data)
  /\ options' = Append(options, [code |-> Code, data |-> value(Code, Data)])
  /\ position' = position + 2 + raw[position + 2]
  /\ UNCHANGED <<header, raw, status, sent, mark>>

(* A wrong SkipOption, for ReadsWhatIsThere: the cursor stays before the   *)
(* payload of an option that cannot be decoded.                            *)
SkipHeaderOnly ==
  /\ Framed /\ ~accepts(Code, Data)
  /\ position' = position + 2
  /\ UNCHANGED <<header, raw, options, status, sent, mark>>

(* An unknown code or an invalid payload: a warning, and on to the next.   *)
SkipOption ==
  /\ Framed /\ ~accepts(Code, Data)
  /\ position' = position + 2 + raw[position + 2]
  /\ UNCHANGED <<header, raw, options, status, sent, mark>>

(* The code, the length or the payload of an option is not there.          *)
Truncated ==
  CASE AtHand = 0 -> TRUE
    [] AtHand = 1 -> raw[position + 1] \notin {PAD, END}
    [] OTHER      -> /\ raw[position + 1] \notin {PAD, END}
                     /\ AtHand < 2 + raw[position + 2]

(* The packet is dropped, with everything read so far.                     *)
RejectTruncated ==
  /\ status = "reading" /\ Truncated
  /\ status' = "rejected"
  /\ UNCHANGED <<header, raw, position, options, sent, mark>>

(* DhcpOptions::to_network, one option at a time.                          *)
BeginWriting ==
  /\ status = "decoded" /\ sent = NotSent
  /\ sent' = options
  /\ raw' = <<>> /\ position' = 0 /\ options' = <<>>
  /\ status' = "writing"
  /\ UNCHANGED <<header, mark>>

WriteOption ==
  /\ status = "writing" /\ Len(mark) < Len(sent)
  /\ raw' = raw \o to_network(sent[Len(mark) + 1])
  /\ mark' = Append(mark, Len(raw))
  /\ UNCHANGED <<header, position, options, status, sent>>

(* END and the padding; the other side receives the packet.                *)
WriteEnd ==
  /\ status = "writing" /\ Len(mark) = Len(sent)
  /\ raw' = padded(Append(raw, END))
  /\ header' = "good"
  /\ status' = "received"
  /\ UNCHANGED <<position, options, sent, mark>>

Read == ReadEnd \/ ReadPad \/ ReadOption \/ SkipOption \/ RejectTruncated

Write == BeginWriting \/ WriteOption \/ WriteEnd

Next == RejectHeader \/ AcceptHeader \/ Read \/ Write

Spec == Init /\ [][Next]_packetVars
-----------------------------------------------------------------------------
TypeOK ==
  /\ header \in {"short", "foreign", "good"}
  /\ raw \in Seq(Byte)
  /\ position \in 0 .. Len(raw)
  /\ options \in Seq(Option)
  /\ status \in {"received", "reading", "decoded", "rejected", "writing"}
  /\ sent \in Seq(Option) \cup {NotSent}
  /\ mark \in Seq(Nat)

(* An option that to_network can say: its length fits the length byte, and *)
(* its payload is read back as it is.                                      *)
Sayable(o) == /\ Len(o.data) < 256
              /\ accepts(o.code, o.data)
              /\ value(o.code, o.data) = o.data

(* Whatever bytes arrive, what is decoded from them can be serialised      *)
(* again without loss (a relayed client identifier, option 82), although   *)
(* decoding has dropped and rewritten bytes.                               *)
DecodedIsSayable ==
  raw # <<>> => \A k \in 1 .. Len(options) : Sayable(options[k])

(* What RFC 2132 says of an option area, item by item after p bytes: pads, *)
(* options with a length byte, END.                                        *)
ByTheBook ==
  LET malformed == [ok |-> FALSE, options |-> <<>>]
      end(p) == p + 2 + raw[p + 2]
      read[p \in 0 .. Len(raw)] ==
        IF p = Len(raw) THEN malformed
        ELSE IF raw[p + 1] = END THEN [ok |-> TRUE, options |-> <<>>]
        ELSE IF raw[p + 1] = PAD THEN read[p + 1]
        ELSE IF p + 1 = Len(raw) \/ end(p) > Len(raw) THEN malformed
        ELSE LET d == SubSeq(raw, p + 3, end(p))
                 rest == read[end(p)]
             IN  IF rest.ok /\ accepts(raw[p + 1], d)
                 THEN [rest EXCEPT !.options =
                         <<[code |-> raw[p + 1], data |-> value(raw[p + 1], d)]>>
                         \o @]
                 ELSE rest
  IN  read[0]

(* A packet is dropped just when its option area is cut short, and else    *)
(* every valid option up to the first END is found, whatever stands        *)
(* between: pads, unknown codes, invalid payloads that contain any bytes.  *)
ReadsWhatIsThere ==
  header = "good" /\ raw # <<>> =>
    /\ status = "decoded"  => ByTheBook = [ok |-> TRUE, options |-> options]
    /\ status = "rejected" => ~ByTheBook.ok

Fits == sent # NotSent /\ \A k \in 1 .. Len(sent) : Sayable(sent[k])

(* What is serialised is what the other side reads, option by option, when *)
(* every option fits; padding after END does no harm.                      *)
RoundTrip ==
  Fits => /\ status # "rejected"
          /\ status = "decoded" => options = sent

(* For the comment at option.rs:258-259, serialising "according to the     *)
(* DHCP specifications", and the test at packet.rs:824-843, "serialized    *)
(* packet should decode again": whatever the option set is.                *)
SerializedDecodesAgain ==
  sent # NotSent /\ status \in {"decoded", "rejected"} => options = sent
=============================================================================
