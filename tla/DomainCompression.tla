-------------------------- MODULE DomainCompression --------------------------
(***************************************************************************)
(* util.rs: domain_name_list_compression, which turns the configured       *)
(* search list into the payload of option 119, a pointer standing for a    *)
(* suffix that an earlier name has.  One step is one iteration of the      *)
(* inner loop.                                                             *)
(*                                                                         *)
(* A label is the sequence of its bytes and a name the sequence of its     *)
(* labels, so "a." is <<a, "">> and "." is <<"", "">>.                     *)
(***************************************************************************)
EXTENDS Integers, FiniteSets, Sequences

CONSTANTS Lists \* the lists of names

Label == Seq(0 .. 255)

Name == Seq(Label) \ {<<>>}

ASSUME ListsAssumption ==
  /\ Lists \subseteq Seq(Name)
  /\ \A list \in Lists : \A i \in DOMAIN list :
       \A k \in DOMAIN list[i] : Len(list[i][k]) < 256

VARIABLES names,            \* the list
          i,                \* the name the outer loop is at
          name,             \* what is left of it
          part_offsets,     \* where each suffix of the names before starts
          new_part_offsets, \* ... and each suffix of this name
          compressed        \* the bytes written

compressVars == <<names, i, name, part_offsets, new_part_offsets, compressed>>

Empty == <<>>

RootName == <<Empty, Empty>>

(* offset | 3 << 14, high byte first; the top two bits are lost.           *)
pointer(offset) == <<192 + ((offset \div 256) % 64), offset % 256>>

CompressInit ==
  /\ names \in Lists
  /\ i = 1
  /\ name = IF names = <<>> THEN Empty ELSE names[1]
  /\ part_offsets = {} /\ new_part_offsets = {}
  /\ compressed = <<>>

Running == i <= Len(names)

(* Where `name` starts among the names before; at most one.                *)
Known == {p.offset : p \in {q \in part_offsets : q.suffix = name}}

(* The part that is spelled out now.                                       *)
Part == {[suffix |-> name, offset |-> Len(compressed)]}

spelling(label) == <<Len(label)>> \o label

(* A wrong FinishName, for SuffixSpelledOnce: what this name spelled out   *)
(* is forgotten.                                                           *)
FinishAndForget(bytes, parts) ==
  /\ compressed' = compressed \o bytes
  /\ i' = i + 1
  /\ name' = IF i < Len(names) THEN names[i + 1] ELSE Empty
  /\ new_part_offsets' = {}
  /\ UNCHANGED <<names, part_offsets>>

(* The inner loop is left, and the next name can point into this one.      *)
FinishName(bytes, parts) ==
  /\ compressed' = compressed \o bytes
  /\ i' = i + 1
  /\ name' = IF i < Len(names) THEN names[i + 1] ELSE Empty
  /\ part_offsets' = part_offsets \cup parts
  /\ new_part_offsets' = {}
  /\ UNCHANGED names

PutRoot ==
  /\ Running /\ name = RootName
  /\ FinishName(<<0>>, new_part_offsets)

(* A wrong PutPointer, for NamesRoundTrip: low byte first.                 *)
PutSwappedPointer ==
  /\ Running /\ name # RootName
  /\ \E offset \in Known :
       FinishName(<<pointer(offset)[2], pointer(offset)[1]>>, new_part_offsets)

PutPointer ==
  /\ Running /\ name # RootName
  /\ \E offset \in Known : FinishName(pointer(offset), new_part_offsets)

(* A wrong PutLabel, for OffsetsNameSuffixes: the offset is taken after    *)
(* the length byte has been written.                                       *)
PutLabelThenRecord ==
  /\ Running /\ name # RootName /\ Known = {} /\ Len(name) > 1
  /\ compressed' = compressed \o spelling(Head(name))
  /\ new_part_offsets' = new_part_offsets
       \cup {[suffix |-> name, offset |-> Len(compressed) + 1]}
  /\ name' = Tail(name)
  /\ UNCHANGED <<names, i, part_offsets>>

PutLabel ==
  /\ Running /\ name # RootName /\ Known = {} /\ Len(name) > 1
  /\ compressed' = compressed \o spelling(Head(name))
  /\ new_part_offsets' = new_part_offsets \cup Part
  /\ name' = Tail(name)
  /\ UNCHANGED <<names, i, part_offsets>>

(* A wrong PutLastLabel, for LoopsEnd: nothing is done with the empty rest *)
(* of a name that ends in a dot.                                           *)
PutLastNonEmpty ==
  /\ Running /\ Known = {} /\ Len(name) = 1 /\ name[1] # Empty
  /\ FinishName(Append(spelling(Head(name)), 0), new_part_offsets \cup Part)

PutLastLabel ==
  /\ Running /\ name # RootName /\ Known = {} /\ Len(name) = 1
  /\ FinishName(Append(spelling(Head(name)), 0), new_part_offsets \cup Part)

Compress == PutRoot \/ PutPointer \/ PutLabel \/ PutLastLabel

CompressSpec == CompressInit /\ [][Compress]_compressVars
-----------------------------------------------------------------------------
(* What a client makes of the bytes (RFC 3397, RFC 1035 4.1.4).            *)

(* A label no name has, for bytes that are no name.                        *)
Garbled == <<-1>>

(* The name that starts after p bytes, without the root, and where its     *)
(* spelling ends.  A pointer has to go back, and no name takes more steps  *)
(* than there are bytes: a client that is still reading then gives up.     *)
NameAt ==
  LET L    == Len(compressed)
      lost == [labels |-> <<Garbled>>, end |-> L]
      at[q \in (0 .. L) \X (0 .. L)] ==
        LET n == q[1]  p == q[2]  b == compressed[p + 1] IN
        IF n = 0 \/ p = L THEN lost
        ELSE IF b = 0 THEN [labels |-> <<>>, end |-> p + 1]
        ELSE IF b < 64 /\ p + 1 + b <= L
        THEN LET rest == at[<<n - 1, p + 1 + b>>]
             IN  [labels |-> <<SubSeq(compressed, p + 2, p + 1 + b)>> \o rest.labels,
                  end |-> rest.end]
        ELSE IF b >= 192 /\ p + 2 <= L
        THEN LET target == (b - 192) * 256 + compressed[p + 2]
             IN  [labels |-> IF target < p THEN at[<<n - 1, target>>].labels
                             ELSE <<Garbled>>,
                  end |-> p + 2]
        ELSE lost
  IN  [p \in 0 .. L |-> at[<<L, p>>]]

Decoded ==
  LET L  == Len(compressed)
      at == NameAt
      from[p \in 0 .. L] ==
        IF p = L THEN <<>> ELSE <<at[p].labels>> \o from[at[p].end]
  IN  from[0]

(* A host name in the configuration: labels of 1 to 63 bytes, or ".".      *)
Proper(n) == n = RootName \/ \A k \in DOMAIN n : Len(n[k]) \in 1 .. 63

ProperList == \A k \in DOMAIN names : Proper(names[k])

labels_of(n) == IF n = RootName THEN <<>> ELSE n

BetweenNames == new_part_offsets = {} /\ (Running => name = names[i])

(* The payload says the names of the configuration, all of them, in order, *)
(* after every name: a pointer never leads forward, into another name, or  *)
(* into a name that shares only a part.                                    *)
NamesRoundTrip ==
  ProperList /\ BetweenNames =>
    Decoded = [k \in 1 .. i - 1 |-> labels_of(names[k])]

(* Every offset a later name may point to is in the reach of a pointer and *)
(* leads to the suffix it was recorded for, bytes appended since or not.   *)
OffsetsNameSuffixes ==
  ProperList /\ BetweenNames =>
    LET at == NameAt
    IN  \A p \in part_offsets : /\ p.offset < 64 * 256
                                /\ at[p.offset].labels = p.suffix

(* The suffixes of the names before i.                                     *)
Suffixes == UNION {{SubSeq(names[k], j, Len(names[k])) : j \in DOMAIN names[k]} :
                     k \in {m \in 1 .. i - 1 : names[m] # RootName}}

(* The payload has to fit one option, so nothing is spelled out twice:     *)
(* each suffix costs its first label once, and each name a root or a       *)
(* pointer.                                                                *)
SuffixSpelledOnce ==
  ProperList /\ BetweenNames =>
    /\ {p.suffix : p \in part_offsets} = Suffixes
    /\ Cardinality(part_offsets) = Cardinality(Suffixes)
==============================================================================
