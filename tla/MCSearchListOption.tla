-------------------------- MODULE MCSearchListOption --------------------------
(***************************************************************************)
(* TLC instances of SearchListOption: the bytes and the table of the       *)
(* program, option areas and option sets around every bound, and lists of  *)
(* names.                                                                  *)
(***************************************************************************)
EXTENDS SearchListOption

UpTo(S, n) == UNION {[1 .. k -> S] : k \in 0 .. n}

(* Every area of up to four of these bytes, which are pads, ENDs, lengths  *)
(* and codes of several types; longer ones of fewer; and every ClientFqdn  *)
(* of five bytes, which some pads and a text may follow.                   *)
Short == UpTo({0, 1, 2, 12, 13, 53, 62, 200, 255}, 4)
         \cup [1 .. 6 -> {0, 1, 2, 12, 255}]
         \cup {<<81, 5>> \o d \o t : d \in [1 .. 5 -> {0, 65, 200}],
                  t \in {<<>>, <<255>>, <<0, 12, 2, 65, 0, 255>>}}

(* Every code, with a payload of each length that is the bound of some     *)
(* type, before a message type that must be found after it, and cut short. *)
Lengths == {0, 1, 2, 3, 4, 5, 8, 12, 254, 255}

Framing == {<<c, n>> \o [k \in 1 .. n |-> b] \o t :
              c \in Codes, n \in Lengths, b \in {0, 65, 200},
              t \in {<<53, 1, 3, 255>>, <<53, 1>>}}

McRaws == Short \cup Framing

Payload == UpTo({0, 3}, 3) \cup {[k \in 1 .. n |-> 1] : n \in 254 .. 258}

(* What the server may make of a configuration: lists of any length, texts *)
(* with any bytes.                                                         *)
McBuilt == UpTo({o \in [code : {25, 12, 43}, data : Payload] :
                   o.code = 25 => accepts(o.code, o.data)}, 2)

(* Names of up to three labels, and the root.                              *)
a == <<97>>
b == <<98, 99>>

ShortNames == (UpTo({a, b}, 3) \ {<<>>}) \cup {RootName}

(* Labels of 63 bytes: the third name starts after 256 bytes.              *)
Long(c) == [k \in 1 .. 63 |-> c]

Far == {<<Long(1), Long(2)>>, <<Long(3), Long(4), Long(2)>>, <<a, Long(2)>>,
        <<Long(5), a, Long(2)>>}

(* Empty labels: a trailing, a leading and a double dot, the empty name.   *)
Odd == {<<a, Empty>>, <<Empty, a>>, <<Empty>>, <<a, Empty, Empty>>}

McFar == {<<>>} \cup [1 .. 4 -> Far]

McLists == UpTo(ShortNames, 3) \cup McFar \cup UpTo(Odd \cup {<<a>>, RootName}, 2)

NoRaws == {}

NoOptions == {<<>>}
=============================================================================
