-------------------------- MODULE OptionCodecProofs --------------------------
(***************************************************************************)
(* Decoding and serialising options, for any bytes and any options.        *)
(***************************************************************************)
EXTENDS OptionCodec, SequenceTheorems, WellFoundedInduction, NaturalsInduction,
        TLAPS

-----------------------------------------------------------------------------
(* Values.                                                                 *)

(* A set of positions has a last one.                                      *)
LEMMA Last ==
  ASSUME NEW n \in Nat, NEW K, K \subseteq 0 .. n, K # {}
  PROVE  \E k \in K : \A j \in K : j <= k
<1>. DEFINE R == OpToRel(<, Nat)
            M == {n - k : k \in K}
<1>1. IsWellFoundedOn(R, Nat)
  BY NatLessThanWellFounded, Zenon
<1>2. \A j, k \in Nat : j < k => <<j, k>> \in R
  BY DEF OpToRel
<1>. HIDE DEF R
<1>3. M \subseteq Nat /\ M # {}
  <2>1. \A k \in K : n - k \in Nat
    OBVIOUS
  <2>. QED
    BY <2>1
<1>4. PICK m \in M : \A j \in M : ~(<<j, m>> \in R)
  <2>. HIDE DEF M
  <2>. QED
    BY <1>1, <1>3, WFMin
<1>5. PICK k \in K : m = n - k
  OBVIOUS
<1>6. ASSUME NEW j \in K PROVE j <= k
  <2>1. n - j \in M /\ n - j \in Nat /\ m \in Nat
    BY <1>3
  <2>2. ~(n - j < m)
    BY <1>2, <1>4, <2>1, Zenon
  <2>. QED
    BY <1>5, <2>2
<1>. QED
  BY <1>6

(* What trim_end keeps ends in a byte other than zero.                     *)
LEMMA TrimEnd ==
  ASSUME NEW d \in Seq(Byte)
  PROVE  \E n \in 0 .. Len(d) :
           /\ trim_end(d) = SubSeq(d, 1, n)
           /\ n > 0 => d[n] # 0
           /\ \A k \in n + 1 .. Len(d) : d[k] = 0
<1>. DEFINE filled == {k \in DOMAIN d : d[k] # 0}
            last == CHOOSE k \in filled : \A j \in filled : j <= k
<1>1. DOMAIN d = 1 .. Len(d) /\ Len(d) \in Nat
  BY LenProperties
<1>2. trim_end(d) = SubSeq(d, 1, IF filled = {} THEN 0 ELSE last)
  BY DEF trim_end
<1>3. CASE filled = {}
  <2>1. \A k \in 0 + 1 .. Len(d) : d[k] = 0
    BY <1>1, <1>3
  <2>2. trim_end(d) = SubSeq(d, 1, 0) /\ 0 \in 0 .. Len(d)
    BY <1>1, <1>2, <1>3
  <2>. QED
    BY <2>1, <2>2
<1>4. CASE filled # {}
  <2>1. \E k \in filled : \A j \in filled : j <= k
    <3>1. filled \subseteq 0 .. Len(d)
      BY <1>1
    <3>. HIDE DEF filled
    <3>. QED
      BY <1>1, <1>4, <3>1, Last
  <2>2. last \in filled /\ \A j \in filled : j <= last
    BY <2>1
  <2>3. \A k \in last + 1 .. Len(d) : d[k] = 0
    BY <1>1, <2>2
  <2>4. trim_end(d) = SubSeq(d, 1, last)
    BY <1>2, <1>4
  <2>5. last \in 0 .. Len(d) /\ d[last] # 0
    BY <1>1, <2>2
  <2>. HIDE DEF last
  <2>. QED
    BY <2>3, <2>4, <2>5
<1>. QED
  BY <1>3, <1>4

(* Bytes stay bytes, and get no longer.                                    *)
LEMMA FrontOf ==
  ASSUME NEW S, NEW d \in Seq(S), NEW n \in 0 .. Len(d)
  PROVE  /\ SubSeq(d, 1, n) \in Seq(S) /\ Len(SubSeq(d, 1, n)) = n
         /\ \A k \in 1 .. n : SubSeq(d, 1, n)[k] = d[k]
<1>1. Len(d) \in Nat /\ \A k \in 1 .. n : d[k] \in S
  BY LenProperties, ElementOfSeq
<1>. QED
  BY <1>1, SubSeqProperties

(* Nothing is left to trim.                                                *)
LEMMA TrimTwice ==
  ASSUME NEW d \in Seq(Byte)
  PROVE  /\ trim_end(d) \in Seq(Byte) /\ Len(trim_end(d)) <= Len(d)
         /\ \A k \in DOMAIN trim_end(d) : k \in DOMAIN d /\ trim_end(d)[k] = d[k]
         /\ trim_end(trim_end(d)) = trim_end(d)
<1>1. PICK n \in 0 .. Len(d) :
        /\ trim_end(d) = SubSeq(d, 1, n)
        /\ n > 0 => d[n] # 0
        /\ \A k \in n + 1 .. Len(d) : d[k] = 0
  BY TrimEnd
<1>. DEFINE v == trim_end(d)
<1>2. v \in Seq(Byte) /\ Len(v) = n /\ \A k \in 1 .. n : v[k] = d[k]
  BY <1>1, FrontOf
<1>3. /\ DOMAIN d = 1 .. Len(d) /\ Len(d) \in Nat
      /\ DOMAIN v = 1 .. n
  BY <1>2, LenProperties
<1>. HIDE DEF v
<1>4. PICK m \in 0 .. Len(v) :
        /\ trim_end(v) = SubSeq(v, 1, m)
        /\ \A k \in m + 1 .. Len(v) : v[k] = 0
  BY <1>2, TrimEnd
<1>5. m = n
  <2>1. SUFFICES ASSUME m < n PROVE FALSE
    BY <1>2, <1>4
  <2>2. n \in m + 1 .. Len(v) /\ n \in 1 .. n /\ n > 0
    BY <1>2, <2>1
  <2>. QED
    BY <1>1, <1>2, <1>4, <2>2
<1>6. trim_end(v) = v
  BY <1>2, <1>4, <1>5, SubSeqFull
<1>. QED
  BY <1>1, <1>2, <1>3, <1>6 DEF v

(* What a payload is decoded to is said by its own bytes.                  *)
LEMMA ValueSayable ==
  ASSUME NEW c \in Codes, NEW d \in Seq(Byte), Len(d) < 256, accepts(c, d)
  PROVE  /\ value(c, d) \in Seq(Byte) /\ Len(value(c, d)) <= Len(d)
         /\ Sayable([code |-> c, data |-> value(c, d)])
<1>. DEFINE kind == DhcpOption[c].kind
            o == [code |-> c, data |-> value(c, d)]
<1>0. Len(d) \in Nat /\ DOMAIN d = 1 .. Len(d)
  BY LenProperties
<1>1. CASE kind = "text"
  <2>1. \A e : value(c, e) = trim_end(e)
    BY <1>1 DEF value
  <2>2. \A k \in DOMAIN d : d[k] < 128
    BY <1>1 DEF accepts
  <2>3. accepts(c, trim_end(d))
    BY <1>1, <2>2, TrimTwice DEF accepts
  <2>. QED
    BY <1>0, <2>1, <2>3, TrimTwice, LenProperties DEF Sayable
<1>2. CASE kind = "fqdn"
  <2>1. \A e : value(c, e) = [e EXCEPT ![2] = 255, ![3] = 255]
    BY <1>2 DEF value
  <2>2. Len(d) >= 4
    BY <1>2 DEF accepts
  <2>. DEFINE e2 == [d EXCEPT ![2] = 255]
              v  == [e2 EXCEPT ![3] = 255]
  <2>3. e2 \in Seq(Byte) /\ Len(e2) = Len(d)
    BY <1>0, <2>2, ExceptSeq DEF Byte
  <2>4. v \in Seq(Byte) /\ Len(v) = Len(d)
    <3>. HIDE DEF e2
    <3>. QED
      BY <1>0, <2>2, <2>3, ExceptSeq DEF Byte
  <2>5. value(c, d) = v
    BY <2>1
  <2>6. [v EXCEPT ![2] = 255, ![3] = 255] = v
    BY <1>0, <2>2
  <2>7. accepts(c, v)
    <3>. HIDE DEF v
    <3>. QED
      BY <1>2, <2>2, <2>4 DEF accepts
  <2>8. value(c, v) = v
    BY <2>1, <2>6
  <2>. HIDE DEF v
  <2>. QED
    BY <1>0, <2>4, <2>5, <2>7, <2>8 DEF Sayable
<1>3. CASE kind \notin {"text", "fqdn"}
  <2>1. \A e : value(c, e) = e
    BY <1>3 DEF value
  <2>. QED
    BY <1>0, <2>1 DEF Sayable
<1>. QED
  BY <1>1, <1>2, <1>3
-----------------------------------------------------------------------------
(* Types.                                                                  *)

(* A byte of the option area.                                              *)
LEMMA RawByte ==
  ASSUME TypeOK, NEW k \in 1 .. Len(raw)
  PROVE  raw[k] \in Byte /\ raw[k] \in Nat
<1>1. raw \in Seq(Byte)
  BY DEF TypeOK
<1>2. raw[k] \in Byte
  BY <1>1, ElementOfSeq
<1>3. \A x \in Byte : x \in Nat
  BY DEF Byte
<1>. QED
  BY <1>2, <1>3

(* A framed option lies inside the option area.                            *)
LEMMA FramedFacts ==
  ASSUME TypeOK, Framed
  PROVE  /\ position \in Nat /\ Len(raw) \in Nat
         /\ position + 1 \in 1 .. Len(raw) /\ position + 2 \in 1 .. Len(raw)
         /\ Code \in Codes /\ raw[position + 2] \in 0 .. 255
         /\ position + 2 + raw[position + 2] \in 0 .. Len(raw)
         /\ Data \in Seq(Byte) /\ Len(Data) = raw[position + 2]
         /\ Len(Data) < 256
<1>1. /\ raw \in Seq(Byte) /\ position \in Nat /\ Len(raw) \in Nat
      /\ position + 1 \in 1 .. Len(raw) /\ position + 2 \in 1 .. Len(raw)
  BY LenProperties DEF TypeOK, Framed, AtHand
<1>2. /\ raw[position + 2] \in 0 .. 255 /\ raw[position + 1] \in 0 .. 255
      /\ \A k \in 1 .. Len(raw) : raw[k] \in Byte
  BY <1>1, RawByte DEF Byte
<1>3. Code \in Codes
  BY <1>2 DEF Framed, Code, Codes, PAD, END
<1>. DEFINE n == raw[position + 2]
<1>4. n \in 0 .. 255 /\ Len(raw) - position >= 2 + n
  BY <1>2 DEF Framed, AtHand
<1>. HIDE DEF n
<1>7. position + 2 + n \in 0 .. Len(raw)
  BY <1>1, <1>4
<1>5. \A k \in position + 3 .. position + 2 + n : raw[k] \in Byte
  BY <1>1, <1>2, <1>4
<1>6. SubSeq(raw, position + 3, position + 2 + n) \in Seq(Byte)
      /\ Len(SubSeq(raw, position + 3, position + 2 + n)) = n
  <2>1. /\ position + 3 \in Int /\ position + 2 + n \in Int
        /\ (position + 2 + n) - (position + 3) + 1 = n
        /\ position + 3 <= position + 2 + n <=> n # 0
    BY <1>1, <1>4
  <2>. DEFINE p == position + 3
              q == position + 2 + n
  <2>2. p \in Int /\ q \in Int /\ \A k \in p .. q : raw[k] \in Byte
    BY <1>5, <2>1
  <2>. HIDE DEF p, q
  <2>3. /\ SubSeq(raw, p, q) \in Seq(Byte)
        /\ Len(SubSeq(raw, p, q)) = IF p <= q THEN q - p + 1 ELSE 0
    BY <2>2, SubSeqProperties
  <2>. QED
    BY <2>1, <2>3 DEF p, q
<1>8. Data \in Seq(Byte) /\ Len(Data) = n
  BY <1>6 DEF n, Data
<1>9. Len(Data) < 256
  BY <1>4, <1>8
<1>. QED
  BY <1>1, <1>2, <1>3, <1>7, <1>8, <1>9 DEF n

(* The bytes of an option.                                                 *)
LEMMA ToNetwork ==
  ASSUME NEW o \in Option
  PROVE  /\ to_network(o) \in Seq(Byte)
         /\ Len(to_network(o)) = Len(o.data) + 2
         /\ to_network(o)[1] = o.code
         /\ to_network(o)[2] = Len(o.data) % 256
         /\ \A k \in 1 .. Len(o.data) : to_network(o)[2 + k] = o.data[k]
<1>1. o.data \in Seq(Byte) /\ o.code \in Byte /\ Len(o.data) \in Nat
  BY LenProperties DEF Option, Codes, Byte
<1>. DEFINE n == Len(o.data) % 256
            h == <<o.code, n>>
<1>2. n \in Byte
  <2>1. \A k \in Nat : k % 256 \in 0 .. 255
    OBVIOUS
  <2>. QED
    BY <1>1, <2>1 DEF Byte
<1>. HIDE DEF n
<1>3. h \in Seq(Byte) /\ Len(h) = 2 /\ h[1] = o.code /\ h[2] = n
  <2>1. \A x, y \in Byte : <<x, y>> \in Seq(Byte) /\ Len(<<x, y>>) = 2
    OBVIOUS
  <2>. QED
    BY <1>1, <1>2, <2>1
<1>. HIDE DEF h
<1>4. /\ h \o o.data \in Seq(Byte)
      /\ Len(h \o o.data) = 2 + Len(o.data)
      /\ \A k \in 1 .. 2 + Len(o.data) :
           (h \o o.data)[k] = IF k <= 2 THEN h[k] ELSE o.data[k - 2]
  <2>. DEFINE e == o.data
  <2>1. e \in Seq(Byte)
    BY <1>1
  <2>. HIDE DEF e
  <2>2. /\ h \o e \in Seq(Byte) /\ Len(h \o e) = Len(h) + Len(e)
        /\ \A k \in 1 .. Len(h) + Len(e) :
             (h \o e)[k] = IF k <= Len(h) THEN h[k] ELSE e[k - Len(h)]
    BY <1>3, <2>1, ConcatProperties
  <2>. QED
    BY <1>3, <2>2 DEF e
<1>5. to_network(o) = h \o o.data
  BY DEF to_network, h, n
<1>6. \A k \in 1 .. Len(o.data) : (h \o o.data)[2 + k] = o.data[k]
  <2>. TAKE k \in 1 .. Len(o.data)
  <2>1. 2 + k \in 1 .. 2 + Len(o.data) /\ ~(2 + k <= 2) /\ (2 + k) - 2 = k
    BY <1>1
  <2>. QED
    BY <1>4, <2>1
<1>7. (h \o o.data)[1] = h[1] /\ (h \o o.data)[2] = h[2]
  BY <1>1, <1>4
<1>. QED
  BY <1>1, <1>3, <1>4, <1>5, <1>6, <1>7 DEF n

(* Padding keeps what it is put after.                                     *)
LEMMA Padding ==
  ASSUME NEW b \in Seq(Byte)
  PROVE  /\ padded(b) \in Seq(Byte) /\ Len(padded(b)) >= Len(b)
         /\ \A k \in 1 .. Len(b) : padded(b)[k] = b[k]
<1>. DEFINE n == IF Len(b) < 60 THEN 60 - Len(b) ELSE 0
            z == [k \in 1 .. 60 - Len(b) |-> PAD]
<1>1. Len(b) \in Nat /\ n \in Nat /\ 1 .. 60 - Len(b) = 1 .. n
  BY LenProperties
<1>. HIDE DEF n
<1>2. z \in Seq(Byte) /\ Len(z) = n
  <2>1. z = [k \in 1 .. n |-> 0]
    BY <1>1 DEF PAD
  <2>2. 0 \in Byte
    BY DEF Byte
  <2>. HIDE DEF z
  <2>3. z \in [1 .. n -> Byte]
    BY <2>1, <2>2
  <2>. QED
    BY <1>1, <2>3
<1>. HIDE DEF z
<1>3. /\ b \o z \in Seq(Byte) /\ Len(b \o z) = Len(b) + n
      /\ \A k \in 1 .. Len(b) + n : (b \o z)[k] = IF k <= Len(b) THEN b[k]
                                                 ELSE z[k - Len(b)]
  BY <1>2, ConcatProperties
<1>. QED
  <2>1. padded(b) = b \o z
    BY DEF padded, z
  <2>2. \A k \in 1 .. Len(b) : k \in 1 .. Len(b) + n /\ k <= Len(b)
    BY <1>1
  <2>. QED
    BY <1>1, <1>3, <2>1, <2>2

(* The types, and that there is something to write.                        *)
TInv == TypeOK /\ (status = "writing" => sent # NotSent)

(* One step keeps them.                                                    *)
LEMMA TypeStep ==
  ASSUME TInv, Next
  PROVE  TInv'
<1>0. TypeOK
  BY DEF TInv
<1>1. /\ raw \in Seq(Byte) /\ position \in 0 .. Len(raw) /\ Len(raw) \in Nat
      /\ options \in Seq(Option) /\ mark \in Seq(Nat) /\ Len(mark) \in Nat
      /\ sent \in Seq(Option) \cup {NotSent}
      /\ header \in {"short", "foreign", "good"}
  BY LenProperties DEF TInv, TypeOK
<1>2. CASE RejectHeader \/ AcceptHeader \/ RejectTruncated
  BY <1>1, <1>2 DEF TInv, TypeOK, RejectHeader, AcceptHeader, RejectTruncated
<1>3. CASE ReadEnd \/ ReadPad
  BY <1>1, <1>3 DEF TInv, TypeOK, ReadEnd, ReadPad, AtHand
<1>4. CASE ReadOption
  <2>1. Framed /\ accepts(Code, Data)
    BY <1>4 DEF ReadOption
  <2>2. value(Code, Data) \in Seq(Byte)
    <3>1. Code \in Codes /\ Data \in Seq(Byte) /\ Len(Data) < 256
      BY <2>1, FramedFacts, <1>0
    <3>. QED
      BY <2>1, <3>1, ValueSayable
  <2>. DEFINE o == [code |-> Code, data |-> value(Code, Data)]
  <2>3. o \in Option
    BY <2>1, <2>2, FramedFacts, <1>0 DEF Option
  <2>4. options' = Append(options, o)
    BY <1>4 DEF ReadOption
  <2>. HIDE DEF o
  <2>5. options' \in Seq(Option)
    BY <1>1, <2>3, <2>4, AppendProperties
  <2>6. position' \in 0 .. Len(raw)
    BY <1>4, <2>1, FramedFacts, <1>0 DEF ReadOption
  <2>. QED
    BY <1>4, <2>5, <2>6 DEF TInv, TypeOK, ReadOption
<1>5. CASE SkipOption
  <2>1. position' \in 0 .. Len(raw)
    BY <1>5, FramedFacts, <1>0 DEF SkipOption
  <2>. QED
    BY <1>5, <2>1 DEF TInv, TypeOK, SkipOption
<1>6. CASE BeginWriting
  <2>1. <<>> \in Seq(Byte) /\ <<>> \in Seq(Option) /\ 0 \in 0 .. Len(<<>>)
    OBVIOUS
  <2>2. options # NotSent
    BY <1>1, CodecAssumption
  <2>. QED
    BY <1>1, <1>6, <2>1, <2>2 DEF TInv, TypeOK, BeginWriting
<1>7. CASE WriteOption
  <2>1. sent \in Seq(Option) /\ Len(mark) + 1 \in 1 .. Len(sent)
    BY <1>1, <1>7, LenProperties DEF TInv, WriteOption
  <2>2. sent[Len(mark) + 1] \in Option
    BY <2>1, ElementOfSeq
  <2>. DEFINE b == to_network(sent[Len(mark) + 1])
  <2>3. b \in Seq(Byte)
    BY <2>2, ToNetwork
  <2>. HIDE DEF b
  <2>4. raw \o b \in Seq(Byte) /\ Len(raw \o b) = Len(raw) + Len(b) /\ Len(b) \in Nat
    BY <1>1, <2>3, ConcatProperties, LenProperties
  <2>5. mark' \in Seq(Nat)
    BY <1>1, <1>7, AppendProperties DEF WriteOption
  <2>6. raw' = raw \o b
    BY <1>7 DEF WriteOption, b
  <2>7. position \in 0 .. Len(raw')
    BY <1>1, <2>4, <2>6
  <2>. QED
    BY <1>1, <1>7, <2>4, <2>5, <2>6, <2>7 DEF TInv, TypeOK, WriteOption
<1>8. CASE WriteEnd
  <2>1. Append(raw, END) \in Seq(Byte) /\ Len(Append(raw, END)) = Len(raw) + 1
    BY <1>1, AppendProperties DEF END, Byte
  <2>2. /\ padded(Append(raw, END)) \in Seq(Byte)
        /\ Len(padded(Append(raw, END))) >= Len(raw) + 1
        /\ Len(padded(Append(raw, END))) \in Nat
    BY <2>1, Padding, LenProperties
  <2>3. raw' = padded(Append(raw, END))
    BY <1>8 DEF WriteEnd
  <2>4. position \in 0 .. Len(raw')
    BY <1>1, <2>2, <2>3
  <2>. QED
    BY <1>1, <1>8, <2>2, <2>3, <2>4 DEF TInv, TypeOK, WriteEnd
<1>. QED
  BY <1>2, <1>3, <1>4, <1>5, <1>6, <1>7, <1>8 DEF Next, Read, Write

(* The initial packets have the types.                                     *)
LEMMA TypeStart ==
  ASSUME Init PROVE TInv
<1>1. \A b \in Raws : b \in Seq(Byte) /\ Len(b) \in Nat
  BY CodecAssumption, LenProperties
<1>2. \A s \in Built : s \in Seq(Option)
  BY CodecAssumption
<1>3. /\ <<>> \in Seq(Byte) /\ <<>> \in Seq(Option) /\ <<>> \in Seq(Nat)
      /\ 0 \in 0 .. Len(<<>>)
  OBVIOUS
<1>4. CASE raw \in Raws
  <2>1. raw \in Seq(Byte) /\ 0 \in 0 .. Len(raw)
    BY <1>1, <1>4
  <2>. QED
    BY <1>2, <1>3, <2>1 DEF Init, TInv, TypeOK
<1>5. CASE raw = <<>> /\ options \in Built
  BY <1>2, <1>3, <1>5 DEF Init, TInv, TypeOK
<1>. QED
  BY <1>4, <1>5 DEF Init

(* Whatever bytes arrive and whatever options are built, the cursor of     *)
(* DhcpOptions::from_network stays inside the bytes, and what is decoded   *)
(* are options whose payloads are bytes.                                   *)
THEOREM CodecTypeCorrect == Spec => []TypeOK
<1>1. TInv /\ UNCHANGED packetVars => TInv'
  BY DEF TInv, TypeOK, packetVars
<1>2. TInv => TypeOK
  BY DEF TInv
<1>. QED
  BY <1>1, <1>2, TypeStart, TypeStep, PTL DEF Spec
-----------------------------------------------------------------------------
(* What is decoded.                                                        *)

(* While a packet is written nothing has been decoded from it.             *)
DInv == TInv /\ DecodedIsSayable /\ (status = "writing" => options = <<>>)

(* One step decodes only what can be said.                                 *)
LEMMA DecodedStep ==
  ASSUME DInv, Next
  PROVE  DInv'
<1>1. TInv' /\ TInv /\ TypeOK
  BY TypeStep DEF DInv, TInv
<1>2. CASE ReadOption
  <2>1. Framed /\ accepts(Code, Data) /\ raw' = raw /\ status' = status
    BY <1>2 DEF ReadOption
  <2>2. /\ Code \in Codes /\ Data \in Seq(Byte) /\ Len(Data) < 256
        /\ position + 1 \in 1 .. Len(raw) /\ Len(raw) \in Nat
    BY <1>1, <2>1, FramedFacts
  <2>. DEFINE o == [code |-> Code, data |-> value(Code, Data)]
  <2>3. Sayable(o) /\ o \in Option
    BY <2>1, <2>2, ValueSayable DEF Option
  <2>4. options' = Append(options, o)
    BY <1>2 DEF ReadOption
  <2>. HIDE DEF o
  <2>5. options \in Seq(Option) /\ Len(options) \in Nat
    BY <1>1, LenProperties DEF TypeOK
  <2>6. /\ Len(options') = Len(options) + 1
        /\ \A k \in 1 .. Len(options) : options'[k] = options[k]
        /\ options'[Len(options) + 1] = o
    BY <2>3, <2>4, <2>5, AppendProperties
  <2>7. raw # <<>>
    BY <2>2
  <2>8. \A k \in 1 .. Len(options) : Sayable(options[k])
    BY <2>7 DEF DInv, DecodedIsSayable
  <2>9. \A k \in 1 .. Len(options') : Sayable(options'[k])
    BY <2>3, <2>5, <2>6, <2>8
  <2>10. status = "reading"
    BY <2>1 DEF Framed
  <2>. QED
    BY <1>1, <2>1, <2>9, <2>10 DEF DInv, DecodedIsSayable
<1>3. CASE RejectHeader \/ AcceptHeader \/ RejectTruncated
             \/ ReadEnd \/ ReadPad \/ SkipOption
  <2>1. raw' = raw /\ options' = options /\ status' # "writing"
    BY <1>3 DEF RejectHeader, AcceptHeader, RejectTruncated, ReadEnd, ReadPad,
                SkipOption, Framed
  <2>. QED
    BY <1>1, <2>1 DEF DInv, DecodedIsSayable
<1>4. CASE BeginWriting \/ WriteOption \/ WriteEnd
  <2>1. options' = <<>>
    BY <1>4 DEF DInv, BeginWriting, WriteOption, WriteEnd
  <2>2. \A k \in 1 .. Len(options') : FALSE
    BY <2>1
  <2>. QED
    BY <1>1, <2>1, <2>2 DEF DInv, DecodedIsSayable
<1>. QED
  BY <1>2, <1>3, <1>4 DEF Next, Read, Write

(* Nothing has been decoded yet.                                           *)
LEMMA DecodedStart ==
  ASSUME Init PROVE DInv
<1>1. TInv
  BY TypeStart
<1>2. raw # <<>> => options = <<>>
  BY DEF Init
<1>3. \A k \in 1 .. Len(<<>>) : FALSE
  OBVIOUS
<1>4. status # "writing"
  BY DEF Init
<1>. QED
  BY <1>1, <1>2, <1>3, <1>4 DEF DInv, DecodedIsSayable

(* Whatever bytes arrive, an option decoded from them (a relayed client    *)
(* identifier, the options of a request that are echoed) fits a length     *)
(* byte and is read back as it is when DhcpOptions::to_network has written *)
(* it, although decoding trims texts and drops the RCODEs of a ClientFqdn. *)
THEOREM DecodedOptionsAreSayable == Spec => []DecodedIsSayable
<1>1. DInv /\ UNCHANGED packetVars => DInv'
  BY DEF DInv, TInv, TypeOK, DecodedIsSayable, packetVars
<1>2. DInv => DecodedIsSayable
  BY DEF DInv
<1>. QED
  BY <1>1, <1>2, DecodedStart, DecodedStep, PTL DEF Spec
-----------------------------------------------------------------------------
(* The round trip.                                                         *)

(* Option j of s, put at m[j], ends at stop; it has to start at start.     *)
stop(s, m, j) == m[j] + 2 + Len(s[j].data)

start(s, m, j) == IF j = 1 THEN 0 ELSE stop(s, m, j - 1)

(* The bytes of option j stand in r right after those of j - 1.            *)
Put(r, s, m, j) ==
  /\ m[j] = start(s, m, j)
  /\ stop(s, m, j) <= Len(r)
  /\ r[m[j] + 1] = s[j].code
  /\ r[m[j] + 2] = Len(s[j].data) % 256
  /\ \A k \in 1 .. Len(s[j].data) : r[m[j] + 2 + k] = s[j].data[k]

AllPut(r, s, m) == \A j \in 1 .. Len(m) : Put(r, s, m, j)

(* What raw is while the packet is written and when it has been.           *)
Laid ==
  /\ sent = NotSent => mark = <<>>
  /\ status = "writing" => /\ Len(mark) <= Len(sent)
                           /\ Len(raw) = start(sent, mark, Len(mark) + 1)
                           /\ position = 0
  /\ sent # NotSent /\ status # "writing" =>
       /\ Len(mark) = Len(sent) /\ header = "good"
       /\ start(sent, mark, Len(mark) + 1) < Len(raw)
       /\ raw[start(sent, mark, Len(mark) + 1) + 1] = END
  /\ sent # NotSent => AllPut(raw, sent, mark)

(* The reader has found the first options, and stands before the next.     *)
Arriving ==
  Fits /\ status \in {"received", "reading"} =>
    /\ Len(options) <= Len(sent)
    /\ \A k \in 1 .. Len(options) : options[k] = sent[k]
    /\ position = start(sent, mark, Len(options) + 1)

RInv == DInv /\ Laid /\ Arriving /\ RoundTrip

(* Appending leaves the bytes before where they are.                       *)
LEMMA Appended ==
  ASSUME NEW S, NEW r \in Seq(S), NEW b \in Seq(S)
  PROVE  /\ r \o b \in Seq(S) /\ Len(r \o b) = Len(r) + Len(b)
         /\ \A k \in 1 .. Len(r) : (r \o b)[k] = r[k]
         /\ \A k \in 1 .. Len(b) : (r \o b)[Len(r) + k] = b[k]
<1>1. Len(r) \in Nat /\ Len(b) \in Nat
  BY LenProperties
<1>2. /\ r \o b \in Seq(S) /\ Len(r \o b) = Len(r) + Len(b)
      /\ \A i \in 1 .. Len(r) + Len(b) :
           (r \o b)[i] = IF i <= Len(r) THEN r[i] ELSE b[i - Len(r)]
  BY ConcatProperties
<1>3. ASSUME NEW k \in 1 .. Len(b) PROVE (r \o b)[Len(r) + k] = b[k]
  <2>1. /\ Len(r) + k \in 1 .. Len(r) + Len(b)
        /\ ~(Len(r) + k <= Len(r)) /\ (Len(r) + k) - Len(r) = k
    BY <1>1
  <2>. QED
    BY <1>2, <2>1
<1>4. ASSUME NEW k \in 1 .. Len(r) PROVE (r \o b)[k] = r[k]
  BY <1>1, <1>2, <1>4
<1>. QED
  BY <1>2, <1>3, <1>4

(* Options have bytes.                                                     *)
LEMMA OptionFacts ==
  ASSUME NEW s \in Seq(Option), NEW j \in 1 .. Len(s)
  PROVE  /\ s[j] \in Option /\ s[j].data \in Seq(Byte)
         /\ Len(s[j].data) \in Nat /\ s[j].code \in Codes
<1>1. s[j] \in Option
  BY ElementOfSeq
<1>. QED
  BY <1>1, LenProperties DEF Option

(* A start is a place in what has been written.                            *)
LEMMA StartFacts ==
  ASSUME NEW r \in Seq(Byte), NEW s \in Seq(Option), NEW m \in Seq(Nat),
         Len(m) <= Len(s), AllPut(r, s, m),
         NEW j \in 1 .. Len(m) + 1
  PROVE  start(s, m, j) \in 0 .. Len(r)
<1>1. Len(s) \in Nat /\ Len(m) \in Nat /\ Len(r) \in Nat
  BY LenProperties
<1>2. CASE j = 1
  BY <1>1, <1>2 DEF start
<1>3. CASE j # 1
  <2>. DEFINE p == j - 1
  <2>1. p \in 1 .. Len(m) /\ p \in 1 .. Len(s)
    BY <1>1, <1>3
  <2>2. start(s, m, j) = stop(s, m, p)
    BY <1>3 DEF start
  <2>. HIDE DEF p
  <2>3. stop(s, m, p) <= Len(r)
    BY <2>1 DEF Put, AllPut
  <2>4. m[p] \in Nat /\ Len(s[p].data) \in Nat
    BY <2>1, ElementOfSeq, OptionFacts
  <2>5. stop(s, m, p) \in Nat
    BY <2>4 DEF stop
  <2>. QED
    BY <1>1, <2>2, <2>3, <2>5
<1>. QED
  BY <1>2, <1>3

(* What is written stays where it is when bytes and places are added.      *)
LEMMA StillPut ==
  ASSUME NEW r \in Seq(Byte), NEW s \in Seq(Option), NEW m \in Seq(Nat),
         NEW r2 \in Seq(Byte), NEW m2 \in Seq(Nat),
         Len(m) <= Len(s), Len(r2) >= Len(r),
         \A k \in 1 .. Len(r) : r2[k] = r[k],
         \A k \in 1 .. Len(m) : m2[k] = m[k],
         NEW j \in 1 .. Len(m), Put(r, s, m, j)
  PROVE  Put(r2, s, m2, j)
<1>1. /\ Len(s) \in Nat /\ Len(m) \in Nat /\ Len(r) \in Nat /\ Len(r2) \in Nat
      /\ j \in 1 .. Len(s)
  BY LenProperties
<1>. DEFINE l == Len(s[j].data)
<1>2. m[j] \in Nat /\ l \in Nat
  BY <1>1, ElementOfSeq, OptionFacts
<1>3. m2[j] = m[j] /\ stop(s, m2, j) = stop(s, m, j)
  BY DEF stop
<1>4. start(s, m2, j) = start(s, m, j)
  <2>1. j # 1 => j - 1 \in 1 .. Len(m)
    BY <1>1
  <2>. QED
    BY <2>1 DEF start, stop
<1>5. m[j] + 2 + l <= Len(r)
  BY DEF Put, stop
<1>. HIDE DEF l
<1>6. /\ m[j] + 1 \in 1 .. Len(r) /\ m[j] + 2 \in 1 .. Len(r)
      /\ \A k \in 1 .. l : m[j] + 2 + k \in 1 .. Len(r)
  <2>. DEFINE a == m[j]
              e == Len(r)
  <2>1. a \in Nat /\ l \in Nat /\ e \in Nat /\ a + 2 + l <= e
    BY <1>1, <1>2, <1>5
  <2>. HIDE DEF a, e
  <2>2. a + 1 \in 1 .. e /\ a + 2 \in 1 .. e
    BY <2>1
  <2>3. \A k \in 1 .. l : a + 2 + k \in 1 .. e
    BY <2>1
  <2>. QED
    BY <2>2, <2>3 DEF a, e
<1>7. /\ r2[m[j] + 1] = r[m[j] + 1] /\ r2[m[j] + 2] = r[m[j] + 2]
      /\ \A k \in 1 .. l : r2[m[j] + 2 + k] = r[m[j] + 2 + k]
  BY <1>6
<1>8. stop(s, m, j) <= Len(r2)
  BY <1>1, <1>2, <1>5 DEF stop, l
<1>. QED
  BY <1>3, <1>4, <1>7, <1>8 DEF Put, l

(* The bytes of an option, appended to others.                             *)
LEMMA WriteBytes ==
  ASSUME NEW r \in Seq(Byte), NEW o \in Option
  PROVE  LET q == r \o to_network(o)
         IN  /\ q \in Seq(Byte) /\ Len(q) = Len(r) + 2 + Len(o.data)
             /\ \A k \in 1 .. Len(r) : q[k] = r[k]
             /\ q[Len(r) + 1] = o.code
             /\ q[Len(r) + 2] = Len(o.data) % 256
             /\ \A k \in 1 .. Len(o.data) : q[Len(r) + 2 + k] = o.data[k]
<1>. DEFINE q == r \o to_network(o)
            b == to_network(o)
            e == Len(r)
            l == Len(o.data)
            f == Len(b)
<1>1. e \in Nat /\ l \in Nat
  BY LenProperties DEF Option
<1>2. b \in Seq(Byte) /\ f = l + 2
  BY ToNetwork
<1>3. b[1] = o.code /\ b[2] = l % 256 /\ \A k \in 1 .. l : b[2 + k] = o.data[k]
  BY ToNetwork
<1>4. q = r \o b
  OBVIOUS
<1>. HIDE DEF b, q
<1>5. r \o b \in Seq(Byte) /\ Len(r \o b) = e + f
  BY <1>2, Appended
<1>6. \A k \in 1 .. e : (r \o b)[k] = r[k]
  BY <1>2, Appended
<1>7. \A k \in 1 .. f : (r \o b)[e + k] = b[k]
  BY <1>2, Appended
<1>. HIDE DEF e, l, f
<1>8. q \in Seq(Byte) /\ Len(q) = e + 2 + l /\ \A k \in 1 .. e : q[k] = r[k]
  BY <1>1, <1>2, <1>4, <1>5, <1>6
<1>9. /\ 1 \in 1 .. f /\ 2 \in 1 .. f
      /\ \A k \in 1 .. l : 2 + k \in 1 .. f /\ e + (2 + k) = e + 2 + k
  BY <1>1, <1>2
<1>10. q[e + 1] = o.code /\ q[e + 2] = l % 256
  BY <1>3, <1>4, <1>7, <1>9
<1>11. \A k \in 1 .. l : q[e + 2 + k] = o.data[k]
  BY <1>3, <1>4, <1>7, <1>9
<1>. QED
  BY <1>8, <1>10, <1>11 DEF e, l, q

(* The next option is put after the ones before.                           *)
LEMMA PutNext ==
  ASSUME NEW r \in Seq(Byte), NEW s \in Seq(Option), NEW m \in Seq(Nat),
         Len(m) < Len(s), AllPut(r, s, m),
         Len(r) = start(s, m, Len(m) + 1)
  PROVE  LET q == r \o to_network(s[Len(m) + 1])
             w == Append(m, Len(r))
         IN  /\ Len(w) = Len(m) + 1 /\ AllPut(q, s, w)
             /\ Len(q) = start(s, w, Len(w) + 1)
<1>. DEFINE n == Len(m) + 1
            q == r \o to_network(s[n])
            w == Append(m, Len(r))
            o == s[n]
            l == Len(o.data)
            e == Len(r)
<1>1. /\ Len(s) \in Nat /\ Len(m) \in Nat /\ e \in Nat
      /\ n \in 1 .. Len(s) /\ n \in Nat
  BY LenProperties
<1>2. o \in Option /\ l \in Nat
  BY <1>1, OptionFacts
<1>4. /\ w \in Seq(Nat) /\ Len(w) = n /\ w[n] = e
      /\ \A k \in 1 .. Len(m) : w[k] = m[k]
  BY <1>1, AppendProperties
<1>5. e = start(s, m, n)
  OBVIOUS
<1>6. n = 1 \/ n - 1 \in 1 .. Len(m)
  BY <1>1
<1>7. 1 .. Len(w) = 1 .. Len(m) \cup {n}
  BY <1>1, <1>4
<1>8. Len(m) <= Len(s)
  BY <1>1
<1>9. n + 1 # 1 /\ (n + 1) - 1 = n
  BY <1>1
<1>. HIDE DEF n, w
<1>10. /\ q \in Seq(Byte) /\ Len(q) = Len(r) + 2 + Len(o.data)
       /\ \A k \in 1 .. Len(r) : q[k] = r[k]
       /\ q[Len(r) + 1] = o.code
       /\ q[Len(r) + 2] = Len(o.data) % 256
       /\ \A k \in 1 .. Len(o.data) : q[Len(r) + 2 + k] = o.data[k]
  BY <1>2, WriteBytes
<1>. HIDE DEF q
<1>11. start(s, w, n) = e
  BY <1>4, <1>5, <1>6 DEF start, stop
<1>12. stop(s, w, n) = Len(q)
  BY <1>4, <1>10 DEF stop
<1>13. Put(q, s, w, n)
  <2>1. Len(q) <= Len(q)
    BY <1>1, <1>2, <1>10
  <2>. QED
    BY <1>4, <1>10, <1>11, <1>12, <2>1 DEF Put
<1>14. ASSUME NEW j \in 1 .. Len(m) PROVE Put(q, s, w, j)
  <2>1. Len(q) >= Len(r)
    BY <1>1, <1>2, <1>10
  <2>2. Put(r, s, m, j)
    BY DEF AllPut
  <2>. QED
    BY <1>4, <1>8, <1>10, <2>1, <2>2, StillPut
<1>15. Len(q) = start(s, w, n + 1)
  BY <1>9, <1>12 DEF start
<1>. QED
  BY <1>4, <1>7, <1>13, <1>14, <1>15 DEF n, q, w, AllPut

(* One step keeps what is laid.                                            *)
LEMMA LaidStep ==
  ASSUME TInv, TInv', Laid, Next
  PROVE  Laid'
<1>0. /\ raw \in Seq(Byte) /\ Len(raw) \in Nat /\ mark \in Seq(Nat)
      /\ Len(mark) \in Nat
      /\ sent # NotSent => sent \in Seq(Option) /\ Len(sent) \in Nat
  BY LenProperties DEF TInv, TypeOK
<1>1. CASE BeginWriting
  <2>1. /\ sent = NotSent /\ mark' = mark /\ status' = "writing"
        /\ raw' = <<>> /\ position' = 0 /\ sent' = options
    BY <1>1 DEF BeginWriting
  <2>2. mark' = <<>> /\ Len(<<>>) = 0 /\ \A j \in 1 .. Len(<<>>) : FALSE
    BY <2>1 DEF Laid
  <2>3. sent' # NotSent
    BY <2>1 DEF TInv
  <2>4. Len(sent') \in Nat
    BY <2>3, LenProperties DEF TInv, TypeOK
  <2>5. start(sent', mark', Len(mark') + 1) = 0
    BY <2>2 DEF start
  <2>. QED
    BY <2>1, <2>2, <2>3, <2>4, <2>5 DEF Laid, AllPut
<1>2. CASE WriteOption
  <2>1. /\ sent # NotSent /\ sent' = sent /\ status' = status
        /\ status = "writing" /\ position' = position
        /\ Len(mark) < Len(sent)
        /\ raw' = raw \o to_network(sent[Len(mark) + 1])
        /\ mark' = Append(mark, Len(raw))
    BY <1>2 DEF TInv, WriteOption
  <2>2. /\ AllPut(raw, sent, mark)
        /\ Len(raw) = start(sent, mark, Len(mark) + 1) /\ position = 0
    BY <2>1 DEF Laid
  <2>3. /\ Len(mark') = Len(mark) + 1
        /\ AllPut(raw', sent, mark')
        /\ Len(raw') = start(sent, mark', Len(mark') + 1)
    <3>1. sent \in Seq(Option) /\ raw' \in Seq(Byte) /\ mark' \in Seq(Nat)
      BY <1>0, <2>1 DEF TInv, TypeOK
    <3>. QED
      BY <1>0, <2>1, <2>2, <3>1, PutNext
  <2>4. Len(mark') <= Len(sent)
    BY <1>0, <2>1, <2>3
  <2>. QED
    BY <2>1, <2>2, <2>3, <2>4 DEF Laid
<1>3. CASE WriteEnd
  <2>. DEFINE b == Append(raw, END)
  <2>1. /\ sent # NotSent /\ sent' = sent /\ mark' = mark
        /\ status = "writing" /\ status' = "received" /\ header' = "good"
        /\ Len(mark) = Len(sent) /\ raw' = padded(b)
    BY <1>3 DEF TInv, WriteEnd
  <2>2. /\ b \in Seq(Byte) /\ Len(b) = Len(raw) + 1
        /\ \A k \in 1 .. Len(raw) : b[k] = raw[k]
        /\ b[Len(raw) + 1] = END
    BY <1>0, AppendProperties DEF END, Byte
  <2>. HIDE DEF b
  <2>3. /\ raw' \in Seq(Byte) /\ Len(raw') \in Nat /\ Len(raw') >= Len(b)
        /\ \A k \in 1 .. Len(b) : raw'[k] = b[k]
    BY <2>1, <2>2, Padding, LenProperties
  <2>4. /\ Len(raw') >= Len(raw) /\ Len(raw) < Len(raw')
        /\ Len(raw) + 1 \in 1 .. Len(b)
        /\ \A k \in 1 .. Len(raw) : k \in 1 .. Len(b)
    BY <1>0, <2>2, <2>3
  <2>5. /\ \A k \in 1 .. Len(raw) : raw'[k] = raw[k]
        /\ raw'[Len(raw) + 1] = END
    BY <2>2, <2>3, <2>4
  <2>6. Len(raw) = start(sent, mark, Len(mark) + 1) /\ Len(mark) <= Len(sent)
    BY <2>1 DEF Laid
  <2>7. ASSUME NEW j \in 1 .. Len(mark) PROVE Put(raw', sent, mark, j)
    <3>1. Put(raw, sent, mark, j)
      BY <2>1 DEF Laid, AllPut
    <3>. QED
      BY <1>0, <2>1, <2>3, <2>4, <2>5, <2>6, <3>1, StillPut
  <2>. QED
    BY <2>1, <2>4, <2>5, <2>6, <2>7 DEF Laid, AllPut
<1>4. CASE RejectHeader \/ AcceptHeader \/ Read
  <2>1. /\ sent' = sent /\ mark' = mark /\ raw' = raw /\ header' = header
        /\ status # "writing" /\ status' # "writing"
    BY <1>4 DEF RejectHeader, AcceptHeader, Read, RejectTruncated, ReadEnd,
                ReadPad, ReadOption, SkipOption, Framed
  <2>. QED
    BY <2>1 DEF Laid
<1>. QED
  BY <1>1, <1>2, <1>3, <1>4 DEF Next, Write

(* What the reader stands before: the next option that was sent, or END.   *)
LEMMA NextUp ==
  ASSUME RInv, Fits, status = "reading"
  PROVE  LET k == Len(options)
             o == sent[k + 1]
         IN  /\ position + 1 \in 1 .. Len(raw)
             /\ \/ k = Len(sent) /\ raw[position + 1] = END
                \/ /\ k < Len(sent) /\ o \in Option /\ Sayable(o)
                   /\ raw[position + 1] = o.code
                   /\ raw[position + 2] = Len(o.data)
                   /\ position + 2 + Len(o.data) \in 0 .. Len(raw)
                   /\ Data = o.data
                   /\ start(sent, mark, k + 2) = position + 2 + Len(o.data)
<1>. DEFINE k == Len(options)
            o == sent[k + 1]
<1>1. /\ TypeOK /\ Laid /\ Arriving /\ sent # NotSent
      /\ \A j \in 1 .. Len(sent) : Sayable(sent[j])
  BY DEF RInv, DInv, TInv, Fits
<1>2. /\ raw \in Seq(Byte) /\ Len(raw) \in Nat
      /\ sent \in Seq(Option) /\ Len(sent) \in Nat
      /\ mark \in Seq(Nat) /\ k \in Nat /\ position \in Nat
  BY <1>1, LenProperties DEF TypeOK
<1>3. /\ k <= Len(sent) /\ position = start(sent, mark, k + 1)
      /\ Len(mark) = Len(sent) /\ AllPut(raw, sent, mark)
      /\ start(sent, mark, Len(mark) + 1) < Len(raw)
      /\ raw[start(sent, mark, Len(mark) + 1) + 1] = END
  BY <1>1 DEF Arriving, Laid
<1>. HIDE DEF k
<1>4. CASE k = Len(sent)
  <2>1. position < Len(raw) /\ raw[position + 1] = END
    BY <1>3, <1>4
  <2>2. position + 1 \in 1 .. Len(raw)
    BY <1>2, <2>1
  <2>. QED
    BY <1>4, <2>1, <2>2 DEF k
<1>5. CASE k < Len(sent)
  <2>. DEFINE n == k + 1
              l == Len(o.data)
  <2>1. /\ n \in 1 .. Len(sent) /\ n \in 1 .. Len(mark) /\ n + 1 # 1
        /\ (n + 1) - 1 = n /\ n + 1 = k + 2
    BY <1>2, <1>3, <1>5
  <2>2. o \in Option /\ o.data \in Seq(Byte) /\ l \in Nat /\ Sayable(o)
    BY <1>1, <1>2, <2>1, OptionFacts
  <2>3. Put(raw, sent, mark, n)
    BY <1>3, <2>1 DEF AllPut
  <2>4. mark[n] = position
    BY <1>3, <2>3 DEF Put
  <2>5. stop(sent, mark, n) = position + 2 + l
    BY <2>4 DEF stop
  <2>6. /\ position + 2 + l <= Len(raw)
        /\ raw[position + 1] = o.code /\ raw[position + 2] = l % 256
        /\ \A j \in 1 .. l : raw[position + 2 + j] = o.data[j]
    BY <2>3, <2>4, <2>5 DEF Put
  <2>7. start(sent, mark, k + 2) = position + 2 + l
    BY <2>1, <2>5 DEF start
  <2>8. l < 256
    BY <2>2 DEF Sayable
  <2>. HIDE DEF l
  <2>9. l % 256 = l
    BY <2>2, <2>8
  <2>10. /\ position + 2 + l \in 0 .. Len(raw) /\ position + 1 \in 1 .. Len(raw)
         /\ \A j \in position + 3 .. position + 2 + l : j \in 1 .. Len(raw)
    BY <1>2, <2>2, <2>6
  <2>11. SubSeq(raw, position + 3, position + 2 + l) = o.data
    <3>. DEFINE p == position + 3
                q == position + 2 + l
                d == SubSeq(raw, p, q)
                e == o.data
    <3>1. \A j \in p .. q : raw[j] \in Byte
      BY <1>1, <2>10, RawByte
    <3>2. /\ p \in Int /\ q \in Int /\ q - p + 1 = l
          /\ (IF p <= q THEN q - p + 1 ELSE 0) = l
          /\ \A j \in 1 .. l : p + j - 1 = position + 2 + j
      BY <1>2, <2>2
    <3>. HIDE DEF p, q
    <3>3. /\ d \in Seq(Byte) /\ Len(d) = IF p <= q THEN q - p + 1 ELSE 0
          /\ \A j \in 1 .. q - p + 1 : d[j] = raw[p + j - 1]
      BY <3>1, <3>2, SubSeqProperties
    <3>. HIDE DEF d
    <3>4. Len(d) = l /\ \A j \in 1 .. l : d[j] = raw[position + 2 + j]
      BY <3>2, <3>3
    <3>5. e \in Seq(Byte) /\ Len(e) = l /\ \A j \in 1 .. l : d[j] = e[j]
      BY <2>2, <2>6, <3>4 DEF l
    <3>. HIDE DEF e
    <3>6. d = e
      BY <3>3, <3>4, <3>5, SeqEqual
    <3>. QED
      BY <3>6 DEF d, e, p, q
  <2>12. Data = o.data
    BY <2>6, <2>9, <2>11 DEF Data
  <2>. QED
    BY <1>5, <2>2, <2>6, <2>7, <2>9, <2>10, <2>12 DEF k, l
<1>. QED
  BY <1>2, <1>3, <1>4, <1>5

(* One step of the reader, or of the writer, keeps the round trip.         *)
LEMMA ArrivingStep ==
  ASSUME RInv, Next, TInv', Laid'
  PROVE  Arriving' /\ RoundTrip'
<1>0. /\ TypeOK /\ Laid /\ Arriving /\ RoundTrip /\ TypeOK' /\ DInv
      /\ status = "writing" => options = <<>>
  BY DEF RInv, DInv, TInv
<1>1. CASE BeginWriting \/ WriteOption
  <2>1. status' = "writing"
    BY <1>1 DEF BeginWriting, WriteOption
  <2>. QED
    BY <2>1 DEF Arriving, RoundTrip
<1>2. CASE WriteEnd
  <2>1. /\ status = "writing" /\ status' = "received" /\ sent' = sent
        /\ mark' = mark /\ options' = <<>> /\ position' = 0
    BY <1>0, <1>2 DEF WriteEnd, Laid
  <2>2. Len(<<>>) = 0 /\ start(sent, mark, 0 + 1) = 0
    BY DEF start
  <2>3. Fits' => Len(sent) \in Nat
    BY <1>0, <2>1, LenProperties DEF Fits, TypeOK
  <2>. QED
    BY <2>1, <2>2, <2>3 DEF Arriving, RoundTrip
<1>3. CASE RejectHeader \/ AcceptHeader \/ Read
  <2>1. /\ sent' = sent /\ mark' = mark /\ raw' = raw
        /\ status # "writing" /\ (Fits' <=> Fits)
    BY <1>3 DEF RejectHeader, AcceptHeader, Read, RejectTruncated, ReadEnd,
                ReadPad, ReadOption, SkipOption, Framed, Fits
  <2>2. CASE ~Fits
    BY <2>1, <2>2 DEF Arriving, RoundTrip
  <2>3. CASE Fits /\ RejectHeader
    BY <1>0, <2>1, <2>3 DEF Laid, RejectHeader, Fits
  <2>4. CASE Fits /\ AcceptHeader
    <3>1. raw # <<>>
      <4>. DEFINE e == start(sent, mark, Len(mark) + 1)
      <4>1. /\ raw \in Seq(Byte) /\ sent \in Seq(Option) /\ mark \in Seq(Nat)
            /\ Len(sent) \in Nat /\ Len(mark) \in Nat
        BY <1>0, <2>4, LenProperties DEF TypeOK, Fits
      <4>2. /\ e < Len(raw) /\ AllPut(raw, sent, mark)
            /\ Len(mark) = Len(sent)
        BY <1>0, <2>1, <2>4 DEF Laid, Fits
      <4>3. Len(mark) <= Len(sent) /\ Len(mark) + 1 \in 1 .. Len(mark) + 1
        BY <4>1, <4>2
      <4>4. e \in 0 .. Len(raw)
        BY <4>1, <4>2, <4>3, StartFacts
      <4>. HIDE DEF e
      <4>. QED
        BY <4>2, <4>4
    <3>2. /\ status' = "reading" /\ options' = options /\ position' = position
          /\ status = "received"
      BY <2>4, <3>1 DEF AcceptHeader
    <3>. QED
      BY <1>0, <2>1, <2>4, <3>2 DEF Arriving, RoundTrip
  <2>5. CASE Fits /\ Read
    <3>. DEFINE k == Len(options)
                o == sent[k + 1]
    <3>1. status = "reading"
      BY <2>5 DEF Read, RejectTruncated, ReadEnd, ReadPad, ReadOption,
                  SkipOption, Framed
    <3>2. /\ position + 1 \in 1 .. Len(raw)
          /\ \/ k = Len(sent) /\ raw[position + 1] = END
             \/ /\ k < Len(sent) /\ o \in Option /\ Sayable(o)
                /\ raw[position + 1] = o.code
                /\ raw[position + 2] = Len(o.data)
                /\ position + 2 + Len(o.data) \in 0 .. Len(raw)
                /\ Data = o.data
                /\ start(sent, mark, k + 2) = position + 2 + Len(o.data)
      BY <2>5, <3>1, NextUp
    <3>3. /\ k \in Nat /\ options \in Seq(Option) /\ position \in Nat
          /\ sent \in Seq(Option) /\ Len(sent) \in Nat /\ Len(raw) \in Nat
          /\ k <= Len(sent) /\ \A j \in 1 .. k : options[j] = sent[j]
      BY <1>0, <2>5, <3>1, LenProperties DEF TypeOK, Arriving, Fits
    <3>4. k < Len(sent) => o.code \notin {PAD, END} /\ accepts(o.code, o.data)
                           /\ value(o.code, o.data) = o.data
      <4>. SUFFICES ASSUME k < Len(sent)
                    PROVE  /\ o.code \notin {PAD, END} /\ accepts(o.code, o.data)
                           /\ value(o.code, o.data) = o.data
        OBVIOUS
      <4>1. k # Len(sent)
        BY <3>3
      <4>2. o \in Option /\ Sayable(o)
        BY <3>2, <4>1
      <4>. HIDE DEF o
      <4>3. \A c \in Codes : c \notin {PAD, END}
        BY DEF Codes, PAD, END
      <4>. QED
        BY <4>2, <4>3 DEF Option, Sayable
    <3>5. CASE ReadEnd
      <4>1. k = Len(sent)
        BY <3>2, <3>4, <3>5 DEF ReadEnd
      <4>2. options = sent
        BY <3>3, <4>1, SeqEqual
      <4>. QED
        BY <3>5, <4>2 DEF ReadEnd, Arriving, RoundTrip
    <3>6. CASE ReadPad
      BY <3>2, <3>4, <3>6 DEF ReadPad, PAD, END
    <3>7. CASE ReadOption
      <4>1. k < Len(sent)
        BY <3>2, <3>7 DEF ReadOption, Framed
      <4>2. /\ Code = o.code /\ Data = o.data
            /\ value(Code, Data) = o.data
        BY <3>2, <3>4, <4>1 DEF Code
      <4>3. [code |-> o.code, data |-> o.data] = o
        BY <3>2, <4>1 DEF Option
      <4>4. options' = Append(options, o) /\ status' = "reading"
            /\ position' = position + 2 + Len(o.data)
        BY <3>1, <3>2, <3>7, <4>1, <4>2, <4>3 DEF ReadOption
      <4>5. o \in Option
        BY <3>2, <4>1
      <4>. HIDE DEF o
      <4>6. /\ Len(options') = k + 1 /\ options'[k + 1] = o
            /\ \A j \in 1 .. k : options'[j] = options[j]
        BY <3>3, <4>4, <4>5, AppendProperties
      <4>7. \A j \in 1 .. Len(options') : options'[j] = sent[j]
        <5>1. \A j \in 1 .. Len(options') : j = k + 1 \/ j \in 1 .. k
          BY <3>3, <4>6
        <5>. QED
          BY <3>3, <4>6, <5>1 DEF o
      <4>8. Len(options') <= Len(sent)
        BY <3>3, <4>1, <4>6
      <4>9. position' = start(sent, mark, Len(options') + 1)
        <5>1. (k + 1) + 1 = k + 2
          BY <3>3
        <5>. QED
          BY <3>2, <4>1, <4>4, <4>6, <5>1 DEF o
      <4>. QED
        BY <2>1, <4>4, <4>7, <4>8, <4>9 DEF Arriving, RoundTrip
    <3>8. CASE SkipOption
      BY <3>2, <3>4, <3>8 DEF SkipOption, Framed, Code
    <3>9. CASE RejectTruncated
      <4>1. Truncated /\ AtHand > 0
        BY <3>2, <3>3, <3>9 DEF RejectTruncated, AtHand
      <4>2. /\ raw[position + 1] \notin {PAD, END}
            /\ AtHand # 1 => AtHand < 2 + raw[position + 2]
        BY <4>1 DEF Truncated
      <4>3. k < Len(sent)
        BY <3>2, <4>2
      <4>. DEFINE l == Len(o.data)
                  e == Len(raw)
      <4>4. /\ raw[position + 2] = l /\ position + 2 + l \in 0 .. e
            /\ o.data \in Seq(Byte)
        BY <3>2, <4>2 DEF Option
      <4>5. l \in Nat /\ e \in Nat
        BY <3>3, <4>4, LenProperties
      <4>6. e - position = AtHand
        BY DEF AtHand
      <4>. HIDE DEF l, e
      <4>7. AtHand >= 2 + l /\ AtHand # 1 /\ AtHand \in Int
        BY <3>3, <4>4, <4>5, <4>6
      <4>. HIDE DEF k, o
      <4>8. AtHand < 2 + l
        BY <4>2, <4>4, <4>7
      <4>. QED
        BY <4>5, <4>7, <4>8
    <3>. QED
      BY <2>5, <3>5, <3>6, <3>7, <3>8, <3>9 DEF Read
  <2>. QED
    BY <1>3, <2>2, <2>3, <2>4, <2>5
<1>. QED
  BY <1>1, <1>2, <1>3 DEF Next, Write

(* Nothing has been sent yet.                                              *)
LEMMA RoundTripStart ==
  ASSUME Init PROVE RInv
<1>1. DInv /\ sent = NotSent /\ mark = <<>> /\ status # "writing"
  BY DecodedStart DEF Init
<1>. QED
  BY <1>1 DEF RInv, Laid, Arriving, RoundTrip, Fits

(* One step keeps the invariant.                                           *)
LEMMA RoundTripStep ==
  ASSUME RInv, Next PROVE RInv'
<1>1. DInv' /\ TInv' /\ TInv /\ Laid
  BY DecodedStep DEF RInv, DInv
<1>2. Laid'
  BY <1>1, LaidStep
<1>. QED
  BY <1>1, <1>2, ArrivingStep DEF RInv

(* What DhcpPacket::to_network serialises is what from_network reads on    *)
(* the other side, option by option and in order, for every option set     *)
(* whose options fit their length bytes; the padding after END is never    *)
(* taken for options, and the packet is never dropped.                     *)
THEOREM OptionsRoundTrip == Spec => []RoundTrip
<1>1. RInv /\ UNCHANGED packetVars => RInv'
  BY DEF RInv, DInv, TInv, TypeOK, DecodedIsSayable, Laid, Arriving, RoundTrip,
         Fits, packetVars
<1>2. RInv => RoundTrip
  BY DEF RInv
<1>. QED
  BY <1>1, <1>2, RoundTripStart, RoundTripStep, PTL DEF Spec
-----------------------------------------------------------------------------
(* What is there to be read.                                               *)

Result == [ok : BOOLEAN, options : Seq(Option)]

Malformed == [ok |-> FALSE, options |-> <<>>]

ItemEnd(r, p) == p + 2 + r[p + 2]

(* The code and the payload of the option after p bytes of r.              *)
ItemData(r, p) == SubSeq(r, p + 3, ItemEnd(r, p))

Item(r, p) == [code |-> r[p + 1], data |-> value(r[p + 1], ItemData(r, p))]

(* One item of the recursion of ByTheBook; f says what follows it.         *)
Items(r, f, p) ==
  IF p = Len(r) THEN Malformed
  ELSE IF r[p + 1] = END THEN [ok |-> TRUE, options |-> <<>>]
  ELSE IF r[p + 1] = PAD THEN f[p + 1]
  ELSE IF p + 1 = Len(r) \/ ItemEnd(r, p) > Len(r) THEN Malformed
  ELSE IF f[ItemEnd(r, p)].ok /\ accepts(r[p + 1], ItemData(r, p))
       THEN [f[ItemEnd(r, p)] EXCEPT !.options = <<Item(r, p)>> \o @]
       ELSE f[ItemEnd(r, p)]

Book(r, f) == f = [p \in 0 .. Len(r) |-> Items(r, f, p)]

Found(r) == CHOOSE f : Book(r, f)

(* ByTheBook is what is found from the first byte on.                      *)
LEMMA BookFound == ByTheBook = Found(raw)[0]
BY DEF ByTheBook, Found, Book, Items, Item, ItemData, ItemEnd, Malformed

(* An item says where the next one is, and that is further on.             *)
LEMMA ItemEndFacts ==
  ASSUME NEW r \in Seq(Byte), NEW p \in 0 .. Len(r), p # Len(r)
  PROVE  /\ r[p + 1] \in Byte /\ p + 1 \in p + 1 .. Len(r)
         /\ p + 1 # Len(r) => ItemEnd(r, p) \in Nat /\ ItemEnd(r, p) > p + 1
<1>1. Len(r) \in Nat /\ p \in Nat
  BY LenProperties
<1>2. p + 1 \in 1 .. Len(r) /\ p + 1 \in p + 1 .. Len(r)
  BY <1>1
<1>3. r[p + 1] \in Byte
  BY <1>2, ElementOfSeq
<1>4. ASSUME p + 1 # Len(r)
      PROVE  ItemEnd(r, p) \in Nat /\ ItemEnd(r, p) > p + 1
  <2>. DEFINE n == r[p + 2]
  <2>1. p + 2 \in 1 .. Len(r)
    BY <1>1, <1>4
  <2>2. n \in Byte
    BY <2>1, ElementOfSeq
  <2>. HIDE DEF n
  <2>3. n \in Nat
    BY <2>2 DEF Byte
  <2>4. p + 2 + n \in Nat /\ p + 2 + n > p + 1
    BY <1>1, <2>3
  <2>. QED
    BY <2>4 DEF ItemEnd, n
<1>. QED
  BY <1>2, <1>3, <1>4

(* An item depends only on what follows it.                                *)
LEMMA ItemsLocal ==
  ASSUME NEW r \in Seq(Byte), NEW p \in 0 .. Len(r), NEW f, NEW g,
         \A q \in p + 1 .. Len(r) : f[q] = g[q]
  PROVE  Items(r, f, p) = Items(r, g, p)
<1>1. Len(r) \in Nat /\ p \in Nat
  BY LenProperties
<1>2. CASE p = Len(r)
  BY <1>2 DEF Items
<1>3. CASE p # Len(r)
  <2>1. /\ p + 1 \in p + 1 .. Len(r)
        /\ p + 1 # Len(r) => ItemEnd(r, p) \in Nat /\ ItemEnd(r, p) > p + 1
    BY <1>3, ItemEndFacts
  <2>2. f[p + 1] = g[p + 1]
    BY <2>1
  <2>3. ~(p + 1 = Len(r) \/ ItemEnd(r, p) > Len(r))
          => f[ItemEnd(r, p)] = g[ItemEnd(r, p)]
    <3>1. ~(p + 1 = Len(r) \/ ItemEnd(r, p) > Len(r))
            => ItemEnd(r, p) \in p + 1 .. Len(r)
      BY <1>1, <2>1
    <3>. QED
      BY <3>1
  <2>. QED
    BY <2>2, <2>3 DEF Items
<1>. QED
  BY <1>2, <1>3

(* The recursion has a solution.                                           *)
LEMMA BookExists ==
  ASSUME NEW r \in Seq(Byte)
  PROVE  Book(r, Found(r))
<1>. DEFINE L == Len(r)
            Solved(q) == \E f : \A p \in q .. L : f[p] = Items(r, f, p)
            K == {q \in 0 .. L : ~Solved(q)}
<1>1. L \in Nat
  BY LenProperties
<1>2. ASSUME NEW q \in 0 .. L, q # L => Solved(q + 1)
      PROVE  Solved(q)
  <2>1. PICK f : \A p \in q + 1 .. L : f[p] = Items(r, f, p)
    <3>1. CASE q # L
      BY <1>2, <3>1
    <3>2. CASE q = L
      BY <1>1, <3>2
    <3>. QED
      BY <3>1, <3>2
  <2>. DEFINE g == [p \in 0 .. L |-> IF p = q THEN Items(r, f, q) ELSE f[p]]
  <2>2. \A p \in q + 1 .. L : g[p] = f[p]
    BY <1>1
  <2>3. g[q] = Items(r, f, q)
    OBVIOUS
  <2>. HIDE DEF g
  <2>4. \A p \in q .. L : p \in 0 .. L /\ \A j \in p + 1 .. L : g[j] = f[j]
    BY <1>1, <2>2
  <2>5. \A p \in q .. L : Items(r, g, p) = Items(r, f, p)
    BY <2>4, ItemsLocal
  <2>6. \A p \in q .. L : p = q \/ p \in q + 1 .. L
    BY <1>1
  <2>7. \A p \in q .. L : g[p] = Items(r, g, p)
    BY <2>1, <2>2, <2>3, <2>5, <2>6
  <2>. QED
    BY <2>7
<1>3. K = {}
  <2>1. SUFFICES ASSUME K # {} PROVE FALSE
    OBVIOUS
  <2>2. PICK q \in K : \A j \in K : j <= q
    <3>1. K \subseteq 0 .. L
      OBVIOUS
    <3>. HIDE DEF K, L
    <3>. QED
      BY <1>1, <2>1, <3>1, Last
  <2>3. q \in 0 .. L /\ ~Solved(q)
    BY <2>2
  <2>4. q # L => q + 1 \in 0 .. L /\ q + 1 \notin K
    <3>. HIDE DEF K
    <3>1. q # L => q + 1 \in 0 .. L /\ ~(q + 1 <= q)
      BY <1>1, <2>3
    <3>. QED
      BY <2>2, <3>1
  <2>5. q # L => Solved(q + 1)
    BY <2>4
  <2>. QED
    BY <1>2, <2>3, <2>5
<1>4. Solved(0)
  <2>1. 0 \in 0 .. L
    BY <1>1
  <2>. QED
    BY <1>3, <2>1
<1>5. PICK f : \A p \in 0 .. L : f[p] = Items(r, f, p)
  BY <1>4
<1>. DEFINE g == [p \in 0 .. L |-> f[p]]
<1>6. \A p \in 0 .. L : Items(r, g, p) = Items(r, f, p)
  <2>1. \A p \in 0 .. L : \A j \in p + 1 .. L : g[j] = f[j]
    BY <1>1
  <2>. HIDE DEF g
  <2>. QED
    BY <2>1, ItemsLocal
<1>7. g = [p \in 0 .. L |-> Items(r, g, p)]
  <2>1. \A p \in 0 .. L : f[p] = Items(r, g, p)
    BY <1>5, <1>6
  <2>. QED
    BY <2>1
<1>8. Book(r, g)
  BY <1>7 DEF Book
<1>. HIDE DEF g
<1>. QED
  BY <1>8 DEF Found

(* What is found at each place.                                            *)
LEMMA FoundItem ==
  ASSUME NEW r \in Seq(Byte), NEW p \in 0 .. Len(r)
  PROVE  Found(r)[p] = Items(r, Found(r), p)
<1>. DEFINE f == Found(r)
<1>1. Book(r, f)
  BY BookExists
<1>. HIDE DEF f
<1>2. f[p] = Items(r, f, p)
  BY <1>1 DEF Book
<1>. QED
  BY <1>2 DEF f

(* An option that is there, and is valid, is an option.                    *)
LEMMA ItemFacts ==
  ASSUME NEW r \in Seq(Byte), NEW p \in 0 .. Len(r), p # Len(r),
         r[p + 1] \notin {PAD, END}, p + 1 # Len(r), ItemEnd(r, p) <= Len(r)
  PROVE  /\ ItemEnd(r, p) \in p + 1 .. Len(r) /\ ItemEnd(r, p) \in 0 .. Len(r)
         /\ r[p + 1] \in Codes /\ ItemData(r, p) \in Seq(Byte)
         /\ Len(ItemData(r, p)) < 256
         /\ accepts(r[p + 1], ItemData(r, p)) => Item(r, p) \in Option
<1>. DEFINE n == r[p + 2]
<1>1. Len(r) \in Nat /\ p \in Nat
  BY LenProperties
<1>2. p + 2 \in 1 .. Len(r)
  BY <1>1
<1>3. n \in Byte
  BY <1>2, ElementOfSeq
<1>. HIDE DEF n
<1>4. n \in Nat /\ n < 256
  BY <1>3 DEF Byte
<1>. DEFINE e == p + 2 + n
<1>5. ItemEnd(r, p) = e /\ e <= Len(r)
  BY DEF ItemEnd, n
<1>6. r[p + 1] \in Codes
  <2>1. r[p + 1] \in Byte
    BY ItemEndFacts
  <2>. DEFINE c == r[p + 1]
  <2>2. c \in Byte /\ c \notin {PAD, END}
    BY <2>1
  <2>. HIDE DEF c
  <2>3. c \in Codes
    BY <2>2 DEF Byte, PAD, END, Codes
  <2>. QED
    BY <2>3 DEF c
<1>7. e \in p + 1 .. Len(r) /\ e \in 0 .. Len(r) /\ e \in Int
  BY <1>1, <1>4, <1>5
<1>8. ItemData(r, p) \in Seq(Byte) /\ Len(ItemData(r, p)) < 256
  <2>. DEFINE m == p + 3
  <2>1. /\ \A k \in m .. e : k \in 1 .. Len(r)
        /\ m \in Int /\ (IF m <= e THEN e - m + 1 ELSE 0) < 256
    BY <1>1, <1>4, <1>7
  <2>2. \A k \in m .. e : r[k] \in Byte
    BY <2>1, ElementOfSeq
  <2>. HIDE DEF m, e
  <2>3. /\ SubSeq(r, m, e) \in Seq(Byte)
        /\ Len(SubSeq(r, m, e)) = IF m <= e THEN e - m + 1 ELSE 0
    BY <1>7, <2>1, <2>2, SubSeqProperties
  <2>. QED
    BY <1>5, <2>1, <2>3 DEF ItemData, m
<1>9. ASSUME accepts(r[p + 1], ItemData(r, p)) PROVE Item(r, p) \in Option
  <2>1. value(r[p + 1], ItemData(r, p)) \in Seq(Byte)
    BY <1>6, <1>8, <1>9, ValueSayable
  <2>. QED
    BY <1>6, <2>1 DEF Item, Option
<1>. QED
  BY <1>5, <1>6, <1>7, <1>8, <1>9

(* What is found is a verdict and options.                                 *)
LEMMA FoundTyped ==
  ASSUME NEW r \in Seq(Byte), NEW p \in 0 .. Len(r)
  PROVE  Found(r)[p] \in Result
<1>. DEFINE L == Len(r)
            f == Found(r)
            K == {q \in 0 .. L : f[q] \notin Result}
<1>1. L \in Nat
  BY LenProperties
<1>2. <<>> \in Seq(Option)
  OBVIOUS
<1>3. ASSUME NEW q \in 0 .. L, \A j \in q + 1 .. L : f[j] \in Result
      PROVE  f[q] \in Result
  <2>1. f[q] = Items(r, f, q)
    BY FoundItem
  <2>. HIDE DEF f
  <2>2. Malformed \in Result /\ [ok |-> TRUE, options |-> <<>>] \in Result
    BY <1>2 DEF Malformed, Result
  <2>3. CASE q = L \/ r[q + 1] = END
    BY <2>1, <2>2, <2>3 DEF Items
  <2>4. CASE q # L /\ r[q + 1] = PAD
    <3>1. q + 1 \in q + 1 .. L
      BY <2>4, ItemEndFacts
    <3>. QED
      BY <1>3, <2>1, <2>4, <3>1 DEF Items, PAD, END
  <2>5. CASE /\ q # L /\ r[q + 1] \notin {PAD, END}
             /\ q + 1 = L \/ ItemEnd(r, q) > L
    BY <2>1, <2>2, <2>5 DEF Items
  <2>6. CASE /\ q # L /\ r[q + 1] \notin {PAD, END}
             /\ ~(q + 1 = L \/ ItemEnd(r, q) > L)
    <3>. DEFINE e == ItemEnd(r, q)
                rest == f[e]
    <3>1. e \in q + 1 .. L /\ (accepts(r[q + 1], ItemData(r, q))
                               => Item(r, q) \in Option)
      <4>1. ItemEnd(r, q) \in Nat
        BY <2>6, ItemEndFacts
      <4>2. ItemEnd(r, q) <= L
        BY <1>1, <2>6, <4>1
      <4>. QED
        BY <2>6, <4>2, ItemFacts
    <3>2. rest \in Result
      BY <1>3, <3>1
    <3>3. f[q] = IF rest.ok /\ accepts(r[q + 1], ItemData(r, q))
                 THEN [rest EXCEPT !.options = <<Item(r, q)>> \o @]
                 ELSE rest
      BY <2>1, <2>6 DEF Items
    <3>. HIDE DEF rest
    <3>4. CASE rest.ok /\ accepts(r[q + 1], ItemData(r, q))
      <4>. DEFINE o == Item(r, q)
                  s == rest.options
      <4>1. o \in Option /\ s \in Seq(Option)
        BY <3>1, <3>2, <3>4 DEF Result
      <4>2. f[q] = [rest EXCEPT !.options = <<o>> \o s]
        BY <3>3, <3>4
      <4>. HIDE DEF o, s
      <4>3. <<o>> \in Seq(Option)
        BY <4>1
      <4>4. <<o>> \o s \in Seq(Option)
        BY <4>1, <4>3, ConcatProperties
      <4>. QED
        BY <3>2, <4>2, <4>4 DEF Result
    <3>. QED
      BY <3>2, <3>3, <3>4
  <2>. QED
    BY <2>3, <2>4, <2>5, <2>6
<1>4. K = {}
  <2>1. SUFFICES ASSUME K # {} PROVE FALSE
    OBVIOUS
  <2>2. PICK q \in K : \A j \in K : j <= q
    <3>1. K \subseteq 0 .. L
      OBVIOUS
    <3>. HIDE DEF K, L
    <3>. QED
      BY <1>1, <2>1, <3>1, Last
  <2>3. q \in 0 .. L /\ f[q] \notin Result
    BY <2>2
  <2>4. \A j \in q + 1 .. L : j \in 0 .. L /\ ~(j <= q)
    BY <1>1, <2>3
  <2>. HIDE DEF f
  <2>5. \A j \in q + 1 .. L : f[j] \in Result
    BY <2>2, <2>4
  <2>. QED
    BY <1>3, <2>3, <2>5
<1>. QED
  BY <1>4

(* s has been read from the first p bytes of r: what is found after them   *)
(* follows it.                                                             *)
Ahead(r, p, s) ==
  LET all  == Found(r)[0]
      rest == Found(r)[p]
  IN  all.ok = rest.ok /\ (rest.ok => all.options = s \o rest.options)

(* Where the reader is, and what the book says.                            *)
Reading ==
  /\ status \in {"received", "writing"} => position = 0 /\ options = <<>>
  /\ status = "reading" => header = "good" /\ Ahead(raw, position, options)
  /\ header = "good" /\ raw # <<>> =>
       /\ status = "decoded"  => Found(raw)[0] = [ok |-> TRUE, options |-> options]
       /\ status = "rejected" => ~Found(raw)[0].ok

(* At the start everything is ahead.                                       *)
LEMMA AllAhead ==
  ASSUME NEW r \in Seq(Byte)
  PROVE  Ahead(r, 0, <<>>)
<1>1. 0 \in 0 .. Len(r)
  BY LenProperties
<1>. DEFINE rest == Found(r)[0]
<1>2. rest \in Result
  BY <1>1, FoundTyped
<1>. HIDE DEF rest
<1>3. rest.options \in Seq(Option)
  BY <1>2 DEF Result
<1>4. <<>> \o rest.options = rest.options
  BY <1>3, ConcatEmptySeq
<1>. QED
  BY <1>4 DEF Ahead, rest

(* At END everything has been read.                                        *)
LEMMA AheadEnd ==
  ASSUME NEW r \in Seq(Byte), NEW p \in 0 .. Len(r), NEW s \in Seq(Option),
         Ahead(r, p, s), p # Len(r), r[p + 1] = END
  PROVE  Found(r)[0] = [ok |-> TRUE, options |-> s]
<1>. DEFINE all == Found(r)[0]
<1>1. Found(r)[p] = [ok |-> TRUE, options |-> <<>>]
  <2>1. Found(r)[p] = Items(r, Found(r), p)
    BY FoundItem
  <2>. QED
    BY <2>1 DEF Items
<1>2. all \in Result
  <2>1. 0 \in 0 .. Len(r)
    BY LenProperties
  <2>. QED
    BY <2>1, FoundTyped
<1>3. all.ok = TRUE /\ all.options = s \o <<>>
  BY <1>1 DEF Ahead
<1>4. s \o <<>> = s
  BY ConcatEmptySeq
<1>. HIDE DEF all
<1>5. all = [ok |-> TRUE, options |-> s]
  BY <1>2, <1>3, <1>4 DEF Result
<1>. QED
  BY <1>5 DEF all

(* A pad is passed over.                                                   *)
LEMMA AheadPad ==
  ASSUME NEW r \in Seq(Byte), NEW p \in 0 .. Len(r), NEW s \in Seq(Option),
         Ahead(r, p, s), p # Len(r), r[p + 1] = PAD
  PROVE  Ahead(r, p + 1, s)
<1>1. Found(r)[p] = Items(r, Found(r), p)
  BY FoundItem
<1>2. Found(r)[p] = Found(r)[p + 1]
  BY <1>1 DEF Items, PAD, END
<1>. QED
  BY <1>2 DEF Ahead

(* An option that is there is read, or passed over when it is not valid.   *)
LEMMA AheadOption ==
  ASSUME NEW r \in Seq(Byte), NEW p \in 0 .. Len(r), NEW s \in Seq(Option),
         Ahead(r, p, s), p # Len(r), r[p + 1] \notin {PAD, END},
         p + 1 # Len(r), ItemEnd(r, p) <= Len(r)
  PROVE  IF accepts(r[p + 1], ItemData(r, p))
         THEN Ahead(r, ItemEnd(r, p), Append(s, Item(r, p)))
         ELSE Ahead(r, ItemEnd(r, p), s)
<1>. DEFINE e == ItemEnd(r, p)
            o == Item(r, p)
            valid == accepts(r[p + 1], ItemData(r, p))
            all == Found(r)[0]
            here == Found(r)[p]
            rest == Found(r)[e]
<1>1. e \in 0 .. Len(r) /\ e > p + 1 /\ (valid => o \in Option)
  BY ItemFacts, ItemEndFacts
<1>2. rest \in Result
  BY <1>1, FoundTyped
<1>3. here = IF rest.ok /\ valid
             THEN [rest EXCEPT !.options = <<o>> \o @]
             ELSE rest
  <2>1. here = Items(r, Found(r), p)
    BY FoundItem
  <2>2. ~(e > Len(r))
    <3>1. Len(r) \in Nat /\ e \in Nat
      BY <1>1, LenProperties
    <3>. QED
      BY <3>1
  <2>. QED
    BY <2>1, <2>2 DEF Items
<1>4. all.ok = here.ok /\ (here.ok => all.options = s \o here.options)
  BY DEF Ahead
<1>5. (valid => Ahead(r, e, Append(s, o))) /\ (~valid => Ahead(r, e, s))
  <2>. HIDE DEF e, o, valid, all, here, rest
  <2>1. CASE ~(rest.ok /\ valid)
    <3>1. here = rest
      BY <1>3, <2>1
    <3>. QED
      BY <1>4, <2>1, <3>1 DEF Ahead, all, rest
  <2>2. CASE rest.ok /\ valid
    <3>. DEFINE t == rest.options
    <3>1. t \in Seq(Option) /\ o \in Option
      BY <1>1, <1>2, <2>2 DEF Result
    <3>2. here = [rest EXCEPT !.options = <<o>> \o t]
      BY <1>3, <2>2
    <3>. HIDE DEF t
    <3>3. here.ok = rest.ok /\ here.options = <<o>> \o t
      BY <1>2, <3>2 DEF Result
    <3>4. Append(s, o) \o t = s \o (<<o>> \o t)
      <4>1. <<o>> \in Seq(Option)
        BY <3>1
      <4>2. Append(s, o) = s \o <<o>>
        BY <3>1, AppendIsConcat
      <4>. DEFINE w == <<o>>
      <4>3. w \in Seq(Option)
        BY <4>1
      <4>. HIDE DEF w
      <4>4. (s \o w) \o t = s \o (w \o t)
        BY <3>1, <4>3, ConcatAssociative
      <4>. QED
        BY <4>2, <4>4 DEF w
    <3>5. all.ok = rest.ok /\ all.options = Append(s, o) \o t
      BY <1>4, <2>2, <3>3, <3>4
    <3>. QED
      BY <2>2, <3>5 DEF Ahead, all, rest, t
  <2>. QED
    BY <2>1, <2>2
<1>. QED
  BY <1>5

(* What is cut short is malformed.                                         *)
LEMMA AheadCut ==
  ASSUME NEW r \in Seq(Byte), NEW p \in 0 .. Len(r), NEW s \in Seq(Option),
         Ahead(r, p, s),
         \/ p = Len(r)
         \/ /\ r[p + 1] \notin {PAD, END}
            /\ p + 1 = Len(r) \/ ItemEnd(r, p) > Len(r)
  PROVE  ~Found(r)[0].ok
<1>1. Found(r)[p] = Items(r, Found(r), p)
  BY FoundItem
<1>2. Found(r)[p] = Malformed
  BY <1>1 DEF Items
<1>. QED
  BY <1>2 DEF Ahead, Malformed

(* One step reads what the book says.                                      *)
LEMMA ReadingStep ==
  ASSUME RInv, Reading, Next
  PROVE  Reading'
<1>0. /\ TypeOK /\ raw \in Seq(Byte) /\ Len(raw) \in Nat
      /\ position \in 0 .. Len(raw) /\ position \in Nat
      /\ options \in Seq(Option)
      /\ status = "writing" => position = 0 /\ options = <<>>
  BY LenProperties DEF RInv, DInv, TInv, TypeOK, Laid
<1>1. CASE RejectHeader
  BY <1>1 DEF RejectHeader, Reading
<1>2. CASE AcceptHeader
  <2>1. /\ position = 0 /\ options = <<>> /\ raw' = raw /\ header' = header
        /\ position' = position /\ options' = options /\ header = "good"
        /\ raw = <<>> => status' = "decoded"
        /\ raw # <<>> => status' = "reading"
    BY <1>2 DEF AcceptHeader, Reading
  <2>2. Ahead(raw, 0, <<>>)
    BY <1>0, AllAhead
  <2>. QED
    BY <2>1, <2>2 DEF Reading
<1>3. CASE BeginWriting
  BY <1>3 DEF BeginWriting, Reading
<1>4. CASE WriteOption \/ WriteEnd
  BY <1>0, <1>4 DEF WriteOption, WriteEnd, Reading
<1>5. CASE Read
  <2>1. /\ status = "reading" /\ raw' = raw /\ header' = header
        /\ header = "good" /\ Ahead(raw, position, options)
    BY <1>5 DEF Read, RejectTruncated, ReadEnd, ReadPad, ReadOption,
                SkipOption, Framed, Reading
  <2>2. CASE ReadEnd
    <3>1. position # Len(raw) /\ raw[position + 1] = END
      BY <1>0, <2>2 DEF ReadEnd, AtHand
    <3>2. Found(raw)[0] = [ok |-> TRUE, options |-> options]
      BY <1>0, <2>1, <3>1, AheadEnd
    <3>. QED
      BY <2>1, <2>2, <3>2 DEF ReadEnd, Reading
  <2>3. CASE ReadPad
    <3>1. position # Len(raw) /\ raw[position + 1] = PAD
      BY <1>0, <2>3 DEF ReadPad, AtHand
    <3>2. Ahead(raw, position + 1, options)
      BY <1>0, <2>1, <3>1, AheadPad
    <3>. QED
      BY <2>1, <2>3, <3>2 DEF ReadPad, Reading
  <2>4. CASE ReadOption \/ SkipOption
    <3>1. Framed
      BY <2>4 DEF ReadOption, SkipOption
    <3>2. /\ position + 1 \in 1 .. Len(raw) /\ position + 2 \in 1 .. Len(raw)
          /\ position + 2 + raw[position + 2] \in 0 .. Len(raw)
      BY <1>0, <3>1, FramedFacts
    <3>3. /\ position # Len(raw) /\ position + 1 # Len(raw)
          /\ raw[position + 1] \notin {PAD, END}
      BY <1>0, <3>1, <3>2 DEF Framed
    <3>4. /\ ItemEnd(raw, position) = position + 2 + raw[position + 2]
          /\ ItemEnd(raw, position) <= Len(raw)
          /\ ItemData(raw, position) = Data
          /\ Item(raw, position) = [code |-> Code, data |-> value(Code, Data)]
      BY <1>0, <3>2 DEF ItemEnd, ItemData, Item, Code, Data
    <3>5. IF accepts(Code, Data)
          THEN Ahead(raw, ItemEnd(raw, position),
                     Append(options, Item(raw, position)))
          ELSE Ahead(raw, ItemEnd(raw, position), options)
      BY <1>0, <2>1, <3>3, <3>4, AheadOption DEF Code
    <3>6. CASE ReadOption
      BY <2>1, <3>4, <3>5, <3>6 DEF ReadOption, Reading
    <3>7. CASE SkipOption
      BY <2>1, <3>4, <3>5, <3>7 DEF SkipOption, Reading
    <3>. QED
      BY <2>4, <3>6, <3>7
  <2>5. CASE RejectTruncated
    <3>1. Truncated /\ status' = "rejected"
      BY <2>5 DEF RejectTruncated
    <3>2. \/ position = Len(raw)
          \/ /\ raw[position + 1] \notin {PAD, END}
             /\ position + 1 = Len(raw) \/ ItemEnd(raw, position) > Len(raw)
      <4>1. CASE AtHand = 0
        BY <1>0, <4>1 DEF AtHand
      <4>2. CASE AtHand = 1
        <5>1. raw[position + 1] \notin {PAD, END}
          BY <3>1, <4>2 DEF Truncated
        <5>. QED
          BY <1>0, <4>2, <5>1 DEF AtHand
      <4>3. CASE AtHand \notin {0, 1}
        <5>1. /\ raw[position + 1] \notin {PAD, END}
              /\ AtHand < 2 + raw[position + 2]
          BY <3>1, <4>3 DEF Truncated
        <5>. DEFINE n == raw[position + 2]
        <5>2. position + 2 \in 1 .. Len(raw)
          BY <1>0, <4>3 DEF AtHand
        <5>3. n \in Nat
          BY <1>0, <5>2, RawByte
        <5>4. ItemEnd(raw, position) = position + 2 + n
          BY DEF ItemEnd
        <5>5. Len(raw) - position < 2 + n
          BY <5>1 DEF AtHand
        <5>. HIDE DEF n
        <5>6. position + 2 + n > Len(raw)
          BY <1>0, <5>3, <5>5
        <5>. QED
          BY <5>1, <5>4, <5>6
      <4>. QED
        BY <4>1, <4>2, <4>3
    <3>3. ~Found(raw)[0].ok
      BY <1>0, <2>1, <3>2, AheadCut
    <3>. QED
      BY <2>1, <3>1, <3>3 DEF Reading
  <2>. QED
    BY <1>5, <2>2, <2>3, <2>4, <2>5 DEF Read
<1>. QED
  BY <1>1, <1>2, <1>3, <1>4, <1>5 DEF Next, Write

(* DhcpOptions::from_network finds what RFC 2132 says is there, and drops  *)
(* a packet just when its option area is cut short, for any bytes: pads,   *)
(* unknown codes and invalid payloads, whatever bytes they contain, hide   *)
(* nothing that follows and bring up nothing that is not there.            *)
THEOREM DecoderReadsWhatIsThere == Spec => []ReadsWhatIsThere
<1>1. Init => Reading
  BY DEF Init, Reading
<1>2. RInv /\ Reading /\ UNCHANGED packetVars
        => (RInv /\ Reading)'
  BY DEF RInv, DInv, TInv, TypeOK, DecodedIsSayable, Laid, Arriving, RoundTrip,
         Fits, Reading, packetVars
<1>3. RInv /\ Reading /\ Next => (RInv /\ Reading)'
  BY RoundTripStep, ReadingStep
<1>4. Reading => ReadsWhatIsThere
  BY BookFound DEF Reading, ReadsWhatIsThere
<1>. QED
  BY <1>1, <1>2, <1>3, <1>4, RoundTripStart, PTL DEF Spec
=============================================================================
