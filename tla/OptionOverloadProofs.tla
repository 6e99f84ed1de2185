------------------------ MODULE OptionOverloadProofs ------------------------
(***************************************************************************)
(* The layout of a reply is right for every message size limit and every   *)
(* sequence of options.                                                    *)
(***************************************************************************)
EXTENDS OptionOverload, TLAPS

(* While the loop runs, each area keeps the bytes it will still need.      *)
Room ==
  sent = 0 =>
    /\ overload = 0
    /\ limit # NoLimit => bytes + RESERVED_BYTES <= max_options_len
    /\ file_bytes = 0 \/ file_bytes + 1 <= FILE_BYTES
    /\ sname_bytes = 0 \/ sname_bytes + 1 <= SNAME_BYTES

(* The byte counters tell which areas hold an option.                      *)
Counted ==
  /\ file_bytes > 0 <=> \E k \in 1 .. Count : area[k] = "file"
  /\ sname_bytes > 0 <=> \E k \in 1 .. Count : area[k] = "sname"
  /\ file_bytes > 0 => use_file
  /\ \A k \in 1 .. Count : k >= i => area[k] = "omitted"
  /\ sent # 0 => /\ overload \in {1, 3} <=> file_bytes > 0
                 /\ overload \in {2, 3} <=> sname_bytes > 0

(* The first four options are so short that they come first and fit.       *)
HeadFirst ==
  /\ \A k \in 1 .. HeadCount : size[k] = HeadSize[k]
  /\ i <= HeadCount => bytes <= 6 * i
  /\ \A k \in 1 .. HeadCount : k < i => area[k] = "options"

(* What was left out fits nowhere, and never will.                         *)
Full ==
  sent = 0 =>
    \A k \in 1 .. Count : k < i /\ area[k] = "omitted" =>
      ~FitsOptions(size[k]) /\ ~FitsFile(size[k]) /\ ~FitsSname(size[k])

Done == sent # 0 => i > Count

LInv == TypeOK /\ Room /\ Counted /\ HeadFirst /\ Full /\ Done /\ DatagramFits
-----------------------------------------------------------------------------
(* Lengths are numbers, and the limit leaves at least 336 bytes.           *)
LEMMA LimitFacts ==
  ASSUME TypeOK
  PROVE  /\ Count \in Nat /\ Count >= HeadCount /\ HeadCount = 4
         /\ limit # NoLimit => max_options_len \in Nat /\ max_options_len >= 336
         /\ \A k \in 1 .. Count : size[k] \in Nat /\ size[k] > 0
         /\ RESERVED_BYTES = 4 /\ FILE_BYTES \in Nat /\ SNAME_BYTES \in Nat
<1>1. Count \in Nat /\ Count >= HeadCount /\ HeadCount = 4
  BY LayoutAssumption DEF Count, HeadCount
<1>2. limit # NoLimit => limit \in Nat
  BY LayoutAssumption DEF TypeOK
<1>3. limit # NoLimit => max_options_len \in Nat /\ max_options_len >= 336
  BY <1>2 DEF max_options_len, larger, MIN_MAX_MESSAGE_LEN, DHCP_HEADER_LEN
<1>4. ASSUME NEW k \in 1 .. Count
      PROVE  size[k] \in Nat /\ size[k] > 0
  <2>1. size[k] \in Sizes \cup {3, 6}
    BY DEF TypeOK
  <2>. QED
    BY <2>1, LayoutAssumption
<1>. QED
  BY <1>1, <1>3, <1>4 DEF RESERVED_BYTES, FILE_BYTES, SNAME_BYTES

(* The invariant holds before the loop.                                    *)
LEMMA LayoutInit == Init => LInv
<1>. SUFFICES ASSUME Init PROVE LInv
  OBVIOUS
<1>1. PICK rest \in [1 .. Extra -> Sizes] :
        size = [k \in 1 .. Count |-> IF k <= HeadCount THEN HeadSize[k]
                                     ELSE rest[k - HeadCount]]
  BY DEF Init
<1>2. \A k \in 1 .. Count : size[k] \in Sizes \cup {3, 6}
  BY <1>1, LayoutAssumption DEF Count, HeadCount, HeadSize
<1>3. TypeOK
  BY <1>1, <1>2, LayoutAssumption DEF Init, TypeOK, Area, Count, HeadCount
<1>4. \A k \in 1 .. HeadCount : size[k] = HeadSize[k]
  BY <1>1, LayoutAssumption DEF Count, HeadCount
<1>5. HeadFirst
  BY <1>4, LayoutAssumption DEF Init, HeadFirst, HeadCount
<1>6. Room /\ Counted /\ Full /\ Done /\ DatagramFits
  BY <1>3, LimitFacts DEF Init, Room, Counted, Full, Done, DatagramFits
<1>. QED
  BY <1>3, <1>5, <1>6 DEF LInv

(* One iteration of the loop keeps the invariant.                          *)
LEMMA LayoutLoop ==
  ASSUME LInv, PutOptions \/ PutFile \/ PutSname \/ Omit
  PROVE  LInv'
<1>. USE DEF LInv
<1>0. /\ i \in 1 .. Count /\ i' = i + 1 /\ sent = 0 /\ sent' = 0
      /\ UNCHANGED <<limit, use_file, size, overload>>
      /\ size[i] \in Nat /\ size[i] > 0
      /\ bytes \in Nat /\ file_bytes \in Nat /\ sname_bytes \in Nat
  BY LimitFacts DEF PutOptions, PutFile, PutSname, Omit, Advance, TypeOK, Done
<1>1. /\ limit # NoLimit => max_options_len \in Nat /\ max_options_len >= 336
      /\ Count \in Nat /\ Count >= HeadCount /\ HeadCount = 4
      /\ RESERVED_BYTES = 4 /\ FILE_BYTES \in Nat /\ SNAME_BYTES \in Nat
      /\ max_options_len' = max_options_len
  BY <1>0, LimitFacts DEF max_options_len
<1>2. PICK a \in Area :
        /\ area' = [area EXCEPT ![i] = a]
        /\ bytes' = bytes + (IF a = "options" THEN size[i] ELSE 0)
        /\ file_bytes' = file_bytes + (IF a = "file" THEN size[i] ELSE 0)
        /\ sname_bytes' = sname_bytes + (IF a = "sname" THEN size[i] ELSE 0)
        /\ a = "options" <=> FitsOptions(size[i])
        /\ a = "file" => FitsFile(size[i])
        /\ a = "sname" => FitsSname(size[i])
        /\ a = "omitted" => ~FitsFile(size[i]) /\ ~FitsSname(size[i])
  <2>1. CASE PutOptions
    BY <1>0, <2>1 DEF PutOptions, Advance, Area
  <2>2. CASE PutFile
    BY <1>0, <2>2 DEF PutFile, Advance, Area
  <2>3. CASE PutSname
    BY <1>0, <2>3 DEF PutSname, Advance, Area
  <2>4. CASE Omit
    BY <1>0, <2>4 DEF Omit, Advance, Area
  <2>. QED BY <2>1, <2>2, <2>3, <2>4
<1>3. bytes' \in Nat /\ file_bytes' \in Nat /\ sname_bytes' \in Nat
  BY <1>0, <1>2
<1>4. \A k \in 1 .. Count : area'[k] = IF k = i THEN a ELSE area[k]
  BY <1>2 DEF TypeOK
<1>5. TypeOK'
  BY <1>0, <1>1, <1>2, <1>3 DEF TypeOK
<1>6. Room'
  <2>1. limit # NoLimit => bytes' + RESERVED_BYTES <= max_options_len
    <3>1. CASE a = "options"
      BY <1>0, <1>1, <1>2, <3>1 DEF FitsOptions
    <3>2. CASE a # "options"
      BY <1>0, <1>1, <1>2, <3>2 DEF Room
    <3>. QED BY <3>1, <3>2
  <2>2. file_bytes' = 0 \/ file_bytes' + 1 <= FILE_BYTES
    <3>1. CASE a = "file"
      BY <1>0, <1>1, <1>2, <3>1 DEF FitsFile
    <3>2. CASE a # "file"
      BY <1>0, <1>1, <1>2, <3>2 DEF Room
    <3>. QED BY <3>1, <3>2
  <2>3. sname_bytes' = 0 \/ sname_bytes' + 1 <= SNAME_BYTES
    <3>1. CASE a = "sname"
      BY <1>0, <1>1, <1>2, <3>1 DEF FitsSname
    <3>2. CASE a # "sname"
      BY <1>0, <1>1, <1>2, <3>2 DEF Room
    <3>. QED BY <3>1, <3>2
  <2>. QED
    BY <1>0, <1>1, <2>1, <2>2, <2>3 DEF Room
<1>7. Counted'
  <2>1. area[i] = "omitted"
    BY <1>0 DEF Counted
  <2>2. (file_bytes' > 0) <=> \E k \in 1 .. Count : area'[k] = "file"
    <3>1. CASE a = "file"
      BY <1>0, <1>2, <1>4, <3>1
    <3>2. CASE a # "file"
      BY <1>0, <1>2, <1>4, <2>1, <3>2 DEF Counted
    <3>. QED BY <3>1, <3>2
  <2>3. (sname_bytes' > 0) <=> \E k \in 1 .. Count : area'[k] = "sname"
    <3>1. CASE a = "sname"
      BY <1>0, <1>2, <1>4, <3>1
    <3>2. CASE a # "sname"
      BY <1>0, <1>2, <1>4, <2>1, <3>2 DEF Counted
    <3>. QED BY <3>1, <3>2
  <2>4. file_bytes' > 0 => use_file'
    BY <1>0, <1>2 DEF Counted, FitsFile
  <2>5. \A k \in 1 .. Count : k >= i' => area'[k] = "omitted"
    BY <1>0, <1>1, <1>4 DEF Counted
  <2>6. Count' = Count
    BY DEF Count
  <2>. QED
    BY <1>0, <2>2, <2>3, <2>4, <2>5, <2>6 DEF Counted
<1>8. HeadFirst'
  <2>1. ASSUME i <= HeadCount PROVE a = "options" /\ size[i] <= 6
    <3>1. size[i] <= 6 /\ bytes <= 6 * i
      BY <1>0, <1>1, <2>1 DEF HeadFirst, HeadSize
    <3>2. FitsOptions(size[i])
      BY <1>0, <1>1, <2>1, <3>1 DEF FitsOptions
    <3>. QED
      BY <1>2, <3>1, <3>2
  <2>2. i' <= HeadCount => bytes' <= 6 * i'
    BY <1>0, <1>1, <1>2, <2>1 DEF HeadFirst
  <2>3. \A k \in 1 .. HeadCount : k < i' => area'[k] = "options"
    BY <1>0, <1>1, <1>4, <2>1 DEF HeadFirst
  <2>. QED
    BY <1>0, <2>2, <2>3 DEF HeadFirst
<1>9. Full'
  <2>1. /\ bytes <= bytes' /\ file_bytes <= file_bytes' /\ sname_bytes <= sname_bytes'
        /\ FILE_BYTES' = FILE_BYTES /\ SNAME_BYTES' = SNAME_BYTES
        /\ RESERVED_BYTES' = RESERVED_BYTES
    BY <1>0, <1>2 DEF FILE_BYTES, SNAME_BYTES, RESERVED_BYTES
  <2>2. ASSUME NEW k \in 1 .. Count, k < i', area'[k] = "omitted"
        PROVE  ~FitsOptions(size[k]) /\ ~FitsFile(size[k]) /\ ~FitsSname(size[k])
    <3>1. CASE k = i
      BY <1>0, <1>2, <1>4, <2>2, <3>1
    <3>2. CASE k # i
      BY <1>0, <1>1, <1>4, <2>2, <3>2 DEF Full
    <3>. QED BY <3>1, <3>2
  <2>3. ASSUME NEW k \in 1 .. Count, k < i', area'[k] = "omitted"
        PROVE  (~FitsOptions(size[k]) /\ ~FitsFile(size[k]) /\ ~FitsSname(size[k]))'
    <3>1. size'[k] = size[k] /\ size[k] \in Nat
      BY <1>0, LimitFacts
    <3>. QED
      BY <1>0, <1>1, <1>3, <2>1, <2>2, <2>3, <3>1
      DEF FitsOptions, FitsFile, FitsSname
  <2>4. Count' = Count
    BY DEF Count
  <2>. QED
    BY <2>3, <2>4 DEF Full
<1>10. Done' /\ DatagramFits'
  BY <1>0 DEF Done, DatagramFits
<1>. QED
  BY <1>5, <1>6, <1>7, <1>8, <1>9, <1>10

(* Closing the areas after the loop keeps the invariant.                   *)
LEMMA LayoutFinish ==
  ASSUME LInv, Finish
  PROVE  LInv'
<1>. USE DEF LInv
<1>0. /\ i > Count /\ sent = 0 /\ i \in Nat
      /\ UNCHANGED <<limit, use_file, size, i, area>>
      /\ bytes \in Nat /\ file_bytes \in Nat /\ sname_bytes \in Nat
  BY LimitFacts DEF Finish, TypeOK
<1>1. /\ limit # NoLimit => max_options_len \in Nat /\ max_options_len >= 336
      /\ Count \in Nat /\ Count >= HeadCount /\ HeadCount = 4
      /\ Count' = Count /\ HeadCount' = HeadCount
      /\ RESERVED_BYTES = 4 /\ FILE_BYTES \in Nat /\ SNAME_BYTES \in Nat
  BY LimitFacts DEF Count, HeadCount
<1>2. /\ overload' \in 0 .. 3
      /\ overload' \in {1, 3} <=> file_bytes > 0
      /\ overload' \in {2, 3} <=> sname_bytes > 0
  BY <1>0 DEF Finish, overload_val
<1>3. /\ bytes' \in Nat /\ bytes' > 0 /\ bytes' <= bytes + RESERVED_BYTES
      /\ file_bytes' = IF file_bytes > 0 THEN file_bytes + 1 ELSE 0
      /\ sname_bytes' = IF sname_bytes > 0 THEN sname_bytes + 1 ELSE 0
  BY <1>0, <1>1 DEF Finish
<1>4. sent' \in Nat /\ sent' >= DHCP_HEADER_LEN + 60 /\ sent' > 0
  BY <1>3 DEF Finish, datagram_len, larger, DHCP_HEADER_LEN
<1>5. TypeOK'
  BY <1>0, <1>1, <1>2, <1>3, <1>4 DEF TypeOK
<1>6. Room' /\ Full' /\ Done'
  BY <1>0, <1>1, <1>4 DEF Room, Full, Done
<1>7. Counted'
  <2>1. (file_bytes' > 0 <=> file_bytes > 0) /\ (sname_bytes' > 0 <=> sname_bytes > 0)
    BY <1>0, <1>3
  <2>. QED
    BY <1>0, <1>1, <1>2, <2>1 DEF Counted
<1>8. HeadFirst'
  BY <1>0, <1>1 DEF HeadFirst
<1>9. DatagramFits'
  <2>1. ASSUME limit # NoLimit
        PROVE  sent' <= larger(limit, MIN_MAX_MESSAGE_LEN)
    <3>1. bytes' <= max_options_len
      BY <1>0, <1>1, <1>3, <2>1 DEF Room
    <3>2. larger(bytes', 60) <= max_options_len
      BY <1>1, <1>3, <2>1, <3>1 DEF larger
    <3>3. limit \in Nat
      BY <2>1, LayoutAssumption DEF TypeOK
    <3>. QED
      BY <1>3, <3>2, <3>3
      DEF Finish, datagram_len, max_options_len, larger, DHCP_HEADER_LEN, MIN_MAX_MESSAGE_LEN
  <2>2. file_bytes' <= FILE_BYTES /\ sname_bytes' <= SNAME_BYTES
    BY <1>0, <1>1, <1>3 DEF Room
  <2>3. /\ larger(limit, MIN_MAX_MESSAGE_LEN)' = larger(limit, MIN_MAX_MESSAGE_LEN)
        /\ FILE_BYTES' = FILE_BYTES /\ SNAME_BYTES' = SNAME_BYTES
    BY <1>0 DEF larger, MIN_MAX_MESSAGE_LEN, FILE_BYTES, SNAME_BYTES
  <2>. QED
    BY <1>0, <2>1, <2>2, <2>3 DEF DatagramFits
<1>. QED
  BY <1>5, <1>6, <1>7, <1>8, <1>9

(* Every step of the layout, and every stutter, preserves the invariant.   *)
LEMMA LayoutStep == LInv /\ [Next]_vars => LInv'
<1>. SUFFICES ASSUME LInv, [Next]_vars PROVE LInv'
  OBVIOUS
<1>1. CASE PutOptions \/ PutFile \/ PutSname \/ Omit
  BY <1>1, LayoutLoop
<1>2. CASE Finish
  BY <1>2, LayoutFinish
<1>3. CASE UNCHANGED vars
  BY <1>3 DEF vars, LInv, TypeOK, Room, Counted, HeadFirst, Full, Done,
     DatagramFits, FitsOptions, FitsFile, FitsSname, max_options_len
<1>. QED
  BY <1>1, <1>2, <1>3 DEF Next
-----------------------------------------------------------------------------
(* The invariant holds throughout, for any limit and any option lengths.   *)
THEOREM Layout == Spec => []LInv
BY LayoutInit, LayoutStep, PTL DEF Spec

(* The variables of the layout keep their types.                           *)
THEOREM LayoutTypeCorrect == Spec => []TypeOK
<1>1. LInv => TypeOK
  BY DEF LInv
<1>. QED
  BY <1>1, Layout, PTL

(* No datagram exceeds the client's limit, and neither header field is     *)
(* overrun.                                                                *)
THEOREM DatagramAlwaysFits == Spec => []DatagramFits
<1>1. LInv => DatagramFits
  BY DEF LInv
<1>. QED
  BY <1>1, Layout, PTL

(* The message type and the other leading options stay in the option area. *)
THEOREM EssentialsAreInOptions == Spec => []EssentialsInOptions
<1>1. ASSUME LInv PROVE EssentialsInOptions
  <2>1. \A k \in 1 .. HeadCount : sent # 0 => k < i
    BY <1>1, LimitFacts DEF LInv, Done, TypeOK
  <2>. QED
    BY <1>1, <2>1 DEF LInv, HeadFirst, EssentialsInOptions
<1>. QED
  BY <1>1, Layout, PTL

(* The client finds exactly the options that were written.                 *)
THEOREM PlacedOptionsAreRead == Spec => []EveryPlacedOptionIsRead
<1>1. ASSUME LInv PROVE EveryPlacedOptionIsRead
  <2>1. SUFFICES ASSUME sent # 0
        PROVE  /\ ClientReads = {k \in 1 .. Count : area[k] # "omitted"}
               /\ overload \in {1, 3} => use_file /\ \E k \in 1 .. Count : area[k] = "file"
               /\ overload \in {2, 3} => \E k \in 1 .. Count : area[k] = "sname"
    BY DEF EveryPlacedOptionIsRead
  <2>2. \A k \in 1 .. Count : area[k] \in Area
    BY <1>1 DEF LInv, TypeOK
  <2>3. \A k \in 1 .. Count : area[k] = "file" => overload \in {1, 3}
    BY <1>1, <2>1 DEF LInv, Counted
  <2>4. \A k \in 1 .. Count : area[k] = "sname" => overload \in {2, 3}
    BY <1>1, <2>1 DEF LInv, Counted
  <2>5. ClientReads = {k \in 1 .. Count : area[k] # "omitted"}
    BY <2>2, <2>3, <2>4 DEF ClientReads, Area
  <2>. QED
    BY <1>1, <2>1, <2>5 DEF LInv, Counted
<1>. QED
  BY <1>1, Layout, PTL

(* An option is left out only when no area has room for it.                *)
THEOREM OmittedMeansFull == Spec => []OmittedOnlyWhenFull
<1>1. ASSUME LInv PROVE OmittedOnlyWhenFull
  BY <1>1, LimitFacts DEF LInv, Full, TypeOK, OmittedOnlyWhenFull
<1>. QED
  BY <1>1, Layout, PTL
=============================================================================
