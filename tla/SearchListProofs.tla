--------------------------- MODULE SearchListProofs ---------------------------
(***************************************************************************)
(* The compressed search list, for any list of names, and its way to the   *)
(* client.                                                                 *)
(***************************************************************************)
EXTENDS SearchListOption, OptionCodecProofs, FiniteSetTheorems, FunctionTheorems

-----------------------------------------------------------------------------
(* A set that has 0 and, with each number, the next, has them all.         *)
LEMMA Climb ==
  ASSUME NEW n \in Nat, NEW S,
         0 \in S, \A k \in 0 .. n : k \in S /\ k < n => k + 1 \in S
  PROVE  0 .. n \subseteq S
<1>. DEFINE K == {n - k : k \in (0 .. n) \ S}
<1>1. SUFFICES ASSUME (0 .. n) \ S # {} PROVE FALSE
  OBVIOUS
<1>2. K \subseteq 0 .. n /\ K # {}
  BY <1>1
<1>3. PICK j \in K : \A k \in K : k <= j
  <2>. HIDE DEF K
  <2>. QED
    BY <1>2, Last
<1>4. PICK k \in (0 .. n) \ S : j = n - k
  OBVIOUS
<1>5. k \in Nat /\ k # 0 /\ k <= n
  OBVIOUS
<1>6. k - 1 \in 0 .. n /\ k - 1 < n /\ (k - 1) + 1 = k
  BY <1>5
<1>7. k - 1 \notin S
  BY <1>4, <1>6
<1>8. n - (k - 1) \in K
  BY <1>6, <1>7
<1>9. ~(n - (k - 1) <= n - k)
  BY <1>5
<1>. QED
  BY <1>3, <1>4, <1>8, <1>9

(* Appending bytes leaves the bytes before them where they are.            *)
LEMMA Prefix ==
  ASSUME NEW r \in Seq(Byte), NEW b \in Seq(Byte)
  PROVE  /\ r \o b \in Seq(Byte) /\ Len(r \o b) = Len(r) + Len(b)
         /\ \A p \in 1 .. Len(r) : (r \o b)[p] = r[p]
         /\ \A p \in 1 .. Len(b) : (r \o b)[Len(r) + p] = b[p]
         /\ \A k \in 1 .. Len(r) + 1 : \A n \in 0 .. Len(r) :
              SubSeq(r \o b, k, n) = SubSeq(r, k, n)
<1>1. Len(r) \in Nat /\ Len(b) \in Nat
  BY LenProperties
<1>2. r \o b \in Seq(Byte) /\ Len(r \o b) = Len(r) + Len(b)
  BY ConcatProperties
<1>3. \A p \in 1 .. Len(r) : (r \o b)[p] = r[p]
  BY <1>1, ConcatProperties
<1>4. \A p \in 1 .. Len(b) : (r \o b)[Len(r) + p] = b[p]
  <2>. TAKE p \in 1 .. Len(b)
  <2>1. Len(r) + p \in 1 .. Len(r) + Len(b) /\ ~(Len(r) + p <= Len(r))
        /\ (Len(r) + p) - Len(r) = p
    BY <1>1
  <2>. QED
    BY <2>1, ConcatProperties
<1>5. ASSUME NEW k \in 1 .. Len(r) + 1, NEW n \in 0 .. Len(r)
      PROVE  SubSeq(r \o b, k, n) = SubSeq(r, k, n)
  <2>. DEFINE x == SubSeq(r \o b, k, n)
              y == SubSeq(r, k, n)
  <2>1. /\ y = [j \in 1 .. (n - k) + 1 |-> r[(k + j) - 1]]
        /\ x = [j \in 1 .. (n - k) + 1 |-> (r \o b)[(k + j) - 1]]
    BY <1>1, <1>2
  <2>2. \A j \in 1 .. (n - k) + 1 : (k + j) - 1 \in 1 .. Len(r)
    BY <1>1
  <2>3. \A j \in 1 .. (n - k) + 1 : (r \o b)[(k + j) - 1] = r[(k + j) - 1]
    BY <2>2, <1>3
  <2>. QED
    BY <2>1, <2>3
<1>. QED
  BY <1>2, <1>3, <1>4, <1>5

-----------------------------------------------------------------------------
(* The client: the recursive functions have a solution, and it is the one  *)
(* NameAt and Decoded mean.                                                *)

Lost(r) == [labels |-> <<Garbled>>, end |-> Len(r)]

(* One step of the client, at[<<n, p>>] being what n steps from p give.    *)
Step(r, at, q) ==
  LET n == q[1]  p == q[2]  b == r[p + 1] IN
  IF n = 0 \/ p = Len(r) THEN Lost(r)
  ELSE IF b = 0 THEN [labels |-> <<>>, end |-> p + 1]
  ELSE IF b < 64 /\ p + 1 + b <= Len(r)
  THEN LET rest == at[<<n - 1, p + 1 + b>>]
       IN  [labels |-> <<SubSeq(r, p + 2, p + 1 + b)>> \o rest.labels,
            end |-> rest.end]
  ELSE IF b >= 192 /\ p + 2 <= Len(r)
  THEN LET target == (b - 192) * 256 + r[p + 2]
       IN  [labels |-> IF target < p THEN at[<<n - 1, target>>].labels
                       ELSE <<Garbled>>,
            end |-> p + 2]
  ELSE Lost(r)

Grid(r) == (0 .. Len(r)) \X (0 .. Len(r))

IsReader(r, at) == at = [q \in Grid(r) |-> Step(r, at, q)]

Reader(r) == CHOOSE at : IsReader(r, at)

At(r) == [p \in 0 .. Len(r) |-> Reader(r)[<<Len(r), p>>]]

LEMMA NameAtIs == NameAt = At(compressed)
BY DEF NameAt, At, Reader, IsReader, Step, Lost, Grid

(* Where a step leads is a place in the area.                              *)
LEMMA Places ==
  ASSUME NEW r \in Seq(Byte), NEW p \in 0 .. Len(r), p # Len(r)
  PROVE  LET b == r[p + 1]  target == (b - 192) * 256 + r[p + 2] IN
         /\ b \in 0 .. 255
         /\ b # 0 /\ p + 1 + b <= Len(r) => p + 1 + b \in p + 2 .. Len(r)
         /\ b >= 192 /\ p + 2 <= Len(r) => target \in Nat
<1>. DEFINE b == r[p + 1]
            c == r[p + 2]
<1>1. Len(r) \in Nat /\ p \in Nat /\ p + 1 \in 1 .. Len(r)
  BY LenProperties
<1>2. b \in 0 .. 255
  BY <1>1, ElementOfSeq DEF Byte
<1>3. p + 2 <= Len(r) => c \in 0 .. 255
  <2>1. p + 2 <= Len(r) => p + 2 \in 1 .. Len(r)
    BY <1>1
  <2>. QED
    BY <2>1, ElementOfSeq DEF Byte
<1>. HIDE DEF b, c
<1>4. b # 0 /\ p + 1 + b <= Len(r) => p + 1 + b \in p + 2 .. Len(r)
  BY <1>1, <1>2
<1>5. ASSUME b >= 192, p + 2 <= Len(r) PROVE (b - 192) * 256 + c \in Nat
  <2>1. c \in 0 .. 255
    BY <1>3, <1>5
  <2>2. (b - 192) * 256 \in Nat
    BY <1>2, <1>5
  <2>. QED
    BY <2>1, <2>2
<1>. QED
  BY <1>2, <1>4, <1>5 DEF b, c

(* A step depends on what fewer steps give, and on nothing else.           *)
LEMMA StepLocal ==
  ASSUME NEW r \in Seq(Byte), NEW f, NEW g, NEW n \in Nat, NEW p \in 0 .. Len(r),
         n # 0 => \A j \in 0 .. Len(r) : f[<<n - 1, j>>] = g[<<n - 1, j>>]
  PROVE  Step(r, f, <<n, p>>) = Step(r, g, <<n, p>>)
<1>. DEFINE b == r[p + 1]
            target == (b - 192) * 256 + r[p + 2]
<1>1. CASE n = 0 \/ p = Len(r)
  BY <1>1 DEF Step
<1>2. CASE n # 0 /\ p # Len(r)
  <2>1. Len(r) \in Nat /\ p \in Nat
    BY LenProperties
  <2>2. /\ b \in 0 .. 255
        /\ b # 0 /\ p + 1 + b <= Len(r) => p + 1 + b \in p + 2 .. Len(r)
        /\ b >= 192 /\ p + 2 <= Len(r) => target \in Nat
    BY <1>2, Places
  <2>. HIDE DEF b, target
  <2>3. b # 0 /\ p + 1 + b <= Len(r)
          => f[<<n - 1, p + 1 + b>>] = g[<<n - 1, p + 1 + b>>]
    <3>1. b # 0 /\ p + 1 + b <= Len(r) => p + 1 + b \in 0 .. Len(r)
      BY <2>1, <2>2
    <3>. QED
      BY <1>2, <3>1
  <2>4. b >= 192 /\ p + 2 <= Len(r) /\ target < p
          => f[<<n - 1, target>>] = g[<<n - 1, target>>]
    <3>1. b >= 192 /\ p + 2 <= Len(r) /\ target < p => target \in 0 .. Len(r)
      BY <2>1, <2>2
    <3>. QED
      BY <1>2, <3>1
  <2>. QED
    BY <1>2, <2>2, <2>3, <2>4 DEF Step, b, target
<1>. QED
  BY <1>1, <1>2

LEMMA ReaderExists ==
  ASSUME NEW r \in Seq(Byte)
  PROVE  IsReader(r, Reader(r))
<1>. DEFINE L == Len(r)
            Solves(f, k) == \A n \in 0 .. k : \A p \in 0 .. L :
                              f[<<n, p>>] = Step(r, f, <<n, p>>)
            S == {k \in 0 .. L : \E f : Solves(f, k)}
<1>1. L \in Nat
  BY LenProperties
<1>2. ASSUME NEW k \in 0 .. L, NEW f,
             k # 0 => Solves(f, k - 1)
      PROVE  \E g : Solves(g, k)
  <2>. DEFINE g == [q \in Grid(r) |-> IF q[1] = k THEN Step(r, f, q) ELSE f[q]]
  <2>1. \A n, p \in 0 .. L : g[<<n, p>>] = IF n = k THEN Step(r, f, <<n, p>>)
                                           ELSE f[<<n, p>>]
    BY DEF Grid
  <2>. HIDE DEF g
  <2>2. ASSUME NEW n \in 0 .. k, NEW p \in 0 .. L
        PROVE  g[<<n, p>>] = Step(r, g, <<n, p>>)
    <3>1. n \in Nat /\ n \in 0 .. L /\ (n # 0 => n - 1 \in 0 .. L /\ n - 1 # k)
      BY <1>1
    <3>2. n # 0 => \A j \in 0 .. L : f[<<n - 1, j>>] = g[<<n - 1, j>>]
      BY <2>1, <3>1
    <3>3. Step(r, f, <<n, p>>) = Step(r, g, <<n, p>>)
      BY <3>1, <3>2, StepLocal
    <3>4. n # k => f[<<n, p>>] = Step(r, f, <<n, p>>)
      <4>1. n # k => k # 0 /\ n \in 0 .. k - 1
        BY <1>1
      <4>. QED
        BY <1>2, <4>1
    <3>. QED
      BY <2>1, <3>1, <3>3, <3>4
  <2>3. Solves(g, k)
    BY <2>2
  <2>. QED
    BY <2>3
<1>3. 0 .. L \subseteq S
  <2>1. 0 \in S
    <3>1. 0 \in 0 .. L
      BY <1>1
    <3>2. \E g : Solves(g, 0)
      BY <1>2, <3>1
    <3>. QED
      BY <3>1, <3>2
  <2>2. ASSUME NEW k \in 0 .. L, k \in S, k < L
        PROVE  k + 1 \in S
    <3>1. PICK f : Solves(f, k)
      BY <2>2
    <3>2. k + 1 \in 0 .. L /\ (k + 1) - 1 = k
      BY <1>1, <2>2
    <3>3. \E g : Solves(g, k + 1)
      <4>. HIDE DEF Solves
      <4>1. Solves(f, (k + 1) - 1)
        BY <3>1, <3>2, Zenon
      <4>. QED
        BY <1>2, <3>2, <4>1
    <3>. QED
      BY <3>2, <3>3
  <2>. HIDE DEF S
  <2>. QED
    BY <1>1, <2>1, <2>2, Climb
<1>4. L \in S
  <2>. HIDE DEF S
  <2>. QED
    BY <1>1, <1>3
<1>5. PICK f : Solves(f, L)
  BY <1>4
<1>. DEFINE g == [q \in Grid(r) |-> f[q]]
<1>6. \A n, p \in 0 .. L : g[<<n, p>>] = f[<<n, p>>]
  BY DEF Grid
<1>7. ASSUME NEW q \in Grid(r) PROVE f[q] = Step(r, g, q)
  <2>1. PICK n \in 0 .. L, p \in 0 .. L : q = <<n, p>>
    BY DEF Grid
  <2>2. n \in Nat /\ (n # 0 => n - 1 \in 0 .. L)
    BY <1>1
  <2>. HIDE DEF g
  <2>3. n # 0 => \A j \in 0 .. L : f[<<n - 1, j>>] = g[<<n - 1, j>>]
    BY <1>6, <2>2
  <2>4. Step(r, f, <<n, p>>) = Step(r, g, <<n, p>>)
    BY <2>2, <2>3, StepLocal
  <2>. QED
    BY <1>5, <2>1, <2>4
<1>8. g = [q \in Grid(r) |-> Step(r, g, q)]
  BY <1>7
<1>9. IsReader(r, g)
  BY <1>8 DEF IsReader
<1>. HIDE DEF g
<1>. QED
  BY <1>9 DEF Reader

LEMMA ReaderAt ==
  ASSUME NEW r \in Seq(Byte), NEW n \in 0 .. Len(r), NEW p \in 0 .. Len(r)
  PROVE  Reader(r)[<<n, p>>] = Step(r, Reader(r), <<n, p>>)
<1>1. Reader(r) = [q \in Grid(r) |-> Step(r, Reader(r), q)]
  BY ReaderExists DEF IsReader
<1>. DEFINE f == Reader(r)
<1>. HIDE DEF f
<1>2. f = [q \in Grid(r) |-> Step(r, f, q)]
  BY <1>1 DEF f
<1>3. <<n, p>> \in Grid(r)
  BY DEF Grid
<1>4. f[<<n, p>>] = Step(r, f, <<n, p>>)
  BY <1>2, <1>3, Zenon
<1>. QED
  BY <1>4 DEF f

(* A spelling ends after it starts, and in the area.                       *)
LEMMA StepEnd ==
  ASSUME NEW r \in Seq(Byte), NEW at, NEW n \in Nat, NEW p \in 0 .. Len(r),
         n # 0 => \A j \in 0 .. Len(r) : at[<<n - 1, j>>].end \in j .. Len(r)
  PROVE  /\ Step(r, at, <<n, p>>).end \in p .. Len(r)
         /\ p # Len(r) => Step(r, at, <<n, p>>).end # p
<1>. DEFINE b == r[p + 1]
            target == (b - 192) * 256 + r[p + 2]
            e == Step(r, at, <<n, p>>).end
<1>1. Len(r) \in Nat /\ p \in Nat /\ p <= Len(r)
  BY LenProperties
<1>2. CASE n = 0 \/ p = Len(r)
  <2>1. e = Len(r)
    BY <1>2 DEF Step, Lost
  <2>. QED
    BY <1>1, <2>1
<1>3. CASE n # 0 /\ p # Len(r)
  <2>1. /\ b \in 0 .. 255
        /\ b # 0 /\ p + 1 + b <= Len(r) => p + 1 + b \in p + 2 .. Len(r)
    BY <1>3, Places
  <2>2. CASE b = 0
    <3>1. e = p + 1
      BY <1>3, <2>2 DEF Step
    <3>. QED
      BY <1>1, <1>3, <3>1
  <2>3. CASE b # 0 /\ b < 64 /\ p + 1 + b <= Len(r)
    <3>1. e = at[<<n - 1, p + 1 + b>>].end
      BY <1>3, <2>3 DEF Step
    <3>. HIDE DEF e, b
    <3>2. p + 1 + b \in p + 2 .. Len(r)
      BY <2>1, <2>3
    <3>3. p + 1 + b \in 0 .. Len(r)
      BY <1>1, <3>2
    <3>4. e \in p + 1 + b .. Len(r)
      BY <1>3, <3>1, <3>3
    <3>5. e \in p .. Len(r) /\ e # p
      BY <1>1, <2>1, <3>2, <3>4
    <3>. QED
      BY <3>5 DEF e
  <2>4. CASE b # 0 /\ ~(b < 64 /\ p + 1 + b <= Len(r)) /\ b >= 192 /\ p + 2 <= Len(r)
    <3>1. e = p + 2
      BY <1>3, <2>4 DEF Step
    <3>. QED
      BY <1>1, <2>4, <3>1
  <2>5. CASE /\ b # 0 /\ ~(b < 64 /\ p + 1 + b <= Len(r))
             /\ ~(b >= 192 /\ p + 2 <= Len(r))
    <3>1. e = Len(r)
      BY <1>3, <2>5 DEF Step, Lost
    <3>. QED
      BY <1>1, <1>3, <3>1
  <2>. QED
    BY <2>2, <2>3, <2>4, <2>5
<1>. QED
  BY <1>2, <1>3

LEMMA AtEnd ==
  ASSUME NEW r \in Seq(Byte), NEW p \in 0 .. Len(r)
  PROVE  At(r)[p].end \in p .. Len(r) /\ (p # Len(r) => At(r)[p].end # p)
<1>. DEFINE L == Len(r)
            f == Reader(r)
            Good(n) == \A j \in 0 .. L : /\ f[<<n, j>>].end \in j .. L
                                         /\ j # L => f[<<n, j>>].end # j
            S == {n \in 0 .. L : Good(n)}
<1>. HIDE DEF f
<1>1. L \in Nat
  BY LenProperties
<1>2. \A n, j \in 0 .. L : f[<<n, j>>] = Step(r, f, <<n, j>>)
  BY ReaderAt DEF f
<1>3. 0 .. L \subseteq S
  <2>1. ASSUME NEW n \in 0 .. L,
               n # 0 => \A j \in 0 .. Len(r) : f[<<n - 1, j>>].end \in j .. Len(r)
        PROVE  n \in S
    <3>1. n \in Nat
      OBVIOUS
    <3>2. \A j \in 0 .. L : /\ Step(r, f, <<n, j>>).end \in j .. Len(r)
                            /\ j # Len(r) => Step(r, f, <<n, j>>).end # j
      BY <2>1, <3>1, StepEnd
    <3>3. Good(n)
      BY <1>2, <3>2
    <3>. QED
      BY <3>3
  <2>2. 0 \in S
    <3>1. 0 \in 0 .. L
      BY <1>1
    <3>. HIDE DEF S
    <3>. QED
      BY <2>1, <3>1
  <2>3. ASSUME NEW n \in 0 .. L, n \in S, n < L
        PROVE  n + 1 \in S
    <3>1. n + 1 \in 0 .. L /\ (n + 1) - 1 = n
      BY <1>1, <2>3
    <3>2. \A j \in 0 .. Len(r) : f[<<n, j>>].end \in j .. Len(r)
      BY <2>3
    <3>. HIDE DEF S
    <3>3. \A j \in 0 .. Len(r) : f[<<(n + 1) - 1, j>>].end \in j .. Len(r)
      BY <3>1, <3>2
    <3>. QED
      BY <2>1, <3>1, <3>3
  <2>. HIDE DEF S
  <2>. QED
    BY <1>1, <2>2, <2>3, Climb
<1>4. Good(L)
  <2>1. L \in 0 .. L
    BY <1>1
  <2>2. \A n \in S : Good(n)
    OBVIOUS
  <2>. HIDE DEF S, Good
  <2>. QED
    BY <1>3, <2>1, <2>2
<1>5. At(r)[p] = f[<<L, p>>]
  BY DEF At, f
<1>. QED
  BY <1>4, <1>5

(* The names one after the other.                                          *)
Rest(r, f, p) ==
  IF p = Len(r) THEN <<>> ELSE <<At(r)[p].labels>> \o f[At(r)[p].end]

IsListing(r, f) == f = [p \in 0 .. Len(r) |-> Rest(r, f, p)]

Listing(r) == CHOOSE f : IsListing(r, f)

LEMMA DecodedIs == Decoded = Listing(compressed)[0]
BY NameAtIs DEF Decoded, Listing, IsListing, Rest

LEMMA ListingAt ==
  ASSUME NEW r \in Seq(Byte), NEW p \in 0 .. Len(r)
  PROVE  Listing(r)[p] = Rest(r, Listing(r), p)
<1>. DEFINE L == Len(r)
            Solves(f, k) == \A q \in 0 .. L : q >= k => f[q] = Rest(r, f, q)
            S == {k \in 0 .. L : \E f : Solves(f, L - k)}
<1>1. L \in Nat
  BY LenProperties
<1>2. ASSUME NEW q \in 0 .. L, NEW f, NEW g,
             \A j \in q + 1 .. L : f[j] = g[j]
      PROVE  Rest(r, f, q) = Rest(r, g, q)
  <2>1. q # L => At(r)[q].end \in q + 1 .. L
    <3>1. At(r)[q].end \in q .. L /\ (q # L => At(r)[q].end # q)
      BY AtEnd
    <3>. QED
      BY <1>1, <3>1
  <2>. QED
    BY <1>2, <2>1 DEF Rest
<1>3. ASSUME NEW k \in 0 .. L, NEW f, k # L => Solves(f, k + 1)
      PROVE  \E g : Solves(g, k)
  <2>. DEFINE g == [q \in 0 .. L |-> IF q = k THEN Rest(r, f, q) ELSE f[q]]
  <2>1. \A q \in 0 .. L : g[q] = IF q = k THEN Rest(r, f, q) ELSE f[q]
    OBVIOUS
  <2>. HIDE DEF g
  <2>2. ASSUME NEW q \in 0 .. L, q >= k
        PROVE  g[q] = Rest(r, g, q)
    <3>1. \A j \in q + 1 .. L : j \in 0 .. L /\ j # k
      BY <1>1, <2>2
    <3>2. \A j \in q + 1 .. L : f[j] = g[j]
      BY <2>1, <3>1
    <3>3. Rest(r, f, q) = Rest(r, g, q)
      BY <1>2, <3>2
    <3>4. q # k => k # L /\ q >= k + 1
      BY <1>1, <2>2
    <3>5. q # k => f[q] = Rest(r, f, q)
      BY <1>3, <3>4
    <3>. QED
      BY <2>1, <3>3, <3>5
  <2>3. Solves(g, k)
    BY <2>2
  <2>. QED
    BY <2>3
<1>4. 0 .. L \subseteq S
  <2>1. 0 \in S
    <3>1. L \in 0 .. L /\ L - 0 = L /\ 0 \in 0 .. L
      BY <1>1
    <3>. HIDE DEF Solves
    <3>2. \E g : Solves(g, L)
      BY <1>3, <3>1
    <3>3. \E g : Solves(g, L - 0)
      BY <3>1, <3>2
    <3>. QED
      BY <3>1, <3>3
  <2>2. ASSUME NEW k \in 0 .. L, k \in S, k < L
        PROVE  k + 1 \in S
    <3>1. PICK f : Solves(f, L - k)
      BY <2>2
    <3>2. k + 1 \in 0 .. L /\ L - (k + 1) \in 0 .. L /\ (L - (k + 1)) + 1 = L - k
      BY <1>1, <2>2
    <3>. HIDE DEF Solves
    <3>3. Solves(f, (L - (k + 1)) + 1)
      BY <3>1, <3>2, Zenon
    <3>4. \E g : Solves(g, L - (k + 1))
      BY <1>3, <3>2, <3>3
    <3>. QED
      BY <3>2, <3>4
  <2>. HIDE DEF S
  <2>. QED
    BY <1>1, <2>1, <2>2, Climb
<1>5. \E f : Solves(f, 0)
  <2>1. L \in 0 .. L /\ L - L = 0
    BY <1>1
  <2>. HIDE DEF Solves
  <2>2. \E f : Solves(f, L - L)
    <3>1. L \in S
      <4>. HIDE DEF S
      <4>. QED
        BY <1>4, <2>1
    <3>. QED
      BY <3>1
  <2>. QED
    BY <2>1, <2>2
<1>6. PICK f : \A q \in 0 .. L : f[q] = Rest(r, f, q)
  BY <1>5
<1>. DEFINE g == [q \in 0 .. L |-> f[q]]
<1>7. \A q \in 0 .. L : Rest(r, f, q) = Rest(r, g, q)
  <2>1. \A q \in 0 .. L : \A j \in q + 1 .. L : f[j] = g[j]
    BY <1>1
  <2>. HIDE DEF g
  <2>. QED
    BY <1>2, <2>1
<1>8. g = [q \in 0 .. L |-> Rest(r, g, q)]
  <2>1. \A q \in 0 .. L : f[q] = Rest(r, g, q)
    BY <1>6, <1>7
  <2>. QED
    BY <2>1
<1>9. IsListing(r, g)
  BY <1>8 DEF IsListing
<1>10. IsListing(r, Listing(r))
  <2>. HIDE DEF g
  <2>. QED
    BY <1>9 DEF Listing
<1>. DEFINE h == Listing(r)
<1>. HIDE DEF h
<1>11. h = [q \in 0 .. L |-> Rest(r, h, q)]
  BY <1>10 DEF IsListing, h
<1>12. h[p] = Rest(r, h, p)
  BY <1>11, Zenon
<1>. QED
  BY <1>12 DEF h

-----------------------------------------------------------------------------
(* What the bytes say.  A fact is that a spelling of these labels starts   *)
(* at this offset, ends before `end`, and belongs to the name that starts  *)
(* at `start`.                                                             *)
Fact == [start : Nat, offset : Nat, labels : Seq(Label), end : Nat]

(* The bytes and the other facts say so: a root; a pointer to a spelling   *)
(* that ends before this name starts; a label and the rest of the name.    *)
SaysRoot(r, d) == d.labels = <<>> /\ r[d.offset + 1] = 0 /\ d.end = d.offset + 1

PointsTo(r, p, offset) ==
  r[p + 1] = pointer(offset)[1] /\ r[p + 2] = pointer(offset)[2]

SaysPointer(r, d, c) ==
  /\ c.end <= d.start /\ c.labels = d.labels /\ d.end = d.offset + 2
  /\ PointsTo(r, d.offset, c.offset)

SaysLabel(r, d, c, l) ==
  /\ Len(l) \in 1 .. 63
  /\ c.start = d.start /\ c.end = d.end /\ c.offset = d.offset + 1 + Len(l)
  /\ d.labels = <<l>> \o c.labels
  /\ r[d.offset + 1] = Len(l)
  /\ SubSeq(r, d.offset + 2, d.offset + 1 + Len(l)) = l

Bounds(r, d) == d.start <= d.offset /\ d.offset < d.end /\ d.end <= Len(r)

Said(r, D, d) ==
  /\ Bounds(r, d)
  /\ \/ SaysRoot(r, d)
     \/ \E c \in D : SaysPointer(r, d, c)
     \/ \E c \in D, l \in Label : SaysLabel(r, d, c, l)

AllSaid(r, D) == D \subseteq Fact /\ \A d \in D : Said(r, D, d)

(* The steps a client needs: each brings it nearer to the end of a         *)
(* spelling, or to one that ends before.                                   *)
need(d) == (d.end - d.offset) + d.start

(* Every byte is in the reach of a pointer.                                *)
Reach == 64 * 256

InReach(r) == Len(r) <= Reach

(* What a pointer within reach holds.                                      *)
LEMMA PointerSays ==
  ASSUME NEW offset \in Nat, offset < Reach
  PROVE  /\ pointer(offset)[1] \in 192 .. 255 /\ pointer(offset)[2] \in 0 .. 255
         /\ (pointer(offset)[1] - 192) * 256 + pointer(offset)[2] = offset
<1>. DEFINE a == offset \div 256
            c == offset % 256
<1>1. a \in 0 .. 63 /\ c \in 0 .. 255 /\ offset = a * 256 + c
  BY DEF Reach
<1>2. pointer(offset)[1] = 192 + (a % 64) /\ pointer(offset)[2] = c
  BY DEF pointer
<1>. HIDE DEF a, c
<1>3. a % 64 = a
  BY <1>1
<1>. QED
  BY <1>1, <1>2, <1>3

LEMMA RootStep ==
  ASSUME NEW r \in Seq(Byte), NEW f, NEW n \in Nat \ {0}, NEW o \in Nat,
         o + 1 <= Len(r), r[o + 1] = 0
  PROVE  Step(r, f, <<n, o>>) = [labels |-> <<>>, end |-> o + 1]
<1>1. n # 0 /\ o # Len(r)
  BY LenProperties
<1>. QED
  BY <1>1 DEF Step

LEMMA PointerStep ==
  ASSUME NEW r \in Seq(Byte), NEW f, NEW n \in Nat \ {0}, NEW o \in Nat,
         NEW t \in Nat, InReach(r), o + 2 <= Len(r), t < o, PointsTo(r, o, t)
  PROVE  Step(r, f, <<n, o>>) = [labels |-> f[<<n - 1, t>>].labels, end |-> o + 2]
<1>1. PICK hi, lo : hi = r[o + 1] /\ lo = r[o + 2]
  OBVIOUS
<1>2. t < Reach
  BY LenProperties DEF InReach, Reach
<1>3. hi \in 192 .. 255 /\ (hi - 192) * 256 + lo = t
  <2>1. hi = pointer(t)[1] /\ lo = pointer(t)[2]
    BY <1>1 DEF PointsTo
  <2>2. /\ pointer(t)[1] \in 192 .. 255
        /\ (pointer(t)[1] - 192) * 256 + pointer(t)[2] = t
    BY <1>2, PointerSays
  <2>. QED
    BY <2>1, <2>2, Zenon
<1>4. PICK target : target = (hi - 192) * 256 + lo
  OBVIOUS
<1>5. /\ n # 0 /\ o # Len(r)
      /\ hi # 0 /\ ~(hi < 64) /\ hi >= 192
  BY <1>3, LenProperties
<1>6. Step(r, f, <<n, o>>)
        = [labels |-> IF target < o THEN f[<<n - 1, target>>].labels
                      ELSE <<Garbled>>, end |-> o + 2]
  BY <1>1, <1>4, <1>5 DEF Step
<1>7. target = t
  BY <1>3, <1>4
<1>. QED
  BY <1>5, <1>6, <1>7

LEMMA LabelStep ==
  ASSUME NEW r \in Seq(Byte), NEW f, NEW n \in Nat \ {0}, NEW o \in Nat,
         r[o + 1] \in 1 .. 63, o + 1 + r[o + 1] <= Len(r)
  PROVE  Step(r, f, <<n, o>>)
           = [labels |-> <<SubSeq(r, o + 2, o + 1 + r[o + 1])>>
                           \o f[<<n - 1, o + 1 + r[o + 1]>>].labels,
              end |-> f[<<n - 1, o + 1 + r[o + 1]>>].end]
<1>1. PICK k : k = r[o + 1] /\ k \in 1 .. 63
  OBVIOUS
<1>2. o + 1 + k <= Len(r)
  BY <1>1
<1>3. n # 0 /\ o # Len(r) /\ k # 0 /\ k < 64
  <2>1. Len(r) \in Nat
    BY LenProperties
  <2>2. k \in 1 .. 63
    BY <1>1
  <2>. QED
    BY <1>2, <2>1, <2>2
<1>. QED
  BY <1>1, <1>2, <1>3 DEF Step

(* A client reads what is said.                                            *)
LEMMA SaidIsRead ==
  ASSUME NEW r \in Seq(Byte), InReach(r), NEW D, AllSaid(r, D)
  PROVE  \A d \in D : /\ At(r)[d.offset].labels = d.labels
                      /\ At(r)[d.offset].end = d.end
<1>0. PICK f : f = Reader(r)
  OBVIOUS
<1>. DEFINE L == Len(r)
            Reads(n, d) == f[<<n, d.offset>>] = [labels |-> d.labels, end |-> d.end]
            S == {n \in 0 .. L : \A d \in D : need(d) <= n => Reads(n, d)}
<1>1. L \in Nat
  BY LenProperties
<1>2. \A n, j \in 0 .. L : f[<<n, j>>] = Step(r, f, <<n, j>>)
  BY <1>0, ReaderAt
<1>3. ASSUME NEW d \in D
      PROVE  /\ d \in Fact /\ Said(r, D, d)
             /\ d.offset \in 0 .. L /\ d.offset < L /\ d.end <= L
             /\ need(d) \in 1 .. L
  <2>1. d \in Fact /\ Said(r, D, d)
    BY DEF AllSaid
  <2>2. /\ d.start \in Nat /\ d.offset \in Nat /\ d.end \in Nat
        /\ d.start <= d.offset /\ d.offset < d.end /\ d.end <= L
    BY <2>1 DEF Fact, Said, Bounds
  <2>3. d.offset \in 0 .. L /\ d.offset < L /\ (d.end - d.offset) + d.start \in 1 .. L
    BY <1>1, <2>2
  <2>. QED
    BY <2>1, <2>2, <2>3 DEF need
<1>4. ASSUME NEW n \in 0 .. L, n \in S, n < L, NEW d \in D, need(d) <= n + 1
      PROVE  Reads(n + 1, d)
  <2>0. PICK o, ds, de : o = d.offset /\ ds = d.start /\ de = d.end
    OBVIOUS
  <2>1. \A c \in D : need(c) <= n => Reads(n, c)
    BY <1>4
  <2>2. n + 1 \in 0 .. L /\ n + 1 # 0 /\ (n + 1) - 1 = n
    BY <1>1, <1>4
  <2>3. /\ ds \in Nat /\ o \in Nat /\ de \in Nat
        /\ ds <= o /\ o < de /\ de <= L
    BY <1>3, <2>0 DEF Fact, Said, Bounds
  <2>4. f[<<n + 1, o>>] = Step(r, f, <<n + 1, o>>)
    <3>1. o \in 0 .. L
      BY <1>1, <2>3
    <3>. QED
      BY <1>2, <2>2, <3>1
  <2>5. (de - o) + ds <= n + 1 /\ n \in Nat
    BY <1>4, <2>0 DEF need
  <2>6. CASE SaysRoot(r, d)
    <3>1. r[o + 1] = 0 /\ d.labels = <<>> /\ de = o + 1
      BY <2>0, <2>6 DEF SaysRoot
    <3>2. o + 1 <= Len(r)
      BY <2>3
    <3>3. Step(r, f, <<n + 1, o>>) = [labels |-> <<>>, end |-> o + 1]
      <4>1. n + 1 \in Nat \ {0}
        BY <2>5
      <4>. QED
        BY <2>3, <3>1, <3>2, <4>1, RootStep
    <3>. QED
      BY <2>0, <2>4, <3>1, <3>3
  <2>7. ASSUME NEW c \in D, SaysPointer(r, d, c) PROVE Reads(n + 1, d)
    <3>0. PICK t, cs, ce : t = c.offset /\ cs = c.start /\ ce = c.end
      OBVIOUS
    <3>1. ce <= ds /\ de = o + 2 /\ PointsTo(r, o, t)
      BY <2>0, <2>7, <3>0 DEF SaysPointer
    <3>2. cs \in Nat /\ t \in Nat /\ ce \in Nat /\ cs <= t /\ t < ce
      BY <1>3, <3>0 DEF Fact, Said, Bounds
    <3>3. t < o /\ o + 2 <= Len(r) /\ (ce - t) + cs <= n
      BY <1>1, <2>3, <2>5, <3>1, <3>2
    <3>4. Step(r, f, <<n + 1, o>>) = [labels |-> f[<<n, t>>].labels, end |-> o + 2]
      <4>1. o + 2 <= Len(r) /\ t < o /\ n \in Nat /\ o \in Nat /\ t \in Nat
        BY <2>3, <2>5, <3>2, <3>3
      <4>2. PICK m \in Nat \ {0} : m = n + 1 /\ m - 1 = n
        BY <4>1
      <4>3. PointsTo(r, o, t) /\ InReach(r)
        BY <3>1
      <4>4. Step(r, f, <<m, o>>)
              = [labels |-> f[<<m - 1, t>>].labels, end |-> o + 2]
        BY <4>1, <4>3, PointerStep
      <4>. QED
        BY <4>2, <4>4
    <3>5. f[<<n, t>>] = [labels |-> c.labels, end |-> c.end]
      <4>1. need(c) <= n
        BY <3>0, <3>3 DEF need
      <4>. QED
        BY <2>1, <3>0, <4>1
    <3>6. c.labels = d.labels
      BY <2>7 DEF SaysPointer
    <3>7. f[<<n + 1, o>>] = [labels |-> d.labels, end |-> de]
      BY <2>4, <3>1, <3>4, <3>5, <3>6
    <3>. QED
      BY <2>0, <3>7
  <2>8. ASSUME NEW c \in D, NEW l \in Label, SaysLabel(r, d, c, l)
        PROVE  Reads(n + 1, d)
    <3>0. PICK t, cs, ce, k : /\ t = c.offset /\ cs = c.start /\ ce = c.end
                              /\ k = Len(l)
      OBVIOUS
    <3>1. k \in 1 .. 63 /\ cs = ds /\ ce = de /\ t = o + 1 + k /\ r[o + 1] = k
      BY <2>0, <2>8, <3>0 DEF SaysLabel
    <3>2. t \in Nat /\ t < ce
      BY <1>3, <3>0 DEF Fact, Said, Bounds
    <3>3. o + 1 + k <= Len(r) /\ (ce - t) + cs <= n
      BY <1>1, <2>3, <2>5, <3>1, <3>2
    <3>4. Step(r, f, <<n + 1, o>>)
            = [labels |-> <<SubSeq(r, o + 2, o + 1 + k)>> \o f[<<n, o + 1 + k>>].labels,
               end |-> f[<<n, o + 1 + k>>].end]
      <4>1. n \in Nat /\ o \in Nat /\ k \in 1 .. 63 /\ o + 1 + k <= Len(r)
        BY <2>3, <2>5, <3>1, <3>3
      <4>2. n + 1 \in Nat \ {0} /\ (n + 1) - 1 = n
        BY <4>1
      <4>3. r[o + 1] \in 1 .. 63 /\ o + 1 + r[o + 1] <= Len(r)
        BY <3>1, <4>1
      <4>4. Step(r, f, <<n + 1, o>>)
              = [labels |-> <<SubSeq(r, o + 2, o + 1 + r[o + 1])>>
                              \o f[<<(n + 1) - 1, o + 1 + r[o + 1]>>].labels,
                 end |-> f[<<(n + 1) - 1, o + 1 + r[o + 1]>>].end]
        BY <4>1, <4>2, <4>3, LabelStep
      <4>. QED
        BY <3>1, <4>2, <4>4
    <3>5. f[<<n, o + 1 + k>>] = [labels |-> c.labels, end |-> c.end]
      <4>1. need(c) <= n
        BY <3>0, <3>3 DEF need
      <4>. QED
        BY <2>1, <3>0, <3>1, <4>1
    <3>6. d.labels = <<SubSeq(r, o + 2, o + 1 + k)>> \o c.labels
      BY <2>0, <2>8, <3>0 DEF SaysLabel
    <3>7. f[<<n + 1, o>>] = [labels |-> d.labels, end |-> de]
      <4>1. c.end = de
        BY <3>0, <3>1
      <4>. DEFINE x == <<SubSeq(r, o + 2, o + 1 + k)>>
                  g == f[<<n, o + 1 + k>>]
      <4>2. f[<<n + 1, o>>] = [labels |-> x \o g.labels, end |-> g.end]
        BY <2>4, <3>4
      <4>3. g = [labels |-> c.labels, end |-> c.end] /\ d.labels = x \o c.labels
        BY <3>5, <3>6
      <4>. HIDE DEF x, g
      <4>. QED
        BY <4>1, <4>2, <4>3
    <3>. QED
      BY <2>0, <3>7
  <2>. QED
    BY <1>3, <2>6, <2>7, <2>8 DEF Said
<1>5. 0 .. L \subseteq S
  <2>1. 0 \in S
    <3>1. \A d \in D : ~(need(d) <= 0)
      BY <1>3
    <3>2. 0 \in 0 .. L
      BY <1>1
    <3>. QED
      BY <3>1, <3>2
  <2>2. ASSUME NEW n \in 0 .. L, n \in S, n < L
        PROVE  n + 1 \in S
    <3>1. n + 1 \in 0 .. L
      BY <1>1, <2>2
    <3>2. \A d \in D : need(d) <= n + 1 => Reads(n + 1, d)
      BY <1>4, <2>2
    <3>. QED
      BY <3>1, <3>2
  <2>. HIDE DEF S
  <2>. QED
    BY <1>1, <2>1, <2>2, Climb
<1>6. ASSUME NEW d \in D PROVE Reads(L, d)
  <2>1. L \in 0 .. L
    BY <1>1
  <2>2. L \in S
    <3>. HIDE DEF S
    <3>. QED
      BY <1>5, <2>1
  <2>3. need(d) <= L
    BY <1>3
  <2>. QED
    BY <2>2, <2>3
<1>7. \A d \in D : At(r)[d.offset] = f[<<L, d.offset>>]
  BY <1>0, <1>3 DEF At
<1>8. ASSUME NEW d \in D
      PROVE  At(r)[d.offset].labels = d.labels /\ At(r)[d.offset].end = d.end
  <2>1. f[<<L, d.offset>>] = [labels |-> d.labels, end |-> d.end]
    BY <1>6
  <2>2. At(r)[d.offset] = [labels |-> d.labels, end |-> d.end]
    BY <1>7, <2>1
  <2>. QED
    BY <2>2
<1>. QED
  BY <1>8

-----------------------------------------------------------------------------
(* The types of the compression.                                           *)

Parts == [suffix : Seq(Label), offset : Nat]

CType ==
  /\ names \in Lists /\ i \in 1 .. Len(names) + 1
  /\ name \in Seq(Label)
  /\ Running => name # <<>> /\ \A k \in DOMAIN name : Len(name[k]) < 256
  /\ part_offsets \subseteq Parts /\ new_part_offsets \subseteq Parts
  /\ compressed \in Seq(Byte)

LEMMA HeadAndTail ==
  ASSUME NEW S, NEW s \in Seq(S), s # <<>>
  PROVE  /\ Head(s) \in S /\ Head(s) = s[1] /\ 1 \in DOMAIN s
         /\ Tail(s) \in Seq(S) /\ Len(Tail(s)) = Len(s) - 1
         /\ \A k \in DOMAIN Tail(s) : k + 1 \in DOMAIN s /\ Tail(s)[k] = s[k + 1]
         /\ s = <<Head(s)>> \o Tail(s)
<1>1. Len(s) \in Nat /\ Len(s) # 0 /\ DOMAIN s = 1 .. Len(s)
  BY EmptySeq, LenProperties
<1>2. /\ Head(s) \in S /\ Tail(s) \in Seq(S) /\ Len(Tail(s)) = Len(s) - 1
      /\ \A k \in 1 .. Len(Tail(s)) : Tail(s)[k] = s[k + 1]
  BY HeadTailProperties
<1>3. Head(s) = s[1] /\ 1 \in DOMAIN s
  BY <1>1
<1>4. DOMAIN Tail(s) = 1 .. Len(s) - 1
  BY <1>2, LenProperties
<1>5. \A k \in DOMAIN Tail(s) : k + 1 \in DOMAIN s /\ Tail(s)[k] = s[k + 1]
  BY <1>1, <1>2, <1>4
<1>6. s = <<Head(s)>> \o Tail(s)
  <2>. DEFINE h == <<Head(s)>>
              t == Tail(s)
              c == h \o t
  <2>1. h \in Seq(S) /\ Len(h) = 1 /\ h[1] = Head(s)
    BY <1>2
  <2>. HIDE DEF h, t
  <2>2. t \in Seq(S) /\ Len(t) = Len(s) - 1
    BY <1>2 DEF t
  <2>3. c \in Seq(S) /\ Len(c) = Len(h) + Len(t)
    BY <2>1, <2>2, ConcatProperties
  <2>4. Len(c) = Len(s)
    BY <1>1, <2>1, <2>2, <2>3
  <2>5. ASSUME NEW k \in 1 .. Len(s) PROVE c[k] = s[k]
    <3>1. c[k] = IF k <= Len(h) THEN h[k] ELSE t[k - Len(h)]
      <4>1. k \in 1 .. Len(h) + Len(t)
        BY <2>3, <2>4
      <4>. QED
        BY <2>1, <2>2, <4>1, ConcatProperties
    <3>2. CASE k = 1
      BY <1>3, <2>1, <3>1, <3>2
    <3>3. CASE k # 1
      <4>1. k - 1 \in 1 .. Len(s) - 1 /\ ~(k <= 1) /\ (k - 1) + 1 = k
        BY <1>1, <3>3
      <4>2. t[k - 1] = s[(k - 1) + 1]
        BY <1>4, <1>5, <4>1 DEF t
      <4>. QED
        BY <2>1, <3>1, <4>1, <4>2
    <3>. QED
      BY <3>2, <3>3
  <2>6. c = s
    BY <2>3, <2>4, <2>5, SeqEqual
  <2>. QED
    BY <2>6 DEF h, t
<1>. QED
  BY <1>2, <1>3, <1>5, <1>6

(* What is written for a label.                                            *)
LEMMA Spelling ==
  ASSUME NEW l \in Label, Len(l) < 256
  PROVE  /\ spelling(l) \in Seq(Byte) /\ Len(spelling(l)) = Len(l) + 1
         /\ spelling(l)[1] = Len(l)
         /\ \A k \in 1 .. Len(l) : spelling(l)[k + 1] = l[k]
<1>1. l \in Seq(Byte)
  BY DEF Label, Byte
<1>2. PICK n \in Nat : n = Len(l) /\ n < 256
  <2>1. Len(l) \in Nat
    BY <1>1, LenProperties
  <2>. QED
    BY <2>1
<1>3. n \in Byte
  <2>1. n < 256
    BY <1>2
  <2>2. n \in 0 .. 255
    BY <2>1
  <2>. QED
    BY <2>2 DEF Byte
<1>4. PICK h \in Seq(Byte) : h = <<n>> /\ Len(h) = 1 /\ h[1] = n
  <2>1. <<n>> \in Seq(Byte) /\ Len(<<n>>) = 1 /\ <<n>>[1] = n
    BY <1>3
  <2>. QED
    BY <2>1
<1>5. spelling(l) = h \o l
  BY <1>2, <1>4 DEF spelling
<1>6. /\ h \o l \in Seq(Byte) /\ Len(h \o l) = Len(h) + Len(l)
      /\ \A k \in 1 .. Len(h) + Len(l) :
           (h \o l)[k] = IF k <= Len(h) THEN h[k] ELSE l[k - Len(h)]
  BY <1>1, ConcatProperties
<1>7. Len(h \o l) = n + 1
  BY <1>2, <1>4, <1>6
<1>8. (h \o l)[1] = n
  <2>1. 1 \in 1 .. Len(h) + Len(l) /\ 1 <= Len(h)
    BY <1>2, <1>4
  <2>. QED
    BY <1>4, <1>6, <2>1
<1>9. ASSUME NEW k \in 1 .. n PROVE (h \o l)[k + 1] = l[k]
  <2>1. /\ k + 1 \in 1 .. Len(h) + Len(l) /\ ~(k + 1 <= Len(h))
        /\ (k + 1) - Len(h) = k
    BY <1>2, <1>4
  <2>. QED
    BY <1>6, <2>1
<1>. QED
  BY <1>2, <1>5, <1>6, <1>7, <1>8, <1>9

LEMMA Pointer ==
  ASSUME NEW offset \in Nat
  PROVE  pointer(offset) \in Seq(Byte) /\ Len(pointer(offset)) = 2
<1>1. 192 + ((offset \div 256) % 64) \in Byte /\ offset % 256 \in Byte
  BY DEF Byte
<1>. QED
  BY <1>1 DEF pointer

(* The names of a list.                                                    *)
LEMMA NameOf ==
  ASSUME NEW m \in Lists, NEW k \in 1 .. Len(m)
  PROVE  /\ m[k] \in Seq(Label) /\ m[k] # <<>>
         /\ \A j \in DOMAIN m[k] : Len(m[k][j]) < 256
<1>1. m \in Seq(Name)
  BY ListsAssumption
<1>2. k \in DOMAIN m
  BY <1>1, LenProperties
<1>3. m[k] \in Name
  BY <1>1, ElementOfSeq
<1>4. \A j \in DOMAIN m[k] : Len(m[k][j]) < 256
  BY <1>2, ListsAssumption
<1>. QED
  BY <1>3, <1>4 DEF Name

LEMMA Finishing ==
  ASSUME NEW bytes \in Seq(Byte), NEW parts \in SUBSET Parts, CType, Running,
         FinishName(bytes, parts)
  PROVE  CType'
<1>1. /\ names \in Lists /\ i \in 1 .. Len(names) + 1 /\ i <= Len(names)
      /\ part_offsets \subseteq Parts /\ compressed \in Seq(Byte)
  BY DEF CType, Running
<1>2. /\ names' = names /\ i' = i + 1 /\ compressed' = compressed \o bytes
      /\ part_offsets' = part_offsets \cup parts /\ new_part_offsets' = {}
      /\ name' = IF i < Len(names) THEN names[i + 1] ELSE <<>>
  BY DEF FinishName, Empty
<1>3. Len(names) \in Nat
  BY <1>1, ListsAssumption, LenProperties
<1>4. i' \in 1 .. Len(names') + 1 /\ (i + 1 <= Len(names) <=> i < Len(names))
  BY <1>1, <1>2, <1>3
<1>5. i < Len(names) => /\ name' \in Seq(Label) /\ name' # <<>>
                        /\ \A k \in DOMAIN name' : Len(name'[k]) < 256
  <2>1. i < Len(names) => i + 1 \in 1 .. Len(names) /\ name' = names[i + 1]
    BY <1>1, <1>2, <1>3
  <2>. QED
    BY <1>1, <2>1, NameOf
<1>6. ~(i < Len(names)) => name' \in Seq(Label)
  BY <1>2
<1>7. Running' => i < Len(names)
  BY <1>2, <1>4 DEF Running
<1>8. compressed' \in Seq(Byte)
  BY <1>1, <1>2, ConcatProperties
<1>. QED
  BY <1>1, <1>2, <1>4, <1>5, <1>6, <1>7, <1>8 DEF CType

LEMMA CTypeStart == CompressInit => CType
<1>. SUFFICES ASSUME CompressInit PROVE CType
  OBVIOUS
<1>1. names \in Lists /\ i = 1 /\ part_offsets = {} /\ new_part_offsets = {}
  BY DEF CompressInit
<1>2. compressed = <<>> /\ name = IF names = <<>> THEN <<>> ELSE names[1]
  BY DEF CompressInit, Empty
<1>3. names \in Seq(Name) /\ Len(names) \in Nat /\ (Len(names) = 0 <=> names = <<>>)
  BY <1>1, ListsAssumption, EmptySeq, LenProperties
<1>4. i \in 1 .. Len(names) + 1 /\ (Running => names # <<>>)
  BY <1>1, <1>3 DEF Running
<1>5. names # <<>> => /\ name \in Seq(Label) /\ name # <<>>
                      /\ \A k \in DOMAIN name : Len(name[k]) < 256
  <2>1. names # <<>> => 1 \in 1 .. Len(names)
    BY <1>3
  <2>. QED
    BY <1>1, <1>2, <2>1, NameOf
<1>6. names = <<>> => name \in Seq(Label)
  BY <1>2
<1>7. compressed \in Seq(Byte)
  BY <1>2
<1>. QED
  BY <1>1, <1>4, <1>5, <1>6, <1>7 DEF CType

LEMMA CTypeStep == CType /\ [Compress]_compressVars => CType'
<1>. SUFFICES ASSUME CType, [Compress]_compressVars PROVE CType'
  OBVIOUS
<1>1. /\ names \in Lists /\ name \in Seq(Label) /\ compressed \in Seq(Byte)
      /\ Running => name # <<>> /\ \A k \in DOMAIN name : Len(name[k]) < 256
      /\ part_offsets \subseteq Parts /\ new_part_offsets \subseteq Parts
  BY DEF CType
<1>2. ASSUME Running
      PROVE  /\ spelling(Head(name)) \in Seq(Byte) /\ Part \subseteq Parts
             /\ Append(spelling(Head(name)), 0) \in Seq(Byte)
  <2>1. Head(name) \in Label /\ Head(name) = name[1] /\ 1 \in DOMAIN name
    BY <1>1, <1>2, HeadAndTail
  <2>2. Len(Head(name)) < 256
    BY <1>1, <1>2, <2>1
  <2>3. spelling(Head(name)) \in Seq(Byte)
    BY <2>1, <2>2, Spelling
  <2>4. 0 \in Byte
    BY DEF Byte
  <2>5. Append(spelling(Head(name)), 0) \in Seq(Byte)
    BY <2>3, <2>4, AppendProperties
  <2>6. Len(compressed) \in Nat
    BY <1>1, LenProperties
  <2>7. Part \subseteq Parts
    BY <1>1, <2>6 DEF Part, Parts
  <2>. QED
    BY <2>3, <2>5, <2>7
<1>3. CASE PutRoot
  <2>1. <<0>> \in Seq(Byte)
    BY DEF Byte
  <2>2. Running /\ FinishName(<<0>>, new_part_offsets)
    BY <1>3 DEF PutRoot
  <2>. QED
    BY <1>1, <2>1, <2>2, Finishing
<1>4. CASE PutPointer
  <2>1. PICK offset \in Known : FinishName(pointer(offset), new_part_offsets)
    BY <1>4 DEF PutPointer
  <2>2. offset \in Nat
    BY <1>1 DEF Known, Parts
  <2>3. Running /\ pointer(offset) \in Seq(Byte)
    BY <1>4, <2>2, Pointer DEF PutPointer
  <2>. QED
    BY <1>1, <2>1, <2>3, Finishing
<1>5. CASE PutLabel
  <2>1. /\ Running /\ Len(name) > 1
        /\ compressed' = compressed \o spelling(Head(name))
        /\ new_part_offsets' = new_part_offsets \cup Part
        /\ name' = Tail(name)
        /\ UNCHANGED <<names, i, part_offsets>>
    BY <1>5 DEF PutLabel
  <2>2. compressed' \in Seq(Byte) /\ new_part_offsets' \subseteq Parts
    BY <1>1, <1>2, <2>1, ConcatProperties
  <2>3. /\ name' \in Seq(Label) /\ Len(name') = Len(name) - 1
        /\ \A k \in DOMAIN name' : k + 1 \in DOMAIN name /\ name'[k] = name[k + 1]
    BY <1>1, <2>1, HeadAndTail
  <2>4. name' # <<>>
    <3>1. Len(name) \in Nat
      BY <1>1, LenProperties
    <3>2. Len(name') # 0
      BY <2>1, <2>3, <3>1
    <3>. QED
      BY <3>2
  <2>5. \A k \in DOMAIN name' : Len(name'[k]) < 256
    BY <1>1, <2>1, <2>3
  <2>6. i' \in 1 .. Len(names') + 1
    BY <2>1 DEF CType
  <2>. QED
    BY <1>1, <2>1, <2>2, <2>3, <2>4, <2>5, <2>6 DEF CType
<1>6. CASE PutLastLabel
  <2>1. /\ Running
        /\ FinishName(Append(spelling(Head(name)), 0), new_part_offsets \cup Part)
    BY <1>6 DEF PutLastLabel
  <2>2. new_part_offsets \cup Part \in SUBSET Parts
    BY <1>1, <1>2, <2>1
  <2>. QED
    BY <1>2, <2>1, <2>2, Finishing
<1>7. CASE UNCHANGED compressVars
  BY <1>7 DEF compressVars, CType, Running
<1>. QED
  BY <1>3, <1>4, <1>5, <1>6, <1>7 DEF Compress

-----------------------------------------------------------------------------
(* A label of a host name.                                                 *)
Spellable(l) == Len(l) \in 1 .. 63

(* A suffix of the name under way: a label, and the rest follows.          *)
Spells(l, t, r, s, q) ==
  /\ Len(l) \in 1 .. 63 /\ q.suffix = <<l>> \o t
  /\ s <= q.offset /\ q.offset + 1 + Len(l) <= Len(r)
  /\ r[q.offset + 1] = Len(l)
  /\ SubSeq(r, q.offset + 2, q.offset + 1 + Len(l)) = l

Follows(l, t, n, np, r, q) ==
  \/ Len(r) = q.offset + 1 + Len(l) /\ n = t
  \/ \E c \in np : c.offset = q.offset + 1 + Len(l) /\ c.suffix = t

Begun(n, np, r, s, q) ==
  \E l \in Label, t \in Seq(Label) : Spells(l, t, r, s, q) /\ Follows(l, t, n, np, r, q)

Tells(d, from, to, labels) == d.offset = from /\ d.end = to /\ d.labels = labels

(* The name under way has no byte yet, or its first label is there.        *)
Opened(m, k, n, np, r, st) ==
  \/ np = {} /\ st[k] = Len(r) /\ (k <= Len(m) => n = m[k])
  \/ k <= Len(m) /\ \E q \in np : q.offset = st[k] /\ q.suffix = m[k]

(* The bytes tell the names of m before k, which start at st: what D says. *)
Told(m, k, n, po, np, r, D, st) ==
  /\ AllSaid(r, D)
  /\ st \in [1 .. k -> Nat] /\ st[1] = 0 /\ st[k] <= Len(r)
  /\ \A j \in 1 .. k - 1 :
       \E d \in D : Tells(d, st[j], st[j + 1], labels_of(m[j]))
  /\ \A d \in D : d.end <= st[k]
  /\ \A u \in po : \E d \in D : d.offset = u.offset /\ d.labels = u.suffix
  /\ \A q \in np : Begun(n, np, r, st[k], q)
  /\ Opened(m, k, n, np, r, st)

(* What is said stays said.                                                *)
LEMMA SaidStays ==
  ASSUME NEW r \in Seq(Byte), NEW b \in Seq(Byte), NEW D, NEW D2, NEW d \in D,
         AllSaid(r, D), D \subseteq D2
  PROVE  Said(r \o b, D2, d)
<1>. /\ d \in Fact /\ Said(r, D, d)
     /\ \A c \in D : c \in Fact /\ Said(r, D, c)
  BY DEF AllSaid
<1>0. PICK o, ds, de : o = d.offset /\ ds = d.start /\ de = d.end
  OBVIOUS
<1>1. /\ ds \in Nat /\ o \in Nat /\ de \in Nat
      /\ ds <= o /\ o < de /\ de <= Len(r)
  BY <1>0 DEF Said, Bounds, Fact
<1>2. Len(r) \in Nat /\ Len(b) \in Nat
  BY LenProperties
<1>3. Len(r \o b) = Len(r) + Len(b) /\ \A p \in 1 .. Len(r) : (r \o b)[p] = r[p]
  BY Prefix
<1>4. Bounds(r \o b, d)
  <2>1. de <= Len(r \o b)
    BY <1>1, <1>2, <1>3
  <2>. QED
    BY <1>0, <1>1, <2>1 DEF Bounds
<1>5. (r \o b)[o + 1] = r[o + 1]
  <2>1. o + 1 \in 1 .. Len(r)
    BY <1>1, <1>2
  <2>. QED
    BY <1>3, <2>1
<1>6. CASE SaysRoot(r, d)
  <2>1. SaysRoot(r \o b, d)
    BY <1>0, <1>5, <1>6 DEF SaysRoot
  <2>. QED
    BY <1>4, <2>1 DEF Said
<1>7. ASSUME NEW c \in D, SaysPointer(r, d, c)
      PROVE  Said(r \o b, D2, d)
  <2>1. de = o + 2
    BY <1>0, <1>7 DEF SaysPointer
  <2>2. o + 2 \in 1 .. Len(r)
    BY <1>1, <1>2, <2>1
  <2>3. (r \o b)[o + 2] = r[o + 2]
    BY <1>3, <2>2
  <2>4. PointsTo(r, o, c.offset)
    BY <1>0, <1>7 DEF SaysPointer
  <2>5. PointsTo(r \o b, o, c.offset)
    BY <1>5, <2>3, <2>4 DEF PointsTo
  <2>6. SaysPointer(r \o b, d, c)
    BY <1>0, <1>7, <2>5 DEF SaysPointer
  <2>. QED
    BY <1>4, <2>6 DEF Said
<1>8. ASSUME NEW c \in D, NEW l \in Label, SaysLabel(r, d, c, l)
      PROVE  Said(r \o b, D2, d)
  <2>0. PICK n : n = Len(l)
    OBVIOUS
  <2>1. n \in 1 .. 63 /\ c.offset = o + 1 + n /\ SubSeq(r, o + 2, o + 1 + n) = l
    BY <1>0, <1>8, <2>0 DEF SaysLabel
  <2>2. c.offset \in Nat /\ c.end \in Nat /\ c.offset < c.end /\ c.end <= Len(r)
    BY <1>8 DEF Said, Bounds, Fact
  <2>3. o + 1 + n \in 0 .. Len(r) /\ o + 2 \in 1 .. Len(r) + 1
    BY <1>1, <1>2, <2>1, <2>2
  <2>4. SubSeq(r \o b, o + 2, o + 1 + n) = SubSeq(r, o + 2, o + 1 + n)
    BY <2>3, Prefix
  <2>5. SaysLabel(r \o b, d, c, l)
    <3>1. SubSeq(r \o b, d.offset + 2, d.offset + 1 + Len(l)) = l
      BY <1>0, <2>0, <2>1, <2>4
    <3>2. (r \o b)[d.offset + 1] = Len(l)
      BY <1>0, <1>5, <1>8 DEF SaysLabel
    <3>. QED
      BY <1>8, <3>1, <3>2 DEF SaysLabel
  <2>. QED
    BY <1>4, <2>5 DEF Said
<1>. QED
  BY <1>6, <1>7, <1>8 DEF Said
LEMMA SpellsStays ==
  ASSUME NEW r \in Seq(Byte), NEW b \in Seq(Byte), NEW l \in Label, NEW t, NEW s,
         NEW q \in Parts, Spells(l, t, r, s, q)
  PROVE  Spells(l, t, r \o b, s, q)
<1>0. PICK o, n : o = q.offset /\ n = Len(l)
  OBVIOUS
<1>1. o \in Nat /\ n \in 1 .. 63 /\ o + 1 + n <= Len(r)
  BY <1>0 DEF Spells, Parts
<1>2. Len(r) \in Nat /\ Len(b) \in Nat
  BY LenProperties
<1>3. Len(r \o b) = Len(r) + Len(b) /\ \A p \in 1 .. Len(r) : (r \o b)[p] = r[p]
  BY Prefix
<1>4. o + 1 + n <= Len(r \o b)
  BY <1>1, <1>2, <1>3
<1>5. (r \o b)[o + 1] = r[o + 1]
  <2>1. o + 1 \in 1 .. Len(r)
    BY <1>1, <1>2
  <2>. QED
    BY <1>3, <2>1
<1>6. SubSeq(r \o b, o + 2, o + 1 + n) = SubSeq(r, o + 2, o + 1 + n)
  <2>1. o + 1 + n \in 0 .. Len(r) /\ o + 2 \in 1 .. Len(r) + 1
    BY <1>1, <1>2
  <2>. QED
    BY <2>1, Prefix
<1>. QED
  BY <1>0, <1>4, <1>5, <1>6 DEF Spells

LEMMA AllSaidStays ==
  ASSUME NEW r \in Seq(Byte), NEW b \in Seq(Byte), NEW D, AllSaid(r, D)
  PROVE  AllSaid(r \o b, D)
<1>1. \A d \in D : Said(r \o b, D, d)
  BY SaidStays
<1>. QED
  BY <1>1 DEF AllSaid

(* A label of the name under way is written.                               *)
LEMMA LabelTold ==
  ASSUME NEW m, NEW k \in Nat \ {0}, NEW n \in Seq(Label), NEW po,
         NEW np \in SUBSET Parts, NEW r \in Seq(Byte), NEW D, NEW st,
         k <= Len(m), n # <<>>, Spellable(Head(n)),
         Told(m, k, n, po, np, r, D, st)
  PROVE  Told(m, k, Tail(n), po, np \cup {[suffix |-> n, offset |-> Len(r)]},
              r \o spelling(Head(n)), D, st)
<1>. DEFINE q0 == [suffix |-> n, offset |-> Len(r)]
            np2 == np \cup {q0}
            r2 == r \o spelling(Head(n))
<1>1. PICK h, s0 : h = Head(n) /\ s0 = spelling(h)
  OBVIOUS
<1>2. /\ h \in Label /\ n = <<h>> \o Tail(n) /\ Tail(n) \in Seq(Label)
      /\ Len(h) \in 1 .. 63
  BY <1>1, HeadAndTail DEF Spellable
<1>3. /\ s0 \in Seq(Byte) /\ Len(s0) = Len(h) + 1 /\ s0[1] = Len(h)
      /\ \A j \in 1 .. Len(h) : s0[j + 1] = h[j]
  <2>1. Len(h) < 256
    <3>1. PICK x \in 1 .. 63 : x = Len(h)
      BY <1>2
    <3>2. x < 256
      OBVIOUS
    <3>. QED
      BY <3>1, <3>2
  <2>. QED
    BY <1>1, <1>2, <2>1, Spelling
<1>4. r2 = r \o s0 /\ Len(r) \in Nat
  BY <1>1, LenProperties
<1>. HIDE DEF r2
<1>5. /\ r2 \in Seq(Byte) /\ Len(r2) = Len(r) + Len(s0)
      /\ \A p \in 1 .. Len(s0) : r2[Len(r) + p] = s0[p]
  BY <1>3, <1>4, Prefix
<1>6. PICK x \in Nat : x = Len(h) /\ x \in 1 .. 63
  <2>1. PICK x \in 1 .. 63 : x = Len(h)
    BY <1>2
  <2>2. x \in Nat
    OBVIOUS
  <2>. QED
    BY <2>1, <2>2
<1>7. Len(r2) = Len(r) + 1 + x
  BY <1>3, <1>4, <1>5, <1>6
<1>8. AllSaid(r2, D)
  BY <1>3, <1>4, AllSaidStays DEF Told
<1>9. st[k] \in Nat /\ st[k] <= Len(r) /\ st[k] <= Len(r2)
  <2>1. st \in [1 .. k -> Nat] /\ st[k] <= Len(r) /\ k \in 1 .. k
    BY DEF Told
  <2>. QED
    BY <1>4, <1>6, <1>7, <2>1
<1>10. Begun(Tail(n), np2, r2, st[k], q0)
  <2>1. r2[Len(r) + 1] = x
    <3>1. 1 \in 1 .. Len(s0)
      BY <1>3, <1>6
    <3>. QED
      BY <1>3, <1>5, <1>6, <3>1
  <2>2. SubSeq(r2, Len(r) + 2, Len(r) + 1 + x) = h
    <3>. DEFINE y == SubSeq(r2, Len(r) + 2, Len(r) + 1 + x)
    <3>1. \A j \in 1 .. x : r2[Len(r) + 2 + j - 1] = h[j]
      <4>. TAKE j \in 1 .. x
      <4>1. j + 1 \in 1 .. Len(s0) /\ Len(r) + (j + 1) = Len(r) + 2 + j - 1
        BY <1>3, <1>4, <1>6
      <4>2. r2[Len(r) + (j + 1)] = s0[j + 1]
        BY <1>5, <4>1
      <4>. QED
        BY <1>3, <1>6, <4>1, <4>2
    <3>2. \A p \in Len(r) + 2 .. Len(r) + 1 + x : r2[p] \in Byte
      <4>1. \A p \in Len(r) + 2 .. Len(r) + 1 + x : p \in 1 .. Len(r2)
        BY <1>4, <1>6, <1>7
      <4>. QED
        BY <1>5, <4>1, ElementOfSeq
    <3>3. Len(r) + 2 \in Int /\ Len(r) + 1 + x \in Int
      BY <1>4
    <3>4. /\ y \in Seq(Byte)
          /\ Len(y) = IF Len(r) + 2 <= Len(r) + 1 + x
                      THEN (Len(r) + 1 + x) - (Len(r) + 2) + 1 ELSE 0
          /\ \A j \in 1 .. (Len(r) + 1 + x) - (Len(r) + 2) + 1 :
               y[j] = r2[Len(r) + 2 + j - 1]
      <4>. HIDE DEF y
      <4>. QED
        BY <3>2, <3>3, SubSeqProperties DEF y
    <3>5. /\ Len(r) + 2 <= Len(r) + 1 + x
          /\ (Len(r) + 1 + x) - (Len(r) + 2) + 1 = x
      <4>1. PICK R \in Nat : R = Len(r)
        BY <1>4
      <4>2. R + 2 <= R + 1 + x /\ (R + 1 + x) - (R + 2) + 1 = x
        <5>1. x \in 1 .. 63
          BY <1>6
        <5>. QED
          BY <5>1
      <4>. QED
        BY <4>1, <4>2
    <3>. HIDE DEF y
    <3>6. Len(y) = x /\ \A j \in 1 .. x : y[j] = r2[Len(r) + 2 + j - 1]
      BY <3>4, <3>5
    <3>7. h \in Seq(Byte)
      BY <1>2 DEF Label, Byte
    <3>8. y = h
      BY <1>6, <3>1, <3>4, <3>6, <3>7, SeqEqual
    <3>. QED
      BY <3>8 DEF y
  <2>3. q0.suffix = n /\ q0.offset = Len(r)
    OBVIOUS
  <2>. HIDE DEF q0
  <2>4. Spells(h, Tail(n), r2, st[k], q0)
    <3>1. Len(r) + 1 + x <= Len(r2)
      BY <1>4, <1>6, <1>7
    <3>. QED
      BY <1>2, <1>6, <1>9, <2>1, <2>2, <2>3, <3>1 DEF Spells
  <2>5. Follows(h, Tail(n), Tail(n), np2, r2, q0)
    BY <1>6, <1>7, <2>3 DEF Follows
  <2>. QED
    BY <1>2, <2>4, <2>5 DEF Begun
<1>11. ASSUME NEW q \in np PROVE Begun(Tail(n), np2, r2, st[k], q)
  <2>1. Begun(n, np, r, st[k], q)
    BY DEF Told
  <2>2. PICK l \in Label, t \in Seq(Label) :
               Spells(l, t, r, st[k], q) /\ Follows(l, t, n, np, r, q)
    BY <2>1 DEF Begun
  <2>3. Spells(l, t, r2, st[k], q)
    BY <1>3, <1>4, <2>2, SpellsStays
  <2>4. \E c \in np2 : c.offset = q.offset + 1 + Len(l) /\ c.suffix = t
    <3>1. CASE Len(r) = q.offset + 1 + Len(l) /\ n = t
      <4>1. q0.offset = q.offset + 1 + Len(l) /\ q0.suffix = t /\ q0 \in np2
        BY <3>1
      <4>. QED
        BY <4>1
    <3>2. CASE \E c \in np : c.offset = q.offset + 1 + Len(l) /\ c.suffix = t
      BY <3>2
    <3>. QED
      BY <2>2, <3>1, <3>2 DEF Follows
  <2>5. Follows(l, t, Tail(n), np2, r2, q)
    BY <2>4 DEF Follows
  <2>. QED
    BY <2>3, <2>5 DEF Begun
<1>12. \A q \in np2 : Begun(Tail(n), np2, r2, st[k], q)
  BY <1>10, <1>11
<1>13. Opened(m, k, Tail(n), np2, r2, st)
  <2>1. Opened(m, k, n, np, r, st)
    BY DEF Told
  <2>2. CASE st[k] = Len(r) /\ n = m[k]
    <3>1. q0 \in np2 /\ q0.offset = st[k] /\ q0.suffix = m[k]
      BY <2>2
    <3>. QED
      BY <3>1 DEF Opened
  <2>3. CASE \E q \in np : q.offset = st[k] /\ q.suffix = m[k]
    <3>1. \E q \in np2 : q.offset = st[k] /\ q.suffix = m[k]
      BY <2>3
    <3>. QED
      BY <3>1 DEF Opened
  <2>. QED
    BY <2>1, <2>2, <2>3 DEF Opened
<1>14. Told(m, k, Tail(n), po, np2, r2, D, st)
  <2>. HIDE DEF np2
  <2>. QED
    BY <1>8, <1>9, <1>12, <1>13 DEF Told
<1>. QED
  BY <1>14 DEF r2

(* A name is finished: by a zero, or by a pointer to the rest of it.       *)
Final(n, r, b, from) ==
  [start |-> from, offset |-> Len(r), labels |-> labels_of(n), end |-> Len(r) + Len(b)]

Begins(q, from, to) ==
  [start |-> from, offset |-> q.offset, labels |-> q.suffix, end |-> to]

LEMMA FinishTold ==
  ASSUME NEW m \in Seq(Name), NEW k \in Nat \ {0}, NEW n, NEW po,
         NEW np \in SUBSET Parts, NEW r \in Seq(Byte), NEW b \in Seq(Byte),
         NEW D, NEW st,
         k <= Len(m), b # <<>>, labels_of(n) \in Seq(Label),
         np = {} \/ labels_of(n) = n,
         LET e == Final(n, r, b, st[k])
         IN  SaysRoot(r \o b, e) \/ \E c \in D : SaysPointer(r \o b, e, c),
         Told(m, k, n, po, np, r, D, st)
  PROVE  \E D2, st2 : Told(m, k + 1, IF k < Len(m) THEN m[k + 1] ELSE Empty,
                          po \cup np, {}, r \o b, D2, st2)
<1>. DEFINE e == Final(n, r, b, st[k])
            r2 == r \o b
            B(q) == Begins(q, st[k], e.end)
            D2 == D \cup {e} \cup {B(q) : q \in np}
            st2 == [j \in 1 .. k + 1 |-> IF j = k + 1 THEN Len(r2) ELSE st[j]]
            n2 == IF k < Len(m) THEN m[k + 1] ELSE Empty
<1>1. /\ AllSaid(r, D) /\ st \in [1 .. k -> Nat] /\ st[1] = 0 /\ st[k] <= Len(r)
      /\ \A d \in D : d.end <= st[k]
      /\ \A q \in np : Begun(n, np, r, st[k], q)
  BY DEF Told
<1>2. /\ Len(r) \in Nat /\ Len(b) \in Nat /\ Len(b) > 0
      /\ r2 \in Seq(Byte) /\ Len(r2) = Len(r) + Len(b)
  <2>1. Len(b) # 0
    BY EmptySeq
  <2>. QED
    BY <2>1, LenProperties, Prefix
<1>3. /\ e \in Fact /\ e.start = st[k] /\ e.offset = Len(r)
      /\ e.end = Len(r) + Len(b) /\ e.labels = labels_of(n)
  <2>1. k \in 1 .. k
    OBVIOUS
  <2>2. st[k] \in Nat /\ Len(r) + Len(b) \in Nat
    BY <1>1, <1>2, <2>1
  <2>. QED
    BY <1>2, <2>2 DEF Final, Fact
<1>4. SaysRoot(r2, e) \/ \E c \in D : SaysPointer(r2, e, c)
  OBVIOUS
<1>. HIDE DEF e, r2
<1>5. Said(r2, D2, e)
  <2>1. Bounds(r2, e)
    <3>1. PICK s0, o, f : s0 = e.start /\ o = e.offset /\ f = e.end
      OBVIOUS
    <3>2. s0 <= o /\ o < f /\ f <= Len(r2)
      BY <1>1, <1>2, <1>3, <3>1
    <3>. QED
      BY <3>1, <3>2 DEF Bounds
  <2>2. SaysRoot(r2, e) \/ \E c \in D2 : SaysPointer(r2, e, c)
    BY <1>4
  <2>. HIDE DEF D2
  <2>. QED
    BY <2>1, <2>2 DEF Said
<1>6. \A d \in D : Said(r2, D2, d)
  <2>1. D \subseteq D2
    OBVIOUS
  <2>. HIDE DEF D2
  <2>. QED
    BY <1>1, <2>1, SaidStays DEF r2
<1>7. ASSUME NEW q \in np
      PROVE  /\ B(q) \in Fact /\ Said(r2, D2, B(q))
             /\ B(q).offset = q.offset /\ B(q).labels = q.suffix
             /\ B(q).start = st[k] /\ B(q).end = e.end
  <2>1. PICK l \in Label, t \in Seq(Label) :
               Spells(l, t, r, st[k], q) /\ Follows(l, t, n, np, r, q)
    BY <1>1 DEF Begun
  <2>2. Spells(l, t, r2, st[k], q)
    BY <2>1, SpellsStays DEF r2
  <2>3. B(q) \in Fact
    BY <1>3 DEF Begins, Fact, Parts
  <2>4. /\ B(q).offset = q.offset /\ B(q).labels = q.suffix
        /\ B(q).start = st[k] /\ B(q).end = e.end
    BY DEF Begins
  <2>5. PICK c \in D2 : /\ c.start = st[k] /\ c.end = e.end
                        /\ c.offset = q.offset + 1 + Len(l) /\ c.labels = t
    <3>1. CASE Len(r) = q.offset + 1 + Len(l) /\ n = t
      <4>1. labels_of(n) = n
        OBVIOUS
      <4>2. e \in D2
        OBVIOUS
      <4>. HIDE DEF D2
      <4>. QED
        BY <1>3, <3>1, <4>1, <4>2
    <3>2. ASSUME NEW c \in np, c.offset = q.offset + 1 + Len(l), c.suffix = t
          PROVE  \E d \in D2 : /\ d.start = st[k] /\ d.end = e.end
                               /\ d.offset = q.offset + 1 + Len(l) /\ d.labels = t
      <4>1. B(c) \in D2
        OBVIOUS
      <4>2. /\ B(c).start = st[k] /\ B(c).end = e.end
            /\ B(c).offset = c.offset /\ B(c).labels = c.suffix
        BY DEF Begins
      <4>. HIDE DEF D2, B
      <4>. QED
        BY <3>2, <4>1, <4>2
    <3>. QED
      BY <2>1, <3>1, <3>2 DEF Follows
  <2>. HIDE DEF D2, B
  <2>6. SaysLabel(r2, B(q), c, l)
    BY <2>2, <2>4, <2>5 DEF SaysLabel, Spells
  <2>7. Bounds(r2, B(q))
    <3>1. PICK o, x : o = q.offset /\ x = Len(l)
      OBVIOUS
    <3>2. o \in Nat /\ x \in 1 .. 63 /\ st[k] <= o /\ o + 1 + x <= Len(r)
      BY <2>1, <3>1 DEF Spells, Parts
    <3>3. o < Len(r) + Len(b) /\ Len(r) + Len(b) <= Len(r2)
      BY <1>2, <3>2
    <3>. QED
      BY <1>3, <2>4, <3>1, <3>2, <3>3 DEF Bounds
  <2>8. Said(r2, D2, B(q))
    BY <2>6, <2>7 DEF Said
  <2>. QED
    BY <2>3, <2>4, <2>8
<1>8. AllSaid(r2, D2)
  <2>1. D \subseteq Fact
    BY <1>1 DEF AllSaid
  <2>2. ASSUME NEW d \in D2 PROVE d \in Fact /\ Said(r2, D2, d)
    <3>1. d \in D \/ d = e \/ \E q \in np : d = B(q)
      OBVIOUS
    <3>. HIDE DEF D2, B
    <3>. QED
      BY <1>3, <1>5, <1>6, <1>7, <2>1, <3>1
  <2>. HIDE DEF D2
  <2>. QED
    BY <2>2 DEF AllSaid
<1>9. /\ st2 \in [1 .. k + 1 -> Nat] /\ st2[1] = 0 /\ st2[k + 1] = Len(r2)
      /\ \A j \in 1 .. k : st2[j] = st[j]
  <2>1. \A j \in 1 .. k + 1 : j = k + 1 \/ j \in 1 .. k
    OBVIOUS
  <2>2. Len(r2) \in Nat
    BY <1>2
  <2>3. 1 \in 1 .. k + 1 /\ 1 # k + 1 /\ k + 1 \in 1 .. k + 1
    OBVIOUS
  <2>4. \A j \in 1 .. k : j \in 1 .. k + 1 /\ j # k + 1
    OBVIOUS
  <2>. QED
    BY <1>1, <2>1, <2>2, <2>3, <2>4
<1>. HIDE DEF st2
<1>10. ASSUME NEW j \in 1 .. (k + 1) - 1
       PROVE  \E d \in D2 : Tells(d, st2[j], st2[j + 1], labels_of(m[j]))
  <2>1. j \in 1 .. k
    OBVIOUS
  <2>2. CASE j # k
    <3>1. j \in 1 .. k - 1 /\ j + 1 \in 1 .. k
      BY <2>1, <2>2
    <3>2. PICK d \in D : Tells(d, st[j], st[j + 1], labels_of(m[j]))
      BY <3>1 DEF Told
    <3>3. d \in D2 /\ st2[j] = st[j] /\ st2[j + 1] = st[j + 1]
      BY <1>9, <2>1, <3>1
    <3>. QED
      BY <3>2, <3>3
  <2>3. CASE j = k
    <3>1. st2[j] = st[k] /\ st2[j + 1] = e.end
      <4>1. st2[k] = st[k] /\ st2[k + 1] = Len(r2)
        BY <1>9, <2>1, <2>3
      <4>. QED
        BY <1>2, <1>3, <2>3, <4>1
    <3>2. CASE np = {} /\ st[k] = Len(r) /\ n = m[k]
      <4>1. e \in D2
        OBVIOUS
      <4>2. Tells(e, st2[j], st2[j + 1], labels_of(m[j]))
        BY <1>3, <2>3, <3>1, <3>2 DEF Tells
      <4>. QED
        BY <4>1, <4>2
    <3>3. ASSUME NEW q \in np, q.offset = st[k], q.suffix = m[k]
          PROVE  \E d \in D2 : Tells(d, st2[j], st2[j + 1], labels_of(m[j]))
      <4>1. PICK l \in Label, t \in Seq(Label) : Spells(l, t, r, st[k], q)
        BY <1>1 DEF Begun
      <4>2. m[k] # RootName
        <5>1. m[k] = <<l>> \o t /\ Len(l) \in 1 .. 63
          BY <3>3, <4>1 DEF Spells
        <5>2. m[k][1] = l
          BY <5>1
        <5>3. RootName[1] = <<>> /\ Len(<<>>) = 0
          BY DEF RootName, Empty
        <5>4. l # <<>>
          <6>1. PICK x \in 1 .. 63 : x = Len(l)
            BY <5>1
          <6>2. x # 0
            OBVIOUS
          <6>. QED
            BY <5>3, <6>1, <6>2
        <5>. QED
          BY <5>2, <5>3, <5>4
      <4>3. labels_of(m[k]) = m[k]
        BY <4>2 DEF labels_of
      <4>4. Tells(B(q), st2[j], st2[j + 1], labels_of(m[j]))
        <5>. HIDE DEF B
        <5>. QED
          BY <1>7, <2>3, <3>1, <3>3, <4>3 DEF Tells
      <4>5. B(q) \in D2
        OBVIOUS
      <4>. QED
        BY <4>4, <4>5
    <3>4. Opened(m, k, n, np, r, st)
      BY DEF Told
    <3>. HIDE DEF D2
    <3>. QED
      BY <3>2, <3>3, <3>4 DEF Opened
  <2>. QED
    BY <2>2, <2>3
<1>11. \A d \in D2 : d.end <= st2[k + 1]
  <2>1. e.end <= Len(r2)
    BY <1>2, <1>3
  <2>2. ASSUME NEW d \in D PROVE d.end <= Len(r2)
    <3>1. d.end \in Nat /\ d.end <= st[k] /\ st[k] <= Len(r) /\ st[k] \in Nat
      BY <1>1, <1>3 DEF AllSaid, Fact
    <3>2. PICK x, y : x = d.end /\ y = st[k]
      OBVIOUS
    <3>. QED
      BY <1>2, <3>1, <3>2
  <2>3. \A q \in np : B(q).end = e.end
    BY <1>7
  <2>4. \A d \in D2 : d \in D \/ d = e \/ \E q \in np : d = B(q)
    OBVIOUS
  <2>. HIDE DEF D2, B
  <2>. QED
    BY <1>9, <2>1, <2>2, <2>3, <2>4
<1>12. ASSUME NEW u \in po \cup np
       PROVE  \E d \in D2 : d.offset = u.offset /\ d.labels = u.suffix
  <2>1. CASE u \in po
    BY <2>1 DEF Told
  <2>2. CASE u \in np
    <3>1. B(u) \in D2
      BY <2>2
    <3>. QED
      BY <1>7, <2>2, <3>1
  <2>. QED
    BY <2>1, <2>2
<1>13. Opened(m, k + 1, n2, {}, r2, st2)
  <2>1. k + 1 <= Len(m) => n2 = m[k + 1]
    <3>1. Len(m) \in Nat
      BY LenProperties
    <3>2. k + 1 <= Len(m) => k < Len(m)
      BY <3>1
    <3>. QED
      BY <3>2
  <2>. HIDE DEF n2
  <2>. QED
    BY <1>9, <2>1 DEF Opened
<1>14. Told(m, k + 1, n2, po \cup np, {}, r2, D2, st2)
  <2>1. st2[k + 1] <= Len(r2)
    BY <1>2, <1>9
  <2>. HIDE DEF D2, n2
  <2>. QED
    BY <1>8, <1>9, <1>10, <1>11, <1>12, <1>13, <2>1 DEF Told
<1>. QED
  BY <1>14 DEF r2
-----------------------------------------------------------------------------
(* What is written so far tells the names before i, and their suffixes.    *)

(* The rest of the name can be spelled, or it is the root.                 *)
NameFits(m, k, n, np) ==
  k <= Len(m) => \/ \A j \in DOMAIN n : Spellable(n[j])
                 \/ n = RootName /\ np = {}

SomeTold(m, k, n, po, np, r) == \E D, st : Told(m, k, n, po, np, r, D, st)

KInv ==
  /\ CType
  /\ ProperList =>
       /\ NameFits(names, i, name, new_part_offsets)
       /\ SomeTold(names, i, name, part_offsets, new_part_offsets, compressed)

LEMMA NextFits ==
  ASSUME NEW m \in Lists, NEW k \in 1 .. Len(m), \A j \in DOMAIN m : Proper(m[j])
  PROVE  NameFits(m, k + 1, IF k < Len(m) THEN m[k + 1] ELSE Empty, {})
<1>1. m \in Seq(Name) /\ Len(m) \in Nat /\ DOMAIN m = 1 .. Len(m)
  BY ListsAssumption, LenProperties
<1>2. CASE k < Len(m)
  <2>1. k + 1 \in DOMAIN m
    BY <1>1, <1>2
  <2>2. Proper(m[k + 1])
    BY <2>1
  <2>. QED
    BY <1>2, <2>2 DEF Proper, Spellable, NameFits
<1>3. CASE ~(k < Len(m))
  <2>1. ~(k + 1 <= Len(m))
    BY <1>1, <1>3
  <2>. QED
    BY <2>1 DEF NameFits
<1>. QED
  BY <1>2, <1>3

LEMMA KStart == CompressInit => KInv
<1>. SUFFICES ASSUME CompressInit PROVE KInv
  OBVIOUS
<1>1. CType
  BY CTypeStart
<1>2. /\ names \in Lists /\ i = 1 /\ part_offsets = {} /\ new_part_offsets = {}
      /\ compressed = <<>> /\ name = IF names = <<>> THEN <<>> ELSE names[1]
  BY DEF CompressInit, Empty
<1>3. /\ names \in Seq(Name) /\ Len(names) \in Nat /\ DOMAIN names = 1 .. Len(names)
      /\ (Len(names) = 0 <=> names = <<>>)
  BY <1>2, ListsAssumption, EmptySeq, LenProperties
<1>4. 1 <= Len(names) => name = names[1] /\ 1 \in DOMAIN names
  <2>1. 1 <= Len(names) => Len(names) # 0 /\ 1 \in 1 .. Len(names)
    BY <1>3
  <2>. QED
    BY <1>2, <1>3, <2>1
<1>5. ProperList => NameFits(names, 1, name, {})
  BY <1>4 DEF ProperList, Proper, Spellable, NameFits
<1>6. Told(names, 1, name, {}, {}, <<>>, {}, [j \in 1 .. 1 |-> 0])
  <2>1. AllSaid(<<>>, {})
    BY DEF AllSaid
  <2>2. PICK st : st = [j \in 1 .. 1 |-> 0]
    OBVIOUS
  <2>3. /\ st \in [1 .. 1 -> Nat] /\ st[1] = 0 /\ Len(<<>>) = 0
        /\ 1 .. 1 - 1 = {}
    BY <2>2
  <2>4. Opened(names, 1, name, {}, <<>>, st)
    BY <1>4, <2>3 DEF Opened
  <2>. QED
    BY <2>1, <2>2, <2>3, <2>4 DEF Told
<1>7. SomeTold(names, 1, name, {}, {}, <<>>)
  BY <1>6 DEF SomeTold
<1>. QED
  BY <1>1, <1>2, <1>5, <1>7 DEF KInv

(* The name is finished by these bytes, whatever is left of it to say.     *)
LEMMA KFinish ==
  ASSUME NEW n, NEW np \in SUBSET Parts, NEW r \in Seq(Byte), NEW b \in Seq(Byte),
         CType, Running, ProperList, b # <<>>, labels_of(n) \in Seq(Label),
         np = {} \/ labels_of(n) = n,
         \E D, st :
           /\ Told(names, i, n, part_offsets, np, r, D, st)
           /\ \/ SaysRoot(r \o b, Final(n, r, b, st[i]))
              \/ \E c \in D : SaysPointer(r \o b, Final(n, r, b, st[i]), c)
  PROVE  LET n2 == IF i < Len(names) THEN names[i + 1] ELSE Empty
         IN  /\ NameFits(names, i + 1, n2, {})
             /\ SomeTold(names, i + 1, n2, part_offsets \cup np, {}, r \o b)
<1>1. /\ names \in Lists /\ names \in Seq(Name) /\ i \in 1 .. Len(names)
      /\ i \in Nat \ {0} /\ i <= Len(names)
  <2>1. names \in Lists /\ names \in Seq(Name) /\ i \in 1 .. Len(names) + 1
    BY ListsAssumption DEF CType
  <2>2. Len(names) \in Nat
    BY <2>1, LenProperties
  <2>. QED
    BY <2>1, <2>2 DEF Running
<1>2. NameFits(names, i + 1, IF i < Len(names) THEN names[i + 1] ELSE Empty, {})
  BY <1>1, NextFits DEF ProperList
<1>3. PICK D, st :
           /\ Told(names, i, n, part_offsets, np, r, D, st)
           /\ \/ SaysRoot(r \o b, Final(n, r, b, st[i]))
              \/ \E c \in D : SaysPointer(r \o b, Final(n, r, b, st[i]), c)
  OBVIOUS
<1>4. \E D2, st2 : Told(names, i + 1, IF i < Len(names) THEN names[i + 1] ELSE Empty,
                        part_offsets \cup np, {}, r \o b, D2, st2)
  BY <1>1, <1>3, FinishTold
<1>. QED
  BY <1>2, <1>4 DEF SomeTold

(* A zero finishes the root.                                               *)
LEMMA ZeroSays ==
  ASSUME NEW n, NEW r \in Seq(Byte), NEW s0, labels_of(n) = <<>>
  PROVE  SaysRoot(r \o <<0>>, Final(n, r, <<0>>, s0))
<1>1. <<0>> \in Seq(Byte) /\ Len(<<0>>) = 1 /\ <<0>>[1] = 0 /\ 1 \in 1 .. 1
  BY DEF Byte
<1>2. (r \o <<0>>)[Len(r) + 1] = 0
  BY <1>1, Prefix
<1>. QED
  BY <1>1, <1>2 DEF SaysRoot, Final

LEMMA KStep == KInv /\ [Compress]_compressVars => KInv'
<1>. SUFFICES ASSUME KInv, [Compress]_compressVars PROVE KInv'
  OBVIOUS
<1>1. CType /\ CType'
  BY CTypeStep DEF KInv
<1>2. names' = names
  BY DEF Compress, PutRoot, PutPointer, PutLabel, PutLastLabel, FinishName, compressVars
<1>. SUFFICES ASSUME ProperList
              PROVE  /\ NameFits(names', i', name', new_part_offsets')
                     /\ SomeTold(names', i', name', part_offsets', new_part_offsets',
                                 compressed')
  BY <1>1, <1>2 DEF KInv, ProperList
<1>3. /\ name \in Seq(Label) /\ compressed \in Seq(Byte)
      /\ new_part_offsets \in SUBSET Parts /\ part_offsets \subseteq Parts
      /\ names \in Lists /\ i \in Nat \ {0}
      /\ Running => name # <<>>
  <2>1. i \in 1 .. Len(names) + 1 /\ names \in Seq(Name)
    BY <1>1, ListsAssumption DEF CType
  <2>2. i \in Nat \ {0}
    BY <2>1, LenProperties
  <2>. QED
    BY <1>1, <2>2 DEF CType
<1>4. PICK D, st : Told(names, i, name, part_offsets, new_part_offsets, compressed, D, st)
  BY DEF KInv, SomeTold
<1>5. Running => \/ \A j \in DOMAIN name : Spellable(name[j])
                 \/ name = RootName /\ new_part_offsets = {}
  BY DEF KInv, NameFits, Running
<1>6. ASSUME NEW bytes, NEW parts, FinishName(bytes, parts)
      PROVE  /\ names' = names /\ i' = i + 1 /\ compressed' = compressed \o bytes
             /\ name' = IF i < Len(names) THEN names[i + 1] ELSE Empty
             /\ part_offsets' = part_offsets \cup parts /\ new_part_offsets' = {}
  BY <1>6 DEF FinishName
<1>7. <<0>> \in Seq(Byte) /\ <<0>> # <<>>
  BY DEF Byte
<1>8. CASE PutRoot
  <2>1. Running /\ name = RootName /\ FinishName(<<0>>, new_part_offsets)
    BY <1>8 DEF PutRoot
  <2>2. new_part_offsets = {}
    <3>1. 1 \in DOMAIN name /\ ~Spellable(name[1])
      <4>1. name[1] = <<>> /\ 1 \in DOMAIN name
        BY <2>1 DEF RootName, Empty
      <4>2. Len(<<>>) = 0 /\ 0 \notin 1 .. 63
        OBVIOUS
      <4>. QED
        BY <4>1, <4>2 DEF Spellable
    <3>. QED
      BY <1>5, <2>1, <3>1
  <2>3. labels_of(name) = <<>> /\ labels_of(name) \in Seq(Label)
    BY <2>1 DEF labels_of
  <2>4. SaysRoot(compressed \o <<0>>, Final(name, compressed, <<0>>, st[i]))
    BY <1>3, <2>3, ZeroSays
  <2>5. LET n2 == IF i < Len(names) THEN names[i + 1] ELSE Empty
        IN  /\ NameFits(names, i + 1, n2, {})
            /\ SomeTold(names, i + 1, n2, part_offsets \cup new_part_offsets, {},
                        compressed \o <<0>>)
    BY <1>1, <1>3, <1>4, <1>7, <2>1, <2>2, <2>3, <2>4, KFinish
  <2>. QED
    BY <1>6, <2>1, <2>5
<1>9. CASE PutPointer
  <2>1. /\ Running /\ name # RootName
        /\ \E offset \in Known : FinishName(pointer(offset), new_part_offsets)
    BY <1>9 DEF PutPointer
  <2>2. PICK u \in part_offsets :
           u.suffix = name /\ FinishName(pointer(u.offset), new_part_offsets)
    BY <2>1 DEF Known
  <2>3. PICK b : b = pointer(u.offset)
    OBVIOUS
  <2>4. b \in Seq(Byte) /\ Len(b) = 2 /\ b # <<>>
    <3>1. u.offset \in Nat
      BY <1>3 DEF Parts
    <3>2. b \in Seq(Byte) /\ Len(b) = 2
      BY <2>3, <3>1, Pointer
    <3>. QED
      BY <3>2
  <2>5. labels_of(name) = name
    BY <2>1 DEF labels_of
  <2>6. PICK d \in D : d.offset = u.offset /\ d.labels = u.suffix
    BY <1>4 DEF Told
  <2>7. SaysPointer(compressed \o b, Final(name, compressed, b, st[i]), d)
    <3>1. d.end <= st[i]
      BY <1>4 DEF Told
    <3>2. 1 \in 1 .. Len(b) /\ 2 \in 1 .. Len(b)
      BY <2>4
    <3>3. /\ (compressed \o b)[Len(compressed) + 1] = b[1]
          /\ (compressed \o b)[Len(compressed) + 2] = b[2]
      BY <1>3, <2>4, <3>2, Prefix
    <3>4. PointsTo(compressed \o b, Len(compressed), d.offset)
      BY <2>3, <2>6, <3>3 DEF PointsTo
    <3>. QED
      BY <2>2, <2>4, <2>5, <2>6, <3>1, <3>4 DEF SaysPointer, Final
  <2>8. LET n2 == IF i < Len(names) THEN names[i + 1] ELSE Empty
        IN  /\ NameFits(names, i + 1, n2, {})
            /\ SomeTold(names, i + 1, n2, part_offsets \cup new_part_offsets, {},
                        compressed \o b)
    BY <1>1, <1>3, <1>4, <2>1, <2>4, <2>5, <2>7, KFinish
  <2>. QED
    BY <1>6, <2>2, <2>3, <2>8
<1>10. ASSUME Running, name # RootName
       PROVE  /\ Spellable(Head(name)) /\ \A j \in DOMAIN Tail(name) : Spellable(Tail(name)[j])
              /\ Tail(name) \in Seq(Label) /\ Len(Tail(name)) = Len(name) - 1
              /\ new_part_offsets \cup Part \in SUBSET Parts
              /\ compressed \o spelling(Head(name)) \in Seq(Byte)
              /\ spelling(Head(name)) \in Seq(Byte)
              /\ Told(names, i, Tail(name), part_offsets, new_part_offsets \cup Part,
                      compressed \o spelling(Head(name)), D, st)
  <2>1. \A j \in DOMAIN name : Spellable(name[j])
    BY <1>5, <1>10
  <2>2. /\ Head(name) = name[1] /\ 1 \in DOMAIN name /\ Head(name) \in Label
        /\ Tail(name) \in Seq(Label) /\ Len(Tail(name)) = Len(name) - 1
        /\ \A j \in DOMAIN Tail(name) : j + 1 \in DOMAIN name /\ Tail(name)[j] = name[j + 1]
    BY <1>3, <1>10, HeadAndTail
  <2>3. Spellable(Head(name)) /\ \A j \in DOMAIN Tail(name) : Spellable(Tail(name)[j])
    BY <2>1, <2>2
  <2>4. new_part_offsets \cup Part \in SUBSET Parts
    <3>1. Len(compressed) \in Nat
      BY <1>3, LenProperties
    <3>. QED
      BY <1>3, <3>1 DEF Part, Parts
  <2>5. Len(Head(name)) < 256
    <3>1. PICK x \in 1 .. 63 : x = Len(Head(name))
      BY <2>3 DEF Spellable
    <3>2. x < 256
      OBVIOUS
    <3>. QED
      BY <3>1, <3>2
  <2>6. spelling(Head(name)) \in Seq(Byte)
    BY <2>2, <2>5, Spelling
  <2>7. compressed \o spelling(Head(name)) \in Seq(Byte)
    BY <1>3, <2>6, ConcatProperties
  <2>8. Told(names, i, Tail(name), part_offsets, new_part_offsets \cup Part,
             compressed \o spelling(Head(name)), D, st)
    <3>1. i <= Len(names)
      BY <1>10 DEF Running
    <3>. QED
      BY <1>3, <1>4, <1>10, <2>3, <3>1, LabelTold DEF Part
  <2>. QED
    BY <2>2, <2>3, <2>4, <2>6, <2>7, <2>8
<1>11. CASE PutLabel
  <2>1. /\ Running /\ name # RootName
        /\ compressed' = compressed \o spelling(Head(name))
        /\ new_part_offsets' = new_part_offsets \cup Part
        /\ name' = Tail(name)
        /\ UNCHANGED <<names, i, part_offsets>>
    BY <1>11 DEF PutLabel
  <2>2. NameFits(names, i, Tail(name), new_part_offsets')
    BY <1>10, <2>1 DEF NameFits
  <2>3. SomeTold(names, i, Tail(name), part_offsets, new_part_offsets \cup Part,
                 compressed \o spelling(Head(name)))
    BY <1>10, <2>1 DEF SomeTold
  <2>. QED
    BY <2>1, <2>2, <2>3
<1>12. CASE PutLastLabel
  <2>1. /\ Running /\ name # RootName /\ Len(name) = 1
        /\ FinishName(Append(spelling(Head(name)), 0), new_part_offsets \cup Part)
    BY <1>12 DEF PutLastLabel
  <2>2. PICK r \in Seq(Byte), np \in SUBSET Parts :
           /\ r = compressed \o spelling(Head(name)) /\ np = new_part_offsets \cup Part
           /\ Told(names, i, Tail(name), part_offsets, np, r, D, st)
    BY <1>10, <2>1
  <2>3. Tail(name) = <<>>
    <3>1. Len(Tail(name)) = 0 /\ Tail(name) \in Seq(Label)
      BY <1>10, <2>1
    <3>. QED
      BY <3>1, EmptySeq
  <2>4. /\ labels_of(<<>>) = <<>> /\ labels_of(<<>>) \in Seq(Label)
    <3>1. <<>> # RootName
      BY DEF RootName
    <3>. QED
      BY <3>1 DEF labels_of
  <2>5. SaysRoot(r \o <<0>>, Final(<<>>, r, <<0>>, st[i]))
    BY <2>4, ZeroSays
  <2>6. LET n2 == IF i < Len(names) THEN names[i + 1] ELSE Empty
        IN  /\ NameFits(names, i + 1, n2, {})
            /\ SomeTold(names, i + 1, n2, part_offsets \cup np, {}, r \o <<0>>)
    <3>1. Told(names, i, <<>>, part_offsets, np, r, D, st)
      BY <2>2, <2>3
    <3>. QED
      BY <1>1, <1>7, <2>1, <2>4, <2>5, <3>1, KFinish
  <2>7. compressed \o Append(spelling(Head(name)), 0) = r \o <<0>>
    <3>1. spelling(Head(name)) \in Seq(Byte) /\ 0 \in Byte
      BY <1>10, <2>1 DEF Byte
    <3>2. Append(spelling(Head(name)), 0) = spelling(Head(name)) \o <<0>>
      BY <3>1, AppendIsConcat
    <3>3. (compressed \o spelling(Head(name))) \o <<0>>
            = compressed \o (spelling(Head(name)) \o <<0>>)
      BY <1>3, <1>7, <3>1, ConcatAssociative
    <3>. QED
      BY <2>2, <3>2, <3>3
  <2>. QED
    BY <1>6, <2>1, <2>2, <2>6, <2>7
<1>13. CASE UNCHANGED compressVars
  BY <1>13 DEF compressVars, KInv, ProperList, SomeTold
<1>. QED
  BY <1>8, <1>9, <1>11, <1>12, <1>13 DEF Compress
-----------------------------------------------------------------------------
(* What a client makes of what is told.                                    *)

LEMMA Cons ==
  ASSUME NEW S, NEW x \in Nat, NEW f \in [1 .. x + 1 -> S]
  PROVE  f = <<f[1]>> \o [j \in 1 .. x |-> f[j + 1]]
<1>1. f \in Seq(S) /\ Len(f) = x + 1
  BY IsASeq, LenProperties
<1>2. f # <<>>
  <2>1. x + 1 # 0
    OBVIOUS
  <2>. QED
    BY <1>1, <2>1
<1>3. /\ Head(f) = f[1] /\ Tail(f) \in Seq(S) /\ Len(Tail(f)) = Len(f) - 1
      /\ \A k \in DOMAIN Tail(f) : Tail(f)[k] = f[k + 1]
      /\ f = <<Head(f)>> \o Tail(f)
  BY <1>1, <1>2, HeadAndTail
<1>4. Len(Tail(f)) = x
  BY <1>1, <1>3
<1>5. DOMAIN Tail(f) = 1 .. x
  BY <1>3, <1>4, LenProperties
<1>6. Tail(f) = [j \in 1 .. x |-> f[j + 1]]
  <2>1. Tail(f) = [j \in 1 .. x |-> Tail(f)[j]]
    BY <1>3, <1>5, LenProperties
  <2>. QED
    BY <1>3, <1>5, <2>1
<1>. QED
  BY <1>3, <1>6

LEMMA ListingTold ==
  ASSUME NEW m, NEW k \in Nat \ {0}, NEW n, NEW po, NEW np,
         NEW r \in Seq(Byte), NEW D, NEW st,
         InReach(r), st[k] = Len(r), Told(m, k, n, po, np, r, D, st)
  PROVE  Listing(r)[0] = [j \in 1 .. k - 1 |-> labels_of(m[j])]
<1>. DEFINE L == Len(r)
            Lab(j) == labels_of(m[j])
            From(x) == [j \in 1 .. x |-> Lab((k - x) + j - 1)]
            S == {x \in 0 .. k - 1 : Listing(r)[st[k - x]] = From(x)}
<1>1. L \in Nat
  BY LenProperties
<1>2. /\ AllSaid(r, D) /\ st \in [1 .. k -> Nat] /\ st[1] = 0
      /\ \A j \in 1 .. k - 1 : \E d \in D : Tells(d, st[j], st[j + 1], labels_of(m[j]))
  BY DEF Told
<1>3. \A d \in D : At(r)[d.offset].labels = d.labels /\ At(r)[d.offset].end = d.end
  BY <1>2, SaidIsRead
<1>4. ASSUME NEW j \in 1 .. k - 1
      PROVE  /\ st[j] \in 0 .. L /\ st[j] # L
             /\ At(r)[st[j]].labels = Lab(j) /\ At(r)[st[j]].end = st[j + 1]
             /\ Lab(j) \in Seq(Label)
  <2>1. PICK d \in D : Tells(d, st[j], st[j + 1], Lab(j))
    BY <1>2
  <2>2. d \in Fact /\ Said(r, D, d)
    BY <1>2 DEF AllSaid
  <2>3. PICK o, f : o = d.offset /\ f = d.end
    OBVIOUS
  <2>4. o \in Nat /\ f \in Nat /\ o < f /\ f <= L
    BY <2>2, <2>3 DEF Fact, Said, Bounds
  <2>5. o \in 0 .. L /\ o # L
    BY <1>1, <2>4
  <2>. HIDE DEF Lab
  <2>. QED
    BY <1>3, <2>1, <2>2, <2>3, <2>5 DEF Tells, Fact
<1>. HIDE DEF Lab
<1>5. 0 \in S
  <2>1. Listing(r)[L] = <<>>
    <3>1. L \in 0 .. L
      BY <1>1
    <3>2. Listing(r)[L] = Rest(r, Listing(r), L)
      BY <3>1, ListingAt
    <3>. QED
      BY <3>2 DEF Rest
  <2>2. From(0) = <<>>
    OBVIOUS
  <2>3. k - 0 = k /\ 0 \in 0 .. k - 1
    OBVIOUS
  <2>. QED
    BY <2>1, <2>2, <2>3
<1>6. ASSUME NEW x \in 0 .. k - 1, x \in S, x < k - 1
      PROVE  x + 1 \in S
  <2>. DEFINE j0 == k - (x + 1)
              p == st[j0]
              g == From(x + 1)
  <2>1. j0 \in 1 .. k - 1 /\ j0 + 1 = k - x /\ x + 1 \in 0 .. k - 1 /\ x \in Nat
    BY <1>6
  <2>2. Listing(r)[st[k - x]] = From(x)
    BY <1>6
  <2>3. /\ p \in 0 .. L /\ p # L
        /\ At(r)[p].labels = Lab(j0) /\ At(r)[p].end = st[j0 + 1]
    BY <1>4, <2>1
  <2>4. Listing(r)[p] = <<Lab(j0)>> \o Listing(r)[st[j0 + 1]]
    <3>1. Listing(r)[p] = Rest(r, Listing(r), p)
      BY <2>3, ListingAt
    <3>. QED
      BY <2>3, <3>1 DEF Rest
  <2>5. Listing(r)[p] = <<Lab(j0)>> \o From(x)
    BY <2>1, <2>2, <2>4
  <2>6. g \in [1 .. x + 1 -> Seq(Label)]
    <3>1. \A j \in 1 .. x + 1 : (k - (x + 1)) + j - 1 \in 1 .. k - 1
      BY <2>1
    <3>2. \A j \in 1 .. x + 1 : Lab((k - (x + 1)) + j - 1) \in Seq(Label)
      BY <1>4, <3>1
    <3>. QED
      BY <3>2
  <2>7. g[1] = Lab(j0)
    <3>1. 1 \in 1 .. x + 1 /\ (k - (x + 1)) + 1 - 1 = j0
      BY <2>1
    <3>. QED
      BY <3>1
  <2>8. [j \in 1 .. x |-> g[j + 1]] = From(x)
    <3>1. \A j \in 1 .. x : /\ j + 1 \in 1 .. x + 1
                            /\ (k - (x + 1)) + (j + 1) - 1 = (k - x) + j - 1
      BY <2>1
    <3>2. \A j \in 1 .. x : g[j + 1] = Lab((k - x) + j - 1)
      BY <3>1
    <3>. HIDE DEF g
    <3>. QED
      BY <3>2
  <2>9. g = <<g[1]>> \o [j \in 1 .. x |-> g[j + 1]]
    <3>. HIDE DEF g
    <3>. QED
      BY <2>1, <2>6, Cons
  <2>10. Listing(r)[p] = g
    <3>. HIDE DEF g, From
    <3>. QED
      BY <2>5, <2>7, <2>8, <2>9
  <2>. QED
    BY <2>1, <2>10
<1>7. 0 .. k - 1 \subseteq S
  <2>1. k - 1 \in Nat
    OBVIOUS
  <2>. HIDE DEF S
  <2>. QED
    BY <1>5, <1>6, <2>1, Climb
<1>8. Listing(r)[st[k - (k - 1)]] = From(k - 1)
  <2>1. k - 1 \in S
    <3>1. k - 1 \in 0 .. k - 1
      OBVIOUS
    <3>. HIDE DEF S
    <3>. QED
      BY <1>7, <3>1
  <2>. QED
    BY <2>1
<1>9. /\ k - (k - 1) = 1
      /\ \A j \in 1 .. k - 1 : (k - (k - 1)) + j - 1 = j
  OBVIOUS
<1>10. From(k - 1) = [j \in 1 .. k - 1 |-> Lab(j)]
  BY <1>9
<1>11. Listing(r)[0] = [j \in 1 .. k - 1 |-> Lab(j)]
  <2>. HIDE DEF From
  <2>. QED
    BY <1>2, <1>8, <1>9, <1>10
<1>. QED
  BY <1>11 DEF Lab

(* Between names everything is told up to the last byte.                   *)
LEMMA Between ==
  ASSUME KInv, ProperList, BetweenNames
  PROVE  \E D, st :
           /\ Told(names, i, name, part_offsets, new_part_offsets, compressed, D, st)
           /\ st[i] = Len(compressed)
<1>1. PICK D, st : Told(names, i, name, part_offsets, new_part_offsets, compressed, D, st)
  BY DEF KInv, SomeTold
<1>2. Opened(names, i, name, new_part_offsets, compressed, st) /\ new_part_offsets = {}
  BY <1>1 DEF Told, BetweenNames
<1>. QED
  BY <1>1, <1>2 DEF Opened

LEMMA NamesTold ==
  ASSUME KInv, InReach(compressed)
  PROVE  NamesRoundTrip
<1>. SUFFICES ASSUME ProperList, BetweenNames
              PROVE  Decoded = [k \in 1 .. i - 1 |-> labels_of(names[k])]
  BY DEF NamesRoundTrip
<1>1. compressed \in Seq(Byte) /\ i \in Nat \ {0}
  <2>1. names \in Seq(Name) /\ i \in 1 .. Len(names) + 1 /\ compressed \in Seq(Byte)
    BY ListsAssumption DEF KInv, CType
  <2>. QED
    BY <2>1, LenProperties
<1>2. PICK D, st :
         /\ Told(names, i, name, part_offsets, new_part_offsets, compressed, D, st)
         /\ st[i] = Len(compressed)
  BY Between
<1>3. Listing(compressed)[0] = [k \in 1 .. i - 1 |-> labels_of(names[k])]
  BY <1>1, <1>2, ListingTold
<1>. QED
  BY <1>3, DecodedIs

LEMMA OffsetsTold ==
  ASSUME KInv, InReach(compressed)
  PROVE  OffsetsNameSuffixes
<1>. SUFFICES ASSUME ProperList, BetweenNames, NEW p \in part_offsets
              PROVE  p.offset < Reach /\ NameAt[p.offset].labels = p.suffix
  BY DEF OffsetsNameSuffixes, Reach
<1>1. compressed \in Seq(Byte)
  BY DEF KInv, CType
<1>2. PICK D, st : Told(names, i, name, part_offsets, new_part_offsets, compressed, D, st)
  BY DEF KInv, SomeTold
<1>3. PICK d \in D : d.offset = p.offset /\ d.labels = p.suffix
  BY <1>2 DEF Told
<1>4. AllSaid(compressed, D)
  BY <1>2 DEF Told
<1>5. At(compressed)[d.offset].labels = d.labels
  BY <1>1, <1>4, SaidIsRead
<1>6. PICK o, f : o = d.offset /\ f = d.end
  OBVIOUS
<1>7. o \in Nat /\ f \in Nat /\ o < f /\ f <= Len(compressed)
  BY <1>4, <1>6 DEF AllSaid, Said, Bounds, Fact
<1>8. o < Reach
  <2>1. Len(compressed) \in Nat /\ Len(compressed) <= Reach
    BY <1>1, LenProperties DEF InReach
  <2>. QED
    BY <1>7, <2>1 DEF Reach
<1>. QED
  BY <1>3, <1>5, <1>6, <1>8, NameAtIs

LEMMA NamesCompressed == CompressSpec => []KInv
BY KStart, KStep, PTL DEF CompressSpec

(* Whatever list of host names it compresses, and wherever the pointers    *)
(* lead, domain_name_list_compression makes a payload in which a client    *)
(* reads these names, in this order; as long as a pointer reaches every    *)
(* byte of it: the two bits that mark a pointer are taken from the offset, *)
(* and beyond 16 kilobytes they are lost.                                  *)
THEOREM CompressedNamesRoundTrip ==
  CompressSpec => [](InReach(compressed) => NamesRoundTrip)
BY NamesCompressed, NamesTold, PTL

(* Every entry of part_offsets leads to the suffix it was recorded for,    *)
(* whatever has been appended since.                                       *)
THEOREM CompressedOffsetsNameSuffixes ==
  CompressSpec => [](InReach(compressed) => OffsetsNameSuffixes)
BY NamesCompressed, OffsetsTold, PTL
-----------------------------------------------------------------------------
(* The suffixes of a name.                                                 *)
Tails(n) == {SubSeq(n, j, Len(n)) : j \in DOMAIN n}

LEMMA SuffixOf ==
  ASSUME NEW n \in Seq(Label), NEW j \in 1 .. Len(n)
  PROVE  /\ SubSeq(n, j, Len(n)) \in Seq(Label)
         /\ Len(SubSeq(n, j, Len(n))) = Len(n) - j + 1
         /\ \A k \in 1 .. Len(n) - j + 1 : SubSeq(n, j, Len(n))[k] = n[j + k - 1]
<1>1. PICK L \in Nat : L = Len(n) /\ DOMAIN n = 1 .. L
  BY LenProperties
<1>2. j \in Int /\ L \in Int /\ j <= L
  BY <1>1
<1>3. \A k \in j .. L : n[k] \in Label
  <2>1. \A k \in 1 .. L : n[k] \in Label
    BY <1>1, ElementOfSeq
  <2>2. ASSUME NEW k \in j .. L PROVE k \in 1 .. L
    BY <1>1
  <2>. QED
    BY <2>1, <2>2
<1>4. /\ SubSeq(n, j, L) \in Seq(Label)
      /\ Len(SubSeq(n, j, L)) = IF j <= L THEN L - j + 1 ELSE 0
      /\ \A k \in 1 .. L - j + 1 : SubSeq(n, j, L)[k] = n[j + k - 1]
  BY <1>2, <1>3, SubSeqProperties
<1>. QED
  BY <1>1, <1>2, <1>4

(* A suffix of a suffix.                                                   *)
LEMMA SuffixTwice ==
  ASSUME NEW n \in Seq(Label), NEW j \in 1 .. Len(n),
         NEW k \in 1 .. Len(SubSeq(n, j, Len(n)))
  PROVE  /\ j + k - 1 \in 1 .. Len(n)
         /\ SubSeq(SubSeq(n, j, Len(n)), k, Len(SubSeq(n, j, Len(n))))
              = SubSeq(n, j + k - 1, Len(n))
<1>1. PICK L \in Nat : L = Len(n)
  BY LenProperties
<1>2. PICK s \in Seq(Label) :
         /\ s = SubSeq(n, j, L) /\ Len(s) = L - j + 1
         /\ \A x \in 1 .. L - j + 1 : s[x] = n[j + x - 1]
  BY <1>1, SuffixOf
<1>3. k \in 1 .. L - j + 1 /\ j \in 1 .. L
  BY <1>1, <1>2
<1>4. j + k - 1 \in 1 .. L
  BY <1>3
<1>5. PICK a \in Seq(Label) :
         /\ a = SubSeq(s, k, Len(s)) /\ Len(a) = (L - j + 1) - k + 1
         /\ \A x \in 1 .. (L - j + 1) - k + 1 : a[x] = s[k + x - 1]
  <2>1. k \in 1 .. Len(s)
    BY <1>2, <1>3
  <2>2. /\ SubSeq(s, k, Len(s)) \in Seq(Label)
        /\ Len(SubSeq(s, k, Len(s))) = Len(s) - k + 1
        /\ \A x \in 1 .. Len(s) - k + 1 : SubSeq(s, k, Len(s))[x] = s[k + x - 1]
    BY <2>1, SuffixOf
  <2>. QED
    BY <1>2, <2>2
<1>6. PICK b \in Seq(Label) :
         /\ b = SubSeq(n, j + k - 1, L) /\ Len(b) = L - (j + k - 1) + 1
         /\ \A x \in 1 .. L - (j + k - 1) + 1 : b[x] = n[(j + k - 1) + x - 1]
  <2>1. j + k - 1 \in 1 .. Len(n)
    BY <1>1, <1>4
  <2>2. /\ SubSeq(n, j + k - 1, Len(n)) \in Seq(Label)
        /\ Len(SubSeq(n, j + k - 1, Len(n))) = Len(n) - (j + k - 1) + 1
        /\ \A x \in 1 .. Len(n) - (j + k - 1) + 1 :
             SubSeq(n, j + k - 1, Len(n))[x] = n[(j + k - 1) + x - 1]
    BY <2>1, SuffixOf
  <2>. QED
    BY <1>1, <2>2
<1>7. (L - j + 1) - k + 1 = L - (j + k - 1) + 1
  BY <1>3
<1>8. ASSUME NEW x \in 1 .. (L - j + 1) - k + 1 PROVE a[x] = b[x]
  <2>1. k + x - 1 \in 1 .. L - j + 1 /\ j + (k + x - 1) - 1 = (j + k - 1) + x - 1
    BY <1>3, <1>8
  <2>. QED
    BY <1>2, <1>5, <1>6, <1>7, <2>1
<1>9. a = b
  <2>1. Len(a) = Len(b) /\ \A x \in 1 .. Len(a) : a[x] = b[x]
    BY <1>5, <1>6, <1>7, <1>8
  <2>. QED
    BY <2>1, SeqEqual
<1>. QED
  BY <1>1, <1>2, <1>4, <1>5, <1>6, <1>9

LEMMA TailIsSuffix ==
  ASSUME NEW n \in Seq(Label), Len(n) > 1
  PROVE  Tail(n) = SubSeq(n, 2, Len(n))
<1>1. PICK L \in Nat : L = Len(n) /\ L > 1
  BY LenProperties
<1>2. n # <<>>
  BY <1>1
<1>3. DOMAIN n = 1 .. L /\ DOMAIN Tail(n) = 1 .. L - 1
  BY <1>1, <1>2, HeadAndTail, LenProperties
<1>4. 2 \in 1 .. L
  BY <1>1
<1>5. /\ SubSeq(n, 2, L) \in Seq(Label) /\ Len(SubSeq(n, 2, L)) = L - 1
      /\ \A k \in 1 .. L - 1 : SubSeq(n, 2, L)[k] = n[k + 1]
  <2>1. /\ SubSeq(n, 2, L) \in Seq(Label) /\ Len(SubSeq(n, 2, L)) = L - 2 + 1
        /\ \A k \in 1 .. L - 2 + 1 : SubSeq(n, 2, L)[k] = n[2 + k - 1]
    BY <1>1, <1>4, SuffixOf
  <2>2. L - 2 + 1 = L - 1 /\ \A k \in 1 .. L - 1 : 2 + k - 1 = k + 1
    BY <1>1
  <2>. QED
    BY <2>1, <2>2
<1>6. Tail(n) \in Seq(Label) /\ Len(Tail(n)) = L - 1
      /\ \A k \in 1 .. L - 1 : Tail(n)[k] = n[k + 1]
  BY <1>1, <1>2, <1>3, HeadAndTail
<1>. QED
  BY <1>1, <1>5, <1>6, SeqEqual

(* The suffixes are the name and the suffixes of its tail.                 *)
LEMMA TailsOf ==
  ASSUME NEW n \in Seq(Label), n # <<>>
  PROVE  Tails(n) = {n} \cup Tails(Tail(n))
<1>1. PICK L \in Nat : L = Len(n) /\ L # 0 /\ DOMAIN n = 1 .. L
  BY EmptySeq, LenProperties
<1>2. Tail(n) \in Seq(Label) /\ Len(Tail(n)) = L - 1 /\ DOMAIN Tail(n) = 1 .. L - 1
  BY <1>1, HeadAndTail, LenProperties
<1>3. SubSeq(n, 1, L) = n
  BY <1>1, SubSeqFull
<1>4. 1 \in 1 .. L
  BY <1>1
<1>5. n \in Tails(n)
  BY <1>1, <1>3, <1>4 DEF Tails
<1>6. ASSUME NEW j \in 2 .. L
      PROVE  SubSeq(n, j, L) = SubSeq(Tail(n), j - 1, L - 1) /\ j - 1 \in 1 .. L - 1
  <2>1. L > 1 /\ j - 1 \in 1 .. L - 1 /\ 2 \in 1 .. L /\ 2 + (j - 1) - 1 = j
    BY <1>1
  <2>2. Tail(n) = SubSeq(n, 2, Len(n))
    BY <1>1, <2>1, TailIsSuffix
  <2>3. j - 1 \in 1 .. Len(SubSeq(n, 2, Len(n))) /\ 2 \in 1 .. Len(n)
    BY <1>1, <1>2, <2>1, <2>2
  <2>4. SubSeq(SubSeq(n, 2, Len(n)), j - 1, Len(SubSeq(n, 2, Len(n))))
          = SubSeq(n, 2 + (j - 1) - 1, Len(n))
    BY <2>3, SuffixTwice
  <2>. QED
    BY <1>1, <1>2, <2>1, <2>2, <2>4
<1>7. Tails(n) \subseteq {n} \cup Tails(Tail(n))
  <2>1. SUFFICES ASSUME NEW j \in 1 .. L, SubSeq(n, j, L) # n
                 PROVE  SubSeq(n, j, L) \in Tails(Tail(n))
    BY <1>1 DEF Tails
  <2>2. j \in 2 .. L
    <3>1. j # 1
      BY <1>3, <2>1
    <3>. QED
      BY <3>1
  <2>3. SubSeq(n, j, L) = SubSeq(Tail(n), j - 1, L - 1) /\ j - 1 \in 1 .. L - 1
    BY <1>6, <2>2
  <2>. QED
    BY <1>2, <2>3 DEF Tails
<1>8. Tails(Tail(n)) \subseteq Tails(n)
  <2>1. SUFFICES ASSUME NEW k \in 1 .. L - 1
                 PROVE  SubSeq(Tail(n), k, L - 1) \in Tails(n)
    BY <1>2 DEF Tails
  <2>2. PICK j : j = k + 1
    OBVIOUS
  <2>3. j \in 2 .. L /\ j - 1 = k /\ j \in 1 .. L
    BY <1>1, <2>2
  <2>4. SubSeq(n, j, L) = SubSeq(Tail(n), k, L - 1)
    BY <1>6, <2>3
  <2>. QED
    BY <1>1, <2>3, <2>4 DEF Tails
<1>. QED
  BY <1>5, <1>7, <1>8

LEMMA NoTails == Tails(<<>>) = {}
BY DEF Tails

(* The suffixes of a suffix are suffixes, and none is longer.              *)
LEMMA TailsWithin ==
  ASSUME NEW n \in Seq(Label), NEW s \in Tails(n)
  PROVE  /\ s \in Seq(Label) /\ Len(s) <= Len(n)
         /\ Tails(s) \subseteq Tails(n)
<1>1. DOMAIN n = 1 .. Len(n) /\ Len(n) \in Nat
  BY LenProperties
<1>2. PICK j \in 1 .. Len(n) : s = SubSeq(n, j, Len(n))
  BY <1>1 DEF Tails
<1>3. s \in Seq(Label) /\ Len(s) = Len(n) - j + 1
  BY <1>2, SuffixOf
<1>4. Len(s) <= Len(n)
  BY <1>1, <1>3
<1>5. ASSUME NEW k \in DOMAIN s PROVE SubSeq(s, k, Len(s)) \in Tails(n)
  <2>1. k \in 1 .. Len(SubSeq(n, j, Len(n)))
    BY <1>2, <1>3, LenProperties
  <2>. QED
    BY <1>1, <1>2, <2>1, SuffixTwice DEF Tails
<1>. QED
  BY <1>3, <1>4, <1>5 DEF Tails

-----------------------------------------------------------------------------
(* The parts stand for the suffixes spelled so far, each once.             *)
SuffixesTo(m, k) == UNION {Tails(m[j]) : j \in {x \in 1 .. k - 1 : m[x] # RootName}}

SaidOf(parts) == {p.suffix : p \in parts}

OneEach(parts) == \A p, q \in parts : p.suffix = q.suffix => p = q

(* The name under way has been spelled up to what is left of it.           *)
Underway(m, k, n, np) ==
  k <= Len(m) => \/ m[k] # RootName /\ Tails(m[k]) = SaidOf(np) \cup Tails(n)
                 \/ m[k] = RootName /\ n = m[k] /\ np = {}

Longer(np, n) == \A q \in np : Len(q.suffix) > Len(n)

Spelled(m, k, n, po, np) ==
  /\ IsFiniteSet(po) /\ IsFiniteSet(np) /\ OneEach(po \cup np)
  /\ SaidOf(po) = SuffixesTo(m, k)
  /\ Underway(m, k, n, np) /\ Longer(np, n)

QInv ==
  /\ KInv
  /\ ProperList => Spelled(names, i, name, part_offsets, new_part_offsets)

LEMMA SuffixesNext ==
  ASSUME NEW m, NEW k \in Nat \ {0}
  PROVE  SuffixesTo(m, k + 1) = IF m[k] = RootName THEN SuffixesTo(m, k)
                                ELSE SuffixesTo(m, k) \cup Tails(m[k])
<1>. DEFINE X(j) == {x \in 1 .. j - 1 : m[x] # RootName}
<1>1. X(k + 1) = IF m[k] = RootName THEN X(k) ELSE X(k) \cup {k}
  <2>1. 1 .. (k + 1) - 1 = (1 .. k - 1) \cup {k} /\ k \notin 1 .. k - 1
    OBVIOUS
  <2>. QED
    BY <2>1
<1>. HIDE DEF X
<1>2. SuffixesTo(m, k) = UNION {Tails(m[j]) : j \in X(k)}
  BY DEF SuffixesTo, X
<1>3. SuffixesTo(m, k + 1) = UNION {Tails(m[j]) : j \in X(k + 1)}
  BY DEF SuffixesTo, X
<1>. QED
  BY <1>1, <1>2, <1>3

LEMMA SuffixesClosed ==
  ASSUME NEW m \in Lists, NEW k \in 1 .. Len(m) + 1, NEW s \in SuffixesTo(m, k)
  PROVE  Tails(s) \subseteq SuffixesTo(m, k)
<1>1. PICK j \in 1 .. k - 1 : m[j] # RootName /\ s \in Tails(m[j])
  BY DEF SuffixesTo
<1>2. j \in 1 .. Len(m)
  <2>1. m \in Seq(Name)
    BY ListsAssumption
  <2>2. Len(m) \in Nat
    BY <2>1, LenProperties
  <2>. QED
    BY <2>2
<1>3. m[j] \in Seq(Label)
  BY <1>2, NameOf
<1>4. Tails(s) \subseteq Tails(m[j])
  BY <1>1, <1>3, TailsWithin
<1>. QED
  BY <1>1, <1>4 DEF SuffixesTo

(* The part that is spelled out now is not spelled out yet.                *)
LEMMA NewPart ==
  ASSUME NEW n \in Seq(Label), NEW po, NEW np, NEW o, OneEach(po \cup np), Longer(np, n),
         n \notin SaidOf(po)
  PROVE  /\ OneEach(po \cup (np \cup {[suffix |-> n, offset |-> o]}))
         /\ SaidOf(np \cup {[suffix |-> n, offset |-> o]}) = SaidOf(np) \cup {n}
<1>. DEFINE p == [suffix |-> n, offset |-> o]
<1>1. p.suffix = n
  OBVIOUS
<1>. HIDE DEF p
<1>2. Len(n) \in Nat
  BY LenProperties
<1>3. ASSUME NEW q \in np PROVE q.suffix # n
  <2>1. Len(q.suffix) > Len(n)
    BY DEF Longer
  <2>2. ~(Len(n) > Len(n))
    BY <1>2
  <2>. QED
    BY <2>1, <2>2
<1>4. \A q \in po \cup np : q.suffix # p.suffix
  BY <1>1, <1>3 DEF SaidOf
<1>5. OneEach(po \cup (np \cup {p}))
  BY <1>4 DEF OneEach
<1>6. SaidOf(np \cup {p}) = SaidOf(np) \cup {n}
  BY <1>1 DEF SaidOf
<1>. QED
  BY <1>5, <1>6 DEF p

LEMMA NothingUnderway ==
  ASSUME NEW m, NEW k
  PROVE  /\ Longer({}, IF k < Len(m) THEN m[k + 1] ELSE Empty)
         /\ (k < Len(m) => Underway(m, k + 1, m[k + 1], {}))
<1>1. SaidOf({}) = {}
  BY DEF SaidOf
<1>. QED
  BY <1>1 DEF Longer, Underway

LEMMA QFinish ==
  ASSUME NEW m \in Lists, NEW k \in 1 .. Len(m), NEW n, NEW po, NEW np, NEW ps,
         IsFiniteSet(po), IsFiniteSet(ps), OneEach(po \cup ps),
         SaidOf(po) = SuffixesTo(m, k),
         SaidOf(po \cup ps) = IF m[k] = RootName THEN SuffixesTo(m, k)
                              ELSE SuffixesTo(m, k) \cup Tails(m[k])
  PROVE  Spelled(m, k + 1, IF k < Len(m) THEN m[k + 1] ELSE Empty, po \cup ps, {})
<1>1. m \in Seq(Name)
  BY ListsAssumption
<1>2. Len(m) \in Nat /\ k \in Nat \ {0}
  BY <1>1, LenProperties
<1>3. SaidOf(po \cup ps) = SuffixesTo(m, k + 1)
  BY <1>2, SuffixesNext
<1>4. IsFiniteSet(po \cup ps) /\ IsFiniteSet({}) /\ (po \cup ps) \cup {} = po \cup ps
  BY FS_Union, FS_EmptySet
<1>5. Underway(m, k + 1, IF k < Len(m) THEN m[k + 1] ELSE Empty, {})
  <2>1. CASE k < Len(m)
    BY <2>1, NothingUnderway
  <2>2. CASE ~(k < Len(m))
    <3>1. ~(k + 1 <= Len(m))
      BY <1>2, <2>2
    <3>. QED
      BY <3>1 DEF Underway
  <2>. QED
    BY <2>1, <2>2
<1>. QED
  BY <1>3, <1>4, <1>5, NothingUnderway DEF Spelled

LEMMA QStart == CompressInit => QInv
<1>. SUFFICES ASSUME CompressInit PROVE QInv
  OBVIOUS
<1>1. /\ names \in Lists /\ i = 1 /\ part_offsets = {} /\ new_part_offsets = {}
      /\ name = IF names = <<>> THEN <<>> ELSE names[1]
  BY DEF CompressInit, Empty
<1>2. /\ Len(names) \in Nat /\ (Len(names) = 0 <=> names = <<>>)
  BY <1>1, ListsAssumption, EmptySeq, LenProperties
<1>3. Underway(names, 1, name, {})
  <2>1. 1 <= Len(names) => name = names[1]
    <3>1. 1 <= Len(names) => Len(names) # 0
      BY <1>2
    <3>. QED
      BY <1>1, <1>2, <3>1
  <2>2. SaidOf({}) = {}
    BY DEF SaidOf
  <2>. QED
    BY <2>1, <2>2 DEF Underway
<1>4. SaidOf({}) = SuffixesTo(names, 1)
  <2>1. 1 .. 1 - 1 = {}
    OBVIOUS
  <2>. QED
    BY <2>1 DEF SaidOf, SuffixesTo
<1>5. IsFiniteSet({}) /\ OneEach({}) /\ Longer({}, name) /\ {} \cup {} = {}
  BY FS_EmptySet DEF OneEach, Longer
<1>6. Spelled(names, 1, name, {}, {})
  BY <1>3, <1>4, <1>5 DEF Spelled
<1>. QED
  BY <1>1, <1>6, KStart DEF QInv

LEMMA QStep == QInv /\ [Compress]_compressVars => QInv'
<1>. SUFFICES ASSUME QInv, [Compress]_compressVars PROVE QInv'
  OBVIOUS
<1>1. KInv /\ KInv' /\ CType
  BY KStep DEF QInv, KInv
<1>2. names' = names
  BY DEF Compress, PutRoot, PutPointer, PutLabel, PutLastLabel, FinishName, compressVars
<1>. SUFFICES ASSUME ProperList
              PROVE  Spelled(names', i', name', part_offsets', new_part_offsets')
  BY <1>1, <1>2 DEF QInv, ProperList
<1>3. PICK po, np, n, m :
         po = part_offsets /\ np = new_part_offsets /\ n = name /\ m = names
  OBVIOUS
<1>4. /\ IsFiniteSet(po) /\ IsFiniteSet(np) /\ OneEach(po \cup np)
      /\ SaidOf(po) = SuffixesTo(m, i) /\ Underway(m, i, n, np) /\ Longer(np, n)
  BY <1>3 DEF QInv, Spelled
<1>5. /\ n \in Seq(Label) /\ m \in Lists /\ i \in 1 .. Len(m) + 1
      /\ Running => n # <<>>
  BY <1>1, <1>3 DEF CType
<1>6. Running => i \in 1 .. Len(m) /\ i <= Len(m)
  <2>1. Len(m) \in Nat
    BY <1>5, ListsAssumption, LenProperties
  <2>. QED
    BY <1>3, <1>5, <2>1 DEF Running
<1>7. (Running /\ n = RootName) => m[i] = RootName
  <2>. SUFFICES ASSUME Running, n = RootName PROVE m[i] = RootName
    OBVIOUS
  <2>1. 1 \in DOMAIN n /\ ~Spellable(n[1])
    <3>1. n[1] = <<>> /\ 1 \in DOMAIN n
      BY DEF RootName, Empty
    <3>2. Len(<<>>) = 0 /\ 0 \notin 1 .. 63
      OBVIOUS
    <3>. QED
      BY <3>1, <3>2 DEF Spellable
  <2>2. np = {}
    BY <1>1, <1>3, <2>1 DEF KInv, NameFits, Running
  <2>3. PICK D, st : Told(m, i, n, po, np, compressed, D, st)
    BY <1>1, <1>3 DEF KInv, SomeTold
  <2>4. n = m[i]
    BY <1>6, <2>2, <2>3 DEF Told, Opened
  <2>. QED
    BY <2>4
<1>8. ASSUME NEW bytes, NEW parts, FinishName(bytes, parts)
      PROVE  /\ names' = m /\ i' = i + 1 /\ part_offsets' = po \cup parts
             /\ name' = IF i < Len(m) THEN m[i + 1] ELSE Empty
             /\ new_part_offsets' = {}
  BY <1>3, <1>8 DEF FinishName
<1>9. \A a, b : SaidOf(a \cup b) = SaidOf(a) \cup SaidOf(b)
  BY DEF SaidOf
<1>10. CASE PutRoot
  <2>1. Running /\ n = RootName /\ FinishName(<<0>>, np)
    BY <1>3, <1>10 DEF PutRoot
  <2>2. m[i] = RootName /\ np = {}
    BY <1>4, <1>6, <1>7, <2>1 DEF Underway
  <2>3. SaidOf(po \cup np) = SuffixesTo(m, i)
    BY <1>4, <2>2
  <2>4. Spelled(m, i + 1, IF i < Len(m) THEN m[i + 1] ELSE Empty, po \cup np, {})
    BY <1>4, <1>5, <1>6, <2>1, <2>2, <2>3, QFinish
  <2>. QED
    BY <1>8, <2>1, <2>4
<1>11. CASE PutPointer
  <2>1. /\ Running /\ n # RootName
        /\ \E offset \in Known : FinishName(pointer(offset), np)
    BY <1>3, <1>11 DEF PutPointer
  <2>2. PICK u \in po : u.suffix = n /\ FinishName(pointer(u.offset), np)
    BY <1>3, <2>1 DEF Known
  <2>3. n \in SuffixesTo(m, i)
    BY <1>4, <2>2 DEF SaidOf
  <2>4. Tails(n) \subseteq SuffixesTo(m, i)
    BY <1>5, <2>3, SuffixesClosed
  <2>5. m[i] # RootName /\ Tails(m[i]) = SaidOf(np) \cup Tails(n)
    BY <1>4, <1>6, <2>1 DEF Underway
  <2>6. SaidOf(po \cup np) = SuffixesTo(m, i) \cup Tails(m[i])
    BY <1>4, <1>9, <2>4, <2>5
  <2>7. Spelled(m, i + 1, IF i < Len(m) THEN m[i + 1] ELSE Empty, po \cup np, {})
    BY <1>4, <1>5, <1>6, <2>1, <2>5, <2>6, QFinish
  <2>. QED
    BY <1>8, <2>2, <2>7
<1>12. PICK np2, o : np2 = np \cup {[suffix |-> n, offset |-> o]} /\ o = Len(compressed)
  OBVIOUS
<1>13. ASSUME Running, n # RootName, Known = {}
       PROVE  /\ np2 = new_part_offsets \cup Part /\ IsFiniteSet(np2)
              /\ OneEach(po \cup np2) /\ SaidOf(np2) = SaidOf(np) \cup {n}
              /\ m[i] # RootName /\ Tails(m[i]) = SaidOf(np) \cup Tails(n)
  <2>1. np2 = new_part_offsets \cup Part
    BY <1>3, <1>12 DEF Part
  <2>2. n \notin SaidOf(po)
    BY <1>3, <1>13 DEF Known, SaidOf
  <2>3. OneEach(po \cup np2) /\ SaidOf(np2) = SaidOf(np) \cup {n}
    BY <1>4, <1>5, <1>12, <2>2, NewPart
  <2>4. IsFiniteSet(np2)
    BY <1>4, <1>12, FS_AddElement
  <2>5. m[i] # RootName /\ Tails(m[i]) = SaidOf(np) \cup Tails(n)
    BY <1>4, <1>6, <1>13 DEF Underway
  <2>. QED
    BY <2>1, <2>3, <2>4, <2>5
<1>14. CASE PutLabel
  <2>1. /\ Running /\ n # RootName /\ Known = {}
        /\ new_part_offsets' = new_part_offsets \cup Part
        /\ name' = Tail(n) /\ names' = m /\ i' = i /\ part_offsets' = po
    BY <1>3, <1>14 DEF PutLabel
  <2>2. /\ Tails(n) = {n} \cup Tails(Tail(n))
        /\ Tail(n) \in Seq(Label) /\ Len(Tail(n)) = Len(n) - 1
    BY <1>5, <2>1, TailsOf, HeadAndTail
  <2>3. Underway(m, i, Tail(n), np2)
    BY <1>13, <2>1, <2>2 DEF Underway
  <2>4. Longer(np2, Tail(n))
    <3>1. PICK L \in Nat : L = Len(n)
      BY <1>5, LenProperties
    <3>2. ASSUME NEW q \in np2 PROVE Len(q.suffix) > L - 1
      <4>1. CASE q \in np
        <5>1. PICK x : x = Len(q.suffix)
          OBVIOUS
        <5>2. x > L
          BY <1>4, <3>1, <4>1, <5>1 DEF Longer
        <5>3. x \in Int
          <6>1. q.suffix \in Seq(Label)
            BY <1>1, <1>3, <4>1 DEF CType, Parts
          <6>. QED
            BY <5>1, <6>1, LenProperties
        <5>. QED
          BY <5>1, <5>2, <5>3
      <4>2. CASE q \notin np
        <5>1. q.suffix = n
          BY <1>12, <4>2
        <5>2. L > L - 1
          OBVIOUS
        <5>. QED
          BY <3>1, <5>1, <5>2
      <4>. QED
        BY <4>1, <4>2
    <3>. QED
      BY <2>2, <3>1, <3>2 DEF Longer
  <2>. QED
    BY <1>4, <1>13, <2>1, <2>3, <2>4 DEF Spelled
<1>15. CASE PutLastLabel
  <2>1. /\ Running /\ n # RootName /\ Known = {} /\ Len(n) = 1
        /\ FinishName(Append(spelling(Head(n)), 0), new_part_offsets \cup Part)
    BY <1>3, <1>15 DEF PutLastLabel
  <2>2. Tails(n) = {n}
    <3>1. Tail(n) \in Seq(Label) /\ Len(Tail(n)) = 0
      BY <1>5, <2>1, HeadAndTail
    <3>2. Tail(n) = <<>>
      BY <3>1, EmptySeq
    <3>. QED
      BY <1>5, <2>1, <3>2, TailsOf, NoTails
  <2>3. SaidOf(po \cup np2) = SuffixesTo(m, i) \cup Tails(m[i])
    BY <1>4, <1>9, <1>13, <2>1, <2>2
  <2>4. Spelled(m, i + 1, IF i < Len(m) THEN m[i + 1] ELSE Empty, po \cup np2, {})
    BY <1>4, <1>5, <1>6, <1>13, <2>1, <2>3, QFinish
  <2>. QED
    BY <1>8, <1>13, <2>1, <2>4
<1>16. CASE UNCHANGED compressVars
  BY <1>3, <1>4, <1>16 DEF compressVars, Spelled
<1>. QED
  BY <1>10, <1>11, <1>14, <1>15, <1>16 DEF Compress

LEMMA SpelledOnce == QInv => SuffixSpelledOnce
<1>. SUFFICES ASSUME QInv, ProperList
              PROVE  /\ {p.suffix : p \in part_offsets} = Suffixes
                     /\ Cardinality(part_offsets) = Cardinality(Suffixes)
  BY DEF SuffixSpelledOnce
<1>1. PICK po : po = part_offsets
  OBVIOUS
<1>2. /\ IsFiniteSet(po) /\ OneEach(po \cup new_part_offsets)
      /\ SaidOf(po) = SuffixesTo(names, i)
  BY <1>1 DEF QInv, Spelled
<1>3. SuffixesTo(names, i) = Suffixes
  BY DEF Suffixes, SuffixesTo, Tails
<1>4. SaidOf(po) = Suffixes
  BY <1>2, <1>3
<1>5. PICK f : f = [p \in po |-> p.suffix]
  OBVIOUS
<1>6. f \in Bijection(po, SaidOf(po))
  <2>1. f \in [po -> SaidOf(po)]
    BY <1>5 DEF SaidOf
  <2>2. \A p, q \in po : f[p] = f[q] => p = q
    BY <1>2, <1>5 DEF OneEach
  <2>3. \A s \in SaidOf(po) : \E p \in po : f[p] = s
    BY <1>5 DEF SaidOf
  <2>. QED
    BY <2>1, <2>2, <2>3, Fun_IsBij
<1>7. Cardinality(SaidOf(po)) = Cardinality(po)
  <2>1. ExistsBijection(po, SaidOf(po))
    BY <1>6 DEF ExistsBijection
  <2>. QED
    BY <1>2, <2>1, FS_Bijection
<1>. QED
  BY <1>1, <1>4, <1>7 DEF SaidOf

(* Each suffix of the names before is spelled out exactly once: nothing is *)
(* written twice that a pointer could stand for, whatever the names share  *)
(* and however long the list is.                                           *)
THEOREM CompressedSuffixesSpelledOnce == CompressSpec => []SuffixSpelledOnce
BY QStart, QStep, SpelledOnce, PTL DEF CompressSpec
-----------------------------------------------------------------------------
(* The list on its way to the client.                                      *)

(* The options of the reply that carries the bytes r.                      *)
Reply(r) == <<[code |-> 53, data |-> <<2>>],
              [code |-> 119, data |-> r],
              [code |-> 51, data |-> <<0, 0, 14, 16>>]>>

(* The reply is made of the finished payload, and sent as it was made.     *)
Way(m, finished, hd, rw, opts, stat, snt, r) ==
  m # <<>> =>
    /\ snt = NotSent => /\ hd = "good" /\ rw = <<>> /\ stat = "decoded"
                        /\ \/ opts = <<>>
                           \/ finished /\ opts = Reply(r)
    /\ snt # NotSent => finished /\ snt = Reply(r)

WInv == Way(names, ~Running, header, raw, options, status, sent, compressed)

CodecInv == RInv /\ Reading

SearchInv == QInv /\ CodecInv /\ WInv

LEMMA ReplyOptions ==
  ASSUME NEW r \in Seq(Byte)
  PROVE  /\ Reply(r) \in Seq(Option) /\ Len(Reply(r)) = 3
         /\ Reply(r)[1] = [code |-> 53, data |-> <<2>>]
         /\ Reply(r)[2] = [code |-> 119, data |-> r]
         /\ Reply(r)[3] = [code |-> 51, data |-> <<0, 0, 14, 16>>]
<1>. DEFINE a == [code |-> 53, data |-> <<2>>]
            b == [code |-> 119, data |-> r]
            c == [code |-> 51, data |-> <<0, 0, 14, 16>>]
<1>1. <<2>> \in Seq(Byte) /\ <<0, 0, 14, 16>> \in Seq(Byte)
  BY DEF Byte
<1>2. 53 \in Codes /\ 119 \in Codes /\ 51 \in Codes
  BY DEF Codes
<1>3. a \in Option /\ b \in Option /\ c \in Option
  BY <1>1, <1>2 DEF Option
<1>. HIDE DEF a, b, c
<1>4. /\ <<a, b, c>> \in Seq(Option) /\ Len(<<a, b, c>>) = 3
      /\ <<a, b, c>>[1] = a /\ <<a, b, c>>[2] = b /\ <<a, b, c>>[3] = c
  BY <1>3
<1>5. Reply(r) = <<a, b, c>>
  BY DEF Reply, a, b, c
<1>. QED
  BY <1>4, <1>5 DEF a, b, c

LEMMA ReplyKinds ==
  /\ DhcpOption[53] = [kind |-> "message", width |-> 1]
  /\ DhcpOption[119] = [kind |-> "octets", width |-> 1]
  /\ DhcpOption[51] = [kind |-> "fixed", width |-> 4]
BY DEF DhcpOption, Codes

LEMMA ReplySayable ==
  ASSUME NEW r \in Seq(Byte), Len(r) < 256
  PROVE  \A k \in 1 .. Len(Reply(r)) : Sayable(Reply(r)[k])
<1>1. Len(<<2>>) = 1 /\ <<2>>[1] = 2 /\ Len(<<0, 0, 14, 16>>) = 4
  OBVIOUS
<1>2. Sayable([code |-> 53, data |-> <<2>>])
  <2>1. Len(<<2>>) < 256 /\ 2 \in 1 .. 8
    BY <1>1
  <2>2. \A d : value(53, d) = d
    BY ReplyKinds DEF value
  <2>3. accepts(53, <<2>>)
    BY <1>1, <2>1, ReplyKinds DEF accepts
  <2>. QED
    BY <2>1, <2>2, <2>3 DEF Sayable
<1>3. Sayable([code |-> 119, data |-> r])
  <2>1. \A d : value(119, d) = d /\ accepts(119, d)
    BY ReplyKinds DEF value, accepts
  <2>. QED
    BY <2>1 DEF Sayable
<1>4. Sayable([code |-> 51, data |-> <<0, 0, 14, 16>>])
  <2>1. Len(<<0, 0, 14, 16>>) < 256
    BY <1>1
  <2>2. \A d : value(51, d) = d
    BY ReplyKinds DEF value
  <2>3. accepts(51, <<0, 0, 14, 16>>)
    BY <1>1, ReplyKinds DEF accepts
  <2>. QED
    BY <2>1, <2>2, <2>3 DEF Sayable
<1>5. ASSUME NEW k \in 1 .. 3 PROVE k = 1 \/ k = 2 \/ k = 3
  OBVIOUS
<1>6. /\ Len(Reply(r)) = 3 /\ Sayable(Reply(r)[1]) /\ Sayable(Reply(r)[2])
      /\ Sayable(Reply(r)[3])
  BY <1>2, <1>3, <1>4, ReplyOptions
<1>. QED
  BY <1>5, <1>6

LEMMA NotSentYet == <<>> # NotSent /\ \A r \in Seq(Byte) : Reply(r) # NotSent
<1>1. <<>> \in Seq(Option)
  OBVIOUS
<1>. QED
  BY <1>1, ReplyOptions, CodecAssumption

LEMMA SearchStart == SearchInit => SearchInv
<1>. SUFFICES ASSUME SearchInit PROVE SearchInv
  OBVIOUS
<1>1. QInv
  BY QStart DEF SearchInit
<1>2. CASE names = <<>> /\ Init
  <2>1. Reading
    BY <1>2 DEF Init, Reading
  <2>. QED
    BY <1>1, <1>2, <2>1, RoundTripStart DEF SearchInv, CodecInv, WInv, Way
<1>3. CASE /\ names # <<>> /\ header = "good" /\ raw = <<>> /\ position = 0
           /\ options = <<>> /\ status = "decoded" /\ sent = NotSent /\ mark = <<>>
  <2>1. /\ <<>> \in Seq(Byte) /\ <<>> \in Seq(Option) /\ <<>> \in Seq(Nat)
        /\ 0 \in 0 .. Len(<<>>)
    OBVIOUS
  <2>2. TInv
    BY <1>3, <2>1 DEF TInv, TypeOK
  <2>3. DInv
    BY <1>3, <2>2 DEF DInv, DecodedIsSayable
  <2>4. RInv
    BY <1>3, <2>3 DEF RInv, Laid, Arriving, RoundTrip, Fits
  <2>5. Reading
    BY <1>3 DEF Reading
  <2>6. WInv
    BY <1>3 DEF WInv, Way
  <2>. QED
    BY <1>1, <2>4, <2>5, <2>6 DEF SearchInv, CodecInv
<1>. QED
  BY <1>2, <1>3 DEF SearchInit

LEMMA CodecStays == CodecInv /\ UNCHANGED packetVars => CodecInv'
BY DEF CodecInv, RInv, DInv, TInv, TypeOK, DecodedIsSayable, Laid, Arriving,
       RoundTrip, Fits, Reading, packetVars

LEMMA SearchStep == SearchInv /\ [SearchNext]_searchVars => SearchInv'
<1>. SUFFICES ASSUME SearchInv, [SearchNext]_searchVars PROVE SearchInv'
  OBVIOUS
<1>1. QInv'
  BY QStep DEF SearchInv, SearchNext, PushDomainSearch, searchVars
<1>2. /\ QInv /\ CodecInv /\ WInv /\ CType /\ TypeOK
  BY DEF SearchInv, QInv, KInv, CodecInv, RInv, DInv, TInv
<1>3. compressed \in Seq(Byte) /\ (compressed' = compressed => names' = names)
  BY <1>2 DEF CType, SearchNext, PushDomainSearch, searchVars, compressVars, Compress,
     PutRoot, PutPointer, PutLabel, PutLastLabel, FinishName
<1>4. CASE Compress /\ UNCHANGED packetVars
  <2>1. Running /\ names' = names
    BY <1>4 DEF Compress, PutRoot, PutPointer, PutLabel, PutLastLabel, FinishName
  <2>2. WInv'
    BY <1>2, <1>4, <2>1 DEF WInv, Way, packetVars
  <2>. QED
    BY <1>1, <1>2, <1>4, <2>2, CodecStays DEF SearchInv
<1>5. CASE PushDomainSearch
  <2>1. /\ names # <<>> /\ ~Running /\ options = <<>> /\ sent = NotSent
        /\ options' = Reply(compressed)
        /\ header' = header /\ raw' = raw /\ position' = position
        /\ status' = status /\ sent' = sent /\ mark' = mark
        /\ names' = names /\ i' = i /\ compressed' = compressed
    BY <1>5 DEF PushDomainSearch, Reply, compressVars
  <2>2. header = "good" /\ raw = <<>> /\ status = "decoded"
    BY <1>2, <2>1 DEF WInv, Way
  <2>3. options' \in Seq(Option)
    BY <1>3, <2>1, ReplyOptions
  <2>4. TInv'
    BY <1>2, <2>1, <2>2, <2>3 DEF TInv, TypeOK
  <2>5. DInv' /\ RoundTrip' /\ Arriving'
    BY <2>1, <2>2, <2>4 DEF DInv, DecodedIsSayable, RoundTrip, Arriving, Fits
  <2>6. Laid'
    BY <1>2, <2>1 DEF CodecInv, RInv, Laid
  <2>7. Reading'
    BY <2>1, <2>2 DEF Reading
  <2>8. WInv'
    BY <2>1, <2>2 DEF WInv, Way, Running
  <2>. QED
    BY <1>1, <2>5, <2>6, <2>7, <2>8 DEF SearchInv, CodecInv, RInv
<1>6. CASE Composed /\ Next /\ UNCHANGED compressVars
  <2>1. CodecInv'
    BY <1>2, <1>6, RoundTripStep, ReadingStep DEF CodecInv
  <2>2. names' = names /\ (Running <=> Running') /\ compressed' = compressed
    BY <1>6 DEF compressVars, Running
  <2>3. WInv'
    <3>1. CASE names = <<>>
      BY <2>2, <3>1 DEF WInv, Way
    <3>2. CASE names # <<>> /\ sent = NotSent
      <4>1. options # <<>>
        BY <1>6, <3>2 DEF Composed
      <4>2. ~Running /\ options = Reply(compressed) /\ status = "decoded"
        BY <1>2, <3>2, <4>1 DEF WInv, Way
      <4>3. sent' = options
        BY <1>6, <4>2 DEF Next, Read, Write, RejectHeader, AcceptHeader, ReadEnd,
           ReadPad, ReadOption, SkipOption, RejectTruncated, Framed, BeginWriting,
           WriteOption, WriteEnd
      <4>4. sent' # NotSent
        BY <1>3, <4>2, <4>3, NotSentYet
      <4>. QED
        BY <2>2, <4>2, <4>3, <4>4 DEF WInv, Way
    <3>3. CASE names # <<>> /\ sent # NotSent
      <4>1. sent' = sent
        BY <1>6, <3>3 DEF Next, Read, Write, RejectHeader, AcceptHeader, ReadEnd,
           ReadPad, ReadOption, SkipOption, RejectTruncated, BeginWriting,
           WriteOption, WriteEnd
      <4>. QED
        BY <1>2, <2>2, <3>3, <4>1 DEF WInv, Way
    <3>. QED
      BY <3>1, <3>2, <3>3
  <2>. QED
    BY <1>1, <2>1, <2>3 DEF SearchInv
<1>7. CASE UNCHANGED searchVars
  <2>1. UNCHANGED packetVars /\ UNCHANGED compressVars
    BY <1>7 DEF searchVars
  <2>2. WInv'
    BY <1>2, <2>1 DEF WInv, Way, Running, packetVars, compressVars
  <2>. QED
    BY <1>1, <1>2, <2>1, <2>2, CodecStays DEF SearchInv
<1>. QED
  BY <1>4, <1>5, <1>6, <1>7 DEF SearchNext

LEMMA Arrives == SearchInv => SearchListArrives
<1>. SUFFICES ASSUME SearchInv, names # <<>>, ProperList, Len(compressed) < 256,
                     sent # NotSent, status \in {"decoded", "rejected"}
              PROVE  /\ status = "decoded" /\ Len(options) = 3
                     /\ options[2] = [code |-> 119, data |-> compressed]
                     /\ Decoded = [k \in DOMAIN names |-> labels_of(names[k])]
  BY DEF SearchListArrives
<1>1. /\ QInv /\ KInv /\ CType /\ RoundTrip /\ WInv
  BY DEF SearchInv, QInv, KInv, CodecInv, RInv
<1>2. compressed \in Seq(Byte) /\ names \in Seq(Name) /\ i \in 1 .. Len(names) + 1
  BY <1>1, ListsAssumption DEF CType
<1>3. ~Running /\ sent = Reply(compressed)
  BY <1>1 DEF WInv, Way
<1>4. Fits
  BY <1>2, <1>3, ReplySayable DEF Fits
<1>5. status = "decoded" /\ options = Reply(compressed)
  BY <1>1, <1>3, <1>4 DEF RoundTrip
<1>6. Len(options) = 3 /\ options[2] = [code |-> 119, data |-> compressed]
  BY <1>2, <1>5, ReplyOptions
<1>7. InReach(compressed)
  <2>1. Len(compressed) \in Nat
    BY <1>2, LenProperties
  <2>. QED
    BY <2>1 DEF InReach, Reach
<1>8. Len(names) \in Nat /\ DOMAIN names = 1 .. Len(names)
  BY <1>2, LenProperties
<1>9. ~(i <= Len(names))
  BY <1>3 DEF Running
<1>10. i - 1 = Len(names)
  BY <1>2, <1>8, <1>9
<1>11. BetweenNames
  <2>1. PICK D, st :
           Told(names, i, name, part_offsets, new_part_offsets, compressed, D, st)
    BY <1>1 DEF KInv, SomeTold
  <2>2. new_part_offsets = {}
    BY <1>9, <2>1 DEF Told, Opened
  <2>. QED
    BY <1>3, <2>2 DEF BetweenNames
<1>12. Decoded = [k \in 1 .. i - 1 |-> labels_of(names[k])]
  BY <1>1, <1>7, <1>11, NamesTold DEF NamesRoundTrip
<1>. QED
  BY <1>5, <1>6, <1>8, <1>10, <1>12

LEMMA SearchKept == SearchSpec => []SearchInv
BY SearchStart, SearchStep, PTL DEF SearchSpec

(* Any list of host names whose payload fits one option reaches the client *)
(* as it was configured: option 119 is the payload, bytes that are not a   *)
(* text are not trimmed on the way, the packet is not dropped, and what    *)
(* the client reads in the payload are the names, in their order.          *)
THEOREM SearchListReachesClient == SearchSpec => []SearchListArrives
BY SearchKept, Arrives, PTL

(* What is proved of the packets of the codec alone holds of the replies   *)
(* that carry a search list, too.                                          *)
THEOREM SearchRepliesRead ==
  SearchSpec => [](TypeOK /\ DecodedIsSayable /\ RoundTrip /\ ReadsWhatIsThere)
<1>1. SearchInv => TypeOK /\ DecodedIsSayable /\ RoundTrip
  BY DEF SearchInv, CodecInv, RInv, DInv, TInv
<1>2. SearchInv => ReadsWhatIsThere
  BY BookFound DEF SearchInv, CodecInv, Reading, ReadsWhatIsThere
<1>. QED
  BY <1>1, <1>2, SearchKept, PTL

(* ... and so does what is proved of the compression.                      *)
THEOREM SearchListsCompressed ==
  SearchSpec => [](/\ SuffixSpelledOnce
                   /\ InReach(compressed) => NamesRoundTrip /\ OffsetsNameSuffixes)
<1>1. SearchInv => /\ SuffixSpelledOnce
                   /\ InReach(compressed) => NamesRoundTrip /\ OffsetsNameSuffixes
  BY SpelledOnce, NamesTold, OffsetsTold DEF SearchInv, QInv
<1>. QED
  BY <1>1, SearchKept, PTL
=============================================================================
