----------------------------- MODULE Http3Proofs -----------------------------
(***************************************************************************)
(* Proofs about Http3, for any window, any modulus, any sizes of frames    *)
(* and slices, and any ends that close: the stream stays whole, and every  *)
(* unit that has been taken is credited once.                              *)
(***************************************************************************)
EXTENDS Http3, SequenceTheorems, WellFoundedInduction, TLAPS

Kinds == {"HEADERS", "DATA", "WINDOW_UPDATE", "unit", "text", "increment"}
Cell == [t : Kinds, n : Nat]

LEMMA CellFields ==
  ASSUME NEW c \in Cell
  PROVE  c.t \in Kinds /\ c.n \in Nat
BY DEF Cell

\* What a sequence of cells has.
LEMMA CellsOf ==
  ASSUME NEW s \in Seq(Cell)
  PROVE  /\ Len(s) \in Nat /\ DOMAIN s = 1..Len(s)
         /\ \A i \in 1..Len(s) : s[i] \in Cell /\ s[i].n \in Nat
<1>1. \A i \in 1..Len(s) : s[i] \in Cell
  BY ElementOfSeq
<1>2. \A i \in 1..Len(s) : s[i].n \in Nat
  BY Zenon, <1>1, CellFields
<1>. QED BY <1>1, <1>2, LenProperties

\* An end and its peer.
LEMMA Peers ==
  ASSUME NEW e \in Ends
  PROVE  Peer(e) \in Ends /\ Peer(Peer(e)) = e /\ Peer(e) # e
BY DEF Ends, Peer

\* Any set of numbers has a smallest one.
LEMMA SmallestNumber ==
  ASSUME NEW T, T \subseteq Nat, T # {}
  PROVE  \E x \in T : \A y \in T : x <= y
<1>. DEFINE R == OpToRel(<, Nat)
<1>1. IsWellFoundedOn(R, Nat)
  BY NatLessThanWellFounded
<1>2. \A x, y \in Nat : y < x => <<y, x>> \in R
  BY DEF OpToRel
<1>. HIDE DEF R
<1>3. PICK x \in T : \A y \in T : <<y, x>> \notin R
  BY <1>1, WFMin
<1>4. \A y \in T : x <= y
  <2>. TAKE y \in T
  <2>1. x \in Nat /\ y \in Nat /\ ~(y < x)
    BY <1>2, <1>3
  <2>. QED
    BY <2>1
<1>. QED
  BY <1>4

\* What holds of 0 and of each number after one it holds of, up to n, holds up to n.
LEMMA UpTo ==
  ASSUME NEW n \in Nat, NEW G, 0 \in G, \A k \in 0..n : k < n /\ k \in G => k + 1 \in G
  PROVE  \A k \in 0..n : k \in G
<1>. DEFINE T == {k \in 0..n : k \notin G}
<1>. SUFFICES ASSUME T # {} PROVE FALSE
  OBVIOUS
<1>1. PICK x \in T : \A y \in T : x <= y
  <2>. T \subseteq Nat
    OBVIOUS
  <2>. HIDE DEF T
  <2>. QED BY SmallestNumber
<1>2. x \in 0..n /\ x \notin G /\ x # 0
  OBVIOUS
<1>3. x - 1 \in 0..n /\ x - 1 < n /\ x - 1 + 1 = x
  BY <1>2
<1>4. x - 1 \in G
  BY <1>1, <1>3
<1>. QED
  BY <1>2, <1>3, <1>4

------------------------------------------------------------------------------
(***************************************************************************)
(* Concatenations by their elements.                                       *)
(***************************************************************************)
Cat(a, b, c) ==
  /\ c \in Seq(Cell) /\ Len(c) = Len(a) + Len(b)
  /\ \A i \in 1..Len(a) : c[i] = a[i]
  /\ \A i \in 1..Len(b) : c[Len(a) + i] = b[i]

\* Cat is concatenation, said cell by cell.
LEMMA CatOf ==
  ASSUME NEW a \in Seq(Cell), NEW b \in Seq(Cell)
  PROVE  Cat(a, b, a \o b)
<1>1. /\ a \o b \in Seq(Cell)
      /\ Len(a \o b) = Len(a) + Len(b)
      /\ \A i \in 1..(Len(a) + Len(b)) :
           (a \o b)[i] = IF i <= Len(a) THEN a[i] ELSE b[i - Len(a)]
  BY Zenon, ConcatProperties
<1>2. PICK c : c = a \o b
  OBVIOUS
<1>3. PICK m \in Nat, n \in Nat : m = Len(a) /\ n = Len(b)
  BY LenProperties
<1>4. \A i \in 1..(m + n) : c[i] = IF i <= m THEN a[i] ELSE b[i - m]
  BY Zenon, <1>1, <1>2, <1>3
<1>5. \A i \in 1..m : c[i] = a[i]
  BY <1>3, <1>4
<1>6. ASSUME NEW i \in 1..n PROVE c[m + i] = b[i]
  <2>1. m + i \in 1..(m + n) /\ ~(m + i <= m) /\ m + i - m = i
    OBVIOUS
  <2>2. c[m + i] = b[m + i - m]
    BY SMTT(20), <1>4, <2>1
  <2>. QED BY Zenon, <2>1, <2>2
<1>. QED BY Zenon, <1>1, <1>2, <1>3, <1>5, <1>6 DEF Cat

\* A sequence cut behind its first k cells.
CutAt(s, k, a, b) ==
  /\ a \in Seq(Cell) /\ b \in Seq(Cell) /\ s = a \o b
  /\ Len(a) = k /\ Len(b) = Len(s) - k
  /\ \A i \in 1..k : a[i] = s[i]
  /\ \A i \in 1..(Len(s) - k) : b[i] = s[k + i]

\* A sequence cut in two is both parts again.
LEMMA Split ==
  ASSUME NEW s \in Seq(Cell), NEW k \in 0..Len(s)
  PROVE  CutAt(s, k, SubSeq(s, 1, k), SubSeq(s, k + 1, Len(s)))
<1>a. PICK a : a = SubSeq(s, 1, k)
  OBVIOUS
<1>b. PICK b : b = SubSeq(s, k + 1, Len(s))
  OBVIOUS
<1>1. PICK n \in Nat : n = Len(s)
  BY LenProperties
<1>2. k \in 0..n /\ \A i \in 1..n : s[i] \in Cell
  BY <1>1, ElementOfSeq
<1>3. /\ a \in Seq(Cell) /\ Len(a) = (IF 1 <= k THEN k - 1 + 1 ELSE 0)
      /\ \A i \in 1..(k - 1 + 1) : a[i] = s[1 + i - 1]
  <2>1. \A i \in 1..k : s[i] \in Cell
    BY <1>2
  <2>2. 1 \in Int /\ k \in Int
    BY <1>2
  <2>. QED BY <1>a, <1>b, <2>1, <2>2, SubSeqProperties
<1>4. /\ b \in Seq(Cell) /\ Len(b) = (IF k + 1 <= n THEN n - (k + 1) + 1 ELSE 0)
      /\ \A i \in 1..(n - (k + 1) + 1) : b[i] = s[k + 1 + i - 1]
  <2>1. \A i \in (k + 1)..n : s[i] \in Cell
    BY <1>2
  <2>2. n \in Int /\ k + 1 \in Int
    BY <1>2
  <2>. QED BY <1>a, <1>b, <1>1, <2>1, <2>2, SubSeqProperties
<1>5. Len(a) = k /\ Len(b) = n - k
  BY <1>2, <1>3, <1>4
<1>6. \A i \in 1..k : a[i] = s[i]
  <2>. TAKE i \in 1..k
  <2>1. i \in 1..(k - 1 + 1) /\ 1 + i - 1 = i
    BY <1>2
  <2>. QED BY Zenon, <1>3, <2>1
<1>7. \A i \in 1..(n - k) : b[i] = s[k + i]
  <2>. TAKE i \in 1..(n - k)
  <2>1. i \in 1..(n - (k + 1) + 1) /\ k + 1 + i - 1 = k + i
    BY <1>2
  <2>. QED BY Zenon, <1>4, <2>1
<1>8. s = a \o b
  <2>1. 1 \in 1..(n + 1) /\ k \in (1 - 1)..n /\ n \in k..n
    BY <1>2
  <2>2. SubSeq(s, 1, k) \o SubSeq(s, k + 1, n) = SubSeq(s, 1, n)
    BY <1>1, <2>1, ConcatAdjacentSubSeq
  <2>3. SubSeq(s, 1, n) = s
    BY <1>1, SubSeqFull
  <2>. QED BY Zenon, <1>a, <1>b, <1>1, <2>2, <2>3
<1>. QED BY ZenonT(60), <1>1, <1>3, <1>4, <1>5, <1>6, <1>7, <1>8, <1>a, <1>b DEF CutAt

------------------------------------------------------------------------------
(***************************************************************************)
(* Credits adds up.                                                        *)
(***************************************************************************)
SumTo(s, k, f) ==
  f \in [0..k -> Nat] /\ f[0] = 0 /\ \A i \in 1..k : f[i] = f[i - 1] + Credit(s[i])

LEMMA CreditType ==
  ASSUME NEW c \in Cell
  PROVE  Credit(c) \in Nat
BY CellFields DEF Credit

\* The sum that Credits defines by itself exists, as far as it is followed.
LEMMA SumExists ==
  ASSUME NEW s \in Seq(Cell), NEW n \in Nat, n = Len(s)
  PROVE  \E f : SumTo(s, n, f)
<1>. DEFINE G == {k \in 0..n : \E f : SumTo(s, k, f)}
<1>1. 0 \in G
  <2>1. SumTo(s, 0, [i \in 0..0 |-> 0])
    BY DEF SumTo
  <2>. QED BY <2>1
<1>2. ASSUME NEW k \in 0..n, k < n, k \in G
      PROVE  k + 1 \in G
  <2>1. PICK f : SumTo(s, k, f)
    BY <1>2
  <2>2. k + 1 \in 1..n /\ k + 1 \in 0..n /\ k \in Nat
    BY <1>2
  <2>3. PICK v \in Nat : v = Credit(s[k + 1])
    <3>1. s[k + 1] \in Cell
      BY <2>2, ElementOfSeq
    <3>. QED BY <3>1, CreditType
  <2>4. PICK g : g = [i \in 0..(k + 1) |-> IF i <= k THEN f[i] ELSE f[k] + v]
    OBVIOUS
  <2>5. f \in [0..k -> Nat] /\ f[0] = 0 /\ \A i \in 1..k : f[i] = f[i - 1] + Credit(s[i])
    BY <2>1 DEF SumTo
  <2>6. \A i \in 0..k : f[i] \in Nat
    BY <2>5
  <2>7. g \in [0..(k + 1) -> Nat] /\ g[0] = 0
    BY <2>2, <2>4, <2>5, <2>6
  <2>8. ASSUME NEW i \in 1..(k + 1)
        PROVE  g[i] = g[i - 1] + Credit(s[i])
    <3>1. CASE i <= k
      <4>1. i \in 1..k /\ i - 1 \in 0..k /\ i \in 0..(k + 1) /\ i - 1 \in 0..(k + 1) /\ i - 1 <= k
        BY <2>2, <3>1
      <4>2. g[i] = f[i] /\ g[i - 1] = f[i - 1]
        BY <2>4, <3>1, <4>1
      <4>. QED BY Zenon, <2>5, <4>1, <4>2
    <3>2. CASE i = k + 1
      <4>1. i - 1 = k /\ k \in 0..(k + 1) /\ k <= k /\ k + 1 \in 0..(k + 1) /\ ~(k + 1 <= k)
        BY <2>2, <3>2
      <4>2. g[k + 1] = f[k] + v /\ g[k] = f[k]
        BY <2>4, <4>1
      <4>. QED BY Zenon, <2>3, <3>2, <4>1, <4>2
    <3>. QED BY <2>2, <3>1, <3>2
  <2>9. SumTo(s, k + 1, g)
    BY <2>7, <2>8 DEF SumTo
  <2>. QED BY <2>2, <2>9
<1>. HIDE DEF G
<1>3. \A k \in 0..n : k \in G
  BY <1>1, <1>2, UpTo
<1>. QED BY <1>3 DEF G

\* So Credits is the sum over all cells.
LEMMA CreditsSum ==
  ASSUME NEW s \in Seq(Cell), NEW n \in Nat, n = Len(s)
  PROVE  \E f : SumTo(s, n, f) /\ Credits(s) = f[n]
<1>. DEFINE Body(f) == [i \in 0..Len(s) |-> IF i = 0 THEN 0 ELSE f[i - 1] + Credit(s[i])]
<1>1. PICK f : SumTo(s, n, f)
  BY SumExists
<1>2. f = Body(f)
  <2>1. f \in [0..n -> Nat] /\ f[0] = 0 /\ \A i \in 1..n : f[i] = f[i - 1] + Credit(s[i])
    BY <1>1 DEF SumTo
  <2>2. \A i \in 0..n : f[i] = IF i = 0 THEN 0 ELSE f[i - 1] + Credit(s[i])
    <3>. TAKE i \in 0..n
    <3>1. i = 0 \/ i \in 1..n
      OBVIOUS
    <3>. QED BY <2>1, <3>1
  <2>. QED BY <2>1, <2>2
<1>3. PICK g : g = CHOOSE h : h = Body(h)
  OBVIOUS
<1>. HIDE DEF Body
<1>4. g = Body(g)
  BY <1>2, <1>3
<1>5. Credits(s) = g[n]
  BY <1>3 DEF Credits, Body
<1>6. g[0] = 0 /\ \A i \in 1..n : g[i] = g[i - 1] + Credit(s[i])
  <2>1. \A i \in 0..n : g[i] = IF i = 0 THEN 0 ELSE g[i - 1] + Credit(s[i])
    <3>1. g = [i \in 0..n |-> IF i = 0 THEN 0 ELSE g[i - 1] + Credit(s[i])]
      BY <1>4 DEF Body
    <3>. QED BY <3>1
  <2>. QED BY <2>1
<1>7. \A i \in 0..n : i \in {k \in Nat : g[k] \in Nat}
  <2>. DEFINE G == {k \in Nat : g[k] \in Nat}
  <2>1. 0 \in G
    BY <1>6
  <2>2. ASSUME NEW k \in 0..n, k < n, k \in G
        PROVE  k + 1 \in G
    <3>1. k + 1 \in 1..n /\ k + 1 - 1 = k /\ k + 1 \in Nat
      BY <2>2
    <3>2. s[k + 1] \in Cell
      BY <3>1, ElementOfSeq
    <3>3. PICK v \in Nat : v = Credit(s[k + 1])
      BY <3>2, CreditType
    <3>4. g[k + 1] = g[k] + v
      BY SMTT(20), <1>6, <3>1, <3>3
    <3>. QED BY <2>2, <3>1, <3>4
  <2>. HIDE DEF G
  <2>3. \A i \in 0..n : i \in G
    BY <2>1, <2>2, UpTo
  <2>. QED BY <2>3 DEF G
<1>8. g \in [0..n -> Nat]
  <2>1. g = [i \in 0..n |-> IF i = 0 THEN 0 ELSE g[i - 1] + Credit(s[i])]
    BY <1>4 DEF Body
  <2>. QED BY <1>7, <2>1
<1>. QED BY <1>5, <1>6, <1>8 DEF SumTo

\* What is in both parts is credited.
LEMMA CreditsCat ==
  ASSUME NEW a \in Seq(Cell), NEW b \in Seq(Cell), NEW c, Cat(a, b, c)
  PROVE  /\ Credits(c) = Credits(a) + Credits(b)
         /\ Credits(a) \in Nat /\ Credits(b) \in Nat /\ Credits(c) \in Nat
<1>1. PICK m \in Nat, n \in Nat : m = Len(a) /\ n = Len(b)
  BY LenProperties
<1>2. /\ c \in Seq(Cell) /\ Len(c) = m + n /\ m + n \in Nat
      /\ \A i \in 1..m : c[i] = a[i]
      /\ \A i \in 1..n : c[m + i] = b[i]
  BY <1>1 DEF Cat
<1>3. PICK f : SumTo(a, m, f) /\ Credits(a) = f[m]
  BY <1>1, CreditsSum
<1>4. PICK g : SumTo(b, n, g) /\ Credits(b) = g[n]
  BY <1>1, CreditsSum
<1>5. PICK h : SumTo(c, m + n, h) /\ Credits(c) = h[m + n]
  BY <1>2, CreditsSum
<1>6. /\ f[0] = 0 /\ \A i \in 1..m : f[i] = f[i - 1] + Credit(a[i])
      /\ g[0] = 0 /\ \A i \in 1..n : g[i] = g[i - 1] + Credit(b[i])
      /\ h[0] = 0 /\ \A i \in 1..(m + n) : h[i] = h[i - 1] + Credit(c[i])
  BY <1>3, <1>4, <1>5 DEF SumTo
<1>7. /\ \A i \in 0..m : f[i] \in Nat
      /\ \A i \in 0..n : g[i] \in Nat
      /\ \A i \in 0..(m + n) : h[i] \in Nat
  BY <1>3, <1>4, <1>5 DEF SumTo
<1>8. h[m] = f[m]
  <2>. DEFINE G == {k \in Nat : h[k] = f[k]}
  <2>1. 0 \in G
    BY <1>6
  <2>2. ASSUME NEW k \in 0..m, k < m, k \in G
        PROVE  k + 1 \in G
    <3>1. k + 1 \in 1..m /\ k + 1 - 1 = k /\ k + 1 \in Nat /\ k + 1 \in 1..(m + n)
      BY <2>2
    <3>2. h[k + 1] = h[k] + Credit(a[k + 1]) /\ f[k + 1] = f[k] + Credit(a[k + 1])
      BY SMTT(20), <1>2, <1>6, <3>1
    <3>. QED BY Zenon, <2>2, <3>1, <3>2
  <2>. HIDE DEF G
  <2>3. \A i \in 0..m : i \in G
    BY <2>1, <2>2, UpTo
  <2>4. m \in 0..m
    OBVIOUS
  <2>. QED BY <2>3, <2>4 DEF G
<1>9. h[m + n] = h[m] + g[n]
  <2>. DEFINE G == {k \in Nat : h[m + k] = h[m] + g[k]}
  <2>1. 0 \in G
    <3>1. h[m] \in Nat /\ m + 0 = m /\ 0 \in Nat
      BY <1>7
    <3>2. h[m] = h[m] + 0
      BY <3>1
    <3>. QED BY <1>6, <3>1, <3>2
  <2>2. ASSUME NEW k \in 0..n, k < n, k \in G
        PROVE  k + 1 \in G
    <3>1. /\ k + 1 \in 1..n /\ k + 1 - 1 = k /\ k + 1 \in Nat /\ m + (k + 1) \in 1..(m + n)
          /\ m + (k + 1) - 1 = m + k /\ k \in 0..n /\ m \in 0..(m + n)
      BY <2>2
    <3>2. PICK v : v = Credit(b[k + 1])
      OBVIOUS
    <3>3. h[m + (k + 1)] = h[m + k] + v /\ g[k + 1] = g[k] + v
      BY SMTT(20), <1>2, <1>6, <3>1, <3>2
    <3>4. PICK x \in Nat, y \in Nat : x = h[m] /\ y = g[k]
      BY Zenon, <1>7, <3>1
    <3>5. v \in Nat
      <4>1. b[k + 1] \in Cell
        BY <1>1, <3>1, ElementOfSeq
      <4>. QED BY <3>2, <4>1, CreditType
    <3>6. h[m + k] = x + y
      BY <2>2, <3>4
    <3>7. (x + y) + v = x + (y + v)
      BY <3>4, <3>5
    <3>. QED BY Zenon, <3>1, <3>3, <3>4, <3>6, <3>7
  <2>. HIDE DEF G
  <2>3. \A i \in 0..n : i \in G
    BY <2>1, <2>2, UpTo
  <2>4. n \in 0..n
    OBVIOUS
  <2>. QED BY <2>3, <2>4 DEF G
<1>10. f[m] \in Nat /\ g[n] \in Nat /\ h[m + n] \in Nat
  <2>1. m \in 0..m /\ n \in 0..n /\ m + n \in 0..(m + n)
    BY <1>1
  <2>. QED BY Zenon, <1>7, <2>1
<1>. QED BY Zenon, <1>3, <1>4, <1>5, <1>8, <1>9, <1>10

\* Nothing is credited where there is no increment.
LEMMA NoCredits ==
  ASSUME NEW s \in Seq(Cell), \A i \in 1..Len(s) : s[i].t # "increment"
  PROVE  Credits(s) = 0
<1>1. PICK n \in Nat : n = Len(s)
  BY LenProperties
<1>2. PICK f : SumTo(s, n, f) /\ Credits(s) = f[n]
  BY <1>1, CreditsSum
<1>3. f[0] = 0 /\ \A i \in 1..n : f[i] = f[i - 1] + Credit(s[i])
  BY <1>2 DEF SumTo
<1>. DEFINE G == {k \in Nat : f[k] = 0}
<1>4. 0 \in G
  BY <1>3
<1>5. ASSUME NEW k \in 0..n, k < n, k \in G
      PROVE  k + 1 \in G
  <2>1. k + 1 \in 1..n /\ k + 1 - 1 = k /\ k + 1 \in Nat
    BY <1>5
  <2>2. Credit(s[k + 1]) = 0
    BY <1>1, <2>1 DEF Credit
  <2>3. f[k + 1] = f[k] + 0 /\ f[k] = 0
    BY SMTT(20), <1>3, <1>5, <2>1, <2>2
  <2>. QED BY <2>1, <2>3
<1>. HIDE DEF G
<1>6. \A i \in 0..n : i \in G
  BY <1>4, <1>5, UpTo
<1>7. n \in 0..n
  OBVIOUS
<1>. QED BY <1>2, <1>6, <1>7 DEF G

\* A WINDOW_UPDATE credits its increment.
LEMMA OneCredit ==
  ASSUME NEW s \in Seq(Cell), Len(s) = 2, s[1].t = "WINDOW_UPDATE", s[2].t = "increment"
  PROVE  Credits(s) = s[2].n
<1>1. PICK f : SumTo(s, 2, f) /\ Credits(s) = f[2]
  BY CreditsSum
<1>2. f[0] = 0 /\ \A i \in 1..2 : f[i] = f[i - 1] + Credit(s[i])
  BY <1>1 DEF SumTo
<1>3. 1 \in 1..2 /\ 2 \in 1..2 /\ 1 - 1 = 0 /\ 2 - 1 = 1
  OBVIOUS
<1>4. f[1] = 0 + Credit(s[1]) /\ f[2] = f[1] + Credit(s[2])
  BY Zenon, <1>2, <1>3
<1>5. Credit(s[1]) = 0 /\ Credit(s[2]) = s[2].n
  BY DEF Credit
<1>6. s[2].n \in Nat
  BY <1>3, CellsOf
<1>. QED BY <1>1, <1>4, <1>5, <1>6

------------------------------------------------------------------------------
(***************************************************************************)
(* Counters that wrap.                                                     *)
(***************************************************************************)
LEMMA Division ==
  ASSUME NEW x \in Nat, NEW m \in Nat \ {0}
  PROVE  /\ x \div m \in Nat /\ x % m \in 0..(m - 1)
         /\ x = m * (x \div m) + (x % m)
BY Z3

\* A number has one remainder.
LEMMA OneRemainder ==
  ASSUME NEW m \in Nat \ {0}, NEW p \in Nat, NEW q \in Nat,
         NEW r \in 0..(m - 1), NEW s \in 0..(m - 1), m * p + r = m * q + s
  PROVE  r = s
<1>1. ASSUME NEW i \in Nat, NEW j \in Nat, NEW u \in 0..(m - 1), NEW v \in 0..(m - 1),
             i < j
      PROVE  m * i + u # m * j + v
  <2>1. PICK d \in Nat : j = i + d + 1
    <3>1. j - i - 1 \in Nat /\ j = i + (j - i - 1) + 1
      BY <1>1
    <3>. QED BY <3>1
  <2>2. m * j = m * i + m * d + m
    BY Z3, <2>1
  <2>3. m * i \in Nat /\ m * d \in Nat /\ m * j \in Nat
    BY Z3, <1>1
  <2>4. PICK x \in Nat, y \in Nat, z \in Nat : x = m * i /\ y = m * d /\ z = m * j
    BY <2>3
  <2>5. z = x + y + m
    BY <2>2, <2>4
  <2>6. x + u # z + v
    BY <2>5
  <2>. QED BY Zenon, <2>4, <2>6
<1>2. ~(p < q)
  BY Zenon, <1>1
<1>3. ~(q < p)
  BY Zenon, <1>1
<1>4. p = q
  BY <1>2, <1>3
<1>5. PICK x \in Nat : x = m * p
  BY Z3
<1>6. x + r = x + s
  BY Zenon, <1>4, <1>5
<1>. QED BY <1>5, <1>6

\* A counter that is enlarged wraps as the sum does.
LEMMA ModPlus ==
  ASSUME NEW m \in Nat \ {0}, NEW a \in Nat, NEW b \in Nat
  PROVE  ((a % m) + b) % m = (a + b) % m
<1>1. PICK p \in Nat, r \in 0..(m - 1) : p = a \div m /\ r = a % m /\ a = m * p + r
  BY Division
<1>2. r + b \in Nat /\ a + b \in Nat
  BY <1>1
<1>3. PICK q \in Nat, s \in 0..(m - 1) : s = (r + b) % m /\ r + b = m * q + s
  BY ZenonT(60), <1>2, Division
<1>4. PICK k \in Nat, t \in 0..(m - 1) : t = (a + b) % m /\ a + b = m * k + t
  BY ZenonT(60), <1>2, Division
<1>5. a + b = m * (p + q) + s
  BY Z3, <1>1, <1>3
<1>6. p + q \in Nat
  OBVIOUS
<1>7. s = t
  BY Zenon, <1>4, <1>5, <1>6, OneRemainder
<1>. QED BY Zenon, <1>1, <1>3, <1>4, <1>7

------------------------------------------------------------------------------
(***************************************************************************)
(* Frames.                                                                 *)
(***************************************************************************)
LEMMA ContentOf ==
  /\ Types = {"HEADERS", "DATA", "WINDOW_UPDATE"}
  /\ Content["DATA"] = "unit" /\ Content["HEADERS"] = "text"
  /\ Content["WINDOW_UPDATE"] = "increment"
  /\ \A type \in Types : /\ type \in Kinds /\ Content[type] \in Kinds /\ Content[type] \notin Types
                         /\ Content[type] = "unit" <=> type = "DATA"
                         /\ Content[type] = "increment" <=> type = "WINDOW_UPDATE"
BY DEF Types, Content, Kinds

\* One frame with n cells of payload.
FrameOf(f, type, n) ==
  /\ f \in Seq(Cell) /\ n \in Nat /\ Len(f) = n + 1 /\ type \in Types
  /\ f[1].t = type /\ f[1].n = n
  /\ \A i \in 1..n : f[1 + i].t = Content[type]
  /\ type = "WINDOW_UPDATE" => n = 1

\* The payload of the frame f is v.
Carries(f, v) == \A i \in 1..Len(v) : f[1 + i].n = v[i]

\* What Frame builds.
LEMMA FrameIs ==
  ASSUME NEW type \in Types, NEW n \in Nat, NEW v \in Seq(Nat), Len(v) = n,
         type = "WINDOW_UPDATE" => n = 1, NEW f, f = Frame(type, v)
  PROVE  FrameOf(f, type, n) /\ Carries(f, v)
<1>1. PICK h : h = [t |-> type, n |-> n]
  OBVIOUS
<1>2. PICK kind \in Kinds : kind = Content[type]
  BY ContentOf
<1>3. h \in Cell /\ h.t = type /\ h.n = n
  BY <1>1, ContentOf DEF Cell
<1>4. PICK b : b = [i \in 1..n |-> [t |-> kind, n |-> v[i]]]
  OBVIOUS
<1>5. /\ b \in Seq(Cell) /\ Len(b) = n
      /\ \A i \in 1..n : b[i].t = kind /\ b[i].n = v[i]
  <2>1. \A i \in 1..n : v[i] \in Nat
    BY ElementOfSeq
  <2>2. ASSUME NEW i \in 1..n
        PROVE  b[i] \in Cell /\ b[i].t = kind /\ b[i].n = v[i]
    <3>1. b[i] = [t |-> kind, n |-> v[i]]
      BY <1>4
    <3>. QED BY <2>1, <3>1 DEF Cell
  <2>3. b \in Seq(Cell) /\ Len(b) = n
    BY <1>4, <2>2
  <2>. QED BY <2>2, <2>3
<1>6. PICK a : a = <<h>>
  OBVIOUS
<1>7. a \in Seq(Cell) /\ Len(a) = 1 /\ a[1] = h
  BY <1>3, <1>6
<1>8. f = a \o b
  <2>1. DOMAIN v = 1..n
    BY LenProperties
  <2>2. f = <<[t |-> type, n |-> n]>> \o [i \in 1..n |-> [t |-> kind, n |-> v[i]]]
    BY Zenon, <1>2, <2>1 DEF Frame
  <2>. QED BY Zenon, <1>1, <1>4, <1>6, <2>2
<1>9. Cat(a, b, f)
  BY Zenon, <1>5, <1>7, <1>8, CatOf
<1>10. /\ f \in Seq(Cell) /\ Len(f) = 1 + n /\ \A i \in 1..1 : f[i] = a[i]
       /\ \A i \in 1..n : f[1 + i] = b[i]
  BY <1>5, <1>7, <1>9 DEF Cat
<1>11. f[1] = h /\ Len(f) = n + 1
  BY <1>7, <1>10
<1>12. \A i \in 1..n : f[1 + i].t = Content[type] /\ f[1 + i].n = v[i]
  BY Zenon, <1>2, <1>5, <1>10
<1>. QED BY Zenon, <1>3, <1>10, <1>11, <1>12 DEF FrameOf, Carries

\* What Framed says of a header.
Fits(s, i) ==
  /\ i + s[i].n <= Len(s)
  /\ \A j \in 1..s[i].n : s[i + j].t = Content[s[i].t]
  /\ s[i].t = "WINDOW_UPDATE" => s[i].n = 1
  /\ i + s[i].n < Len(s) => s[i + s[i].n + 1].t \in Types

LEMMA FramedIs ==
  ASSUME NEW s \in Seq(Cell), NEW len \in Nat, len = Len(s)
  PROVE  Framed(s) <=> /\ len # 0 => s[1].t \in Types
                       /\ \A i \in 1..len : s[i].t \in Types => Fits(s, i)
<1>1. DOMAIN s = 1..len /\ (s # <<>> <=> len # 0)
  BY LenProperties, EmptySeq
<1>. QED BY Zenon, <1>1 DEF Framed, Fits

\* Frames behind frames.
LEMMA FramedCat ==
  ASSUME NEW a \in Seq(Cell), NEW b \in Seq(Cell), NEW c, Cat(a, b, c), Framed(a), Framed(b)
  PROVE  Framed(c)
<1>1. PICK m \in Nat, n \in Nat : m = Len(a) /\ n = Len(b)
  BY LenProperties
<1>2. /\ c \in Seq(Cell) /\ Len(c) = m + n /\ m + n \in Nat
      /\ \A i \in 1..m : c[i] = a[i]
      /\ \A i \in 1..n : c[m + i] = b[i]
  BY <1>1 DEF Cat
<1>3. /\ m # 0 => a[1].t \in Types
      /\ \A i \in 1..m : a[i].t \in Types => Fits(a, i)
      /\ n # 0 => b[1].t \in Types
      /\ \A i \in 1..n : b[i].t \in Types => Fits(b, i)
  BY Zenon, <1>1, FramedIs
<1>4. m + n # 0 => c[1].t \in Types
  <2>1. CASE m # 0
    <3>1. 1 \in 1..m
      BY <2>1
    <3>. QED BY Zenon, <1>2, <1>3, <2>1, <3>1
  <2>2. CASE m = 0 /\ n # 0
    <3>1. 1 \in 1..n /\ m + 1 = 1
      BY <2>2
    <3>. QED BY Zenon, <1>2, <1>3, <2>2, <3>1
  <2>. QED BY <2>1, <2>2
<1>5. ASSUME NEW i \in 1..m, c[i].t \in Types
      PROVE  Fits(c, i)
  <2>1. c[i] = a[i] /\ a[i].t \in Types /\ Fits(a, i)
    BY Zenon, <1>2, <1>3, <1>5
  <2>2. PICK k \in Nat : k = a[i].n
    BY CellsOf, <1>1
  <2>3. /\ i + k <= m /\ \A j \in 1..k : a[i + j].t = Content[a[i].t]
        /\ a[i].t = "WINDOW_UPDATE" => k = 1
        /\ i + k < m => a[i + k + 1].t \in Types
    BY Zenon, <1>1, <2>1, <2>2 DEF Fits
  <2>4. \A j \in 1..k : c[i + j].t = Content[c[i].t]
    <3>. TAKE j \in 1..k
    <3>1. i + j \in 1..m
      BY <2>3
    <3>. QED BY Zenon, <1>2, <2>1, <2>3, <3>1
  <2>5. i + k <= m + n
    BY <2>3
  <2>6. i + k < m + n => c[i + k + 1].t \in Types
    <3>1. CASE i + k < m
      <4>1. i + k + 1 \in 1..m
        BY <3>1
      <4>. QED BY Zenon, <1>2, <2>3, <3>1, <4>1
    <3>2. CASE i + k = m
      <4>1. i + k < m + n => n # 0 /\ 1 \in 1..n
        BY <3>2
      <4>2. i + k + 1 = m + 1
        BY <3>2
      <4>. QED BY Zenon, <1>2, <1>3, <4>1, <4>2
    <3>. QED BY <2>3, <3>1, <3>2
  <2>. QED BY Zenon, <1>2, <2>1, <2>2, <2>3, <2>4, <2>5, <2>6 DEF Fits
<1>6. ASSUME NEW i \in 1..n, c[m + i].t \in Types
      PROVE  Fits(c, m + i)
  <2>1. c[m + i] = b[i] /\ b[i].t \in Types /\ Fits(b, i)
    BY Zenon, <1>2, <1>3, <1>6
  <2>2. PICK k \in Nat : k = b[i].n
    BY CellsOf, <1>1
  <2>3. /\ i + k <= n /\ \A j \in 1..k : b[i + j].t = Content[b[i].t]
        /\ b[i].t = "WINDOW_UPDATE" => k = 1
        /\ i + k < n => b[i + k + 1].t \in Types
    BY Zenon, <1>1, <2>1, <2>2 DEF Fits
  <2>4. \A j \in 1..k : c[m + i + j].t = Content[c[m + i].t]
    <3>. TAKE j \in 1..k
    <3>1. i + j \in 1..n /\ m + i + j = m + (i + j)
      BY <2>3
    <3>. QED BY Zenon, <1>2, <2>1, <2>3, <3>1
  <2>5. m + i + k <= m + n
    BY <2>3
  <2>6. m + i + k < m + n => c[m + i + k + 1].t \in Types
    <3>1. m + i + k < m + n => i + k < n /\ i + k + 1 \in 1..n
      OBVIOUS
    <3>2. m + i + k + 1 = m + (i + k + 1)
      OBVIOUS
    <3>. QED BY Zenon, <1>2, <2>3, <3>1, <3>2
  <2>. QED BY Zenon, <1>2, <2>1, <2>2, <2>3, <2>4, <2>5, <2>6 DEF Fits
<1>7. ASSUME NEW i \in 1..(m + n), c[i].t \in Types
      PROVE  Fits(c, i)
  <2>1. CASE i <= m
    <3>1. i \in 1..m
      BY <2>1
    <3>. QED BY Zenon, <1>5, <1>7, <3>1
  <2>2. CASE i > m
    <3>1. PICK j \in 1..n : i = m + j
      <4>1. i - m \in 1..n /\ i = m + (i - m)
        BY <2>2
      <4>. QED BY <4>1
    <3>. QED BY Zenon, <1>6, <1>7, <3>1
  <2>. QED BY <2>1, <2>2
<1>. QED BY Zenon, <1>2, <1>4, <1>7, FramedIs

\* One frame is framed.
LEMMA FramedOne ==
  ASSUME NEW f, NEW type, NEW n, FrameOf(f, type, n)
  PROVE  Framed(f)
<1>1. /\ f \in Seq(Cell) /\ n \in Nat /\ Len(f) = n + 1 /\ type \in Types
      /\ f[1].t = type /\ f[1].n = n
      /\ \A i \in 1..n : f[1 + i].t = Content[type]
      /\ type = "WINDOW_UPDATE" => n = 1
  BY DEF FrameOf
<1>2. Content[type] \notin Types
  BY Zenon, <1>1, ContentOf
<1>3. n + 1 \in Nat /\ 1 + n <= n + 1 /\ ~(1 + n < n + 1)
  BY <1>1
<1>4. Fits(f, 1)
  BY Zenon, <1>1, <1>3 DEF Fits
<1>5. ASSUME NEW i \in 1..(n + 1), f[i].t \in Types
      PROVE  Fits(f, i)
  <2>1. CASE i = 1
    BY Zenon, <1>4, <2>1
  <2>2. CASE i # 1
    <3>1. PICK j \in 1..n : i = 1 + j
      <4>1. i - 1 \in 1..n /\ i = 1 + (i - 1)
        BY <1>1, <2>2
      <4>. QED BY <4>1
    <3>. QED BY Zenon, <1>1, <1>2, <1>5, <3>1
  <2>. QED BY <2>1, <2>2
<1>. QED BY Zenon, <1>1, <1>3, <1>5, FramedIs

\* What is behind a frame.
LEMMA FramedTail ==
  ASSUME NEW s \in Seq(Cell), NEW b \in Seq(Cell), NEW k \in Nat, NEW r \in Nat,
         Len(s) = k + r, Len(b) = r, \A i \in 1..r : b[i] = s[k + i],
         \A i \in 1..(k + r) : s[i].t \in Types => Fits(s, i),
         r # 0 => s[k + 1].t \in Types
  PROVE  Framed(b)
<1>1. r # 0 => b[1].t \in Types
  <2>1. r # 0 => 1 \in 1..r
    OBVIOUS
  <2>. QED BY Zenon, <2>1
<1>2. ASSUME NEW i \in 1..r, b[i].t \in Types
      PROVE  Fits(b, i)
  <2>1. k + i \in 1..(k + r)
    OBVIOUS
  <2>2. b[i] = s[k + i] /\ Fits(s, k + i)
    BY Zenon, <1>2, <2>1
  <2>3. PICK v \in Nat : v = s[k + i].n
    BY Zenon, <2>1, CellsOf
  <2>4. /\ k + i + v <= k + r /\ \A j \in 1..v : s[k + i + j].t = Content[b[i].t]
        /\ b[i].t = "WINDOW_UPDATE" => v = 1
        /\ k + i + v < k + r => s[k + i + v + 1].t \in Types
    BY Zenon, <2>2, <2>3 DEF Fits
  <2>5. i + v <= r
    BY <2>4
  <2>6. \A j \in 1..v : b[i + j].t = Content[b[i].t]
    <3>. TAKE j \in 1..v
    <3>1. i + j \in 1..r /\ k + (i + j) = k + i + j
      BY <2>5
    <3>. QED BY Zenon, <2>4, <3>1
  <2>7. i + v < r => b[i + v + 1].t \in Types
    <3>1. i + v < r => i + v + 1 \in 1..r /\ k + (i + v + 1) = k + i + v + 1 /\ k + i + v < k + r
      OBVIOUS
    <3>. QED BY Zenon, <2>4, <3>1
  <2>. QED BY Zenon, <2>2, <2>3, <2>4, <2>5, <2>6, <2>7 DEF Fits
<1>. QED BY Zenon, <1>1, <1>2, FramedIs

\* What stands in front of frames, with a header and as many cells as it says, is a
\* frame, and what is behind it is frames.
LEMMA FrontFrame ==
  ASSUME NEW a \in Seq(Cell), NEW b \in Seq(Cell), NEW s, Cat(a, b, s), Framed(s),
         NEW n \in Nat, n = s[1].n, Len(a) = n + 1
  PROVE  FrameOf(a, s[1].t, n) /\ a[1] = s[1] /\ Framed(b)
<1>1. PICK k \in Nat, r \in Nat : k = n + 1 /\ r = Len(b)
  BY LenProperties
<1>2. /\ s \in Seq(Cell) /\ Len(s) = k + r /\ k + r \in Nat /\ Len(a) = k
      /\ \A i \in 1..k : s[i] = a[i]
      /\ \A i \in 1..r : s[k + i] = b[i]
  BY <1>1 DEF Cat
<1>3. /\ k + r # 0 /\ 1 \in 1..(k + r) /\ 1 \in 1..k /\ 1 + n + 1 = k + 1
      /\ r # 0 => 1 + n < k + r
      /\ \A i \in 1..n : 1 + i \in 1..k
  BY <1>1
<1>4. /\ s[1].t \in Types
      /\ \A i \in 1..(k + r) : s[i].t \in Types => Fits(s, i)
  BY Zenon, <1>2, <1>3, FramedIs
<1>5. PICK type \in Types : type = s[1].t
  BY Zenon, <1>4
<1>6. /\ \A j \in 1..n : s[1 + j].t = Content[type]
      /\ type = "WINDOW_UPDATE" => n = 1
      /\ 1 + n < k + r => s[1 + n + 1].t \in Types
  BY Zenon, <1>2, <1>3, <1>4, <1>5 DEF Fits
<1>7. FrameOf(a, type, n)
  <2>1. a[1] = s[1] /\ \A i \in 1..n : a[1 + i].t = Content[type]
    BY Zenon, <1>2, <1>3, <1>6
  <2>. QED BY Zenon, <1>1, <1>2, <1>5, <1>6, <2>1 DEF FrameOf
<1>8. Framed(b)
  <2>1. r # 0 => s[k + 1].t \in Types
    BY Zenon, <1>3, <1>6
  <2>2. \A i \in 1..r : b[i] = s[k + i]
    BY Zenon, <1>2
  <2>. QED BY ZenonT(60), <1>1, <1>2, <1>4, <2>1, <2>2, FramedTail
<1>. QED BY Zenon, <1>2, <1>3, <1>5, <1>7, <1>8

------------------------------------------------------------------------------
(***************************************************************************)
(* Units in order.                                                         *)
(***************************************************************************)
IsUnit(s, i) == i \in 1..Len(s) /\ s[i].t = "unit"

LEMMA InOrderIs ==
  ASSUME NEW s \in Seq(Cell), NEW m \in Nat, NEW p \in Nat
  PROVE  InOrder(s, m, p) <=>
           /\ \A i : IsUnit(s, i) => m < s[i].n /\ s[i].n <= p
           /\ \A x \in Nat : m < x /\ x <= p => \E i : IsUnit(s, i) /\ s[i].n = x
           /\ \A i, j : IsUnit(s, i) /\ IsUnit(s, j) /\ i < j => s[i].n < s[j].n
<1>1. PICK len \in Nat : len = Len(s)
  BY LenProperties
<1>2. DOMAIN s = 1..len /\ \A i \in 1..len : s[i].n \in Nat
  BY <1>1, CellsOf
<1>. DEFINE units == {i \in 1..len : s[i].t = "unit"}
<1>3. \A i : i \in units <=> IsUnit(s, i)
  BY <1>1 DEF IsUnit
<1>4. InOrder(s, m, p) <=> /\ {s[i].n : i \in units} = (m + 1)..p
                           /\ \A i, j \in units : i < j => s[i].n < s[j].n
  BY Zenon, <1>2 DEF InOrder
<1>5. \A i \in units : s[i].n \in Nat
  BY <1>2
<1>. HIDE DEF units
<1>6. {s[i].n : i \in units} = (m + 1)..p
        <=> /\ \A i \in units : m < s[i].n /\ s[i].n <= p
            /\ \A x \in Nat : m < x /\ x <= p => \E i \in units : s[i].n = x
  <2>1. \A x \in Nat : x \in (m + 1)..p <=> m < x /\ x <= p
    OBVIOUS
  <2>2. \A x \in (m + 1)..p : x \in Nat
    OBVIOUS
  <2>. QED BY Zenon, <1>5, <2>1, <2>2
<1>. QED BY Zenon, <1>3, <1>4, <1>6

\* The units of a concatenation of a, with k cells, and b.
UnitsOf(a, b, s, k) ==
  /\ \A i : IsUnit(a, i) => i \in 1..k /\ IsUnit(s, i) /\ s[i].n = a[i].n /\ s[i].n \in Nat
  /\ \A i : IsUnit(b, i) => /\ i \in Nat \ {0} /\ k + i \in Nat
                            /\ IsUnit(s, k + i) /\ s[k + i].n = b[i].n /\ s[k + i].n \in Nat
  /\ \A i : IsUnit(s, i) => IsUnit(a, i) \/ \E j : IsUnit(b, j) /\ i = k + j

LEMMA UnitsOfCat ==
  ASSUME NEW a \in Seq(Cell), NEW b \in Seq(Cell), NEW s, Cat(a, b, s),
         NEW k \in Nat, k = Len(a)
  PROVE  UnitsOf(a, b, s, k)
<1>1. PICK n \in Nat : n = Len(b)
  BY LenProperties
<1>2. /\ s \in Seq(Cell) /\ Len(s) = k + n /\ k + n \in Nat
      /\ \A i \in 1..k : s[i] = a[i]
      /\ \A i \in 1..n : s[k + i] = b[i]
  BY <1>1 DEF Cat
<1>3. \A i \in 1..(k + n) : s[i].n \in Nat
  BY Zenon, <1>2, CellsOf
<1>4. ASSUME NEW i, IsUnit(a, i)
      PROVE  i \in 1..k /\ IsUnit(s, i) /\ s[i].n = a[i].n /\ s[i].n \in Nat
  <2>1. i \in 1..k /\ a[i].t = "unit"
    BY Zenon, <1>4 DEF IsUnit
  <2>2. i \in 1..(k + n)
    BY <2>1, <1>1
  <2>. QED BY Zenon, <1>2, <1>3, <2>1, <2>2 DEF IsUnit
<1>5. ASSUME NEW i, IsUnit(b, i)
      PROVE  /\ i \in Nat \ {0} /\ k + i \in Nat
             /\ IsUnit(s, k + i) /\ s[k + i].n = b[i].n /\ s[k + i].n \in Nat
  <2>1. i \in 1..n /\ b[i].t = "unit"
    BY Zenon, <1>1, <1>5 DEF IsUnit
  <2>2. k + i \in 1..(k + n) /\ i \in Nat \ {0} /\ k + i \in Nat
    BY <2>1, <1>1
  <2>. QED BY Zenon, <1>2, <1>3, <2>1, <2>2 DEF IsUnit
<1>6. ASSUME NEW i, IsUnit(s, i)
      PROVE  IsUnit(a, i) \/ \E j : IsUnit(b, j) /\ i = k + j
  <2>1. i \in 1..(k + n) /\ s[i].t = "unit"
    BY Zenon, <1>2, <1>6 DEF IsUnit
  <2>2. CASE i \in 1..k
    BY Zenon, <1>2, <2>1, <2>2 DEF IsUnit
  <2>3. CASE i \notin 1..k
    <3>1. PICK j \in 1..n : i = k + j
      <4>1. i - k \in 1..n /\ i = k + (i - k)
        BY <1>1, <2>1, <2>3
      <4>. QED BY <4>1
    <3>. QED BY Zenon, <1>1, <1>2, <2>1, <3>1 DEF IsUnit
  <2>. QED BY <2>2, <2>3
<1>. QED BY Zenon, <1>4, <1>5, <1>6 DEF UnitsOf

\* The units after m up to q, and behind them those after q up to p.
LEMMA InOrderCat ==
  ASSUME NEW a \in Seq(Cell), NEW b \in Seq(Cell), NEW s, Cat(a, b, s),
         NEW m \in Nat, NEW q \in Nat, NEW p \in Nat, m <= q, q <= p,
         InOrder(a, m, q), InOrder(b, q, p)
  PROVE  InOrder(s, m, p)
<1>1. PICK k \in Nat : k = Len(a)
  BY LenProperties
<1>2. /\ \A i : IsUnit(a, i) => i \in 1..k /\ IsUnit(s, i) /\ s[i].n = a[i].n /\ s[i].n \in Nat
      /\ \A i : IsUnit(b, i) => /\ i \in Nat \ {0} /\ k + i \in Nat
                                /\ IsUnit(s, k + i) /\ s[k + i].n = b[i].n /\ s[k + i].n \in Nat
      /\ \A i : IsUnit(s, i) => IsUnit(a, i) \/ \E j : IsUnit(b, j) /\ i = k + j
  <2>1. UnitsOf(a, b, s, k)
    BY Zenon, <1>1, UnitsOfCat
  <2>. QED BY Zenon, <2>1 DEF UnitsOf
<1>3. /\ \A i : IsUnit(a, i) => m < a[i].n /\ a[i].n <= q
      /\ \A x \in Nat : m < x /\ x <= q => \E i : IsUnit(a, i) /\ a[i].n = x
      /\ \A i, j : IsUnit(a, i) /\ IsUnit(a, j) /\ i < j => a[i].n < a[j].n
  BY Zenon, InOrderIs
<1>4. /\ \A i : IsUnit(b, i) => q < b[i].n /\ b[i].n <= p
      /\ \A x \in Nat : q < x /\ x <= p => \E i : IsUnit(b, i) /\ b[i].n = x
      /\ \A i, j : IsUnit(b, i) /\ IsUnit(b, j) /\ i < j => b[i].n < b[j].n
  BY Zenon, InOrderIs
<1>5. s \in Seq(Cell)
  BY DEF Cat
<1>6. ASSUME NEW i, IsUnit(s, i)
      PROVE  m < s[i].n /\ s[i].n <= p
  <2>1. CASE IsUnit(a, i)
    <3>1. s[i].n \in Nat /\ m < s[i].n /\ s[i].n <= q
      BY Zenon, <1>2, <1>3, <2>1
    <3>. QED BY <3>1
  <2>2. CASE \E j : IsUnit(b, j) /\ i = k + j
    <3>1. PICK j : IsUnit(b, j) /\ i = k + j
      BY <2>2
    <3>2. s[k + j].n = b[j].n /\ b[j].n \in Nat /\ q < b[j].n /\ b[j].n <= p
      BY Zenon, <1>2, <1>4, <3>1
    <3>. QED BY <3>1, <3>2
  <2>. QED BY Zenon, <1>2, <1>6, <2>1, <2>2
<1>7. ASSUME NEW x \in Nat, m < x, x <= p
      PROVE  \E i : IsUnit(s, i) /\ s[i].n = x
  <2>1. CASE x <= q
    BY Zenon, <1>2, <1>3, <1>7, <2>1
  <2>2. CASE q < x
    BY ZenonT(60), <1>2, <1>4, <1>7, <2>2
  <2>. QED BY <2>1, <2>2
<1>8. ASSUME NEW i, NEW j, IsUnit(s, i), IsUnit(s, j), i < j
      PROVE  s[i].n < s[j].n
  <2>1. CASE IsUnit(a, i) /\ IsUnit(a, j)
    BY Zenon, <1>2, <1>3, <1>8, <2>1
  <2>2. CASE IsUnit(a, i) /\ \E l : IsUnit(b, l) /\ j = k + l
    <3>1. s[i].n \in Nat /\ s[i].n <= q
      BY Zenon, <1>2, <1>3, <2>2
    <3>2. PICK l : IsUnit(b, l) /\ j = k + l
      BY <2>2
    <3>3. s[k + l].n = b[l].n /\ b[l].n \in Nat /\ q < b[l].n
      BY Zenon, <1>2, <1>4, <3>2
    <3>. QED BY <3>1, <3>2, <3>3
  <2>3. CASE IsUnit(a, j) /\ \E l : IsUnit(b, l) /\ i = k + l
    <3>1. PICK l : IsUnit(b, l) /\ i = k + l
      BY <2>3
    <3>2. l \in Nat \ {0} /\ j \in 1..k
      BY Zenon, <1>2, <2>3, <3>1
    <3>. QED BY <1>8, <3>1, <3>2
  <2>4. CASE (\E l : IsUnit(b, l) /\ i = k + l) /\ \E l : IsUnit(b, l) /\ j = k + l
    <3>1. PICK l : IsUnit(b, l) /\ i = k + l
      BY <2>4
    <3>2. PICK o : IsUnit(b, o) /\ j = k + o
      BY <2>4
    <3>3. l \in Nat /\ o \in Nat
      BY Zenon, <1>2, <3>1, <3>2
    <3>4. l < o
      BY <1>8, <3>1, <3>2, <3>3
    <3>5. s[k + l].n = b[l].n /\ s[k + o].n = b[o].n /\ b[l].n < b[o].n
      BY Zenon, <1>2, <1>4, <3>1, <3>2, <3>4
    <3>. QED BY <3>1, <3>2, <3>5
  <2>. QED BY Zenon, <1>2, <1>8, <2>1, <2>2, <2>3, <2>4
<1>. QED BY Zenon, <1>5, <1>6, <1>7, <1>8, InOrderIs

\* No units.
LEMMA InOrderNone ==
  ASSUME NEW s \in Seq(Cell), NEW m \in Nat, \A i : ~IsUnit(s, i)
  PROVE  InOrder(s, m, m)
<1>1. \A x \in Nat : ~(m < x /\ x <= m)
  OBVIOUS
<1>. QED BY Zenon, <1>1, InOrderIs

\* The units of a DATA frame are in order.
LEMMA InOrderFrame ==
  ASSUME NEW f, NEW n, FrameOf(f, "DATA", n), NEW m \in Nat, \A j \in 1..n : f[1 + j].n = m + j
  PROVE  InOrder(f, m, m + n)
<1>1. /\ f \in Seq(Cell) /\ n \in Nat /\ Len(f) = n + 1 /\ f[1].t = "DATA"
      /\ \A i \in 1..n : f[1 + i].t = "unit"
  BY Zenon, ContentOf DEF FrameOf
<1>2. m + n \in Nat /\ 1 \notin {1 + j : j \in 1..n}
  BY <1>1
<1>3. \A i : IsUnit(f, i) <=> \E j \in 1..n : i = 1 + j
  <2>1. ASSUME NEW i, IsUnit(f, i) PROVE \E j \in 1..n : i = 1 + j
    <3>1. i \in 1..(n + 1) /\ i # 1
      BY Zenon, <1>1, <2>1 DEF IsUnit
    <3>2. i - 1 \in 1..n /\ i = 1 + (i - 1)
      BY <1>1, <3>1
    <3>. QED BY <3>2
  <2>2. ASSUME NEW j \in 1..n PROVE IsUnit(f, 1 + j)
    <3>1. 1 + j \in 1..(n + 1)
      BY <1>1
    <3>. QED BY Zenon, <1>1, <3>1 DEF IsUnit
  <2>. QED BY Zenon, <2>1, <2>2
<1>4. ASSUME NEW i, IsUnit(f, i) PROVE m < f[i].n /\ f[i].n <= m + n
  <2>1. PICK j \in 1..n : i = 1 + j
    BY <1>3, <1>4
  <2>2. f[i].n = m + j
    BY <2>1
  <2>. QED BY <1>1, <2>2
<1>5. ASSUME NEW x \in Nat, m < x, x <= m + n PROVE \E i : IsUnit(f, i) /\ f[i].n = x
  <2>1. PICK j \in 1..n : x = m + j
    <3>1. x - m \in 1..n /\ x = m + (x - m)
      BY <1>1, <1>5
    <3>. QED BY <3>1
  <2>. QED BY Zenon, <1>3, <2>1
<1>6. ASSUME NEW i, NEW j, IsUnit(f, i), IsUnit(f, j), i < j PROVE f[i].n < f[j].n
  <2>1. PICK k \in 1..n : i = 1 + k
    BY <1>3, <1>6
  <2>2. PICK l \in 1..n : j = 1 + l
    BY <1>3, <1>6
  <2>3. f[i].n = m + k /\ f[j].n = m + l
    BY <2>1, <2>2
  <2>4. m + k < m + l
    BY <1>1, <1>6, <2>1, <2>2
  <2>. QED BY Zenon, <2>3, <2>4
<1>. QED BY Zenon, <1>1, <1>2, <1>4, <1>5, <1>6, InOrderIs

\* What is not a DATA frame has no units.
LEMMA NoUnits ==
  ASSUME NEW f, NEW type, NEW n, FrameOf(f, type, n), type # "DATA"
  PROVE  \A i : ~IsUnit(f, i)
<1>1. /\ f \in Seq(Cell) /\ n \in Nat /\ Len(f) = n + 1 /\ f[1].t = type /\ type # "unit"
      /\ \A i \in 1..n : f[1 + i].t # "unit"
  <2>1. type \in Types /\ Content[type] # "unit"
    BY Zenon, ContentOf DEF FrameOf
  <2>2. type # "unit"
    BY <2>1, ContentOf
  <2>. QED BY Zenon, <2>1, <2>2 DEF FrameOf
<1>2. ASSUME NEW i, IsUnit(f, i) PROVE FALSE
  <2>1. i \in 1..(n + 1) /\ f[i].t = "unit"
    BY Zenon, <1>1, <1>2 DEF IsUnit
  <2>2. i # 1
    BY Zenon, <1>1, <2>1
  <2>3. i - 1 \in 1..n /\ i = 1 + (i - 1)
    BY <1>1, <2>1, <2>2
  <2>. QED BY Zenon, <1>1, <2>1, <2>3
<1>. QED BY <1>2

\* The units behind cells that have none.
LEMMA InOrderBehind ==
  ASSUME NEW a \in Seq(Cell), NEW b \in Seq(Cell), NEW s, Cat(a, b, s),
         NEW m \in Nat, NEW p \in Nat, \A i : ~IsUnit(a, i), InOrder(s, m, p)
  PROVE  InOrder(b, m, p)
<1>1. PICK k \in Nat : k = Len(a)
  BY LenProperties
<1>2. /\ \A i : IsUnit(b, i) => /\ i \in Nat \ {0} /\ k + i \in Nat
                                /\ IsUnit(s, k + i) /\ s[k + i].n = b[i].n /\ s[k + i].n \in Nat
      /\ \A i : IsUnit(s, i) => IsUnit(a, i) \/ \E j : IsUnit(b, j) /\ i = k + j
  <2>1. UnitsOf(a, b, s, k)
    BY Zenon, <1>1, UnitsOfCat
  <2>. QED BY Zenon, <2>1 DEF UnitsOf
<1>3. s \in Seq(Cell)
  BY DEF Cat
<1>4. /\ \A i : IsUnit(s, i) => m < s[i].n /\ s[i].n <= p
      /\ \A x \in Nat : m < x /\ x <= p => \E i : IsUnit(s, i) /\ s[i].n = x
      /\ \A i, j : IsUnit(s, i) /\ IsUnit(s, j) /\ i < j => s[i].n < s[j].n
  BY Zenon, <1>3, InOrderIs
<1>5. \A i : IsUnit(b, i) => m < b[i].n /\ b[i].n <= p
  BY Zenon, <1>2, <1>4
<1>6. ASSUME NEW x \in Nat, m < x, x <= p PROVE \E i : IsUnit(b, i) /\ b[i].n = x
  <2>1. PICK i : IsUnit(s, i) /\ s[i].n = x
    BY <1>4, <1>6
  <2>2. PICK j : IsUnit(b, j) /\ i = k + j
    BY <1>2, <2>1
  <2>. QED BY Zenon, <1>2, <2>1, <2>2
<1>7. ASSUME NEW i, NEW j, IsUnit(b, i), IsUnit(b, j), i < j PROVE b[i].n < b[j].n
  <2>1. k + i < k + j
    BY <1>2, <1>7
  <2>2. s[k + i].n = b[i].n /\ s[k + j].n = b[j].n /\ s[k + i].n < s[k + j].n
    BY Zenon, <1>2, <1>4, <1>7, <2>1
  <2>. QED BY <2>2
<1>. QED BY Zenon, <1>5, <1>6, <1>7, InOrderIs

\* The first units are those of a DATA frame in front.
LEMMA TakeData ==
  ASSUME NEW f, NEW n, FrameOf(f, "DATA", n), NEW b \in Seq(Cell), NEW s, Cat(f, b, s),
         NEW m \in Nat, NEW p \in Nat, m <= p, InOrder(s, m, p)
  PROVE  /\ \A j \in 1..n : f[1 + j].n = m + j
         /\ m + n \in Nat /\ m + n <= p /\ InOrder(b, m + n, p)
<1>1. /\ f \in Seq(Cell) /\ n \in Nat /\ n + 1 \in Nat /\ Len(f) = n + 1 /\ f[1].t = "DATA"
      /\ \A i \in 1..n : f[1 + i].t = "unit"
  <2>1. /\ f \in Seq(Cell) /\ n \in Nat /\ Len(f) = n + 1 /\ f[1].t = "DATA"
        /\ \A i \in 1..n : f[1 + i].t = "unit"
    BY Zenon, ContentOf DEF FrameOf
  <2>. QED BY <2>1
<1>2. PICK k \in Nat : k = n + 1
  BY <1>1
<1>3. UnitsOf(f, b, s, k)
  BY Zenon, <1>1, <1>2, UnitsOfCat
<1>4. s \in Seq(Cell)
  BY DEF Cat
<1>5. /\ \A i : IsUnit(s, i) => m < s[i].n /\ s[i].n <= p
      /\ \A x \in Nat : m < x /\ x <= p => \E i : IsUnit(s, i) /\ s[i].n = x
      /\ \A i, j : IsUnit(s, i) /\ IsUnit(s, j) /\ i < j => s[i].n < s[j].n
  BY Zenon, <1>4, InOrderIs
<1>6. ASSUME NEW j \in 1..n
      PROVE  IsUnit(f, 1 + j) /\ IsUnit(s, 1 + j) /\ s[1 + j].n = f[1 + j].n /\ s[1 + j].n \in Nat
  <2>1. 1 + j \in 1..(n + 1)
    BY <1>1
  <2>2. IsUnit(f, 1 + j)
    BY Zenon, <1>1, <2>1 DEF IsUnit
  <2>. QED BY Zenon, <1>3, <2>2 DEF UnitsOf
<1>7. ASSUME NEW i, IsUnit(f, i) PROVE \E j \in 1..n : i = 1 + j
  <2>1. i \in 1..(n + 1) /\ i # 1
    BY Zenon, <1>1, <1>7 DEF IsUnit
  <2>2. i - 1 \in 1..n /\ i = 1 + (i - 1)
    BY <1>1, <2>1
  <2>. QED BY <2>2
<1>8. ASSUME NEW i, IsUnit(s, i)
      PROVE  \/ \E j \in 1..n : i = 1 + j
             \/ \E j \in Nat \ {0} : IsUnit(b, j) /\ i = k + j
  BY Zenon, <1>3, <1>7, <1>8 DEF UnitsOf
<1>. DEFINE G == {l \in Nat : l <= n => m + l <= p /\ \A j \in 1..l : s[1 + j].n = m + j}
<1>9. \A l \in 0..n : l \in G
  <2>1. 0 \in G
    OBVIOUS
  <2>2. ASSUME NEW l \in 0..n, l < n, l \in G PROVE l + 1 \in G
    <3>1. /\ l \in Nat /\ l + 1 \in 1..n /\ m + l <= p /\ m + l + 1 \in Nat
          /\ \A j \in 1..l : s[1 + j].n = m + j
      <4>1. l \in Nat /\ l <= n /\ l + 1 \in 1..n /\ m + l + 1 \in Nat
        BY <1>1, <2>2
      <4>2. m + l <= p /\ \A j \in 1..l : s[1 + j].n = m + j
        BY Zenon, <2>2, <4>1
      <4>. QED BY Zenon, <4>1, <4>2
    <3>2. PICK i \in Nat : i = 1 + (l + 1)
      BY <3>1
    <3>3. PICK v \in Nat : v = s[i].n
      BY Zenon, <1>6, <3>1, <3>2
    <3>4. IsUnit(s, i) /\ m < v /\ v <= p
      BY Zenon, <1>5, <1>6, <3>1, <3>2, <3>3
    <3>5. m + l < v
      <4>1. CASE l = 0
        BY <3>4, <4>1
      <4>2. CASE l # 0
        <5>1. l \in 1..l /\ l \in 1..n /\ 1 + l < i
          BY <3>1, <3>2, <4>2
        <5>2. IsUnit(s, 1 + l) /\ s[1 + l].n = m + l
          BY Zenon, <1>6, <3>1, <5>1
        <5>. QED BY Zenon, <1>5, <3>3, <3>4, <5>1, <5>2
      <4>. QED BY <4>1, <4>2
    <3>6. PICK x \in Nat : x = m + l + 1
      BY <3>1
    <3>7. m < x /\ x <= p /\ x <= v
      BY <3>1, <3>4, <3>5, <3>6
    <3>8. PICK o : IsUnit(s, o) /\ s[o].n = x
      BY <1>5, <3>7
    <3>9. ~(i < o)
      <4>1. i < o => v < x
        BY Zenon, <1>5, <3>3, <3>4, <3>8
      <4>. QED BY <3>7, <4>1
    <3>10. o = i
      <4>1. CASE \E j \in 1..n : o = 1 + j
        <5>1. PICK j \in 1..n : o = 1 + j
          BY <4>1
        <5>2. j \in 1..l => m + j = x
          BY Zenon, <3>1, <3>8, <5>1
        <5>3. j \notin 1..l
          BY <3>6, <5>2
        <5>. QED BY <1>1, <3>2, <3>9, <5>1, <5>3
      <4>2. CASE \E j \in Nat \ {0} : IsUnit(b, j) /\ o = k + j
        BY <1>1, <1>2, <3>1, <3>2, <3>9, <4>2
      <4>. QED BY Zenon, <1>8, <3>8, <4>1, <4>2
    <3>11. s[1 + (l + 1)].n = x
      BY Zenon, <3>2, <3>8, <3>10
    <3>12. ASSUME NEW j \in 1..(l + 1) PROVE s[1 + j].n = m + j
      <4>1. CASE j = l + 1
        <5>1. m + j = x
          BY <3>1, <3>6, <4>1
        <5>. QED BY Zenon, <3>11, <4>1, <5>1
      <4>2. CASE j # l + 1
        <5>1. j \in 1..l
          BY <3>1, <4>2
        <5>. QED BY Zenon, <3>1, <5>1
      <4>. QED BY <4>1, <4>2
    <3>13. m + (l + 1) <= p /\ l + 1 \in Nat
      BY <3>1, <3>6, <3>7
    <3>. QED BY <3>12, <3>13
  <2>. HIDE DEF G
  <2>. QED BY Zenon, <1>1, <2>1, <2>2, UpTo
<1>10. m + n \in Nat /\ m + n <= p /\ \A j \in 1..n : s[1 + j].n = m + j
  <2>1. n \in 0..n /\ n <= n /\ m + n \in Nat
    BY <1>1
  <2>2. n \in G
    BY Zenon, <1>9, <2>1
  <2>. QED BY <2>1, <2>2
<1>. HIDE DEF G
<1>11. PICK q \in Nat : q = m + n
  BY <1>10
<1>12. UnitsOf(f, b, s, k) /\ m <= q
  BY <1>1, <1>3, <1>11
<1>13. \A i : IsUnit(b, i) => /\ i \in Nat \ {0} /\ k + i \in Nat
                              /\ IsUnit(s, k + i) /\ s[k + i].n = b[i].n /\ s[k + i].n \in Nat
  BY Zenon, <1>12 DEF UnitsOf
<1>14. ASSUME NEW i, IsUnit(b, i) PROVE q < b[i].n /\ b[i].n <= p
  <2>1. PICK v \in Nat : v = b[i].n /\ v = s[k + i].n
    BY Zenon, <1>13, <1>14
  <2>2. m < v /\ v <= p
    BY Zenon, <1>5, <1>13, <1>14, <2>1
  <2>3. q < v
    <3>1. CASE n = 0
      BY <1>11, <2>2, <3>1
    <3>2. CASE n # 0
      <4>1. n \in 1..n
        BY <1>1, <3>2
      <4>2. IsUnit(s, 1 + n) /\ s[1 + n].n = q
        BY Zenon, <1>6, <1>10, <1>11, <4>1
      <4>3. 1 + n < k + i
        BY <1>1, <1>2, <1>13, <1>14
      <4>4. s[1 + n].n < s[k + i].n
        BY Zenon, <1>5, <1>13, <1>14, <4>2, <4>3
      <4>. QED BY Zenon, <2>1, <4>2, <4>4
    <3>. QED BY <3>1, <3>2
  <2>. QED BY Zenon, <2>1, <2>2, <2>3
<1>15. ASSUME NEW x \in Nat, q < x, x <= p PROVE \E i : IsUnit(b, i) /\ b[i].n = x
  <2>1. m < x
    BY <1>12, <1>15
  <2>2. PICK i : IsUnit(s, i) /\ s[i].n = x
    BY <1>5, <1>15, <2>1
  <2>3. ASSUME NEW j \in 1..n, i = 1 + j PROVE FALSE
    <3>1. x = m + j
      BY Zenon, <1>10, <2>2, <2>3
    <3>. QED BY <1>1, <1>11, <1>15, <3>1
  <2>4. PICK j : IsUnit(b, j) /\ i = k + j
    BY <1>8, <2>2, <2>3
  <2>. QED BY Zenon, <1>13, <2>2, <2>4
<1>16. ASSUME NEW i, NEW j, IsUnit(b, i), IsUnit(b, j), i < j PROVE b[i].n < b[j].n
  <2>1. k + i < k + j
    BY <1>13, <1>16
  <2>2. s[k + i].n = b[i].n /\ s[k + j].n = b[j].n /\ s[k + i].n < s[k + j].n
    BY Zenon, <1>5, <1>13, <1>16, <2>1
  <2>. QED BY <2>2
<1>17. InOrder(b, q, p)
  BY Zenon, <1>14, <1>15, <1>16, InOrderIs
<1>18. \A j \in 1..n : f[1 + j].n = m + j
  BY Zenon, <1>6, <1>10
<1>. QED BY Zenon, <1>10, <1>11, <1>17, <1>18

------------------------------------------------------------------------------
(***************************************************************************)
(* One frame in front of frames.                                           *)
(***************************************************************************)
LEMMA EmptyRest ==
  /\ <<>> \in Seq(Cell) /\ Framed(<<>>) /\ Credits(<<>>) = 0
  /\ \A m \in Nat : InOrder(<<>>, m, m)
<1>1. PICK s : s = <<>>
  OBVIOUS
<1>2. s \in Seq(Cell) /\ Len(s) = 0
  BY <1>1
<1>3. 1..Len(s) = {}
  BY <1>2
<1>4. Framed(s)
  <2>1. 0 \in Nat /\ 1..0 = {}
    OBVIOUS
  <2>. QED BY Zenon, <1>2, <2>1, FramedIs
<1>5. Credits(s) = 0
  BY Zenon, <1>2, <1>3, NoCredits
<1>6. \A m \in Nat : InOrder(s, m, m)
  BY Zenon, <1>2, <1>3, InOrderNone DEF IsUnit
<1>. QED BY Zenon, <1>1, <1>2, <1>4, <1>5, <1>6

\* Only a WINDOW_UPDATE has an increment.
LEMMA FrameCredits ==
  ASSUME NEW f, NEW type, NEW n, FrameOf(f, type, n)
  PROVE  /\ Credits(f) \in Nat
         /\ Credits(f) = IF type = "WINDOW_UPDATE" THEN f[2].n ELSE 0
<1>1. /\ f \in Seq(Cell) /\ n \in Nat /\ Len(f) = n + 1 /\ type \in Types /\ f[1].t = type
      /\ \A i \in 1..n : f[1 + i].t = Content[type]
      /\ type = "WINDOW_UPDATE" => n = 1
  BY Zenon DEF FrameOf
<1>2. CASE type = "WINDOW_UPDATE"
  <2>1. Len(f) = 2 /\ 1 \in 1..n /\ 1 + 1 = 2 /\ 2 \in 1..2
    BY <1>1, <1>2
  <2>2. f[2].t = "increment"
    BY Zenon, <1>1, <1>2, <2>1, ContentOf
  <2>3. Credits(f) = f[2].n
    BY Zenon, <1>1, <1>2, <2>1, <2>2, OneCredit
  <2>4. f[2].n \in Nat
    BY Zenon, <1>1, <2>1, CellsOf
  <2>. QED BY Zenon, <1>2, <2>3, <2>4
<1>3. CASE type # "WINDOW_UPDATE"
  <2>1. type # "increment" /\ Content[type] # "increment"
    <3>1. type # "increment"
      BY <1>1, ContentOf
    <3>. QED BY Zenon, <1>1, <1>3, <3>1, ContentOf
  <2>2. ASSUME NEW i \in 1..Len(f) PROVE f[i].t # "increment"
    <3>1. CASE i = 1
      BY Zenon, <1>1, <2>1, <3>1
    <3>2. CASE i # 1
      <4>1. i - 1 \in 1..n /\ i = 1 + (i - 1)
        BY <1>1, <3>2
      <4>. QED BY Zenon, <1>1, <2>1, <4>1
    <3>. QED BY <3>1, <3>2
  <2>3. Credits(f) = 0 /\ 0 \in Nat
    BY Zenon, <1>1, <2>2, NoCredits
  <2>. QED BY Zenon, <1>3, <2>3
<1>. QED BY <1>2, <1>3

\* A frame in front that is not a DATA frame changes nothing about the units.
LEMMA OtherFrame ==
  ASSUME NEW f, NEW type, NEW n, FrameOf(f, type, n), type # "DATA",
         NEW b \in Seq(Cell), NEW s, Cat(f, b, s), NEW m \in Nat, NEW p \in Nat, m <= p
  PROVE  InOrder(s, m, p) <=> InOrder(b, m, p)
<1>1. f \in Seq(Cell)
  BY DEF FrameOf
<1>2. \A i : ~IsUnit(f, i)
  BY Zenon, NoUnits
<1>3. m <= m /\ InOrder(f, m, m)
  <2>1. m <= m
    OBVIOUS
  <2>. QED BY Zenon, <1>1, <1>2, <2>1, InOrderNone
<1>. QED BY Zenon, <1>1, <1>2, <1>3, InOrderCat, InOrderBehind

\* The units in s are in t, in the same order.
Keeps(s, t) == \A m, p \in Nat : m <= p /\ InOrder(s, m, p) => InOrder(t, m, p)

\* The same frame in front of two sequences.
LEMMA KeepFrame ==
  ASSUME NEW f, NEW type, NEW n, FrameOf(f, type, n),
         NEW b \in Seq(Cell), NEW s, Cat(f, b, s), NEW c \in Seq(Cell), NEW t, Cat(f, c, t),
         Keeps(b, c)
  PROVE  Keeps(s, t)
<1>. SUFFICES ASSUME NEW m \in Nat, NEW p \in Nat, m <= p, InOrder(s, m, p)
              PROVE  InOrder(t, m, p)
  BY Zenon DEF Keeps
<1>1. CASE type # "DATA"
  <2>1. InOrder(b, m, p)
    BY Zenon, <1>1, OtherFrame
  <2>2. InOrder(c, m, p)
    BY Zenon, <2>1 DEF Keeps
  <2>. QED BY Zenon, <1>1, <2>2, OtherFrame
<1>2. CASE type = "DATA"
  <2>1. FrameOf(f, "DATA", n) /\ f \in Seq(Cell) /\ n \in Nat
    BY Zenon, <1>2 DEF FrameOf
  <2>2. /\ \A j \in 1..n : f[1 + j].n = m + j
        /\ m + n \in Nat /\ m + n <= p /\ InOrder(b, m + n, p)
    BY Zenon, <2>1, TakeData
  <2>3. InOrder(f, m, m + n)
    BY Zenon, <2>1, <2>2, InOrderFrame
  <2>4. m <= m + n
    BY <2>1
  <2>5. InOrder(c, m + n, p)
    BY Zenon, <2>2 DEF Keeps
  <2>. QED BY Zenon, <2>1, <2>2, <2>3, <2>4, <2>5, InOrderCat
<1>. QED BY <1>1, <1>2

------------------------------------------------------------------------------
(***************************************************************************)
(* The first whole frame of what is left of a buffer, with the cells that  *)
(* are still on their way behind it.                                       *)
(***************************************************************************)
Left(buf, i) == SubSeq(buf, i, Len(buf))

LEMMA LeftIs ==
  ASSUME NEW buf \in Seq(Cell), NEW i \in 1..(Len(buf) + 1)
  PROVE  /\ Left(buf, i) \in Seq(Cell) /\ Len(Left(buf, i)) = Len(buf) + 1 - i
         /\ i <= Len(buf) => Left(buf, i)[1] = buf[i]
<1>1. PICK len \in Nat : len = Len(buf)
  BY LenProperties
<1>2. \A j \in i..len : buf[j] \in Cell
  <2>1. \A j \in i..len : j \in 1..len
    BY <1>1
  <2>. QED BY <1>1, <2>1, ElementOfSeq
<1>3. i \in Int /\ len \in Int
  BY <1>1
<1>4. PICK s : s = SubSeq(buf, i, len)
  OBVIOUS
<1>5. /\ s \in Seq(Cell) /\ Len(s) = (IF i <= len THEN len - i + 1 ELSE 0)
      /\ \A j \in 1..(len - i + 1) : s[j] = buf[i + j - 1]
  BY <1>2, <1>3, <1>4, SubSeqProperties
<1>6. Len(s) = len + 1 - i
  BY <1>1, <1>3, <1>5
<1>7. i <= len => s[1] = buf[i]
  <2>1. i <= len => 1 \in 1..(len - i + 1) /\ i + 1 - 1 = i
    BY <1>3
  <2>. QED BY Zenon, <1>5, <2>1
<1>. QED BY Zenon, <1>1, <1>4, <1>5, <1>6, <1>7 DEF Left

LEMMA Regroup ==
  ASSUME NEW a \in Seq(Cell), NEW b \in Seq(Cell), NEW c \in Seq(Cell)
  PROVE  (a \o b) \o c = a \o (b \o c)
BY ConcatAssociative

\* The positions of a frame of n + 1 cells from i to k.
Inside(len, n, i, k) ==
  /\ i \in 1..(len + 1) /\ k + 1 \in 1..(len + 1) /\ k \in (i - 1)..len /\ len \in k..len
  /\ i <= len /\ i <= k /\ k - i + 1 = n + 1 /\ i \in Int /\ k \in Int
  /\ \A j \in i..k : j \in 1..len
  /\ \A j \in 1..n : 1 + j \in 1..(k - i + 1) /\ i + (1 + j) - 1 = i + j
  /\ 1 \in 1..(k - i + 1) /\ i + 1 - 1 = i

\* Where the frame at i is in a buffer with cells behind it.
LEMMA Positions ==
  ASSUME NEW len \in Nat, NEW n \in Nat, NEW i \in 1..len, i + n <= len
  PROVE  Inside(len, n, i, i + n)
BY DEF Inside

\* f is the first frame, with n cells behind its header, b the cells of the buffer
\* behind it.
FrameAt(buf, tail, i, n, f, b) ==
  /\ f = SubSeq(buf, i, i + n) /\ b = Left(buf, i + n + 1) /\ Left(buf, i) = f \o b
  /\ FrameOf(f, buf[i].t, n) /\ f[1] = buf[i]
  /\ \A j \in 1..n : f[1 + j] = buf[i + j]
  /\ Cat(f, b \o tail, Left(buf, i) \o tail) /\ Framed(b \o tail)

\* Behind a whole frame of a buffer the next one begins.
LEMMA NextFrame ==
  ASSUME NEW buf \in Seq(Cell), NEW tail \in Seq(Cell), NEW i \in 1..Len(buf),
         NEW n \in Nat, n = buf[i].n, i + n <= Len(buf), Framed(Left(buf, i) \o tail)
  PROVE  \E f, b \in Seq(Cell) : FrameAt(buf, tail, i, n, f, b)
<1>1. PICK len \in Nat : len = Len(buf)
  BY LenProperties
<1>2. PICK k \in Nat : k = i + n
  BY <1>1
<1>3. /\ i \in 1..(len + 1) /\ k + 1 \in 1..(len + 1) /\ k \in (i - 1)..len /\ len \in k..len
      /\ i <= len /\ i <= k /\ k - i + 1 = n + 1 /\ i \in Int /\ k \in Int
      /\ \A j \in i..k : j \in 1..len
      /\ \A j \in 1..n : 1 + j \in 1..(k - i + 1) /\ i + (1 + j) - 1 = i + j
      /\ 1 \in 1..(k - i + 1) /\ i + 1 - 1 = i
  <2>1. i \in 1..len /\ i + n <= len
    BY Zenon, <1>1
  <2>2. Inside(len, n, i, i + n)
    BY Zenon, <2>1, Positions
  <2>. QED BY Zenon, <1>2, <2>2 DEF Inside
<1>4. PICK f : f = SubSeq(buf, i, k)
  OBVIOUS
<1>5. PICK b : b = Left(buf, k + 1)
  OBVIOUS
<1>6. b \in Seq(Cell)
  BY Zenon, <1>1, <1>3, <1>5, LeftIs
<1>7. /\ f \in Seq(Cell) /\ Len(f) = n + 1 /\ f[1] = buf[i]
      /\ \A j \in 1..n : f[1 + j] = buf[i + j]
  <2>1. \A j \in i..k : buf[j] \in Cell
    BY Zenon, <1>1, <1>3, ElementOfSeq
  <2>2. /\ f \in Seq(Cell) /\ Len(f) = (IF i <= k THEN k - i + 1 ELSE 0)
        /\ \A j \in 1..(k - i + 1) : f[j] = buf[i + j - 1]
    <3>1. i \in Int /\ k \in Int
      BY Zenon, <1>3
    <3>. QED BY <1>4, <2>1, <3>1, SubSeqProperties
  <2>3. Len(f) = n + 1
    BY Zenon, <1>3, <2>2
  <2>4. f[1] = buf[i]
    BY Zenon, <1>3, <2>2
  <2>5. \A j \in 1..n : f[1 + j] = buf[i + j]
    BY Zenon, <1>3, <2>2
  <2>. QED BY Zenon, <2>2, <2>3, <2>4, <2>5
<1>8. PICK s : s = Left(buf, i)
  OBVIOUS
<1>9. s \in Seq(Cell) /\ s = f \o b
  <2>1. s \in Seq(Cell)
    BY Zenon, <1>1, <1>3, <1>8, LeftIs
  <2>2. SubSeq(buf, i, k) \o SubSeq(buf, k + 1, len) = SubSeq(buf, i, len)
    BY Zenon, <1>1, <1>3, ConcatAdjacentSubSeq
  <2>. QED BY Zenon, <1>1, <1>4, <1>5, <1>8, <2>1, <2>2 DEF Left
<1>10. PICK c : c = b \o tail
  OBVIOUS
<1>11. PICK w : w = s \o tail
  OBVIOUS
<1>12. c \in Seq(Cell) /\ w = f \o c
  <2>1. (f \o b) \o tail = f \o (b \o tail)
    BY ZenonT(60), <1>6, <1>7, Regroup
  <2>2. b \o tail \in Seq(Cell)
    BY Zenon, <1>6, ConcatProperties
  <2>. QED BY Zenon, <1>9, <1>10, <1>11, <2>1, <2>2
<1>13. Cat(f, c, w)
  BY Zenon, <1>7, <1>12, CatOf
<1>14. Framed(w)
  BY Zenon, <1>8, <1>11
<1>15. w[1] = f[1]
  <2>1. 1 \in 1..Len(f)
    BY Zenon, <1>3, <1>7
  <2>. QED BY Zenon, <1>13, <2>1 DEF Cat
<1>16. FrameOf(f, buf[i].t, n) /\ Framed(c)
  <2>1. n = w[1].n /\ w[1].t = buf[i].t
    BY Zenon, <1>7, <1>15
  <2>2. FrameOf(f, w[1].t, n) /\ Framed(c)
    BY ZenonT(60), <1>7, <1>12, <1>13, <1>14, <2>1, FrontFrame
  <2>. QED BY Zenon, <2>1, <2>2
<1>. QED BY Zenon, <1>2, <1>4, <1>5, <1>6, <1>7, <1>8, <1>9, <1>10, <1>11, <1>13, <1>16 DEF FrameAt

------------------------------------------------------------------------------
(***************************************************************************)
(* What Scan makes of a buffer.                                            *)
(***************************************************************************)
ScanFrame(buf, i, rest) ==
  IF buf[i].t = "WINDOW_UPDATE"
  THEN [rest EXCEPT !.credit = @ + buf[i + 1].n]
  ELSE [rest EXCEPT !.kept = SubSeq(buf, i, (i + 1 + buf[i].n) - 1) \o @]

Stops(buf, i) == i > Len(buf) \/ i + buf[i].n > Len(buf)

ScanAt(buf, g, i) ==
  IF Stops(buf, i) THEN [kept |-> SubSeq(buf, i, Len(buf)), credit |-> 0]
  ELSE ScanFrame(buf, i, g[i + 1 + buf[i].n])

ScanIs(buf, g) == g = [i \in 1..(Len(buf) + 1) |-> ScanAt(buf, g, i)]

LEMMA WholeNext ==
  ASSUME NEW buf \in Seq(Cell), NEW len \in Nat, len = Len(buf), NEW i \in 1..(len + 1),
         ~Stops(buf, i)
  PROVE  /\ i \in 1..len /\ buf[i].n \in Nat /\ i + buf[i].n <= len
         /\ i + 1 + buf[i].n \in 1..(len + 1) /\ i < i + 1 + buf[i].n
<1>1. ~(i > len)
  BY DEF Stops
<1>2. i \in 1..len
  BY <1>1
<1>3. PICK n \in Nat : n = buf[i].n
  BY Zenon, <1>2, CellsOf
<1>4. ~(i + n > len)
  BY Zenon, <1>3 DEF Stops
<1>5. i + n <= len /\ i + 1 + n \in 1..(len + 1) /\ i < i + 1 + n
  BY <1>2, <1>4
<1>. QED BY Zenon, <1>2, <1>3, <1>5

\* The frame at i needs what is behind it only.
LEMMA ScanUses ==
  ASSUME NEW buf \in Seq(Cell), NEW n \in Nat, n = Len(buf) + 1, NEW i \in 1..n,
         NEW g, NEW h, \A j \in 1..n : i < j => h[j] = g[j]
  PROVE  ScanAt(buf, h, i) = ScanAt(buf, g, i)
<1>a. PICK len \in Nat : len = Len(buf) /\ n = len + 1
  BY LenProperties
<1>b. i \in 1..(len + 1)
  BY Zenon, <1>a
<1>1. CASE ~Stops(buf, i)
  <2>1. h[i + 1 + buf[i].n] = g[i + 1 + buf[i].n]
    <3>1. i + 1 + buf[i].n \in 1..(len + 1) /\ i < i + 1 + buf[i].n
      BY Zenon, <1>a, <1>b, <1>1, WholeNext
    <3>. QED BY Zenon, <1>a, <3>1
  <2>. QED BY Zenon, <1>1, <2>1 DEF ScanAt
<1>2. CASE Stops(buf, i)
  BY Zenon, <1>2 DEF ScanAt
<1>. QED BY <1>1, <1>2

\* The function that Scan defines by itself exists: it is built from the end of the
\* buffer, where it does not look any further.
LEMMA ScanExists ==
  ASSUME NEW buf \in Seq(Cell)
  PROVE  \E g : ScanIs(buf, g)
<1>1. PICK len \in Nat : len = Len(buf)
  BY LenProperties
<1>2. PICK n \in Nat : n = len + 1
  BY <1>1
<1>n. n \in Nat /\ n = Len(buf) + 1
  BY Zenon, <1>1, <1>2
<1>. DEFINE From(k, g) == \A i \in 1..n : n - k < i => g[i] = ScanAt(buf, g, i)
<1>. DEFINE G == {k \in 0..n : \E g : From(k, g)}
<1>3. 0 \in G
  <2>1. 0 \in 0..n /\ \A i \in 1..n : ~(n - 0 < i)
    OBVIOUS
  <2>. QED BY Zenon, <2>1
<1>4. ASSUME NEW k \in 0..n, k < n, k \in G PROVE k + 1 \in G
  <2>1. PICK g : From(k, g)
    BY <1>4
  <2>. HIDE DEF G
  <2>2. PICK p \in 1..n : p = n - k
    <3>1. n - k \in 1..n
      BY <1>4
    <3>. QED BY <3>1
  <2>3. PICK h : h = [i \in 1..n |-> IF i = p THEN ScanAt(buf, g, p) ELSE g[i]]
    OBVIOUS
  <2>4. h[p] = ScanAt(buf, g, p) /\ \A i \in 1..n : i # p => h[i] = g[i]
    BY Zenon, <2>3
  <2>5. ASSUME NEW i \in 1..n, n - (k + 1) < i PROVE h[i] = ScanAt(buf, h, i)
    <3>1. p <= i /\ (i = p \/ n - k < i)
      BY <1>4, <2>2, <2>5
    <3>2. \A j \in 1..n : i < j => j # p
      BY <3>1
    <3>3. \A j \in 1..n : i < j => h[j] = g[j]
      BY Zenon, <2>4, <3>2
    <3>4. ScanAt(buf, h, i) = ScanAt(buf, g, i)
      BY <1>n, <3>3, ScanUses
    <3>5. CASE i = p
      BY Zenon, <2>4, <3>4, <3>5
    <3>6. CASE i # p
      <4>1. h[i] = g[i] /\ g[i] = ScanAt(buf, g, i)
        BY Zenon, <2>1, <2>4, <3>1, <3>6
      <4>. QED BY Zenon, <3>4, <4>1
    <3>. QED BY <3>5, <3>6
  <2>6. k + 1 \in 0..n
    BY <1>4
  <2>. QED BY Zenon, <2>5, <2>6 DEF G
<1>5. n \in G
  <2>. HIDE DEF G
  <2>1. n \in 0..n
    OBVIOUS
  <2>. QED BY Zenon, <1>3, <1>4, <2>1, UpTo
<1>6. PICK g : From(n, g)
  BY <1>5
<1>7. PICK h : h = [i \in 1..n |-> g[i]]
  OBVIOUS
<1>8. ASSUME NEW i \in 1..n PROVE h[i] = ScanAt(buf, h, i)
  <2>1. \A j \in 1..n : h[j] = g[j]
    BY Zenon, <1>7
  <2>2. ScanAt(buf, h, i) = ScanAt(buf, g, i)
    BY ONLY ZenonT(60), buf \in Seq(Cell), i \in 1..n, <1>n, <2>1, ScanUses
  <2>3. n - n < i
    OBVIOUS
  <2>. QED BY Zenon, <1>6, <2>1, <2>2, <2>3
<1>9. h = [i \in 1..n |-> ScanAt(buf, h, i)]
  <2>1. [i \in 1..n |-> h[i]] = [i \in 1..n |-> ScanAt(buf, h, i)]
    BY Zenon, <1>8
  <2>2. h = [i \in 1..n |-> h[i]]
    BY Zenon, <1>7
  <2>. QED BY Zenon, <2>1, <2>2
<1>. QED BY Zenon, <1>1, <1>2, <1>9 DEF ScanIs

\* So Scan returns its value at the first cell.
LEMMA ScanOf ==
  ASSUME NEW buf \in Seq(Cell)
  PROVE  \E g : ScanIs(buf, g) /\ Scan(buf) = g[1]
<1>1. PICK g : g = CHOOSE h : ScanIs(buf, h)
  OBVIOUS
<1>2. ScanIs(buf, g)
  BY Zenon, <1>1, ScanExists
<1>3. Scan(buf) = (CHOOSE h : ScanIs(buf, h))[1]
  BY Zenon DEF Scan, ScanIs, ScanAt, ScanFrame, Stops
<1>. QED BY Zenon, <1>1, <1>2, <1>3

\* What stays of frames s when WINDOW_UPDATE frames with this credit are taken out:
\* frames, with the same units in the same order.
Sifts(s, t, credit) ==
  /\ Framed(t) /\ Credits(s) = credit + Credits(t)
  /\ Keeps(s, t)

\* buf followed by tail sifts to r.kept followed by tail.
Sifted(s, r, tail) ==
  r.kept \in Seq(Cell) /\ r.credit \in Nat /\ Sifts(s, r.kept \o tail, r.credit)

ScanResult == [kept : Seq(Cell), credit : Nat]

LEMMA ResultCredit ==
  ASSUME NEW r \in ScanResult, NEW c \in Nat, NEW q, q = [r EXCEPT !.credit = c]
  PROVE  q \in ScanResult /\ q.kept = r.kept /\ q.credit = c
BY DEF ScanResult

LEMMA ResultKept ==
  ASSUME NEW r \in ScanResult, NEW k \in Seq(Cell), NEW q, q = [r EXCEPT !.kept = k]
  PROVE  q \in ScanResult /\ q.kept = k /\ q.credit = r.credit
BY DEF ScanResult

\* Where no whole frame is left Scan keeps everything.
LEMMA SiftNone ==
  ASSUME NEW buf \in Seq(Cell), NEW tail \in Seq(Cell), NEW i \in 1..(Len(buf) + 1),
         Framed(Left(buf, i) \o tail),
         NEW r, r = [kept |-> SubSeq(buf, i, Len(buf)), credit |-> 0]
  PROVE  r \in ScanResult /\ Sifted(Left(buf, i) \o tail, r, tail)
<1>1. PICK s : s = Left(buf, i)
  OBVIOUS
<1>2. s \in Seq(Cell)
  BY Zenon, <1>1, LeftIs
<1>3. r = [kept |-> s, credit |-> 0]
  BY Zenon, <1>1 DEF Left
<1>4. r \in ScanResult /\ r.kept = s /\ r.credit = 0
  BY <1>2, <1>3 DEF ScanResult
<1>5. PICK w : w = s \o tail
  OBVIOUS
<1>6. w \in Seq(Cell) /\ Framed(w)
  BY Zenon, <1>1, <1>2, <1>5, ConcatProperties
<1>7. Credits(w) \in Nat
  BY Zenon, <1>2, <1>5, CatOf, CreditsCat
<1>8. Credits(w) = 0 + Credits(w) /\ 0 \in Nat
  BY <1>7
<1>9. Sifts(w, w, 0)
  BY Zenon, <1>6, <1>8 DEF Sifts, Keeps
<1>. QED BY Zenon, <1>1, <1>2, <1>4, <1>5, <1>8, <1>9 DEF Sifted

\* A frame in front of a buffer that sifts.
LEMMA SiftFrame ==
  ASSUME NEW buf \in Seq(Cell), NEW tail \in Seq(Cell), NEW i \in 1..Len(buf),
         NEW n \in Nat, n = buf[i].n, i + n <= Len(buf), Framed(Left(buf, i) \o tail),
         NEW rest \in ScanResult,
         Framed(Left(buf, i + n + 1) \o tail)
           => Sifted(Left(buf, i + n + 1) \o tail, rest, tail),
         NEW r, r = ScanFrame(buf, i, rest)
  PROVE  r \in ScanResult /\ Sifted(Left(buf, i) \o tail, r, tail)
<1>0. PICK f \in Seq(Cell), b \in Seq(Cell) : FrameAt(buf, tail, i, n, f, b)
  BY Zenon, NextFrame
<1>1. /\ f = SubSeq(buf, i, i + n) /\ b = Left(buf, i + n + 1) /\ Left(buf, i) = f \o b
      /\ FrameOf(f, buf[i].t, n) /\ f[1] = buf[i]
      /\ \A j \in 1..n : f[1 + j] = buf[i + j]
      /\ Cat(f, b \o tail, Left(buf, i) \o tail) /\ Framed(b \o tail)
  BY Zenon, <1>0 DEF FrameAt
<1>2. PICK type : type = buf[i].t
  OBVIOUS
<1>3. PICK s, c : s = Left(buf, i) \o tail /\ c = b \o tail
  OBVIOUS
<1>4. /\ FrameOf(f, type, n) /\ Cat(f, c, s) /\ Framed(c)
      /\ c \in Seq(Cell)
  BY Zenon, <1>1, <1>2, <1>3, ConcatProperties
<1>5. PICK x \in Seq(Cell), credit \in Nat : x = rest.kept /\ credit = rest.credit
  BY DEF ScanResult
<1>6. PICK t : t = x \o tail
  OBVIOUS
<1>7. t \in Seq(Cell) /\ Credits(t) \in Nat
  BY Zenon, <1>5, <1>6, ConcatProperties, CatOf, CreditsCat
<1>8. Sifts(c, t, credit)
  BY Zenon, <1>1, <1>3, <1>4, <1>5, <1>6 DEF Sifted
<1>9. /\ Credits(f) \in Nat /\ Credits(s) = Credits(f) + Credits(c) /\ f \in Seq(Cell)
      /\ Credits(f) = IF type = "WINDOW_UPDATE" THEN f[2].n ELSE 0
  BY ZenonT(60), <1>4, CreditsCat, FrameCredits DEF FrameOf
<1>10. /\ Framed(t) /\ Credits(c) = credit + Credits(t)
       /\ Keeps(c, t)
  BY Zenon, <1>8 DEF Sifts
<1>11. CASE type = "WINDOW_UPDATE"
  <2>1. n = 1
    BY Zenon, <1>4, <1>11 DEF FrameOf
  <2>2. 1 \in 1..n /\ 1 + 1 = 2
    BY <2>1
  <2>3. f[2] = buf[i + 1]
    BY Zenon, <1>1, <2>2
  <2>4. PICK v \in Nat : v = buf[i + 1].n /\ v = Credits(f)
    BY Zenon, <1>9, <1>11, <2>3
  <2>5. r = [rest EXCEPT !.credit = @ + buf[i + 1].n]
    BY Zenon, <1>2, <1>11 DEF ScanFrame
  <2>6. r = [rest EXCEPT !.credit = credit + v]
    BY Zenon, <1>5, <2>4, <2>5
  <2>7. r \in ScanResult /\ r.kept = x /\ r.credit = credit + v /\ credit + v \in Nat
    <3>1. credit + v \in Nat
      OBVIOUS
    <3>. QED BY <1>5, <2>6, <3>1, ResultCredit
  <2>8. Credits(s) = (credit + v) + Credits(t)
    BY <1>7, <1>9, <1>10, <2>4
  <2>9. type # "DATA"
    BY <1>11
  <2>10. Keeps(s, t)
    BY Zenon, <1>4, <1>10, <2>9, OtherFrame DEF Keeps
  <2>11. Sifts(s, t, credit + v)
    BY Zenon, <1>10, <2>8, <2>10 DEF Sifts
  <2>. QED BY Zenon, <1>3, <1>5, <1>6, <2>7, <2>11 DEF Sifted
<1>12. CASE type # "WINDOW_UPDATE"
  <2>1. r = [rest EXCEPT !.kept = SubSeq(buf, i, (i + 1 + buf[i].n) - 1) \o @]
    BY Zenon, <1>2, <1>12 DEF ScanFrame
  <2>2. (i + 1 + n) - 1 = i + n
    <3>1. Len(buf) \in Nat
      BY LenProperties
    <3>. QED BY ONLY i \in 1..Len(buf), n \in Nat, <3>1
  <2>3. PICK y : y = f \o x
    OBVIOUS
  <2>4. r = [rest EXCEPT !.kept = y]
    BY Zenon, <1>1, <1>5, <2>1, <2>2, <2>3
  <2>5. y \in Seq(Cell)
    BY Zenon, <1>5, <1>9, <2>3, ConcatProperties
  <2>6. r \in ScanResult /\ r.kept = y /\ r.credit = credit
    BY <1>5, <2>4, <2>5, ResultKept
  <2>7. PICK w : w = y \o tail
    OBVIOUS
  <2>8. w = f \o t
    BY ZenonT(60), <1>5, <1>6, <1>9, <2>3, <2>7, Regroup
  <2>9. Cat(f, t, w)
    BY Zenon, <1>7, <1>9, <2>8, CatOf
  <2>10. Framed(w)
    <3>1. Framed(f)
      BY Zenon, <1>4, FramedOne
    <3>. QED BY Zenon, <1>7, <1>9, <1>10, <2>9, <3>1, FramedCat
  <2>11. Credits(w) = Credits(f) + Credits(t)
    BY Zenon, <1>7, <1>9, <2>9, CreditsCat
  <2>12. Credits(s) = credit + Credits(w)
    <3>1. Credits(f) = 0
      BY Zenon, <1>9, <1>12
    <3>. QED BY <1>7, <1>9, <1>10, <2>11, <3>1
  <2>13. Keeps(s, w)
    BY Zenon, <1>4, <1>7, <1>10, <2>9, KeepFrame
  <2>14. Sifts(s, w, credit)
    BY Zenon, <2>10, <2>12, <2>13 DEF Sifts
  <2>. QED BY Zenon, <1>3, <1>5, <2>5, <2>6, <2>7, <2>14 DEF Sifted
<1>. QED BY <1>11, <1>12

\* What is scanned, with what is still on its way behind it.
LEMMA ScanSifts ==
  ASSUME NEW buf \in Seq(Cell), NEW tail \in Seq(Cell), Framed(buf \o tail)
  PROVE  Sifted(buf \o tail, Scan(buf), tail)
<1>1. PICK len \in Nat : len = Len(buf)
  BY LenProperties
<1>2. PICK n \in Nat : n = len + 1
  BY <1>1
<1>3. PICK g : ScanIs(buf, g) /\ Scan(buf) = g[1]
  BY ScanOf
<1>4. \A i \in 1..n : g[i] = ScanAt(buf, g, i)
  BY Zenon, <1>1, <1>2, <1>3 DEF ScanIs
<1>. DEFINE P(i) == Framed(Left(buf, i) \o tail)
                      => g[i] \in ScanResult /\ Sifted(Left(buf, i) \o tail, g[i], tail)
<1>. DEFINE G == {k \in Nat : \A i \in 1..n : n - k <= i => P(i)}
<1>5. ASSUME NEW i \in 1..n, \A j \in 1..n : i < j => P(j)
      PROVE  P(i)
  <2>. SUFFICES ASSUME Framed(Left(buf, i) \o tail)
                PROVE  g[i] \in ScanResult /\ Sifted(Left(buf, i) \o tail, g[i], tail)
    OBVIOUS
  <2>1. CASE Stops(buf, i)
    <3>1. g[i] = [kept |-> SubSeq(buf, i, Len(buf)), credit |-> 0]
      BY Zenon, <1>4, <2>1 DEF ScanAt
    <3>2. i \in 1..(Len(buf) + 1)
      BY Zenon, <1>1, <1>2
    <3>. QED BY Zenon, <3>1, <3>2, SiftNone
  <2>2. CASE ~Stops(buf, i)
    <3>1. i \in 1..(len + 1)
      BY Zenon, <1>2
    <3>2. /\ i \in 1..len /\ buf[i].n \in Nat /\ i + buf[i].n <= len
          /\ i + 1 + buf[i].n \in 1..(len + 1) /\ i < i + 1 + buf[i].n
      BY Zenon, <1>1, <2>2, <3>1, WholeNext
    <3>3. PICK v \in Nat : v = buf[i].n
      BY Zenon, <3>2
    <3>4. i + 1 + v = i + v + 1
      OBVIOUS
    <3>5. PICK rest : rest = g[i + v + 1]
      OBVIOUS
    <3>6. g[i] = ScanFrame(buf, i, rest)
      BY Zenon, <1>4, <2>2, <3>3, <3>4, <3>5 DEF ScanAt
    <3>7. P(i + v + 1)
      BY Zenon, <1>2, <1>5, <3>2, <3>3, <3>4
    <3>8. Framed(Left(buf, i + v + 1) \o tail)
      <4>1. i \in 1..Len(buf) /\ i + v <= Len(buf)
        BY Zenon, <1>1, <3>2, <3>3
      <4>2. PICK f, b : FrameAt(buf, tail, i, v, f, b)
        BY Zenon, <3>3, <4>1, NextFrame
      <4>. QED BY Zenon, <4>2 DEF FrameAt
    <3>9. rest \in ScanResult /\ Sifted(Left(buf, i + v + 1) \o tail, rest, tail)
      BY Zenon, <3>5, <3>7, <3>8
    <3>. QED BY Zenon, <1>1, <3>2, <3>3, <3>6, <3>9, SiftFrame
  <2>. QED BY <2>1, <2>2
<1>. HIDE DEF P
<1>6. 0 \in G
  <2>1. ASSUME NEW i \in 1..n, n - 0 <= i PROVE P(i)
    <3>1. \A j \in 1..n : ~(i < j)
      BY <2>1
    <3>. QED BY Zenon, <1>5, <3>1
  <2>. QED BY <2>1
<1>7. ASSUME NEW k \in 0..n, k < n, k \in G PROVE k + 1 \in G
  <2>1. \A i \in 1..n : n - k <= i => P(i)
    BY <1>7
  <2>2. ASSUME NEW i \in 1..n, n - (k + 1) <= i PROVE P(i)
    <3>1. \A j \in 1..n : i < j => n - k <= j
      BY <2>2
    <3>. QED BY Zenon, <1>5, <2>1, <3>1
  <2>3. k + 1 \in Nat
    OBVIOUS
  <2>. QED BY <2>2, <2>3
<1>8. n \in G
  <2>. HIDE DEF G
  <2>1. n \in 0..n
    OBVIOUS
  <2>. QED BY Zenon, <1>6, <1>7, <2>1, UpTo
<1>9. P(1)
  <2>1. \A i \in 1..n : n - n <= i => P(i)
    BY Zenon, <1>8
  <2>2. 1 \in 1..n /\ n - n <= 1
    BY <1>2
  <2>. QED BY Zenon, <2>1, <2>2
<1>10. Left(buf, 1) = buf
  BY Zenon, SubSeqFull DEF Left
<1>. QED BY Zenon, <1>3, <1>9, <1>10 DEF P

------------------------------------------------------------------------------
(***************************************************************************)
(* The inductive invariant.                                                *)
(***************************************************************************)
Writes == {"wait", "headers", "send", "stream"}

\* A call c of an end that has begun frames with p units and may write q, whose
\* readBuffer is buf and whose frame lacks the cells in rest: a Write has units left
\* and room for them, those of the frame it is in among them, and a Read has found
\* the readBuffer empty.
CallOk(c, p, q, buf, rest) ==
  /\ c \in Calls /\ p <= q
  /\ c.op \in Writes => c.left # 0 /\ p + c.left <= q
  /\ c.op = "payload" => Len(rest) \in 1..c.left /\ p + c.left <= q + Len(rest)
  /\ c.op = "read" => buf = <<>>

\* Only a Write that is in the middle of a frame, or that was stopped there by a
\* Close, keeps cells from an open peer.
Rest(x) ==
  ~closed[Peer(x)] /\ unsent[x] # <<>> =>
    call[x].op = "payload" \/ (closed[x] /\ call[x] = Idle)

CallInv ==
  /\ hasSentHeaders \in [Ends -> BOOLEAN] /\ sentBytes \in [Ends -> 0..(Modulus - 1)]
  /\ put \in [Ends -> Nat] /\ DOMAIN call = Ends
  /\ \A x \in Ends : CallOk(call[x], put[x], MaxPut[x], readBuffer[x], unsent[x]) /\ Rest(x)

DataTypes ==
  /\ net \in [Ends -> Seq(Cell)] /\ rawBuffer \in [Ends -> Seq(Cell)]
  /\ unsent \in [Ends -> Seq(Cell)]
  /\ readBuffer \in [Ends -> Seq(Nat)] /\ got \in [Ends -> Seq(Nat)]
  /\ closed \in [Ends -> BOOLEAN] /\ dropped \in [Ends -> BOOLEAN]
  /\ windowSize \in [Ends -> 0..(Modulus - 1)]

Taken(x) == got[x] \o readBuffer[x]

\* The numbers from 1.
Counts(units) == \A i \in 1..Len(units) : units[i] = i

Flow(coming, taken, p) ==
  Counts(taken) /\ Len(taken) <= p /\ InOrder(coming, Len(taken), p)

Good(x) ==
  /\ ~closed[x] => Framed(Coming(x))
  /\ ~closed[x] /\ ~dropped[x] => Flow(Coming(x), Taken(x), put[Peer(x)])
  /\ ~dropped[x] => Counts(got[x])

Balance(x) ==
  ~closed[x] /\ ~closed[Peer(x)] =>
    (windowSize[x] + Credits(Coming(x))) % Modulus = (Window + Len(Taken(Peer(x)))) % Modulus

Inv == CallInv /\ DataTypes /\ \A x \in Ends : Good(x) /\ Balance(x)

\* The calls that write.
WriteCalls == [op : Writes \cup {"payload"}, left : Nat, stream : BOOLEAN, atEnd : Nat]

\* The calls an end may be in.
LEMMA CallKinds ==
  ASSUME NEW c \in Calls
  PROVE  /\ c.op \in Writes \/ c.op = "payload" =>
              c \in WriteCalls /\ c.left \in Nat /\ c.stream \in BOOLEAN /\ c.atEnd \in Nat
         /\ c.op = "read" => c.size \in ReadSizes
         /\ c = Idle => c.op = "idle"
BY DEF Calls, Idle, Writes, WriteCalls

LEMMA IdleOk ==
  ASSUME NEW p, NEW q, p <= q, NEW buf, NEW rest
  PROVE  CallOk(Idle, p, q, buf, rest)
BY DEF CallOk, Calls, Idle, Writes

LEMMA ReadOk ==
  ASSUME NEW p, NEW q, p <= q, NEW size \in ReadSizes, NEW rest
  PROVE  CallOk([op |-> "read", size |-> size], p, q, <<>>, rest)
<1>1. PICK c : c = [op |-> "read", size |-> size]
  OBVIOUS
<1>2. c \in Calls /\ c.op = "read"
  BY <1>1 DEF Calls
<1>3. c.op \notin Writes /\ c.op # "payload"
  BY <1>2 DEF Writes
<1>. QED BY Zenon, <1>1, <1>2, <1>3 DEF CallOk

LEMMA WriteOk ==
  ASSUME NEW p \in Nat, NEW q \in Nat, NEW n \in Nat \ {0}, p + n <= q, NEW stream \in BOOLEAN,
         NEW atEnd \in Nat, NEW buf, NEW rest
  PROVE  CallOk([op |-> "wait", left |-> n, stream |-> stream, atEnd |-> atEnd], p, q, buf, rest)
<1>1. PICK c : c = [op |-> "wait", left |-> n, stream |-> stream, atEnd |-> atEnd]
  OBVIOUS
<1>2. c \in Calls /\ c.op = "wait" /\ c.left = n
  BY <1>1 DEF Calls
<1>3. c.op # "read" /\ c.op # "payload" /\ n # 0 /\ p <= q
  BY <1>2
<1>. QED BY Zenon, <1>1, <1>2, <1>3 DEF CallOk

\* A Write goes on, with what it has left.
LEMMA PhaseOk ==
  ASSUME NEW c, NEW p, NEW q, NEW buf, NEW rest, CallOk(c, p, q, buf, rest), c.op \in Writes,
         NEW op \in Writes, NEW d, d = [c EXCEPT !.op = op], NEW buf2, NEW rest2
  PROVE  CallOk(d, p, q, buf2, rest2)
<1>1. c \in WriteCalls /\ p <= q /\ c.left # 0 /\ p + c.left <= q
  BY Zenon, CallKinds DEF CallOk
<1>2. d \in WriteCalls /\ d.op = op /\ d.left = c.left
  BY <1>1 DEF WriteCalls
<1>3. d \in Calls /\ d.op # "read" /\ d.op # "payload"
  BY <1>2 DEF Calls, WriteCalls, Writes
<1>. QED BY Zenon, <1>1, <1>2, <1>3 DEF CallOk

\* A Write begins a frame with n of the units it has left.
LEMMA BeginOk ==
  ASSUME NEW c, NEW p \in Nat, NEW q \in Nat, NEW buf, NEW rest, CallOk(c, p, q, buf, rest),
         c.op \in Writes, NEW n \in 1..c.left, NEW d, d = [c EXCEPT !.op = "payload"],
         NEW buf2, NEW rest2, Len(rest2) = n
  PROVE  p + n \in Nat /\ p + n <= q /\ CallOk(d, p + n, q, buf2, rest2)
<1>1. c \in WriteCalls /\ p + c.left <= q
  BY Zenon, CallKinds DEF CallOk
<1>2. d \in WriteCalls /\ d.op = "payload" /\ d.left = c.left
  BY <1>1 DEF WriteCalls
<1>3. d \in Calls /\ d.op # "read" /\ d.op \notin Writes
  BY <1>2 DEF Calls, WriteCalls, Writes
<1>4. PICK left \in Nat : left = c.left
  BY <1>1 DEF WriteCalls
<1>5. n \in 1..left /\ p + left <= q
  BY Zenon, <1>1, <1>4
<1>6. p + n \in Nat /\ p + n <= q /\ p + n + left <= q + n
  BY ONLY <1>5, left \in Nat, p \in Nat, q \in Nat
<1>. QED BY Zenon, <1>2, <1>3, <1>4, <1>5, <1>6 DEF CallOk

\* A Write has written the rest of its frame, and has more left.
LEMMA LeftOk ==
  ASSUME NEW c, NEW p \in Nat, NEW q \in Nat, NEW buf, NEW rest, CallOk(c, p, q, buf, rest),
         c.op = "payload", NEW n, n = Len(rest), c.left # n,
         NEW op \in Writes, NEW d \in WriteCalls, d.op = op, d.left = c.left - n,
         NEW buf2, NEW rest2
  PROVE  CallOk(d, p, q, buf2, rest2)
<1>1. PICK left \in Nat : left = c.left /\ n \in 1..left /\ p + left <= q + n /\ left # n
  BY Zenon, CallKinds DEF CallOk
<1>2. PICK k, m : k = left - m /\ m = n
  OBVIOUS
<1>a. m \in 1..left /\ p + left <= q + m /\ left # m /\ k = left - m
  BY Zenon, <1>1, <1>2
<1>3. k # 0 /\ p + k <= q /\ p <= q
  BY ONLY <1>a, left \in Nat, p \in Nat, q \in Nat
<1>4. d \in Calls /\ d.op # "read" /\ d.op # "payload"
  BY DEF Calls, WriteCalls, Writes
<1>. QED BY Zenon, <1>1, <1>2, <1>3, <1>4 DEF CallOk

LEMMA MinOfTwo ==
  ASSUME NEW a \in Nat \ {0}, NEW b \in Nat \ {0}
  PROVE  Min({a, b}) \in 1..a
<1>1. \E x \in {a, b} : \A y \in {a, b} : x <= y
  BY SMT
<1>2. Min({a, b}) \in {a, b} /\ \A y \in {a, b} : Min({a, b}) <= y
  BY Zenon, <1>1 DEF Min
<1>. QED BY <1>2

LEMMA ModulusIs ==
  /\ Modulus \in Nat \ {0} /\ Window \in Nat /\ MaxPut \in [Ends -> Nat]
  /\ \A x \in Nat : x % Modulus \in 0..(Modulus - 1)
  /\ \A x \in 0..(Modulus - 1) : x \in Nat /\ x % Modulus = x
<1>1. Modulus \in Nat \ {0} /\ Window \in Nat /\ MaxPut \in [Ends -> Nat]
  BY Http3Assumption
<1>2. \A x \in Nat : x % Modulus \in 0..(Modulus - 1)
  BY Zenon, <1>1, Division
<1>3. ASSUME NEW m \in Nat \ {0}, NEW x \in 0..(m - 1)
      PROVE  x \in Nat /\ x % m = x
  BY Z3
<1>. QED BY Zenon, <1>1, <1>2, <1>3

------------------------------------------------------------------------------
(***************************************************************************)
(* What a step does to the invariant of an end, from what it does to what  *)
(* is coming and to what has been taken.                                   *)
(***************************************************************************)
DataInv == DataTypes /\ \A x \in Ends : Good(x) /\ Balance(x)

\* G is F with v at e.
SetAt(S, F, e, v, G) == G[e] = v /\ G[Peer(e)] = F[Peer(e)] /\ G \in [Ends -> S]

LEMMA NewAt ==
  ASSUME NEW S, NEW F \in [Ends -> S], NEW e \in Ends, NEW v \in S, NEW G, G = [F EXCEPT ![e] = v]
  PROVE  SetAt(S, F, e, v, G)
BY Peers DEF SetAt

LEMMA TwoEnds ==
  ASSUME NEW e \in Ends
  PROVE  \A x \in Ends : x = e \/ x = Peer(e)
BY DEF Ends, Peer

\* The types of one end.
LEMMA DataOf ==
  ASSUME DataTypes, NEW x \in Ends
  PROVE  /\ rawBuffer[x] \in Seq(Cell) /\ net[x] \in Seq(Cell) /\ unsent[x] \in Seq(Cell)
         /\ Way(x) \in Seq(Cell) /\ Coming(x) \in Seq(Cell)
         /\ readBuffer[x] \in Seq(Nat) /\ got[x] \in Seq(Nat) /\ Taken(x) \in Seq(Nat)
         /\ Len(Taken(x)) \in Nat /\ windowSize[x] \in 0..(Modulus - 1) /\ windowSize[x] \in Nat
         /\ Credits(Coming(x)) \in Nat
<1>1. /\ rawBuffer[x] \in Seq(Cell) /\ net[x] \in Seq(Cell)
      /\ unsent[x] \in Seq(Cell) /\ unsent[Peer(x)] \in Seq(Cell)
      /\ readBuffer[x] \in Seq(Nat) /\ got[x] \in Seq(Nat)
      /\ windowSize[x] \in 0..(Modulus - 1)
  BY Peers DEF DataTypes
<1>2. Way(x) \in Seq(Cell)
  BY Zenon, <1>1, ConcatProperties DEF Way
<1>3. Coming(x) \in Seq(Cell) /\ Taken(x) \in Seq(Nat)
  BY Zenon, <1>1, <1>2, ConcatProperties DEF Coming, Taken
<1>4. Len(Taken(x)) \in Nat
  BY Zenon, <1>3, LenProperties
<1>5. windowSize[x] \in Nat
  BY Zenon, <1>1, ModulusIs
<1>6. Credits(Coming(x)) \in Nat
  BY Zenon, <1>1, <1>2, CatOf, CreditsCat DEF Coming
<1>. QED BY Zenon, <1>1, <1>2, <1>3, <1>4, <1>5, <1>6

\* What a step leaves alone about an end.
SameTaken(x) ==
  /\ got'[x] = got[x] /\ readBuffer'[x] = readBuffer[x]
  /\ closed'[x] = closed[x] /\ dropped'[x] = dropped[x]
SameComing(x) ==
  /\ rawBuffer'[x] = rawBuffer[x] /\ net'[x] = net[x] /\ unsent'[Peer(x)] = unsent[Peer(x)]
  /\ windowSize'[x] = windowSize[x]

LEMMA GoodKeeps ==
  ASSUME Inv, NEW x \in Ends, SameTaken(x), put'[Peer(x)] = put[Peer(x)],
         ~closed[x] => Framed(Coming(x)') /\ Keeps(Coming(x), Coming(x)')
  PROVE  Good(x)'
<1>1. Good(x) /\ DataTypes /\ put[Peer(x)] \in Nat
  BY Peers DEF Inv, CallInv
<1>2. Taken(x)' = Taken(x) /\ Len(Taken(x)) \in Nat
  BY Zenon, <1>1, DataOf DEF Taken, SameTaken
<1>3. ~closed[x] /\ ~dropped[x] => Flow(Coming(x)', Taken(x), put[Peer(x)])
  BY Zenon, <1>1, <1>2 DEF Good, Flow, Keeps
<1>. QED BY Zenon, <1>1, <1>2, <1>3 DEF Good, SameTaken

\* An end that takes nothing and to which nothing comes is as good as before.
LEMMA GoodSame ==
  ASSUME Inv, NEW x \in Ends, SameTaken(x), SameComing(x), put'[Peer(x)] = put[Peer(x)]
  PROVE  Good(x)'
<1>1. Good(x) /\ Coming(x)' = Coming(x) /\ Taken(x)' = Taken(x)
  BY Zenon DEF Inv, Coming, Way, Taken, SameTaken, SameComing
<1>. QED BY Zenon, <1>1 DEF Good, SameTaken

\* The sum of the window and what is on its way does not change.
LEMMA BalanceKeeps ==
  ASSUME Inv, NEW x \in Ends, closed' = closed,
         Len(Taken(Peer(x))') = Len(Taken(Peer(x))),
         (windowSize'[x] + Credits(Coming(x)')) % Modulus = (windowSize[x] + Credits(Coming(x))) % Modulus
  PROVE  Balance(x)'
<1>1. Balance(x)
  BY DEF Inv
<1>. QED BY Zenon, <1>1 DEF Balance

LEMMA BalanceSame ==
  ASSUME Inv, NEW x \in Ends, closed' = closed, SameComing(x), SameTaken(Peer(x))
  PROVE  Balance(x)'
<1>1. Coming(x)' = Coming(x) /\ Taken(Peer(x))' = Taken(Peer(x))
  BY Zenon DEF Coming, Way, Taken, SameTaken, SameComing
<1>2. windowSize'[x] = windowSize[x]
  BY DEF SameComing
<1>. QED BY Zenon, <1>1, <1>2, BalanceKeeps

\* Nothing that the invariant is about changes.
LEMMA Still ==
  ASSUME Inv,
         UNCHANGED <<net, rawBuffer, readBuffer, windowSize, closed, unsent, put, got, dropped>>
  PROVE  DataInv'
<1>1. DataTypes' /\ \A x \in Ends : SameTaken(x) /\ SameComing(x) /\ put'[Peer(x)] = put[Peer(x)]
  BY DEF Inv, DataTypes, SameTaken, SameComing
<1>2. \A x \in Ends : Good(x)'
  BY Zenon, <1>1, GoodSame
<1>3. \A x \in Ends : Balance(x)'
  BY Zenon, <1>1, Peers, BalanceSame
<1>. QED BY Zenon, <1>1, <1>2, <1>3 DEF DataInv

\* The same cells, taken from the connection.
LEMMA Pulling ==
  ASSUME Inv, NEW e \in Ends, NEW k \in Pieces(e), NEW b, b = SubSeq(net[e], k + 1, Len(net[e]))
  PROVE  /\ Pulled(e, k) \in Seq(Cell) /\ b \in Seq(Cell)
         /\ b \o unsent[Peer(e)] \in Seq(Cell)
         /\ Pulled(e, k) \o (b \o unsent[Peer(e)]) = Coming(e)
<1>1. rawBuffer[e] \in Seq(Cell) /\ net[e] \in Seq(Cell) /\ unsent[Peer(e)] \in Seq(Cell)
  BY Zenon, Peers, DataOf DEF Inv
<1>2. PICK len \in Nat : len = Len(net[e])
  BY Zenon, <1>1, LenProperties
<1>3. k \in 0..Len(net[e])
  <2>1. k \in 1..len
    BY Zenon, <1>2 DEF Pieces
  <2>2. k \in 0..len
    BY ONLY <2>1, len \in Nat
  <2>. QED BY Zenon, <1>2, <2>2
<1>4. CutAt(net[e], k, SubSeq(net[e], 1, k), SubSeq(net[e], k + 1, Len(net[e])))
  BY Zenon, <1>1, <1>3, Split
<1>5. PICK a, u : a = SubSeq(net[e], 1, k) /\ u = unsent[Peer(e)]
  OBVIOUS
<1>6. a \in Seq(Cell) /\ b \in Seq(Cell) /\ net[e] = a \o b /\ u \in Seq(Cell)
  BY Zenon, <1>1, <1>4, <1>5 DEF CutAt
<1>7. rawBuffer[e] \o a \in Seq(Cell) /\ b \o u \in Seq(Cell)
  BY Zenon, <1>1, <1>6, ConcatProperties
<1>8. (a \o b) \o u = a \o (b \o u)
  BY Zenon, <1>6, Regroup
<1>9. (rawBuffer[e] \o a) \o (b \o u) = rawBuffer[e] \o (a \o (b \o u))
  <2>1. PICK raw \in Seq(Cell), v \in Seq(Cell) : raw = rawBuffer[e] /\ v = b \o u
    BY Zenon, <1>1, <1>7
  <2>2. (raw \o a) \o v = raw \o (a \o v)
    BY Zenon, <1>6, Regroup
  <2>. QED BY Zenon, <2>1, <2>2
<1>. QED BY Zenon, <1>5, <1>6, <1>7, <1>8, <1>9 DEF Pulled, Coming, Way

\* processIncomingFrames.
LEMMA Processes ==
  ASSUME Inv, NEW e \in Ends, ~closed[e], ProcessIncomingFrames(e),
         UNCHANGED <<readBuffer, closed, unsent, put, got, dropped>>
  PROVE  DataInv'
<1>1. PICK k \in Pieces(e) :
        /\ Pull(e, k)
        /\ rawBuffer' = [rawBuffer EXCEPT ![e] = Scan(Pulled(e, k)).kept]
        /\ windowSize' = [windowSize EXCEPT ![e] = HandleWindowUpdate(@, Scan(Pulled(e, k)).credit)]
  BY Zenon DEF ProcessIncomingFrames
<1>2. PICK buf, b, tail : /\ buf = Pulled(e, k) /\ b = SubSeq(net[e], k + 1, Len(net[e]))
                          /\ tail = b \o unsent[Peer(e)]
  OBVIOUS
<1>3. /\ buf \in Seq(Cell) /\ b \in Seq(Cell) /\ tail \in Seq(Cell)
      /\ buf \o tail = Coming(e)
  BY Zenon, <1>2, Pulling
<1>4. PICK r : r = Scan(buf)
  OBVIOUS
<1>5. Sifted(Coming(e), r, tail)
  <2>1. Framed(buf \o tail)
    BY Zenon, <1>3 DEF Inv, Good
  <2>. QED BY Zenon, <1>3, <1>4, <2>1, ScanSifts
<1>6. /\ r.kept \in Seq(Cell) /\ r.credit \in Nat
      /\ Sifts(Coming(e), r.kept \o tail, r.credit)
  BY Zenon, <1>5 DEF Sifted
<1>7. PICK kept \in Seq(Cell), credit \in Nat : kept = r.kept /\ credit = r.credit
  BY Zenon, <1>6
<1>8. PICK w : w = (windowSize[e] + credit) % Modulus
  OBVIOUS
<1>9. DataTypes /\ windowSize[e] \in Nat /\ windowSize[e] \in 0..(Modulus - 1)
  BY Zenon, DataOf DEF Inv
<1>10. w \in 0..(Modulus - 1)
  <2>1. windowSize[e] + credit \in Nat
    BY <1>9
  <2>. QED BY Zenon, <1>8, <2>1, ModulusIs
<1>11. /\ net' = [net EXCEPT ![e] = b] /\ rawBuffer' = [rawBuffer EXCEPT ![e] = kept]
       /\ windowSize' = [windowSize EXCEPT ![e] = w]
  BY Zenon, <1>1, <1>2, <1>4, <1>7, <1>8 DEF Pull, HandleWindowUpdate
<1>12. /\ net'[e] = b /\ rawBuffer'[e] = kept /\ windowSize'[e] = w
       /\ net'[Peer(e)] = net[Peer(e)] /\ rawBuffer'[Peer(e)] = rawBuffer[Peer(e)]
       /\ windowSize'[Peer(e)] = windowSize[Peer(e)]
       /\ net' \in [Ends -> Seq(Cell)] /\ rawBuffer' \in [Ends -> Seq(Cell)]
       /\ windowSize' \in [Ends -> 0..(Modulus - 1)]
  <2>1. SetAt(Seq(Cell), net, e, b, net')
    BY Zenon, <1>3, <1>9, <1>11, NewAt DEF DataTypes
  <2>2. SetAt(Seq(Cell), rawBuffer, e, kept, rawBuffer')
    BY Zenon, <1>7, <1>9, <1>11, NewAt DEF DataTypes
  <2>3. SetAt(0..(Modulus - 1), windowSize, e, w, windowSize')
    BY Zenon, <1>9, <1>10, <1>11, NewAt DEF DataTypes
  <2>. QED BY Zenon, <2>1, <2>2, <2>3 DEF SetAt
<1>13. DataTypes'
  BY Zenon, <1>9, <1>12 DEF DataTypes
<1>14. \A x \in Ends : SameTaken(x) /\ put'[Peer(x)] = put[Peer(x)]
  BY Zenon DEF SameTaken
<1>15. Coming(e)' = kept \o tail
  BY Zenon, <1>2, <1>12 DEF Coming, Way
<1>16. /\ Framed(Coming(e)') /\ Keeps(Coming(e), Coming(e)')
       /\ Credits(Coming(e)) = credit + Credits(Coming(e)')
  BY Zenon, <1>6, <1>7, <1>15 DEF Sifts
<1>17. Good(e)'
  BY Zenon, <1>14, <1>16, GoodKeeps
<1>18. Balance(e)'
  <2>1. Credits(Coming(e)') \in Nat
    BY Zenon, <1>3, <1>7, <1>15, CatOf, CreditsCat
  <2>2. PICK c \in Nat : c = Credits(Coming(e)')
    BY <2>1
  <2>3. PICK v \in Nat : v = windowSize[e]
    BY <1>9
  <2>4. (((v + credit) % Modulus) + c) % Modulus = (v + credit + c) % Modulus
    <3>1. v + credit \in Nat
      OBVIOUS
    <3>. QED BY Zenon, <3>1, ModPlus, ModulusIs
  <2>5. v + credit + c = v + (credit + c)
    OBVIOUS
  <2>6. (windowSize'[e] + Credits(Coming(e)')) % Modulus = (windowSize[e] + Credits(Coming(e))) % Modulus
    BY Zenon, <1>8, <1>12, <1>16, <2>2, <2>3, <2>4, <2>5
  <2>7. Taken(Peer(e))' = Taken(Peer(e))
    BY Zenon, <1>14, Peers DEF Taken, SameTaken
  <2>. QED BY Zenon, <2>6, <2>7, BalanceKeeps
<1>19. SameComing(Peer(e))
  BY Zenon, <1>12 DEF SameComing
<1>20. Good(Peer(e))' /\ Balance(Peer(e))'
  BY Zenon, <1>14, <1>19, Peers, GoodSame, BalanceSame
<1>. QED BY Zenon, <1>13, <1>17, <1>18, <1>20, TwoEnds DEF DataInv

------------------------------------------------------------------------------
(***************************************************************************)
(* What is written to the connection.                                      *)
(***************************************************************************)
LEMMA Delivered ==
  ASSUME DataTypes, NEW e \in Ends, NEW f \in Seq(Cell), Deliver(e, f)
  PROVE  /\ net' \in [Ends -> Seq(Cell)] /\ net'[e] = net[e]
         /\ closed[Peer(e)] => net'[Peer(e)] = net[Peer(e)]
         /\ ~closed[Peer(e)] => net'[Peer(e)] = net[Peer(e)] \o f
<1>1. Peer(e) \in Ends /\ Peer(Peer(e)) = e
  BY Zenon, Peers
<1>2. net \in [Ends -> Seq(Cell)] /\ net[Peer(e)] \in Seq(Cell)
  BY Zenon, <1>1, DataOf DEF DataTypes
<1>3. CASE closed[Peer(e)]
  BY Zenon, <1>2, <1>3 DEF Deliver
<1>4. CASE ~closed[Peer(e)]
  <2>1. net' = [net EXCEPT ![Peer(e)] = net[Peer(e)] \o f]
    BY Zenon, <1>4 DEF Deliver
  <2>2. net[Peer(e)] \o f \in Seq(Cell)
    BY Zenon, <1>2, ConcatProperties
  <2>3. SetAt(Seq(Cell), net, Peer(e), net[Peer(e)] \o f, net')
    BY Zenon, <1>1, <1>2, <2>1, <2>2, NewAt
  <2>. QED BY Zenon, <1>1, <1>4, <2>3 DEF SetAt
<1>. QED BY <1>3, <1>4

\* What a Write adds to the way to its peer: cells a are written, and b are what
\* remains to be.
LEMMA WayGrows ==
  ASSUME DataTypes, NEW x \in Ends, NEW a \in Seq(Cell), NEW b \in Seq(Cell),
         unsent[Peer(x)] = <<>>, net'[x] = net[x] \o a, unsent'[Peer(x)] = b
  PROVE  Way(x)' = Way(x) \o (a \o b)
<1>1. net[x] \in Seq(Cell)
  BY Zenon, DataOf
<1>2. Way(x) = net[x]
  BY Zenon, <1>1, ConcatEmptySeq DEF Way
<1>3. (net[x] \o a) \o b = net[x] \o (a \o b)
  BY Zenon, <1>1, Regroup
<1>. QED BY Zenon, <1>2, <1>3 DEF Way

\* What is written of the rest of a frame was on its way before.
LEMMA WayStays ==
  ASSUME DataTypes, NEW x \in Ends, NEW a \in Seq(Cell), NEW b \in Seq(Cell),
         unsent[Peer(x)] = a \o b, net'[x] = net[x] \o a, unsent'[Peer(x)] = b
  PROVE  Way(x)' = Way(x)
<1>1. net[x] \in Seq(Cell)
  BY Zenon, DataOf
<1>2. (net[x] \o a) \o b = net[x] \o (a \o b)
  BY Zenon, <1>1, Regroup
<1>. QED BY Zenon, <1>2 DEF Way

\* What is added to the way is behind what was there.
LEMMA Appended ==
  ASSUME DataTypes, NEW x \in Ends, NEW f \in Seq(Cell),
         rawBuffer'[x] = rawBuffer[x], Way(x)' = Way(x) \o f
  PROVE  Cat(Coming(x), f, Coming(x)')
<1>1. rawBuffer[x] \in Seq(Cell) /\ Way(x) \in Seq(Cell) /\ Coming(x) \in Seq(Cell)
  BY Zenon, DataOf
<1>2. Coming(x)' = Coming(x) \o f
  <2>1. (rawBuffer[x] \o Way(x)) \o f = rawBuffer[x] \o (Way(x) \o f)
    BY Zenon, <1>1, Regroup
  <2>. QED BY Zenon, <2>1 DEF Coming
<1>. QED BY Zenon, <1>1, <1>2, CatOf

LEMMA KeepsAll ==
  ASSUME NEW s
  PROVE  Keeps(s, s)
BY Zenon DEF Keeps

\* A frame without units behind frames.
LEMMA OtherBehind ==
  ASSUME NEW a \in Seq(Cell), Framed(a), NEW f, NEW type, NEW n, FrameOf(f, type, n),
         type # "DATA", NEW s, Cat(a, f, s)
  PROVE  Framed(s) /\ Keeps(a, s)
<1>1. f \in Seq(Cell) /\ Framed(f)
  BY Zenon, FramedOne DEF FrameOf
<1>2. Framed(s)
  BY Zenon, <1>1, FramedCat
<1>3. ASSUME NEW m \in Nat, NEW p \in Nat, m <= p, InOrder(a, m, p)
      PROVE  InOrder(s, m, p)
  <2>1. InOrder(f, p, p)
    BY Zenon, <1>1, NoUnits, InOrderNone
  <2>2. p <= p
    OBVIOUS
  <2>. QED BY Zenon, <1>1, <1>3, <2>1, <2>2, InOrderCat
<1>. QED BY Zenon, <1>2, <1>3 DEF Keeps

\* The step of an end that begins a frame f and writes its cells a, with b to follow.
Sends(e, f, a, b) ==
  /\ a \in Seq(Cell) /\ b \in Seq(Cell) /\ f = a \o b /\ Deliver(e, a)
  /\ unsent' \in [Ends -> Seq(Cell)] /\ unsent'[Peer(e)] = unsent[Peer(e)]
  /\ ~closed[Peer(e)] => unsent[e] = <<>> /\ unsent'[e] = b

\* What the peer of an end gets when that sends a frame without units.
LEMMA OtherSent ==
  ASSUME Inv, NEW e \in Ends, NEW f, NEW type, NEW n, FrameOf(f, type, n), type # "DATA",
         NEW a, NEW b, Sends(e, f, a, b),
         rawBuffer'[Peer(e)] = rawBuffer[Peer(e)], ~closed[Peer(e)]
  PROVE  /\ Framed(Coming(Peer(e))') /\ Keeps(Coming(Peer(e)), Coming(Peer(e))')
         /\ Credits(Coming(Peer(e))') = Credits(Coming(Peer(e))) + Credits(f)
<1>1. DataTypes /\ Peer(e) \in Ends /\ Peer(Peer(e)) = e /\ f \in Seq(Cell) /\ Framed(Coming(Peer(e)))
  BY Zenon, Peers DEF Inv, Good, FrameOf
<1>2. Coming(Peer(e)) \in Seq(Cell)
  BY Zenon, <1>1, DataOf
<1>3. /\ a \in Seq(Cell) /\ b \in Seq(Cell) /\ f = a \o b /\ Deliver(e, a)
      /\ unsent[e] = <<>> /\ unsent'[e] = b
  BY Zenon DEF Sends
<1>4. net'[Peer(e)] = net[Peer(e)] \o a
  BY Zenon, <1>1, <1>3, Delivered
<1>5. Way(Peer(e))' = Way(Peer(e)) \o f
  <2>1. PICK y \in Ends : y = Peer(e)
    BY <1>1
  <2>2. unsent[Peer(y)] = <<>> /\ unsent'[Peer(y)] = b /\ net'[y] = net[y] \o a
    BY Zenon, <1>1, <1>3, <1>4, <2>1
  <2>3. Way(y)' = Way(y) \o (a \o b)
    BY Zenon, <1>1, <1>3, <2>2, WayGrows
  <2>. QED BY Zenon, <1>3, <2>1, <2>3
<1>6. Cat(Coming(Peer(e)), f, Coming(Peer(e))')
  BY Zenon, <1>1, <1>5, Appended
<1>7. Framed(Coming(Peer(e))') /\ Keeps(Coming(Peer(e)), Coming(Peer(e))')
  BY Zenon, <1>1, <1>2, <1>6, OtherBehind
<1>8. Credits(Coming(Peer(e))') = Credits(Coming(Peer(e))) + Credits(f)
  BY Zenon, <1>1, <1>2, <1>6, CreditsCat
<1>. QED BY Zenon, <1>7, <1>8

LEMMA HeadersIs == FrameOf(HeadersFrame, "HEADERS", HeadersSize)
<1>1. HeadersSize \in Nat
  BY Http3Assumption
<1>2. PICK v : v = [i \in 1..HeadersSize |-> 0]
  OBVIOUS
<1>3. v \in Seq(Nat) /\ Len(v) = HeadersSize
  BY <1>1, <1>2
<1>4. "HEADERS" \in Types /\ "HEADERS" # "WINDOW_UPDATE"
  BY ContentOf
<1>5. HeadersFrame = Frame("HEADERS", v)
  BY Zenon, <1>2 DEF HeadersFrame
<1>. QED BY Zenon, <1>1, <1>3, <1>4, <1>5, FrameIs

LEMMA DataFrameIs ==
  ASSUME NEW p \in Nat, NEW n \in Nat
  PROVE  /\ FrameOf(DataFrame(p, n), "DATA", n)
         /\ \A i \in 1..n : DataFrame(p, n)[1 + i].n = p + i
<1>1. PICK v : v = [i \in 1..n |-> p + i]
  OBVIOUS
<1>2. v \in Seq(Nat) /\ Len(v) = n /\ \A i \in 1..n : v[i] = p + i
  <2>1. \A i \in 1..n : p + i \in Nat
    OBVIOUS
  <2>2. v \in Seq(Nat) /\ Len(v) = n
    BY <1>1, <2>1
  <2>3. \A i \in 1..n : v[i] = p + i
    BY <1>1
  <2>. QED BY <2>2, <2>3
<1>3. "DATA" \in Types /\ "DATA" # "WINDOW_UPDATE"
  BY ContentOf
<1>4. PICK f : f = DataFrame(p, n) /\ f = Frame("DATA", v)
  BY Zenon, <1>1 DEF DataFrame
<1>5. FrameOf(f, "DATA", n) /\ Carries(f, v)
  BY Zenon, <1>2, <1>3, <1>4, FrameIs
<1>. QED BY Zenon, <1>2, <1>4, <1>5 DEF Carries

LEMMA UpdateIs ==
  ASSUME NEW n \in Nat
  PROVE  /\ FrameOf(WindowUpdateFrame(n), "WINDOW_UPDATE", 1)
         /\ Credits(WindowUpdateFrame(n)) = n
<1>1. PICK v : v = <<n>>
  OBVIOUS
<1>2. v \in Seq(Nat) /\ Len(v) = 1 /\ v[1] = n
  BY <1>1
<1>3. "WINDOW_UPDATE" \in Types
  BY ContentOf
<1>4. WindowUpdateFrame(n) = Frame("WINDOW_UPDATE", v)
  BY Zenon, <1>1 DEF WindowUpdateFrame
<1>5. 1 \in Nat /\ 1 \in 1..1 /\ 1 + 1 = 2
  OBVIOUS
<1>6. PICK f : f = WindowUpdateFrame(n)
  OBVIOUS
<1>7. FrameOf(f, "WINDOW_UPDATE", 1) /\ Carries(f, v)
  BY Zenon, <1>2, <1>3, <1>4, <1>5, <1>6, FrameIs
<1>8. f[2].n = n
  BY Zenon, <1>2, <1>5, <1>7 DEF Carries
<1>9. Credits(f) = f[2].n
  BY Zenon, <1>7, FrameCredits
<1>. QED BY Zenon, <1>6, <1>7, <1>8, <1>9

\* HEADERS.
LEMMA SendsHeaders ==
  ASSUME Inv, NEW e \in Ends, NEW a, NEW b, Sends(e, HeadersFrame, a, b),
         UNCHANGED <<rawBuffer, readBuffer, windowSize, closed, put, got, dropped>>
  PROVE  DataInv'
<1>1. PICK y \in Ends : y = Peer(e) /\ Peer(y) = e
  BY Zenon, Peers
<1>2. DataTypes
  BY DEF Inv
<1>3. PICK f : f = HeadersFrame
  OBVIOUS
<1>4. FrameOf(f, "HEADERS", HeadersSize) /\ "HEADERS" # "DATA" /\ f \in Seq(Cell)
  BY Zenon, <1>3, HeadersIs, "HEADERS" # "DATA" DEF FrameOf
<1>5. /\ net' \in [Ends -> Seq(Cell)] /\ net'[e] = net[e]
      /\ unsent' \in [Ends -> Seq(Cell)] /\ unsent'[y] = unsent[y]
  BY Zenon, <1>1, <1>2, Delivered DEF Sends
<1>6. DataTypes'
  BY Zenon, <1>2, <1>5 DEF DataTypes
<1>7. \A x \in Ends : SameTaken(x) /\ put'[Peer(x)] = put[Peer(x)]
  BY Zenon DEF SameTaken
<1>8. SameComing(e)
  BY Zenon, <1>1, <1>5 DEF SameComing
<1>9. Good(e)' /\ Balance(e)'
  BY Zenon, <1>1, <1>7, <1>8, GoodSame, BalanceSame
<1>10. ASSUME ~closed[y]
       PROVE  /\ Framed(Coming(y)') /\ Keeps(Coming(y), Coming(y)')
              /\ Credits(Coming(y)') = Credits(Coming(y)) + Credits(f)
  BY Zenon, <1>1, <1>3, <1>4, <1>10, OtherSent
<1>11. Good(y)'
  BY Zenon, <1>7, <1>10, GoodKeeps
<1>12. Balance(y)'
  <2>1. CASE closed[y]
    BY Zenon, <2>1 DEF Balance
  <2>2. CASE ~closed[y]
    <3>1. Credits(f) = 0
      BY <1>4, FrameCredits
    <3>2. PICK c \in Nat : c = Credits(Coming(y))
      BY Zenon, <1>2, DataOf
    <3>3. c + 0 = c
      OBVIOUS
    <3>4. Credits(Coming(y)') = Credits(Coming(y))
      BY Zenon, <1>10, <2>2, <3>1, <3>2, <3>3
    <3>5. Taken(Peer(y))' = Taken(Peer(y))
      BY Zenon DEF Taken
    <3>. QED BY Zenon, <3>4, <3>5, BalanceKeeps
  <2>. QED BY <2>1, <2>2
<1>. QED BY Zenon, <1>1, <1>6, <1>9, <1>11, <1>12, TwoEnds DEF DataInv

\* A DATA frame begins, for the next n units.
LEMMA SendsData ==
  ASSUME Inv, NEW e \in Ends, NEW n \in Nat, NEW a, NEW b, Sends(e, DataFrame(put[e], n), a, b),
         put' = [put EXCEPT ![e] = @ + n],
         UNCHANGED <<rawBuffer, readBuffer, windowSize, closed, got, dropped>>
  PROVE  DataInv'
<1>1. PICK y \in Ends : y = Peer(e) /\ Peer(y) = e /\ y # e
  BY Zenon, Peers
<1>2. DataTypes /\ put \in [Ends -> Nat]
  BY DEF Inv, CallInv
<1>3. PICK p \in Nat : p = put[e]
  BY <1>2
<1>4. PICK f : f = DataFrame(p, n)
  OBVIOUS
<1>5. /\ FrameOf(f, "DATA", n) /\ f \in Seq(Cell)
      /\ \A i \in 1..n : f[1 + i].n = p + i
  <2>1. /\ FrameOf(f, "DATA", n)
        /\ \A i \in 1..n : f[1 + i].n = p + i
    BY Zenon, <1>4, DataFrameIs
  <2>. QED BY Zenon, <2>1 DEF FrameOf
<1>6. /\ a \in Seq(Cell) /\ b \in Seq(Cell) /\ f = a \o b /\ Deliver(e, a)
      /\ unsent' \in [Ends -> Seq(Cell)] /\ unsent'[y] = unsent[y]
      /\ ~closed[y] => unsent[e] = <<>> /\ unsent'[e] = b
  BY Zenon, <1>1, <1>3, <1>4 DEF Sends
<1>7. /\ net' \in [Ends -> Seq(Cell)] /\ net'[e] = net[e]
      /\ ~closed[y] => net'[y] = net[y] \o a
  BY Zenon, <1>1, <1>2, <1>6, Delivered
<1>8. p + n \in Nat /\ p <= p + n
  OBVIOUS
<1>9. put'[e] = p + n /\ put'[y] = put[y]
  <2>1. put' = [put EXCEPT ![e] = p + n]
    BY Zenon, <1>3
  <2>2. SetAt(Nat, put, e, p + n, put')
    BY Zenon, <1>2, <1>8, <2>1, NewAt
  <2>. QED BY Zenon, <1>1, <2>2 DEF SetAt
<1>10. DataTypes'
  BY Zenon, <1>2, <1>6, <1>7 DEF DataTypes
<1>11. \A x \in Ends : SameTaken(x)
  BY Zenon DEF SameTaken
<1>12. SameComing(e)
  BY Zenon, <1>1, <1>6, <1>7 DEF SameComing
<1>13. Good(e)' /\ Balance(e)'
  BY Zenon, <1>1, <1>9, <1>11, <1>12, GoodSame, BalanceSame
<1>14. Good(y) /\ Coming(y) \in Seq(Cell) /\ Len(Taken(y)) \in Nat
  BY Zenon, <1>2, DataOf DEF Inv
<1>15. Taken(y)' = Taken(y) /\ Taken(Peer(y))' = Taken(Peer(y))
  BY Zenon DEF Taken
<1>16. CASE closed[y]
  <2>1. Good(y)'
    BY Zenon, <1>14, <1>16 DEF Good
  <2>2. Balance(y)'
    BY Zenon, <1>16 DEF Balance
  <2>. QED BY Zenon, <1>1, <1>10, <1>13, <2>1, <2>2, TwoEnds DEF DataInv
<1>17. CASE ~closed[y]
  <2>1. Way(y)' = Way(y) \o f
    <3>1. unsent[Peer(y)] = <<>> /\ unsent'[Peer(y)] = b /\ net'[y] = net[y] \o a
      BY Zenon, <1>1, <1>6, <1>7, <1>17
    <3>2. Way(y)' = Way(y) \o (a \o b)
      BY Zenon, <1>2, <1>6, <3>1, WayGrows
    <3>. QED BY Zenon, <1>6, <3>2
  <2>2. Cat(Coming(y), f, Coming(y)')
    BY Zenon, <1>2, <1>5, <2>1, Appended
  <2>3. Framed(Coming(y)')
    BY Zenon, <1>5, <1>14, <1>17, <2>2, FramedOne, FramedCat DEF Good
  <2>4. ~dropped[y] => Flow(Coming(y)', Taken(y), p + n)
    <3>. SUFFICES ASSUME ~dropped[y] PROVE Flow(Coming(y)', Taken(y), p + n)
      OBVIOUS
    <3>1. Counts(Taken(y)) /\ Len(Taken(y)) <= p /\ InOrder(Coming(y), Len(Taken(y)), p)
      BY Zenon, <1>1, <1>3, <1>14, <1>17 DEF Good, Flow
    <3>2. InOrder(f, p, p + n)
      BY Zenon, <1>5, InOrderFrame
    <3>3. InOrder(Coming(y)', Len(Taken(y)), p + n)
      BY Zenon, <1>5, <1>8, <1>14, <2>2, <3>1, <3>2, InOrderCat
    <3>4. Len(Taken(y)) <= p + n
      BY <1>14, <3>1
    <3>. QED BY Zenon, <3>1, <3>3, <3>4 DEF Flow
  <2>5. Good(y)'
    BY Zenon, <1>1, <1>9, <1>14, <1>15, <2>3, <2>4 DEF Good
  <2>6. Credits(Coming(y)') = Credits(Coming(y))
    <3>1. Credits(f) = 0
      BY Zenon, <1>5, FrameCredits, "DATA" # "WINDOW_UPDATE"
    <3>2. PICK c \in Nat : c = Credits(Coming(y))
      BY Zenon, <1>2, DataOf
    <3>3. c + 0 = c
      OBVIOUS
    <3>. QED BY Zenon, <1>5, <1>14, <2>2, <3>1, <3>2, <3>3, CreditsCat
  <2>7. Balance(y)'
    BY Zenon, <1>15, <2>6, BalanceKeeps
  <2>. QED BY Zenon, <1>1, <1>10, <1>13, <2>5, <2>7, TwoEnds DEF DataInv
<1>. QED BY <1>16, <1>17

\* The rest of a frame, or the first cells of it.
LEMMA SendsRest ==
  ASSUME Inv, NEW e \in Ends, NEW a \in Seq(Cell), NEW b \in Seq(Cell),
         unsent[e] = a \o b, Deliver(e, a), unsent' = [unsent EXCEPT ![e] = b],
         UNCHANGED <<rawBuffer, readBuffer, windowSize, closed, put, got, dropped>>
  PROVE  DataInv'
<1>1. PICK y \in Ends : y = Peer(e) /\ Peer(y) = e
  BY Zenon, Peers
<1>2. DataTypes
  BY DEF Inv
<1>3. SetAt(Seq(Cell), unsent, e, b, unsent')
  BY Zenon, <1>2, NewAt DEF DataTypes
<1>4. /\ net' \in [Ends -> Seq(Cell)] /\ net'[e] = net[e]
      /\ unsent' \in [Ends -> Seq(Cell)] /\ unsent'[y] = unsent[y] /\ unsent'[e] = b
      /\ ~closed[y] => net'[y] = net[y] \o a
  BY Zenon, <1>1, <1>2, <1>3, Delivered DEF SetAt
<1>5. DataTypes'
  BY Zenon, <1>2, <1>4 DEF DataTypes
<1>6. \A x \in Ends : SameTaken(x) /\ put'[Peer(x)] = put[Peer(x)]
  BY Zenon DEF SameTaken
<1>7. SameComing(e)
  BY Zenon, <1>1, <1>4 DEF SameComing
<1>8. Good(e)' /\ Balance(e)'
  BY Zenon, <1>1, <1>6, <1>7, GoodSame, BalanceSame
<1>9. ~closed[y] => Coming(y)' = Coming(y)
  <2>1. ~closed[y] => Way(y)' = Way(y)
    BY Zenon, <1>1, <1>2, <1>4, WayStays
  <2>. QED BY Zenon, <2>1 DEF Coming
<1>10. ~closed[y] => Framed(Coming(y)') /\ Keeps(Coming(y), Coming(y)')
  BY Zenon, <1>9, KeepsAll DEF Inv, Good
<1>11. Good(y)'
  BY Zenon, <1>6, <1>10, GoodKeeps
<1>12. Balance(y)'
  <2>1. CASE closed[y]
    BY Zenon, <2>1 DEF Balance
  <2>2. CASE ~closed[y]
    <3>1. Taken(Peer(y))' = Taken(Peer(y)) /\ Coming(y)' = Coming(y)
      BY Zenon, <1>9, <2>2 DEF Taken
    <3>. QED BY Zenon, <3>1, BalanceKeeps
  <2>. QED BY <2>1, <2>2
<1>. QED BY Zenon, <1>1, <1>5, <1>8, <1>11, <1>12, TwoEnds DEF DataInv

------------------------------------------------------------------------------
(***************************************************************************)
(* What Read takes.                                                        *)
(***************************************************************************)
LEMMA UnitsSplit ==
  ASSUME NEW u \in Seq(Nat), NEW k \in 0..Len(u)
  PROVE  /\ SubSeq(u, 1, k) \in Seq(Nat) /\ SubSeq(u, k + 1, Len(u)) \in Seq(Nat)
         /\ u = SubSeq(u, 1, k) \o SubSeq(u, k + 1, Len(u))
<1>1. PICK n \in Nat : n = Len(u)
  BY LenProperties
<1>2. /\ k \in 0..n /\ k \in Int /\ n \in Int /\ k + 1 \in Int /\ 1 \in Int /\ k \in (1 - 1)..n
      /\ 1 \in 1..(n + 1) /\ n \in k..n
      /\ \A i \in 1..k : i \in 1..n
      /\ \A i \in (k + 1)..n : i \in 1..n
  BY <1>1
<1>3. \A i \in 1..n : u[i] \in Nat
  BY <1>1, ElementOfSeq
<1>4. SubSeq(u, 1, k) \in Seq(Nat)
  BY <1>2, <1>3, SubSeqProperties
<1>5. SubSeq(u, k + 1, n) \in Seq(Nat)
  BY <1>2, <1>3, SubSeqProperties
<1>6. SubSeq(u, 1, k) \o SubSeq(u, k + 1, n) = SubSeq(u, 1, n)
  BY <1>1, <1>2, ConcatAdjacentSubSeq
<1>7. SubSeq(u, 1, n) = u
  BY <1>1, SubSeqFull
<1>. QED BY Zenon, <1>1, <1>4, <1>5, <1>6, <1>7

LEMMA MinUpTo ==
  ASSUME NEW a \in Nat, NEW b \in Nat
  PROVE  Min({a, b}) \in 0..b /\ (Min({a, b}) = a \/ (Min({a, b}) = b /\ b < a))
<1>1. \E x \in {a, b} : \A y \in {a, b} : x <= y
  BY SMT
<1>2. Min({a, b}) \in {a, b} /\ \A y \in {a, b} : Min({a, b}) <= y
  BY Zenon, <1>1 DEF Min
<1>. QED BY <1>2

\* What Read returns and what it leaves for the next call.
LEMMA TakeUnits ==
  ASSUME NEW u \in Seq(Nat), NEW size \in Nat, NEW k, k = Min({size, Len(u)})
  PROVE  /\ SubSeq(u, 1, k) \in Seq(Nat)
         /\ SubSeq(u, k + 1, Len(u)) \in Seq(Nat)
         /\ u = SubSeq(u, 1, k) \o SubSeq(u, k + 1, Len(u))
         /\ SubSeq(u, size + 1, Len(u)) = SubSeq(u, k + 1, Len(u))
<1>1. PICK n \in Nat : n = Len(u)
  BY LenProperties
<1>2. k \in 0..n /\ (k = size \/ (k = n /\ n < size))
  BY Zenon, <1>1, MinUpTo
<1>3. SubSeq(u, size + 1, n) = SubSeq(u, k + 1, n)
  <2>1. CASE k = size
    BY Zenon, <2>1
  <2>2. CASE k = n /\ n < size
    <3>1. n < size + 1 /\ n < k + 1 /\ n \in Int /\ size + 1 \in Int /\ k + 1 \in Int
      BY <2>2
    <3>2. SubSeq(u, size + 1, n) = <<>>
      BY <3>1, SubSeqEmpty
    <3>3. SubSeq(u, k + 1, n) = <<>>
      BY <3>1, SubSeqEmpty
    <3>. QED BY <3>2, <3>3
  <2>. QED BY <1>2, <2>1, <2>2
<1>4. k \in 0..Len(u)
  BY Zenon, <1>1, <1>2
<1>. QED BY Zenon, <1>1, <1>3, <1>4, UnitsSplit

LEMMA CountsCat ==
  ASSUME NEW a \in Seq(Nat), NEW u \in Seq(Nat)
  PROVE  /\ a \o u \in Seq(Nat) /\ Len(a \o u) = Len(a) + Len(u)
         /\ Counts(a \o u) => Counts(a)
         /\ Counts(a) /\ (\A j \in 1..Len(u) : u[j] = Len(a) + j) => Counts(a \o u)
<1>1. PICK m \in Nat, n \in Nat : m = Len(a) /\ n = Len(u)
  BY LenProperties
<1>2. PICK c : c = a \o u
  OBVIOUS
<1>3. /\ c \in Seq(Nat) /\ Len(c) = m + n
      /\ \A i \in 1..(m + n) : c[i] = IF i <= m THEN a[i] ELSE u[i - m]
  BY Zenon, <1>1, <1>2, ConcatProperties
<1>4. ASSUME Counts(c) PROVE Counts(a)
  <2>1. \A i \in 1..m : i \in 1..(m + n) /\ i <= m
    BY <1>1
  <2>2. \A i \in 1..(m + n) : c[i] = i
    BY Zenon, <1>3, <1>4 DEF Counts
  <2>3. \A i \in 1..m : a[i] = i
    BY Zenon, <1>3, <2>1, <2>2
  <2>. QED BY Zenon, <1>1, <2>3 DEF Counts
<1>5. ASSUME Counts(a), \A j \in 1..Len(u) : u[j] = Len(a) + j PROVE Counts(c)
  <2>1. ASSUME NEW i \in 1..(m + n) PROVE c[i] = i
    <3>1. CASE i <= m
      <4>1. i \in 1..m
        BY <3>1
      <4>. QED BY Zenon, <1>1, <1>3, <1>5, <3>1, <4>1 DEF Counts
    <3>2. CASE ~(i <= m)
      <4>1. i - m \in 1..n /\ m + (i - m) = i
        BY <1>1, <3>2
      <4>. QED BY Zenon, <1>1, <1>3, <1>5, <3>2, <4>1
    <3>. QED BY <3>1, <3>2
  <2>. QED BY Zenon, <1>3, <2>1 DEF Counts
<1>. QED BY Zenon, <1>1, <1>2, <1>3, <1>4, <1>5

\* The frame that Read takes from the front of rawBuffer.
LEMMA FrameRead ==
  ASSUME NEW raw \in Seq(Cell), NEW tail \in Seq(Cell), Framed(raw \o tail), HasFrame(raw)
  PROVE  \E n \in Nat, f \in Seq(Cell) :
           /\ FrameOf(f, Head(raw).t, n) /\ AfterFrame(raw) \in Seq(Cell)
           /\ Cat(f, AfterFrame(raw) \o tail, raw \o tail)
           /\ Framed(AfterFrame(raw) \o tail)
           /\ Payload(raw) \in Seq(Nat) /\ Len(Payload(raw)) = n /\ Carries(f, Payload(raw))
<1>1. PICK len \in Nat : len = Len(raw)
  BY LenProperties
<1>2. raw # <<>> /\ Len(raw) > Head(raw).n
  BY Zenon DEF HasFrame
<1>3. len # 0
  BY <1>1, <1>2, EmptySeq
<1>4. 1 \in 1..len
  BY <1>3
<1>5. Head(raw) = raw[1]
  BY <1>2
<1>6. PICK n \in Nat : n = raw[1].n
  BY Zenon, <1>1, <1>4, CellsOf
<1>7. len > n
  BY Zenon, <1>1, <1>2, <1>5, <1>6
<1>8. /\ 1 + n <= len /\ n + 2 = 1 + n + 1
      /\ \A j \in 1..n : 1 + j \in 1..len /\ j + 1 = 1 + j
  BY <1>7
<1>9. Left(raw, 1) = raw /\ AfterFrame(raw) = Left(raw, 1 + n + 1)
  BY Zenon, <1>5, <1>6, <1>8, SubSeqFull DEF Left, AfterFrame
<1>10. PICK f \in Seq(Cell), b \in Seq(Cell) : FrameAt(raw, tail, 1, n, f, b)
  BY Zenon, <1>1, <1>4, <1>6, <1>8, <1>9, NextFrame
<1>11. /\ b = AfterFrame(raw) /\ FrameOf(f, Head(raw).t, n)
       /\ \A j \in 1..n : f[1 + j] = raw[1 + j]
       /\ Cat(f, b \o tail, raw \o tail) /\ Framed(b \o tail)
  BY Zenon, <1>5, <1>9, <1>10 DEF FrameAt
<1>12. PICK u : u = [i \in 1..n |-> raw[i + 1].n]
  OBVIOUS
<1>13. \A i \in 1..n : raw[i + 1].n \in Nat
  BY Zenon, <1>1, <1>8, CellsOf
<1>14. u \in Seq(Nat) /\ Len(u) = n /\ \A i \in 1..n : u[i] = raw[i + 1].n
  BY <1>12, <1>13
<1>15. Carries(f, u)
  BY Zenon, <1>8, <1>11, <1>14 DEF Carries
<1>16. Payload(raw) = u
  BY Zenon, <1>5, <1>6, <1>12 DEF Payload
<1>. QED BY Zenon, <1>11, <1>14, <1>15, <1>16

\* The step of an end that takes a frame out of rawBuffer: f is the frame, c is
\* what is coming behind it.
Takes(e, type, f, n, c) ==
  /\ FrameOf(f, type, n) /\ n \in Nat /\ c \in Seq(Cell) /\ Framed(c) /\ Cat(f, c, Coming(e))
  /\ Payload(rawBuffer[e]) \in Seq(Nat) /\ Len(Payload(rawBuffer[e])) = n
  /\ Carries(f, Payload(rawBuffer[e]))
  /\ rawBuffer' \in [Ends -> Seq(Cell)] /\ rawBuffer'[Peer(e)] = rawBuffer[Peer(e)]
  /\ Way(e)' = Way(e) => Coming(e)' = c

\* A frame that is read is the first one, and leaves the rest.
LEMMA FrameTaken ==
  ASSUME Inv, NEW e \in Ends, NEW type, ReadsFrame(e, type)
  PROVE  \E f, n, c : Takes(e, type, f, n, c)
<1>1. DataTypes /\ rawBuffer[e] \in Seq(Cell) /\ Way(e) \in Seq(Cell) /\ Framed(Coming(e))
  BY Zenon, DataOf DEF Inv, Good, ReadsFrame
<1>2. PICK raw, tail : raw = rawBuffer[e] /\ tail = Way(e)
  OBVIOUS
<1>3. /\ raw \in Seq(Cell) /\ tail \in Seq(Cell) /\ Coming(e) = raw \o tail
      /\ HasFrame(raw) /\ Head(raw).t = type
      /\ rawBuffer' = [rawBuffer EXCEPT ![e] = AfterFrame(raw)]
  BY Zenon, <1>1, <1>2 DEF Coming, ReadsFrame
<1>4. Framed(raw \o tail)
  BY Zenon, <1>1, <1>3
<1>5. PICK n \in Nat, f \in Seq(Cell) :
        /\ FrameOf(f, Head(raw).t, n) /\ AfterFrame(raw) \in Seq(Cell)
        /\ Cat(f, AfterFrame(raw) \o tail, raw \o tail)
        /\ Framed(AfterFrame(raw) \o tail)
        /\ Payload(raw) \in Seq(Nat) /\ Len(Payload(raw)) = n /\ Carries(f, Payload(raw))
  BY Zenon, <1>3, <1>4, FrameRead
<1>6. PICK c : c = AfterFrame(raw) \o tail
  OBVIOUS
<1>7. c \in Seq(Cell)
  BY Zenon, <1>3, <1>5, <1>6, ConcatProperties
<1>8. SetAt(Seq(Cell), rawBuffer, e, AfterFrame(raw), rawBuffer')
  BY Zenon, <1>1, <1>3, <1>5, NewAt DEF DataTypes
<1>9. Way(e)' = Way(e) => Coming(e)' = c
  BY Zenon, <1>2, <1>6, <1>8 DEF Coming, SetAt
<1>. QED BY Zenon, <1>2, <1>3, <1>5, <1>6, <1>7, <1>8, <1>9 DEF Takes, SetAt

\* Where the stream is in order and has been counted, it is after a Read too.
LEMMA GoodTakes ==
  ASSUME Inv, NEW x \in Ends, ~closed[x], got'[x] \in Seq(Nat), readBuffer'[x] \in Seq(Nat),
         Framed(Coming(x)'),
         ~dropped'[x] => Flow(Coming(x)', Taken(x)', put'[Peer(x)])
  PROVE  Good(x)'
<1>1. ~dropped'[x] => Counts(got'[x])
  BY Zenon, CountsCat DEF Flow, Taken
<1>. QED BY Zenon, <1>1 DEF Good

\* The window grows by what leaves the way.
LEMMA BalanceCredits ==
  ASSUME Inv, NEW x \in Ends, closed' = closed, NEW credit \in Nat,
         Len(Taken(Peer(x))') = Len(Taken(Peer(x))), Credits(Coming(x)') \in Nat,
         windowSize'[x] = (windowSize[x] + credit) % Modulus,
         Credits(Coming(x)) = credit + Credits(Coming(x)')
  PROVE  Balance(x)'
<1>1. PICK c \in Nat : c = Credits(Coming(x)')
  OBVIOUS
<1>2. PICK v \in Nat : v = windowSize[x]
  BY Zenon, DataOf DEF Inv
<1>3. (((v + credit) % Modulus) + c) % Modulus = (v + credit + c) % Modulus
  <2>1. v + credit \in Nat
    BY ONLY v \in Nat, credit \in Nat
  <2>. QED BY Zenon, <2>1, ModPlus, ModulusIs
<1>4. v + credit + c = v + (credit + c)
  BY ONLY v \in Nat, credit \in Nat, c \in Nat
<1>5. (windowSize'[x] + Credits(Coming(x)')) % Modulus = (windowSize[x] + Credits(Coming(x))) % Modulus
  BY Zenon, <1>1, <1>2, <1>3, <1>4
<1>. QED BY Zenon, <1>5, BalanceKeeps

\* The DATA frame that is taken has the next units.
LEMMA DataTaken ==
  ASSUME Inv, NEW e \in Ends, NEW f, NEW n, NEW c, Takes(e, "DATA", f, n, c),
         ~closed[e], ~dropped[e]
  PROVE  Flow(c, Taken(e) \o Payload(rawBuffer[e]), put[Peer(e)])
<1>1. Peer(e) \in Ends /\ DataTypes /\ put \in [Ends -> Nat] /\ Good(e)
  BY Zenon, Peers DEF Inv, CallInv
<1>2. PICK p \in Nat : p = put[Peer(e)]
  BY <1>1
<1>3. PICK m \in Nat : m = Len(Taken(e))
  BY Zenon, <1>1, DataOf
<1>4. Counts(Taken(e)) /\ m <= p /\ InOrder(Coming(e), m, p) /\ Taken(e) \in Seq(Nat)
  BY Zenon, <1>1, <1>2, <1>3, DataOf DEF Good, Flow
<1>5. PICK u \in Seq(Nat) : u = Payload(rawBuffer[e])
  BY Zenon DEF Takes
<1>6. /\ FrameOf(f, "DATA", n) /\ c \in Seq(Cell) /\ Cat(f, c, Coming(e))
      /\ Len(u) = n /\ Carries(f, u)
  BY Zenon, <1>5 DEF Takes
<1>7. /\ \A j \in 1..n : f[1 + j].n = m + j
      /\ m + n \in Nat /\ m + n <= p /\ InOrder(c, m + n, p)
  <2>1. PICK s : s = Coming(e)
    OBVIOUS
  <2>2. FrameOf(f, "DATA", n) /\ c \in Seq(Cell) /\ Cat(f, c, s) /\ m <= p /\ InOrder(s, m, p)
    BY Zenon, <1>4, <1>6, <2>1
  <2>. QED BY Zenon, <2>2, TakeData
<1>8. \A j \in 1..Len(u) : u[j] = Len(Taken(e)) + j
  BY Zenon, <1>3, <1>6, <1>7 DEF Carries
<1>9. Counts(Taken(e) \o u) /\ Len(Taken(e) \o u) = m + n
  BY Zenon, <1>3, <1>4, <1>6, <1>8, CountsCat
<1>. QED BY Zenon, <1>2, <1>5, <1>7, <1>9 DEF Flow

\* A frame without units: HEADERS, or WINDOW_UPDATE.
LEMMA OtherTaken ==
  ASSUME Inv, NEW e \in Ends, NEW type, NEW f, NEW n, NEW c, Takes(e, type, f, n, c),
         type # "DATA", Coming(e)' = c,
         windowSize'[e] = (windowSize[e] + Credits(f)) % Modulus,
         windowSize'[Peer(e)] = windowSize[Peer(e)],
         windowSize' \in [Ends -> 0..(Modulus - 1)],
         UNCHANGED <<net, readBuffer, closed, unsent, put, got, dropped>>
  PROVE  DataInv'
<1>1. /\ FrameOf(f, type, n) /\ n \in Nat /\ c \in Seq(Cell) /\ Framed(c) /\ Cat(f, c, Coming(e))
      /\ rawBuffer' \in [Ends -> Seq(Cell)] /\ rawBuffer'[Peer(e)] = rawBuffer[Peer(e)]
      /\ f \in Seq(Cell)
  BY Zenon DEF Takes, FrameOf
<1>2. DataTypes'
  BY Zenon, <1>1 DEF Inv, DataTypes
<1>3. \A x \in Ends : SameTaken(x) /\ put'[Peer(x)] = put[Peer(x)]
  BY Zenon DEF SameTaken
<1>4. Keeps(Coming(e), c)
  BY Zenon, <1>1, OtherFrame DEF Keeps
<1>5. Good(e)'
  <2>1. Framed(Coming(e)') /\ Keeps(Coming(e), Coming(e)')
    BY Zenon, <1>1, <1>4
  <2>. QED BY Zenon, <1>3, <2>1, GoodKeeps
<1>6. /\ Credits(f) \in Nat /\ Credits(c) \in Nat
      /\ Credits(Coming(e)) = Credits(f) + Credits(c)
  BY Zenon, <1>1, CreditsCat
<1>7. Taken(Peer(e))' = Taken(Peer(e))
  BY Zenon DEF Taken
<1>8. Balance(e)'
  BY Zenon, <1>6, <1>7, BalanceCredits
<1>9. SameComing(Peer(e))
  BY Zenon, <1>1 DEF SameComing
<1>10. Good(Peer(e))' /\ Balance(Peer(e))'
  BY Zenon, <1>3, <1>9, Peers, GoodSame, BalanceSame
<1>. QED BY Zenon, <1>2, <1>5, <1>8, <1>10, TwoEnds DEF DataInv

LEMMA ReadHeadersData ==
  ASSUME Inv, NEW e \in Ends, ReadHeaders(e)
  PROVE  DataInv'
<1>1. PICK f, n, c : Takes(e, "HEADERS", f, n, c)
  BY Zenon, FrameTaken DEF ReadHeaders
<1>2. /\ UNCHANGED <<net, readBuffer, closed, unsent, put, got, dropped>> /\ windowSize' = windowSize
  BY Zenon DEF ReadHeaders, counters, history
<1>3. Coming(e)' = c /\ FrameOf(f, "HEADERS", n)
  BY Zenon, <1>1, <1>2 DEF Takes, Way
<1>4. Credits(f) = 0 /\ "HEADERS" # "DATA"
  BY <1>3, FrameCredits
<1>5. windowSize[e] \in 0..(Modulus - 1) /\ windowSize \in [Ends -> 0..(Modulus - 1)]
  BY Zenon, DataOf DEF Inv, DataTypes
<1>6. windowSize[e] \in Nat /\ windowSize[e] % Modulus = windowSize[e]
  BY Zenon, <1>5, ModulusIs
<1>7. PICK v \in Nat : v = windowSize[e]
  BY <1>6
<1>8. v + 0 = v
  OBVIOUS
<1>9. windowSize'[e] = (windowSize[e] + Credits(f)) % Modulus
  BY Zenon, <1>2, <1>4, <1>6, <1>7, <1>8
<1>10. windowSize'[Peer(e)] = windowSize[Peer(e)] /\ windowSize' \in [Ends -> 0..(Modulus - 1)]
  BY Zenon, <1>2, <1>5
<1>. QED BY Zenon, <1>1, <1>2, <1>3, <1>4, <1>9, <1>10, OtherTaken

LEMMA ReadWindowUpdateData ==
  ASSUME Inv, NEW e \in Ends, ReadWindowUpdate(e)
  PROVE  DataInv'
<1>1. PICK f, n, c : Takes(e, "WINDOW_UPDATE", f, n, c)
  BY Zenon, FrameTaken DEF ReadWindowUpdate
<1>2. /\ UNCHANGED <<net, readBuffer, closed, unsent, put, got, dropped>>
      /\ windowSize' = [windowSize EXCEPT ![e] = HandleWindowUpdate(@, Payload(rawBuffer[e])[1])]
  BY Zenon DEF ReadWindowUpdate, history
<1>3. /\ Coming(e)' = c /\ FrameOf(f, "WINDOW_UPDATE", n) /\ n = 1
      /\ Carries(f, Payload(rawBuffer[e])) /\ Len(Payload(rawBuffer[e])) = n
  BY Zenon, <1>1, <1>2 DEF Takes, FrameOf, Way
<1>4. 1 \in 1..n /\ 1 + 1 = 2 /\ "WINDOW_UPDATE" # "DATA"
  BY <1>3
<1>5. Payload(rawBuffer[e])[1] = Credits(f) /\ Credits(f) \in Nat
  BY Zenon, <1>3, <1>4, FrameCredits DEF Carries
<1>6. windowSize \in [Ends -> 0..(Modulus - 1)] /\ windowSize[e] \in Nat
  BY Zenon, DataOf DEF Inv, DataTypes
<1>7. PICK w : w = (windowSize[e] + Credits(f)) % Modulus
  OBVIOUS
<1>8. w \in 0..(Modulus - 1)
  <2>1. windowSize[e] + Credits(f) \in Nat
    BY <1>5, <1>6
  <2>. QED BY Zenon, <1>7, <2>1, ModulusIs
<1>9. windowSize' = [windowSize EXCEPT ![e] = w]
  BY Zenon, <1>2, <1>5, <1>7 DEF HandleWindowUpdate
<1>10. SetAt(0..(Modulus - 1), windowSize, e, w, windowSize')
  BY Zenon, <1>6, <1>8, <1>9, NewAt
<1>. QED BY Zenon, <1>1, <1>2, <1>3, <1>4, <1>7, <1>10, OtherTaken DEF SetAt

LEMMA ReadConnData ==
  ASSUME Inv, NEW e \in Ends, ReadConn(e)
  PROVE  DataInv'
<1>1. PICK k \in Pieces(e) : Pull(e, k) /\ rawBuffer' = [rawBuffer EXCEPT ![e] = Pulled(e, k)]
  BY Zenon DEF ReadConn
<1>2. /\ UNCHANGED <<readBuffer, closed, unsent, put, got, dropped>> /\ windowSize' = windowSize
  BY Zenon DEF ReadConn, counters, history
<1>3. PICK buf, tail : buf = Pulled(e, k) /\ tail = SubSeq(net[e], k + 1, Len(net[e]))
  OBVIOUS
<1>4. buf \in Seq(Cell) /\ tail \in Seq(Cell) /\ buf \o (tail \o unsent[Peer(e)]) = Coming(e)
  BY Zenon, <1>3, Pulling
<1>5. DataTypes
  BY DEF Inv
<1>6. SetAt(Seq(Cell), net, e, tail, net')
  BY Zenon, <1>1, <1>3, <1>4, <1>5, NewAt DEF DataTypes, Pull
<1>7. SetAt(Seq(Cell), rawBuffer, e, buf, rawBuffer')
  BY Zenon, <1>1, <1>3, <1>4, <1>5, NewAt DEF DataTypes
<1>8. DataTypes'
  BY Zenon, <1>2, <1>5, <1>6, <1>7 DEF DataTypes, SetAt
<1>9. \A x \in Ends : SameTaken(x) /\ put'[Peer(x)] = put[Peer(x)]
  BY Zenon, <1>2 DEF SameTaken
<1>10. Coming(e)' = Coming(e)
  BY Zenon, <1>2, <1>4, <1>6, <1>7 DEF Coming, Way, SetAt
<1>11. ~closed[e] => Framed(Coming(e)') /\ Keeps(Coming(e), Coming(e)')
  BY Zenon, <1>10, KeepsAll DEF Inv, Good
<1>12. Good(e)'
  BY Zenon, <1>9, <1>11, GoodKeeps
<1>13. Taken(Peer(e))' = Taken(Peer(e))
  BY Zenon, <1>2 DEF Taken
<1>14. Balance(e)'
  BY Zenon, <1>2, <1>10, <1>13, BalanceKeeps
<1>15. SameComing(Peer(e))
  BY Zenon, <1>2, <1>6, <1>7 DEF SameComing, SetAt
<1>16. Good(Peer(e))' /\ Balance(Peer(e))'
  BY Zenon, <1>2, <1>9, <1>15, Peers, GoodSame, BalanceSame
<1>. QED BY Zenon, <1>8, <1>12, <1>14, <1>16, TwoEnds DEF DataInv

LEMMA RegroupUnits ==
  ASSUME NEW a \in Seq(Nat), NEW b \in Seq(Nat), NEW c \in Seq(Nat)
  PROVE  a \o b \in Seq(Nat) /\ (a \o b) \o c = a \o (b \o c)
<1>1. a \o b \in Seq(Nat)
  BY Zenon, ConcatProperties
<1>2. (a \o b) \o c = a \o (b \o c)
  BY ConcatAssociative
<1>. QED BY <1>1, <1>2

LEMMA ReadDataData ==
  ASSUME Inv, NEW e \in Ends, ReadData(e)
  PROVE  DataInv'
<1>1. PICK f, n, c : Takes(e, "DATA", f, n, c)
  BY Zenon, FrameTaken DEF ReadData
<1>2. PICK y \in Ends : y = Peer(e) /\ Peer(y) = e /\ y # e
  BY Zenon, Peers
<1>3. PICK u : u = Payload(rawBuffer[e])
  OBVIOUS
<1>4. PICK k : k = Min({call[e].size, Len(u)})
  OBVIOUS
<1>5. /\ call[e].op = "read" /\ ~closed[e]
      /\ Deliver(e, WindowUpdateFrame(Len(u)))
      /\ readBuffer' = [readBuffer EXCEPT ![e] = SubSeq(u, k + 1, Len(u))]
      /\ got' = [got EXCEPT ![e] = @ \o SubSeq(u, 1, k)]
      /\ UNCHANGED <<closed, unsent, put, dropped>> /\ windowSize' = windowSize
  BY Zenon, <1>3, <1>4 DEF ReadData, ReadsFrame, Returns, counters
<1>6. /\ FrameOf(f, "DATA", n) /\ n \in Nat /\ c \in Seq(Cell) /\ Framed(c) /\ Cat(f, c, Coming(e))
      /\ u \in Seq(Nat) /\ Len(u) = n /\ f \in Seq(Cell)
      /\ rawBuffer' \in [Ends -> Seq(Cell)] /\ rawBuffer'[y] = rawBuffer[y]
      /\ Way(e)' = Way(e) => Coming(e)' = c
  BY Zenon, <1>1, <1>2, <1>3 DEF Takes, FrameOf
<1>7. DataTypes /\ CallOk(call[e], put[e], MaxPut[e], readBuffer[e], unsent[e]) /\ Rest(e)
  BY DEF Inv, CallInv
<1>8. readBuffer[e] = <<>> /\ call[e].size \in Nat
  <2>1. readBuffer[e] = <<>> /\ call[e].size \in ReadSizes
    BY Zenon, <1>5, <1>7, CallKinds DEF CallOk
  <2>. QED BY <2>1, Http3Assumption
<1>9. got[e] \in Seq(Nat) /\ Taken(e) \in Seq(Nat)
  BY Zenon, <1>7, DataOf
<1>10. Taken(e) = got[e]
  BY Zenon, <1>8, <1>9, ConcatEmptySeq DEF Taken
<1>11. PICK a, b : a = SubSeq(u, 1, k) /\ b = SubSeq(u, k + 1, Len(u))
  OBVIOUS
<1>12. a \in Seq(Nat) /\ b \in Seq(Nat) /\ u = a \o b
  BY Zenon, <1>4, <1>6, <1>8, <1>11, TakeUnits
<1>13. got[e] \o a \in Seq(Nat) /\ (got[e] \o a) \o b = got[e] \o (a \o b)
  BY Zenon, <1>9, <1>12, RegroupUnits
<1>14. got' = [got EXCEPT ![e] = got[e] \o a] /\ readBuffer' = [readBuffer EXCEPT ![e] = b]
  BY Zenon, <1>5, <1>11
<1>15. SetAt(Seq(Nat), got, e, got[e] \o a, got')
  BY Zenon, <1>7, <1>13, <1>14, NewAt DEF DataTypes
<1>16. SetAt(Seq(Nat), readBuffer, e, b, readBuffer')
  BY Zenon, <1>7, <1>12, <1>14, NewAt DEF DataTypes
<1>17. Taken(e)' = Taken(e) \o u
  BY Zenon, <1>10, <1>12, <1>13, <1>15, <1>16 DEF Taken, SetAt
<1>18. PICK g : g = WindowUpdateFrame(n)
  OBVIOUS
<1>19. FrameOf(g, "WINDOW_UPDATE", 1) /\ Credits(g) = n /\ g \in Seq(Cell) /\ Deliver(e, g)
  BY Zenon, <1>5, <1>6, <1>18, UpdateIs DEF FrameOf
<1>20. net' \in [Ends -> Seq(Cell)] /\ net'[e] = net[e]
  BY Zenon, <1>2, <1>7, <1>19, Delivered
<1>21. DataTypes'
  BY Zenon, <1>5, <1>6, <1>7, <1>15, <1>16, <1>20 DEF DataTypes, SetAt
<1>22. Coming(e)' = c /\ put'[y] = put[y]
  BY Zenon, <1>5, <1>6, <1>20 DEF Way
<1>23. Good(e)'
  <2>1. ~dropped[e] => Flow(c, Taken(e) \o u, put[y])
    BY Zenon, <1>1, <1>2, <1>3, <1>5, DataTaken
  <2>2. ~dropped'[e] => Flow(Coming(e)', Taken(e)', put'[Peer(e)])
    BY Zenon, <1>2, <1>5, <1>17, <1>22, <2>1
  <2>3. got'[e] \in Seq(Nat) /\ readBuffer'[e] \in Seq(Nat)
    BY Zenon, <1>21 DEF DataTypes
  <2>4. Framed(Coming(e)')
    BY Zenon, <1>6, <1>22
  <2>. QED BY Zenon, <1>5, <2>2, <2>3, <2>4, GoodTakes
<1>24. SameTaken(y)
  BY Zenon, <1>2, <1>5, <1>15, <1>16 DEF SameTaken, SetAt
<1>25. Balance(e)'
  <2>1. Credits(f) = 0
    BY <1>6, FrameCredits
  <2>2. Credits(Coming(e)) = 0 + Credits(c) /\ Credits(c) \in Nat
    BY Zenon, <1>6, <2>1, CreditsCat
  <2>3. Credits(Coming(e)) = Credits(Coming(e)')
    BY <1>22, <2>2
  <2>4. Taken(Peer(e))' = Taken(Peer(e))
    BY Zenon, <1>2, <1>24 DEF Taken, SameTaken
  <2>. QED BY Zenon, <1>5, <2>3, <2>4, BalanceKeeps
<1>26. "WINDOW_UPDATE" # "DATA"
  OBVIOUS
<1>27. ASSUME ~closed[y]
       PROVE  /\ Framed(Coming(y)') /\ Keeps(Coming(y), Coming(y)')
              /\ Credits(Coming(y)') = Credits(Coming(y)) + n
  <2>1. call[e].op # "payload"
    BY <1>5
  <2>2. unsent[e] = <<>>
    BY Zenon, <1>2, <1>5, <1>7, <1>27, <2>1 DEF Rest
  <2>3. <<>> \in Seq(Cell) /\ g = g \o <<>>
    BY Zenon, <1>19, ConcatEmptySeq, EmptyRest
  <2>4. Sends(e, g, g, <<>>)
    BY Zenon, <1>2, <1>5, <1>7, <1>19, <2>2, <2>3 DEF Sends, DataTypes
  <2>. QED BY Zenon, <1>2, <1>6, <1>19, <1>26, <1>27, <2>4, OtherSent
<1>28. Good(y)'
  BY Zenon, <1>2, <1>5, <1>24, <1>27, GoodKeeps
<1>29. Balance(y)'
  <2>1. CASE closed[y]
    BY Zenon, <1>5, <2>1 DEF Balance
  <2>2. CASE ~closed[y]
    <3>1. (windowSize[y] + Credits(Coming(y))) % Modulus = (Window + Len(Taken(e))) % Modulus
      BY Zenon, <1>2, <1>5, <2>2 DEF Inv, Balance
    <3>2. PICK v \in Nat, x \in Nat, m \in Nat :
            v = windowSize[y] /\ x = Credits(Coming(y)) /\ m = Len(Taken(e))
      BY Zenon, <1>7, DataOf
    <3>3. Len(Taken(e)') = m + n
      BY Zenon, <1>6, <1>9, <1>17, <3>2, CountsCat
    <3>4. Credits(Coming(y)') = x + n /\ windowSize'[y] = v
      BY Zenon, <1>5, <1>27, <2>2, <3>2
    <3>5. v + x \in Nat /\ Window + m \in Nat /\ v + (x + n) = v + x + n /\ Window + (m + n) = Window + m + n
      BY <1>6, ModulusIs
    <3>6. (v + x) % Modulus = (Window + m) % Modulus
      BY Zenon, <3>1, <3>2
    <3>7. (((v + x) % Modulus) + n) % Modulus = (v + x + n) % Modulus
      BY ZenonT(60), <1>6, <3>5, ModPlus, ModulusIs
    <3>8. (((Window + m) % Modulus) + n) % Modulus = (Window + m + n) % Modulus
      BY ZenonT(60), <1>6, <3>5, ModPlus, ModulusIs
    <3>9. (v + (x + n)) % Modulus = (Window + (m + n)) % Modulus
      BY Zenon, <3>5, <3>6, <3>7, <3>8
    <3>10. (windowSize'[y] + Credits(Coming(y)')) % Modulus = (Window + Len(Taken(e)')) % Modulus
      BY Zenon, <3>3, <3>4, <3>9
    <3>. QED BY Zenon, <1>2, <3>10 DEF Balance
  <2>. QED BY <2>1, <2>2
<1>. QED BY Zenon, <1>2, <1>21, <1>23, <1>25, <1>28, <1>29, TwoEnds DEF DataInv

\* A Read that fails drops the frame or keeps it for the next.
LEMMA ReadDataFailsData ==
  ASSUME Inv, NEW e \in Ends, ReadDataFails(e)
  PROVE  DataInv'
<1>1. PICK f, n, c : Takes(e, "DATA", f, n, c)
  BY Zenon, FrameTaken DEF ReadDataFails
<1>2. PICK y \in Ends : y = Peer(e) /\ Peer(y) = e /\ y # e
  BY Zenon, Peers
<1>3. PICK u : u = Payload(rawBuffer[e])
  OBVIOUS
<1>4. PICK fits : fits = (Len(u) <= call[e].size)
  OBVIOUS
<1>5. /\ call[e].op = "read" /\ ~closed[e] /\ closed[y]
      /\ readBuffer' = [readBuffer EXCEPT ![e] = IF fits THEN @ ELSE u]
      /\ dropped' = [dropped EXCEPT ![e] = @ \/ fits]
      /\ UNCHANGED <<net, closed, unsent, put, got>> /\ windowSize' = windowSize
  BY Zenon, <1>2, <1>3, <1>4 DEF ReadDataFails, ReadsFrame, WriteMayFail, counters
<1>6. /\ c \in Seq(Cell) /\ Framed(c) /\ u \in Seq(Nat)
      /\ rawBuffer' \in [Ends -> Seq(Cell)] /\ rawBuffer'[y] = rawBuffer[y]
      /\ Coming(e)' = c
  BY Zenon, <1>1, <1>2, <1>3, <1>5 DEF Takes, Way
<1>7. DataTypes /\ CallOk(call[e], put[e], MaxPut[e], readBuffer[e], unsent[e])
  BY DEF Inv, CallInv
<1>8. readBuffer[e] = <<>>
  BY Zenon, <1>5, <1>7 DEF CallOk
<1>9. got[e] \in Seq(Nat) /\ readBuffer[e] \in Seq(Nat)
  BY Zenon, <1>7, DataOf
<1>10. Taken(e) = got[e]
  BY Zenon, <1>8, <1>9, ConcatEmptySeq DEF Taken
<1>11. PICK b \in Seq(Nat) : b = IF fits THEN readBuffer[e] ELSE u
  BY Zenon, <1>6, <1>9
<1>12. PICK d \in BOOLEAN : d = (dropped[e] \/ fits)
  OBVIOUS
<1>13. readBuffer' = [readBuffer EXCEPT ![e] = b] /\ dropped' = [dropped EXCEPT ![e] = d]
  BY Zenon, <1>5, <1>11, <1>12
<1>14. SetAt(Seq(Nat), readBuffer, e, b, readBuffer')
  BY Zenon, <1>7, <1>13, NewAt DEF DataTypes
<1>15. SetAt(BOOLEAN, dropped, e, d, dropped')
  BY Zenon, <1>7, <1>13, NewAt DEF DataTypes
<1>16. DataTypes'
  BY Zenon, <1>5, <1>6, <1>7, <1>14, <1>15 DEF DataTypes, SetAt
<1>17. Good(e)'
  <2>1. ASSUME ~dropped'[e] PROVE Flow(Coming(e)', Taken(e)', put'[Peer(e)])
    <3>1. ~dropped[e] /\ ~fits
      BY Zenon, <1>12, <1>15, <2>1 DEF SetAt
    <3>2. Taken(e)' = Taken(e) \o u
      BY Zenon, <1>5, <1>10, <1>11, <1>14, <3>1 DEF Taken, SetAt
    <3>3. Flow(c, Taken(e) \o u, put[Peer(e)])
      BY Zenon, <1>1, <1>3, <1>5, <3>1, DataTaken
    <3>. QED BY Zenon, <1>5, <1>6, <3>2, <3>3
  <2>2. got'[e] \in Seq(Nat) /\ readBuffer'[e] \in Seq(Nat)
    BY Zenon, <1>16 DEF DataTypes
  <2>3. Framed(Coming(e)')
    BY Zenon, <1>6
  <2>. QED BY Zenon, <1>5, <2>1, <2>2, <2>3, GoodTakes
<1>18. SameTaken(y) /\ SameComing(y) /\ put'[Peer(y)] = put[Peer(y)]
  BY Zenon, <1>2, <1>5, <1>6, <1>14, <1>15 DEF SameTaken, SameComing, SetAt
<1>19. Good(y)'
  BY Zenon, <1>18, GoodSame
<1>20. Balance(e)' /\ Balance(y)'
  BY Zenon, <1>2, <1>5 DEF Balance
<1>. QED BY Zenon, <1>2, <1>16, <1>17, <1>19, <1>20, TwoEnds DEF DataInv

\* Read returns what an earlier one has left.
LEMMA ReadStartData ==
  ASSUME Inv, NEW e \in Ends, NEW size \in ReadSizes, ReadStart(e, size)
  PROVE  DataInv'
<1>1. UNCHANGED <<net, rawBuffer, closed, unsent, put, dropped>> /\ windowSize' = windowSize /\ ~closed[e]
  BY Zenon DEF ReadStart, counters
<1>2. CASE UNCHANGED <<readBuffer, got>>
  BY Zenon, <1>1, <1>2, Still
<1>3. CASE /\ readBuffer' = [readBuffer EXCEPT ![e] = SubSeq(@, size + 1, Len(@))]
           /\ Returns(e, SubSeq(readBuffer[e], 1, Min({size, Len(readBuffer[e])})))
  <2>1. PICK u \in Seq(Nat) : u = readBuffer[e]
    BY Zenon, DataOf DEF Inv
  <2>2. PICK k : k = Min({size, Len(u)})
    OBVIOUS
  <2>3. size \in Nat
    BY Http3Assumption
  <2>4. PICK a, b : a = SubSeq(u, 1, k) /\ b = SubSeq(u, size + 1, Len(u))
    OBVIOUS
  <2>5. a \in Seq(Nat) /\ b \in Seq(Nat) /\ u = a \o b
    BY ZenonT(60), <2>2, <2>3, <2>4, TakeUnits
  <2>6. DataTypes /\ Good(e) /\ got[e] \in Seq(Nat)
    BY Zenon, DataOf DEF Inv
  <2>7. got[e] \o a \in Seq(Nat) /\ (got[e] \o a) \o b = got[e] \o (a \o b)
    <3>1. got[e] \in Seq(Nat)
      BY Zenon, <2>6
    <3>. QED BY Zenon, <2>5, <3>1, RegroupUnits
  <2>8. got' = [got EXCEPT ![e] = got[e] \o a] /\ readBuffer' = [readBuffer EXCEPT ![e] = b]
    BY Zenon, <1>3, <2>1, <2>2, <2>4 DEF Returns
  <2>9. SetAt(Seq(Nat), got, e, got[e] \o a, got')
    BY Zenon, <2>6, <2>7, <2>8, NewAt DEF DataTypes
  <2>10. SetAt(Seq(Nat), readBuffer, e, b, readBuffer')
    BY Zenon, <2>5, <2>6, <2>8, NewAt DEF DataTypes
  <2>11. Taken(e)' = Taken(e)
    BY Zenon, <2>1, <2>5, <2>7, <2>9, <2>10 DEF Taken, SetAt
  <2>12. DataTypes'
    BY Zenon, <1>1, <2>6, <2>9, <2>10 DEF DataTypes, SetAt
  <2>13. \A x \in Ends : SameComing(x) /\ Coming(x)' = Coming(x) /\ put'[Peer(x)] = put[Peer(x)]
    BY Zenon, <1>1 DEF SameComing, Coming, Way
  <2>14. Good(e)'
    <3>1. ~dropped'[e] => Flow(Coming(e)', Taken(e)', put'[Peer(e)])
      BY Zenon, <1>1, <2>6, <2>11, <2>13 DEF Good
    <3>2. Framed(Coming(e)') /\ got'[e] \in Seq(Nat) /\ readBuffer'[e] \in Seq(Nat)
      BY Zenon, <1>1, <2>6, <2>12, <2>13 DEF Good, DataTypes
    <3>. QED BY Zenon, <1>1, <3>1, <3>2, GoodTakes
  <2>15. Peer(e) \in Ends /\ Peer(Peer(e)) = e
    BY Zenon, Peers
  <2>16. SameTaken(Peer(e)) /\ Taken(Peer(e))' = Taken(Peer(e))
    BY Zenon, <1>1, <2>9, <2>10 DEF SameTaken, Taken, SetAt
  <2>17. Good(Peer(e))'
    BY Zenon, <2>13, <2>15, <2>16, GoodSame
  <2>18. ASSUME NEW x \in Ends, Taken(Peer(x))' = Taken(Peer(x)) PROVE Balance(x)'
    BY Zenon, <1>1, <2>13, <2>18, BalanceKeeps
  <2>19. Balance(e)' /\ Balance(Peer(e))'
    BY Zenon, <2>11, <2>15, <2>16, <2>18
  <2>. QED BY Zenon, <2>12, <2>14, <2>17, <2>19, TwoEnds DEF DataInv
<1>. QED BY Zenon, <1>2, <1>3 DEF ReadStart

LEMMA CloseData ==
  ASSUME Inv, NEW e \in Ends, Close(e)
  PROVE  DataInv'
<1>1. PICK y \in Ends : y = Peer(e) /\ Peer(y) = e /\ y # e
  BY Zenon, Peers
<1>2. /\ closed' = [closed EXCEPT ![e] = TRUE] /\ rawBuffer' = [rawBuffer EXCEPT ![e] = <<>>]
      /\ readBuffer' = [readBuffer EXCEPT ![e] = <<>>] /\ net' = [net EXCEPT ![e] = <<>>]
      /\ UNCHANGED <<unsent, put, got, dropped>> /\ windowSize' = windowSize
  BY Zenon DEF Close, counters, history
<1>3. DataTypes /\ Good(e)
  BY DEF Inv
<1>4. <<>> \in Seq(Cell) /\ <<>> \in Seq(Nat) /\ TRUE \in BOOLEAN
  OBVIOUS
<1>5. SetAt(BOOLEAN, closed, e, TRUE, closed')
  BY Zenon, <1>2, <1>3, <1>4, NewAt DEF DataTypes
<1>6. SetAt(Seq(Cell), rawBuffer, e, <<>>, rawBuffer')
  BY Zenon, <1>2, <1>3, <1>4, NewAt DEF DataTypes
<1>7. SetAt(Seq(Nat), readBuffer, e, <<>>, readBuffer')
  BY Zenon, <1>2, <1>3, <1>4, NewAt DEF DataTypes
<1>8. SetAt(Seq(Cell), net, e, <<>>, net')
  BY Zenon, <1>2, <1>3, <1>4, NewAt DEF DataTypes
<1>9. DataTypes'
  BY Zenon, <1>2, <1>3, <1>5, <1>6, <1>7, <1>8 DEF DataTypes, SetAt
<1>11. Good(e)'
  BY Zenon, <1>2, <1>3, <1>5 DEF Good, SetAt
<1>12. SameTaken(y) /\ SameComing(y) /\ put'[Peer(y)] = put[Peer(y)]
  BY Zenon, <1>1, <1>2, <1>5, <1>6, <1>7, <1>8 DEF SameTaken, SameComing, SetAt
<1>13. Good(y)'
  BY Zenon, <1>12, GoodSame
<1>14. Balance(e)' /\ Balance(y)'
  BY Zenon, <1>1, <1>5 DEF Balance, SetAt
<1>. QED BY Zenon, <1>1, <1>9, <1>11, <1>13, <1>14, TwoEnds DEF DataInv

------------------------------------------------------------------------------
(***************************************************************************)
(* The calls.                                                              *)
(***************************************************************************)
\* A step of e whose call becomes c, that has begun q units then, and that leaves
\* the cells in u for later.
LEMMA CallGoes ==
  ASSUME Inv, NEW e \in Ends, NEW c, NEW q \in Nat, NEW u \in Seq(Cell), Goes(e, c),
         put' = [put EXCEPT ![e] = q], unsent' = [unsent EXCEPT ![e] = u],
         CallOk(c, q, MaxPut[e], readBuffer'[e], u), closed' = closed,
         ~closed[Peer(e)] /\ u # <<>> => c.op = "payload" \/ (closed[e] /\ c = Idle),
         readBuffer'[Peer(e)] = readBuffer[Peer(e)],
         hasSentHeaders' \in [Ends -> BOOLEAN], sentBytes' \in [Ends -> 0..(Modulus - 1)]
  PROVE  CallInv'
<1>1. CallInv /\ unsent \in [Ends -> Seq(Cell)]
  BY DEF Inv, DataTypes
<1>2. DOMAIN call = Ends /\ put \in [Ends -> Nat]
  BY Zenon, <1>1 DEF CallInv
<1>3. /\ call'[e] = c /\ call'[Peer(e)] = call[Peer(e)] /\ DOMAIN call' = Ends
  BY Zenon, <1>2, Peers DEF Goes
<1>4. SetAt(Nat, put, e, q, put')
  BY Zenon, <1>2, NewAt
<1>5. SetAt(Seq(Cell), unsent, e, u, unsent')
  BY Zenon, <1>1, NewAt
<1>6. PICK y \in Ends : y = Peer(e)
  BY Peers
<1>7. CallOk(call[y], put[y], MaxPut[y], readBuffer[y], unsent[y]) /\ Rest(y)
  BY Zenon, <1>1 DEF CallInv
<1>8. CallOk(call'[e], put'[e], MaxPut[e], readBuffer'[e], unsent'[e]) /\ Rest(e)'
  BY Zenon, <1>3, <1>4, <1>5 DEF SetAt, Rest
<1>9. CallOk(call'[y], put'[y], MaxPut[y], readBuffer'[y], unsent'[y]) /\ Rest(y)'
  BY Zenon, <1>3, <1>4, <1>5, <1>6, <1>7 DEF SetAt, Rest
<1>10. \A x \in Ends : CallOk(call'[x], put'[x], MaxPut[x], readBuffer'[x], unsent'[x]) /\ Rest(x)'
  BY Zenon, <1>6, <1>8, <1>9, TwoEnds
<1>. QED BY Zenon, <1>3, <1>4, <1>10 DEF CallInv, SetAt

LEMMA CallsOf ==
  ASSUME Inv, NEW e \in Ends
  PROVE  /\ put[e] \in Nat /\ MaxPut[e] \in Nat /\ put[e] <= MaxPut[e]
         /\ put = [put EXCEPT ![e] = put[e]] /\ unsent = [unsent EXCEPT ![e] = unsent[e]]
         /\ unsent[e] \in Seq(Cell) /\ Rest(e)
         /\ CallOk(call[e], put[e], MaxPut[e], readBuffer[e], unsent[e]) /\ call[e] \in Calls
         /\ hasSentHeaders \in [Ends -> BOOLEAN] /\ sentBytes \in [Ends -> 0..(Modulus - 1)]
         /\ hasSentHeaders[e] \in BOOLEAN /\ sentBytes[e] \in Nat
<1>1. /\ put \in [Ends -> Nat] /\ CallOk(call[e], put[e], MaxPut[e], readBuffer[e], unsent[e])
      /\ hasSentHeaders \in [Ends -> BOOLEAN] /\ sentBytes \in [Ends -> 0..(Modulus - 1)]
      /\ Rest(e) /\ unsent \in [Ends -> Seq(Cell)]
  BY DEF Inv, CallInv, DataTypes
<1>2. put[e] <= MaxPut[e] /\ call[e] \in Calls
  BY Zenon, <1>1 DEF CallOk
<1>3. put[e] \in Nat /\ put = [put EXCEPT ![e] = put[e]] /\ hasSentHeaders[e] \in BOOLEAN
  BY <1>1
<1>4. sentBytes[e] \in 0..(Modulus - 1)
  BY <1>1
<1>5. sentBytes[e] \in Nat
  BY Zenon, <1>4, ModulusIs
<1>6. MaxPut[e] \in Nat
  BY ModulusIs
<1>7. unsent[e] \in Seq(Cell) /\ unsent = [unsent EXCEPT ![e] = unsent[e]]
  BY <1>1
<1>. QED BY Zenon, <1>1, <1>2, <1>3, <1>5, <1>6, <1>7

\* Where no frame is begun, nothing of one is left.
LEMMA NoneUnsent ==
  ASSUME Inv, NEW e \in Ends, call[e].op # "payload", call[e] # Idle \/ ~closed[e]
  PROVE  ~closed[Peer(e)] => unsent[e] = <<>>
BY Zenon, CallsOf DEF Rest

\* The call returns and has changed nothing else about the calls.
LEMMA CallReturns ==
  ASSUME Inv, NEW e \in Ends, Goes(e, Idle), readBuffer'[Peer(e)] = readBuffer[Peer(e)],
         call[e].op # "payload" \/ closed[e] \/ closed[Peer(e)], call[e] # Idle,
         UNCHANGED <<hasSentHeaders, sentBytes, put, unsent, closed>>
  PROVE  CallInv'
<1>1. CallOk(Idle, put[e], MaxPut[e], readBuffer'[e], unsent[e])
  BY Zenon, CallsOf, IdleOk
<1>2. put' = [put EXCEPT ![e] = put[e]] /\ unsent' = [unsent EXCEPT ![e] = unsent[e]]
  BY Zenon, CallsOf
<1>3. /\ put[e] \in Nat /\ unsent[e] \in Seq(Cell)
      /\ hasSentHeaders' \in [Ends -> BOOLEAN] /\ sentBytes' \in [Ends -> 0..(Modulus - 1)]
  BY Zenon, CallsOf
<1>4. ~closed[Peer(e)] /\ unsent[e] # <<>> => closed[e]
  BY Zenon, NoneUnsent
<1>. QED BY Zenon, <1>1, <1>2, <1>3, <1>4, CallGoes

\* A Write enters another phase.
LEMMA CallPhase ==
  ASSUME Inv, NEW e \in Ends, call[e].op \in Writes, NEW op \in Writes,
         Goes(e, [call[e] EXCEPT !.op = op]), UNCHANGED <<readBuffer, put, unsent, closed>>,
         hasSentHeaders' \in [Ends -> BOOLEAN], sentBytes' \in [Ends -> 0..(Modulus - 1)]
  PROVE  CallInv'
<1>1. PICK d : d = [call[e] EXCEPT !.op = op]
  OBVIOUS
<1>2. CallOk(call[e], put[e], MaxPut[e], readBuffer[e], unsent[e])
  BY Zenon, CallsOf
<1>3. CallOk(d, put[e], MaxPut[e], readBuffer'[e], unsent[e])
  BY Zenon, <1>1, <1>2, PhaseOk
<1>4. /\ put' = [put EXCEPT ![e] = put[e]] /\ put[e] \in Nat
      /\ unsent' = [unsent EXCEPT ![e] = unsent[e]] /\ unsent[e] \in Seq(Cell)
  BY Zenon, CallsOf
<1>5. readBuffer'[Peer(e)] = readBuffer[Peer(e)] /\ Goes(e, d)
  BY Zenon, <1>1
<1>6. call[e].op # "payload" /\ call[e].op # "idle"
  BY DEF Writes
<1>7. call[e] # Idle
  BY Zenon, <1>6, CallsOf, CallKinds
<1>8. ~closed[Peer(e)] => unsent[e] = <<>>
  BY Zenon, <1>6, <1>7, NoneUnsent
<1>. QED BY Zenon, <1>3, <1>4, <1>5, <1>8, CallGoes

\* Nothing changes about the calls.
LEMMA CallStill ==
  ASSUME Inv, NEW e \in Ends, readBuffer'[Peer(e)] = readBuffer[Peer(e)],
         readBuffer'[e] = readBuffer[e] \/ readBuffer'[e] = <<>>,
         \A x \in Ends : closed[x] => closed'[x],
         UNCHANGED <<hasSentHeaders, sentBytes, call, put, unsent>>
  PROVE  CallInv'
<1>1. CallInv
  BY DEF Inv
<1>2. ASSUME NEW x \in Ends PROVE CallOk(call[x], put[x], MaxPut[x], readBuffer'[x], unsent[x])
  <2>1. CallOk(call[x], put[x], MaxPut[x], readBuffer[x], unsent[x])
    BY Zenon, <1>1 DEF CallInv
  <2>2. readBuffer'[x] = readBuffer[x] \/ readBuffer'[x] = <<>>
    BY Zenon, TwoEnds
  <2>. QED BY Zenon, <2>1, <2>2 DEF CallOk
<1>3. ASSUME NEW x \in Ends PROVE Rest(x)'
  BY Zenon, <1>1, Peers DEF CallInv, Rest
<1>. QED BY Zenon, <1>1, <1>2, <1>3 DEF CallInv

LEMMA Phases == /\ "wait" \in Writes /\ "headers" \in Writes /\ "send" \in Writes
                /\ "stream" \in Writes
                /\ "wait" # "read" /\ "headers" # "read" /\ "send" # "read"
                /\ "stream" # "read"
BY DEF Writes

------------------------------------------------------------------------------
(***************************************************************************)
(* The actions.                                                            *)
(***************************************************************************)
LEMMA WriteStartKeeps ==
  ASSUME Inv, NEW e \in Ends, NEW n \in WriteSizes, WriteStart(e, n)
  PROVE  Inv'
<1>1. DataInv'
  <2>1. ~closed[e] /\ UNCHANGED <<readBuffer, closed, unsent, put, got, dropped>>
    BY Zenon DEF WriteStart, history
  <2>2. CASE ProcessIncomingFrames(e)
    BY Zenon, <2>1, <2>2, Processes
  <2>3. CASE UNCHANGED <<net, rawBuffer, windowSize>>
    BY Zenon, <2>1, <2>3, Still
  <2>. QED BY Zenon, <2>2, <2>3 DEF WriteStart
<1>2. CallInv'
  <2>1. PICK stream \in BOOLEAN : stream = (n > StreamAbove)
    <3>1. n \in Nat /\ StreamAbove \in Nat
      BY Http3Assumption
    <3>2. (n > StreamAbove) \in BOOLEAN
      BY ONLY SMT, <3>1
    <3>. QED BY Zenon, <3>2
  <2>2. PICK atEnd : atEnd = IF stream \/ hasSentHeaders[e] THEN n ELSE 0
    OBVIOUS
  <2>3. n \in Nat \ {0}
    BY Http3Assumption
  <2>4. atEnd \in Nat
    BY <2>2, <2>3
  <2>5. PICK c : c = [op |-> "wait", left |-> n, stream |-> stream, atEnd |-> atEnd]
    OBVIOUS
  <2>6. /\ put[e] + n <= MaxPut[e] /\ Goes(e, c)
        /\ call[e] = Idle /\ ~closed[e]
        /\ UNCHANGED <<readBuffer, hasSentHeaders, sentBytes, put, unsent, closed>>
    BY Zenon, <2>1, <2>2, <2>5 DEF WriteStart, history
  <2>7. put[e] \in Nat /\ MaxPut[e] \in Nat /\ put' = [put EXCEPT ![e] = put[e]]
        /\ unsent' = [unsent EXCEPT ![e] = unsent[e]] /\ unsent[e] \in Seq(Cell)
        /\ hasSentHeaders' \in [Ends -> BOOLEAN] /\ sentBytes' \in [Ends -> 0..(Modulus - 1)]
    BY Zenon, <2>6, CallsOf
  <2>8. CallOk(c, put[e], MaxPut[e], readBuffer'[e], unsent[e])
    BY Zenon, <2>3, <2>4, <2>5, <2>6, <2>7, WriteOk
  <2>9. call[e].op # "payload"
    BY <2>6 DEF Idle
  <2>10. ~closed[Peer(e)] => unsent[e] = <<>>
    BY Zenon, <2>6, <2>9, NoneUnsent
  <2>. QED BY Zenon, <2>6, <2>7, <2>8, <2>10, CallGoes
<1>. QED BY <1>1, <1>2 DEF Inv, DataInv

\* The steps of Write keep the invariant.
LEMMA WindowSufficientKeeps ==
  ASSUME Inv, NEW e \in Ends, WindowSufficient(e)
  PROVE  Inv'
<1>1. DataInv'
  BY Zenon, Still DEF WindowSufficient, buffers, counters, history
<1>2. CallInv'
  <2>1. PICK op : op = IF hasSentHeaders[e] THEN "send" ELSE "headers"
    OBVIOUS
  <2>2. op \in Writes /\ call[e].op \in Writes
    BY Zenon, <2>1, Phases DEF WindowSufficient
  <2>3. Goes(e, [call[e] EXCEPT !.op = op]) /\ UNCHANGED <<hasSentHeaders, sentBytes, readBuffer, put, unsent, closed>>
    BY Zenon, <2>1 DEF WindowSufficient, buffers, counters, history
  <2>. QED BY Zenon, <2>2, <2>3, CallPhase, CallsOf
<1>. QED BY <1>1, <1>2 DEF Inv, DataInv

LEMMA WaitForWindowKeeps ==
  ASSUME Inv, NEW e \in Ends, WaitForWindow(e)
  PROVE  Inv'
<1>1. DataInv'
  BY Zenon, Processes DEF WaitForWindow, history
<1>2. CallInv'
  BY Zenon, CallStill DEF WaitForWindow, history
<1>. QED BY <1>1, <1>2 DEF Inv, DataInv

\* A call of an end is one call.
LEMMA OneCall ==
  ASSUME NEW c, c.op = "read" \/ c.op = "wait"
  PROVE  c # Idle /\ c.op # "payload"
BY DEF Idle

LEMMA FailsKeeps ==
  ASSUME Inv, NEW e \in Ends, WaitFails(e) \/ ReadFails(e)
  PROVE  Inv'
<1>1. /\ Goes(e, Idle) /\ UNCHANGED <<buffers, counters, closed, unsent, history>>
      /\ call[e].op = "read" \/ call[e].op = "wait"
  BY DEF WaitFails, ReadFails
<1>2. DataInv'
  BY Zenon, <1>1, Still DEF buffers, counters, history
<1>3. CallInv'
  BY Zenon, <1>1, OneCall, CallReturns DEF buffers, counters, history
<1>. QED BY <1>2, <1>3 DEF Inv, DataInv

\* A conn.Write that fails has written nothing, or a part of what it was given.
LEMMA WriteFailsKeeps ==
  ASSUME Inv, NEW e \in Ends, WriteFails(e)
  PROVE  Inv'
<1>1. /\ call[e].op \in {"headers", "send", "stream", "payload"} /\ WriteMayFail(e)
      /\ Goes(e, Idle)
      /\ UNCHANGED <<rawBuffer, readBuffer, counters, closed, history>>
  BY Zenon DEF WriteFails
<1>2. UNCHANGED <<hasSentHeaders, sentBytes, windowSize, put, got, dropped>>
  BY Zenon, <1>1 DEF counters, history
<1>3. call[e] # Idle /\ (closed[e] \/ closed[Peer(e)])
  BY <1>1 DEF Idle, WriteMayFail
<1>4. CASE UNCHANGED <<net, unsent>>
  <2>1. DataInv'
    BY Zenon, <1>1, <1>2, <1>4, Still
  <2>2. CallInv'
    BY Zenon, <1>1, <1>2, <1>3, <1>4, CallReturns
  <2>. QED BY <2>1, <2>2 DEF Inv, DataInv
<1>5. ASSUME NEW k \in 1..Len(Slice(e)), Deliver(e, SubSeq(Slice(e), 1, k)),
             unsent' = [unsent EXCEPT ![e] = SubSeq(Slice(e), k + 1, Len(Slice(e)))]
      PROVE  Inv'
  <2>1. PICK f, a, b : f = Slice(e) /\ a = SubSeq(f, 1, k) /\ b = SubSeq(f, k + 1, Len(f))
    OBVIOUS
  <2>2. DataTypes /\ unsent[e] \in Seq(Cell)
    BY Zenon, CallsOf DEF Inv
  <2>3. f \in Seq(Cell)
    BY Zenon, <2>1, <2>2, HeadersIs, EmptyRest DEF Slice, FrameOf
  <2>4. k \in 0..Len(f)
    <3>1. Len(f) \in Nat
      BY <2>3
    <3>. QED BY <2>1, <3>1
  <2>5. a \in Seq(Cell) /\ b \in Seq(Cell) /\ f = a \o b
    BY Zenon, <2>1, <2>3, <2>4, Split DEF CutAt
  <2>6. Deliver(e, a) /\ unsent' = [unsent EXCEPT ![e] = b]
    BY Zenon, <1>5, <2>1
  <2>7. DataInv'
    <3>1. CASE call[e].op = "payload"
      <4>1. f = unsent[e]
        BY Zenon, <2>1, <3>1 DEF Slice
      <4>. QED BY Zenon, <1>1, <1>2, <2>5, <2>6, <4>1, SendsRest
    <3>2. CASE call[e].op # "payload"
      <4>1. f = HeadersFrame
        <5>1. f # <<>>
          BY <1>5, <2>1
        <5>. QED BY Zenon, <2>1, <3>2, <5>1 DEF Slice
      <4>2. ~closed[Peer(e)] => unsent[e] = <<>>
        BY Zenon, <1>3, <3>2, NoneUnsent
      <4>3. SetAt(Seq(Cell), unsent, e, b, unsent')
        BY Zenon, <2>2, <2>5, <2>6, NewAt DEF DataTypes
      <4>4. Sends(e, HeadersFrame, a, b)
        BY Zenon, <2>5, <2>6, <4>1, <4>2, <4>3 DEF Sends, SetAt
      <4>. QED BY Zenon, <1>1, <1>2, <4>4, SendsHeaders
    <3>. QED BY <3>1, <3>2
  <2>8. CallInv'
    <3>1. /\ put[e] \in Nat /\ put' = [put EXCEPT ![e] = put[e]] /\ put[e] <= MaxPut[e]
          /\ hasSentHeaders' \in [Ends -> BOOLEAN] /\ sentBytes' \in [Ends -> 0..(Modulus - 1)]
      BY Zenon, <1>2, CallsOf
    <3>2. CallOk(Idle, put[e], MaxPut[e], readBuffer'[e], b)
      BY Zenon, <3>1, IdleOk
    <3>3. readBuffer'[Peer(e)] = readBuffer[Peer(e)]
      BY Zenon, <1>1
    <3>. QED BY Zenon, <1>1, <1>3, <2>5, <2>6, <3>1, <3>2, <3>3, CallGoes
  <2>. QED BY <2>7, <2>8 DEF Inv, DataInv
<1>. QED BY Zenon, <1>4, <1>5 DEF WriteFails

\* A frame that is written whole.
LEMMA SendsWhole ==
  ASSUME Inv, NEW e \in Ends, NEW f \in Seq(Cell), Deliver(e, f), unsent' = unsent,
         call[e].op # "payload", ~closed[e]
  PROVE  Sends(e, f, f, <<>>)
<1>1. <<>> \in Seq(Cell) /\ f = f \o <<>>
  BY Zenon, ConcatEmptySeq, EmptyRest
<1>2. unsent \in [Ends -> Seq(Cell)]
  BY DEF Inv, DataTypes
<1>3. ~closed[Peer(e)] => unsent[e] = <<>>
  BY Zenon, NoneUnsent
<1>. QED BY Zenon, <1>1, <1>2, <1>3 DEF Sends

LEMMA WriteHeadersKeeps ==
  ASSUME Inv, NEW e \in Ends, WriteHeaders(e)
  PROVE  Inv'
<1>1. DataInv'
  <2>1. Sends(e, HeadersFrame, HeadersFrame, <<>>)
    <3>1. call[e].op # "payload"
      BY DEF WriteHeaders
    <3>. QED BY Zenon, <3>1, HeadersIs, SendsWhole DEF WriteHeaders, FrameOf
  <2>. QED BY Zenon, <2>1, SendsHeaders DEF WriteHeaders, history
<1>2. CallInv'
  <2>1. PICK op : op = IF call[e].stream THEN "send" ELSE "wait"
    OBVIOUS
  <2>2. op \in Writes /\ call[e].op \in Writes
    BY Zenon, <2>1, Phases DEF WriteHeaders
  <2>3. Goes(e, [call[e] EXCEPT !.op = op]) /\ UNCHANGED <<readBuffer, put, unsent, closed>>
    BY Zenon, <2>1 DEF WriteHeaders, history
  <2>4. PICK w : w = (sentBytes[e] + HeadersSize) % Modulus
    OBVIOUS
  <2>5. w \in 0..(Modulus - 1)
    <3>1. sentBytes[e] + HeadersSize \in Nat
      BY CallsOf, Http3Assumption
    <3>. QED BY Zenon, <2>4, <3>1, ModulusIs
  <2>6. sentBytes' = [sentBytes EXCEPT ![e] = w] /\ hasSentHeaders' = [hasSentHeaders EXCEPT ![e] = TRUE]
    BY Zenon, <2>4 DEF WriteHeaders
  <2>7. sentBytes' \in [Ends -> 0..(Modulus - 1)]
    BY Zenon, <2>5, <2>6, CallsOf, NewAt DEF SetAt
  <2>8. TRUE \in BOOLEAN
    OBVIOUS
  <2>9. hasSentHeaders' \in [Ends -> BOOLEAN]
    BY Zenon, <2>6, <2>8, CallsOf, NewAt DEF SetAt
  <2>. QED BY Zenon, <2>2, <2>3, <2>7, <2>9, CallPhase
<1>. QED BY <1>1, <1>2 DEF Inv, DataInv

LEMMA WriteStreamHeadersKeeps ==
  ASSUME Inv, NEW e \in Ends, WriteStreamHeaders(e)
  PROVE  Inv'
<1>1. DataInv'
  <2>1. Sends(e, HeadersFrame, HeadersFrame, <<>>)
    <3>1. call[e].op # "payload"
      BY DEF WriteStreamHeaders
    <3>. QED BY Zenon, <3>1, HeadersIs, SendsWhole DEF WriteStreamHeaders, FrameOf
  <2>. QED BY Zenon, <2>1, SendsHeaders DEF WriteStreamHeaders, counters, history
<1>2. CallInv'
  <2>1. /\ call[e].op = "send" /\ Goes(e, [call[e] EXCEPT !.op = "stream"])
        /\ UNCHANGED <<readBuffer, put, unsent, closed, hasSentHeaders, sentBytes>>
    BY Zenon DEF WriteStreamHeaders, counters, history
  <2>2. call[e].op \in Writes /\ "stream" \in Writes
    BY Zenon, <2>1, Phases
  <2>. QED BY Zenon, <2>1, <2>2, CallPhase, CallsOf
<1>. QED BY <1>1, <1>2 DEF Inv, DataInv

\* f is its header a and n other cells b.
Parts(f, a, b, n) == a \in Seq(Cell) /\ b \in Seq(Cell) /\ f = a \o b /\ Len(b) = n

LEMMA FrameParts ==
  ASSUME NEW p \in Nat, NEW n \in Nat \ {0}
  PROVE  Parts(DataFrame(p, n), <<Head(DataFrame(p, n))>>, Tail(DataFrame(p, n)), n)
<1>1. PICK f, a, b : f = DataFrame(p, n) /\ a = <<Head(f)>> /\ b = Tail(f)
  OBVIOUS
<1>2. f \in Seq(Cell) /\ Len(f) = n + 1
  BY Zenon, <1>1, DataFrameIs DEF FrameOf
<1>3. Len(f) # 0 /\ f # <<>>
  BY <1>2
<1>4. a \in Seq(Cell) /\ b \in Seq(Cell) /\ Len(b) = n /\ Len(a) = 1
  BY <1>1, <1>2, <1>3
<1>5. f = a \o b
  BY <1>1, <1>2, <1>3, <1>4
<1>. QED BY Zenon, <1>1, <1>4, <1>5 DEF Parts

\* A frame begins.
LEMMA FrameBegins ==
  ASSUME Inv, NEW e \in Ends, call[e].op \in Writes, NEW n \in 1..call[e].left, BeginFrame(e, n)
  PROVE  Inv'
<1>1. PICK left \in Nat : left = call[e].left
  BY Zenon, CallKinds, CallsOf
<1>2. n \in Nat \ {0}
  BY <1>1
<1>3. PICK p \in Nat, q \in Nat : p = put[e] /\ q = MaxPut[e]
  BY Zenon, CallsOf
<1>4. PICK f, a, b : f = DataFrame(p, n) /\ a = <<Head(f)>> /\ b = Tail(f)
  OBVIOUS
<1>5. a \in Seq(Cell) /\ b \in Seq(Cell) /\ f = a \o b /\ Len(b) = n
  BY Zenon, <1>2, <1>4, FrameParts DEF Parts
<1>6. /\ ~closed[e] /\ Deliver(e, a) /\ unsent' = [unsent EXCEPT ![e] = b]
      /\ put' = [put EXCEPT ![e] = @ + n] /\ Goes(e, [call[e] EXCEPT !.op = "payload"])
      /\ UNCHANGED <<rawBuffer, readBuffer, counters, closed, got, dropped>>
  BY Zenon, <1>3, <1>4 DEF BeginFrame
<1>7. UNCHANGED <<hasSentHeaders, sentBytes, windowSize>>
  BY Zenon, <1>6 DEF counters
<1>8. DataInv'
  <2>1. call[e].op # "payload" /\ n \in Nat
    BY <1>2 DEF Writes
  <2>2. ~closed[Peer(e)] => unsent[e] = <<>>
    BY Zenon, <1>6, <2>1, NoneUnsent
  <2>3. unsent \in [Ends -> Seq(Cell)]
    BY DEF Inv, DataTypes
  <2>4. SetAt(Seq(Cell), unsent, e, b, unsent')
    BY Zenon, <1>5, <1>6, <2>3, NewAt
  <2>5. Sends(e, DataFrame(put[e], n), a, b)
    BY Zenon, <1>3, <1>4, <1>5, <1>6, <2>2, <2>4 DEF Sends, SetAt
  <2>. QED BY Zenon, <1>6, <1>7, <2>1, <2>5, SendsData
<1>9. CallInv'
  <2>1. CallOk(call[e], p, q, readBuffer[e], unsent[e])
    BY Zenon, <1>3, CallsOf
  <2>2. PICK d : d = [call[e] EXCEPT !.op = "payload"]
    OBVIOUS
  <2>3. p + n \in Nat /\ p + n <= q /\ CallOk(d, p + n, q, readBuffer'[e], b)
    BY Zenon, <1>5, <2>1, <2>2, BeginOk
  <2>4. d.op = "payload"
    <3>1. call[e] \in WriteCalls
      BY Zenon, CallsOf, CallKinds
    <3>. QED BY <2>2, <3>1 DEF WriteCalls
  <2>5. put' = [put EXCEPT ![e] = p + n] /\ Goes(e, d) /\ readBuffer'[Peer(e)] = readBuffer[Peer(e)]
    BY Zenon, <1>3, <1>6, <2>2
  <2>6. hasSentHeaders' \in [Ends -> BOOLEAN] /\ sentBytes' \in [Ends -> 0..(Modulus - 1)]
    BY Zenon, <1>7, CallsOf
  <2>. QED BY Zenon, <1>3, <1>5, <1>6, <2>3, <2>4, <2>5, <2>6, CallGoes
<1>. QED BY <1>8, <1>9 DEF Inv, DataInv

\* What a Write in the phase op has left.
LEMMA LeftOf ==
  ASSUME Inv, NEW e \in Ends, call[e].op \in Writes
  PROVE  call[e].left \in Nat \ {0}
<1>1. call[e].left \in Nat /\ call[e].left # 0
  BY Zenon, CallsOf, CallKinds DEF CallOk
<1>. QED BY <1>1

LEMMA WriteFrameKeeps ==
  ASSUME Inv, NEW e \in Ends, WriteFrame(e)
  PROVE  Inv'
<1>1. call[e].op \in Writes /\ ~call[e].stream /\ BeginFrame(e, ChunkSize(call[e]))
  BY Zenon, Phases DEF WriteFrame
<1>2. ChunkSize(call[e]) = Min({call[e].left, MaxFrame}) /\ MaxFrame \in Nat \ {0}
  BY <1>1, Http3Assumption DEF ChunkSize
<1>3. ChunkSize(call[e]) \in 1..call[e].left
  BY Zenon, <1>1, <1>2, LeftOf, MinOfTwo
<1>. QED BY Zenon, <1>1, <1>3, FrameBegins

LEMMA WriteStreamKeeps ==
  ASSUME Inv, NEW e \in Ends, WriteStream(e)
  PROVE  Inv'
<1>1. call[e].op \in Writes /\ BeginFrame(e, Min({call[e].left, StreamFrame}))
  BY Zenon, Phases DEF WriteStream
<1>2. StreamFrame \in Nat \ {0}
  BY Http3Assumption
<1>3. Min({call[e].left, StreamFrame}) \in 1..call[e].left
  BY Zenon, <1>1, <1>2, LeftOf, MinOfTwo
<1>. QED BY Zenon, <1>1, <1>3, FrameBegins

\* The rest of a frame is written: the last returns, another leaves the others.
LEMMA WritePayloadKeeps ==
  ASSUME Inv, NEW e \in Ends, WritePayload(e)
  PROVE  Inv'
<1>1. PICK c, n : c = call[e] /\ n = Len(unsent[e])
  OBVIOUS
<1>2. PICK add : add = (IF c.stream THEN 0 ELSE n) + IF c.left = n THEN c.atEnd ELSE 0
  OBVIOUS
<1>3. PICK next : next = [c EXCEPT !.op = IF c.stream THEN "stream" ELSE "wait", !.left = @ - n]
  OBVIOUS
<1>4. PICK w : w = (sentBytes[e] + (IF c.stream THEN 0 ELSE n) + IF c.left = n THEN c.atEnd ELSE 0) % Modulus
  OBVIOUS
<1>5. /\ c.op = "payload" /\ ~closed[e] /\ Deliver(e, unsent[e])
      /\ unsent' = [unsent EXCEPT ![e] = <<>>] /\ sentBytes' = [sentBytes EXCEPT ![e] = w]
      /\ Goes(e, IF c.left = n THEN Idle ELSE next)
      /\ UNCHANGED <<rawBuffer, readBuffer, hasSentHeaders, windowSize, closed, put, got, dropped>>
  BY Zenon, <1>1, <1>3, <1>4 DEF WritePayload, history
<1>6. CallOk(c, put[e], MaxPut[e], readBuffer[e], unsent[e]) /\ c \in Calls /\ unsent[e] \in Seq(Cell)
  BY Zenon, <1>1, CallsOf
<1>7. c \in WriteCalls /\ c.left \in Nat /\ c.stream \in BOOLEAN /\ c.atEnd \in Nat /\ n \in 1..c.left
  BY Zenon, <1>1, <1>5, <1>6, CallKinds DEF CallOk
<1>8. n \in Nat /\ c.left - n \in Nat
  BY <1>7
<1>9. DataInv'
  <2>1. <<>> \in Seq(Cell) /\ unsent[e] = unsent[e] \o <<>>
    BY Zenon, <1>6, ConcatEmptySeq, EmptyRest
  <2>. QED BY Zenon, <1>5, <1>6, <2>1, SendsRest
<1>10. sentBytes' \in [Ends -> 0..(Modulus - 1)]
  <2>1. sentBytes[e] \in Nat /\ sentBytes \in [Ends -> 0..(Modulus - 1)]
    BY Zenon, CallsOf
  <2>2. PICK x \in Nat : x = IF c.stream THEN 0 ELSE n
    BY <1>8
  <2>3. PICK z \in Nat : z = IF c.left = n THEN c.atEnd ELSE 0
    BY <1>7
  <2>4. sentBytes[e] + x + z \in Nat
    BY <2>1, <2>2, <2>3
  <2>5. w \in 0..(Modulus - 1)
    BY Zenon, <1>4, <2>2, <2>3, <2>4, ModulusIs
  <2>. QED BY Zenon, <1>5, <2>1, <2>5, NewAt DEF SetAt
<1>11. /\ put[e] \in Nat /\ put' = [put EXCEPT ![e] = put[e]] /\ put[e] <= MaxPut[e] /\ MaxPut[e] \in Nat
       /\ hasSentHeaders' \in [Ends -> BOOLEAN] /\ readBuffer'[Peer(e)] = readBuffer[Peer(e)]
  BY Zenon, <1>5, CallsOf
<1>12. <<>> \in Seq(Cell)
  BY EmptyRest
<1>13. CASE c.left = n
  <2>1. CallOk(Idle, put[e], MaxPut[e], readBuffer'[e], <<>>)
    BY Zenon, <1>11, IdleOk
  <2>2. Goes(e, Idle)
    BY Zenon, <1>5, <1>13
  <2>3. CallInv'
    BY Zenon, <1>5, <1>10, <1>11, <1>12, <2>1, <2>2, CallGoes
  <2>. QED BY <1>9, <2>3 DEF Inv, DataInv
<1>14. CASE c.left # n
  <2>1. PICK op \in Writes : op = IF c.stream THEN "stream" ELSE "wait"
    BY DEF Writes
  <2>2. next \in WriteCalls /\ next.op = op /\ next.left = c.left - n
    BY <1>3, <1>7, <1>8, <2>1 DEF WriteCalls
  <2>3. CallOk(next, put[e], MaxPut[e], readBuffer'[e], <<>>)
    BY Zenon, <1>1, <1>5, <1>6, <1>11, <1>14, <2>2, LeftOk
  <2>4. Goes(e, next)
    BY Zenon, <1>5, <1>14
  <2>5. CallInv'
    BY Zenon, <1>5, <1>10, <1>11, <1>12, <2>3, <2>4, CallGoes
  <2>. QED BY <1>9, <2>5 DEF Inv, DataInv
<1>. QED BY <1>13, <1>14

\* The steps of Read keep it.
LEMMA ReadStartKeeps ==
  ASSUME Inv, NEW e \in Ends, NEW size \in ReadSizes, ReadStart(e, size)
  PROVE  Inv'
<1>1. DataInv'
  BY Zenon, ReadStartData
<1>2. call[e] = Idle /\ ~closed[e] /\ UNCHANGED <<put, unsent, closed, hasSentHeaders, sentBytes>>
  BY Zenon DEF ReadStart, counters
<1>3. DataTypes
  BY DEF Inv
<1>a. call[e].op # "payload"
  BY <1>2 DEF Idle
<1>b. /\ put[e] \in Nat /\ MaxPut[e] \in Nat /\ put[e] <= MaxPut[e]
      /\ put' = [put EXCEPT ![e] = put[e]] /\ unsent' = [unsent EXCEPT ![e] = unsent[e]]
      /\ unsent[e] \in Seq(Cell) /\ (~closed[Peer(e)] => unsent[e] = <<>>)
      /\ hasSentHeaders' \in [Ends -> BOOLEAN] /\ sentBytes' \in [Ends -> 0..(Modulus - 1)]
  BY Zenon, <1>2, <1>a, CallsOf, NoneUnsent
<1>4. CallInv'
  <2>1. CASE /\ readBuffer' = [readBuffer EXCEPT ![e] = SubSeq(@, size + 1, Len(@))]
             /\ Goes(e, Idle)
    <3>1. readBuffer'[Peer(e)] = readBuffer[Peer(e)]
      BY <1>3, <2>1, Peers DEF DataTypes
    <3>2. CallOk(Idle, put[e], MaxPut[e], readBuffer'[e], unsent[e])
      BY Zenon, <1>b, IdleOk
    <3>. QED BY Zenon, <1>2, <1>b, <2>1, <3>1, <3>2, CallGoes
  <2>2. CASE /\ readBuffer[e] = <<>> /\ Goes(e, [op |-> "read", size |-> size])
             /\ readBuffer' = readBuffer
    <3>1. CallOk([op |-> "read", size |-> size], put[e], MaxPut[e], readBuffer'[e], unsent[e])
      BY Zenon, <1>b, <2>2, ReadOk
    <3>. QED BY Zenon, <1>2, <1>b, <2>2, <3>1, CallGoes
  <2>. QED BY Zenon, <2>1, <2>2 DEF ReadStart, Returns
<1>. QED BY <1>1, <1>4 DEF Inv, DataInv

LEMMA ReadDataKeeps ==
  ASSUME Inv, NEW e \in Ends, ReadData(e)
  PROVE  Inv'
<1>1. DataInv'
  BY Zenon, ReadDataData
<1>2. PICK b : readBuffer' = [readBuffer EXCEPT ![e] = b]
  BY Zenon DEF ReadData
<1>3. DataTypes
  BY DEF Inv
<1>4. readBuffer'[Peer(e)] = readBuffer[Peer(e)]
  BY <1>2, <1>3, Peers DEF DataTypes
<1>5. CallInv'
  BY Zenon, <1>4, OneCall, CallReturns DEF ReadData, ReadsFrame, Returns, counters
<1>. QED BY <1>1, <1>5 DEF Inv, DataInv

LEMMA ReadDataFailsKeeps ==
  ASSUME Inv, NEW e \in Ends, ReadDataFails(e)
  PROVE  Inv'
<1>1. DataInv'
  BY Zenon, ReadDataFailsData
<1>2. PICK b : readBuffer' = [readBuffer EXCEPT ![e] = b]
  BY Zenon DEF ReadDataFails
<1>3. DataTypes
  BY DEF Inv
<1>4. readBuffer'[Peer(e)] = readBuffer[Peer(e)]
  BY <1>2, <1>3, Peers DEF DataTypes
<1>5. CallInv'
  BY Zenon, <1>4, OneCall, CallReturns DEF ReadDataFails, ReadsFrame, counters
<1>. QED BY <1>1, <1>5 DEF Inv, DataInv

LEMMA ReadOtherKeeps ==
  ASSUME Inv, NEW e \in Ends, ReadHeaders(e) \/ ReadWindowUpdate(e) \/ ReadConn(e)
  PROVE  Inv'
<1>1. DataInv'
  BY Zenon, ReadHeadersData, ReadWindowUpdateData, ReadConnData
<1>2. UNCHANGED <<readBuffer, hasSentHeaders, sentBytes, call, put, unsent, closed>>
  BY DEF ReadHeaders, ReadWindowUpdate, ReadConn, counters, history
<1>3. CallInv'
  BY Zenon, <1>2, CallStill
<1>. QED BY <1>1, <1>3 DEF Inv, DataInv

\* A Close keeps it: of an end that is closed nothing is said any more.
LEMMA CloseKeeps ==
  ASSUME Inv, NEW e \in Ends, Close(e)
  PROVE  Inv'
<1>1. DataInv'
  BY Zenon, CloseData
<1>2. DataTypes
  BY DEF Inv
<1>3. readBuffer'[e] = <<>> /\ readBuffer'[Peer(e)] = readBuffer[Peer(e)]
  BY <1>2, Peers DEF Close, DataTypes
<1>4. \A x \in Ends : closed[x] => closed'[x]
  BY <1>2 DEF Close, DataTypes
<1>5. CallInv'
  BY Zenon, <1>3, <1>4, CallStill DEF Close, counters, history
<1>. QED BY <1>1, <1>5 DEF Inv, DataInv

\* The invariant holds at the start, and every step keeps it.
LEMMA InvInit ==
  Init => Inv
<1>. SUFFICES ASSUME Init PROVE Inv
  OBVIOUS
<1>1. Modulus \in Nat \ {0} /\ Window \in 0..(Modulus - 1) /\ 0 \in 0..(Modulus - 1)
  BY Http3Assumption
<1>2. <<>> \in Seq(Cell) /\ <<>> \in Seq(Nat)
  OBVIOUS
<1>3. DataTypes
  BY <1>1, <1>2 DEF Init, DataTypes
<1>4. CallInv
  <2>1. ASSUME NEW x \in Ends PROVE CallOk(call[x], put[x], MaxPut[x], readBuffer[x], unsent[x]) /\ Rest(x)
    <3>1. call[x] = Idle /\ put[x] = 0 /\ unsent[x] = <<>>
      BY DEF Init
    <3>2. 0 <= MaxPut[x]
      BY Http3Assumption
    <3>. QED BY Zenon, <3>1, <3>2, IdleOk DEF Rest
  <2>2. /\ hasSentHeaders \in [Ends -> BOOLEAN] /\ sentBytes \in [Ends -> 0..(Modulus - 1)]
        /\ put \in [Ends -> Nat] /\ DOMAIN call = Ends
    BY <1>1 DEF Init
  <2>. QED BY <2>1, <2>2 DEF CallInv
<1>5. <<>> \o <<>> = <<>>
  BY Zenon, <1>2, ConcatEmptySeq
<1>6. ASSUME NEW x \in Ends
      PROVE  /\ Coming(x) = <<>> /\ Taken(x) = <<>> /\ got[x] = <<>> /\ put[Peer(x)] = 0
             /\ windowSize[x] = Window
  <2>1. /\ rawBuffer[x] = <<>> /\ net[x] = <<>> /\ unsent[Peer(x)] = <<>> /\ got[x] = <<>> /\ readBuffer[x] = <<>>
        /\ put[Peer(x)] = 0 /\ windowSize[x] = Window
    BY Peers DEF Init
  <2>. QED BY Zenon, <1>5, <2>1 DEF Coming, Way, Taken
<1>7. Len(<<>>) = 0 /\ 0 <= 0 /\ 0 \in Nat /\ Counts(<<>>) /\ Window + 0 = Window
  BY Http3Assumption DEF Counts
<1>8. ASSUME NEW x \in Ends PROVE Good(x)
  BY Zenon, <1>6, <1>7, EmptyRest DEF Good, Flow
<1>9. ASSUME NEW x \in Ends PROVE Balance(x)
  BY Zenon, <1>6, <1>7, Peers, EmptyRest DEF Balance
<1>. QED BY <1>3, <1>4, <1>8, <1>9 DEF Inv

LEMMA InvNext ==
  Inv /\ [Next]_vars => Inv'
<1>. SUFFICES ASSUME Inv, [Next]_vars PROVE Inv'
  OBVIOUS
<1>1. CASE Next
  <2>1. PICK e \in Ends :
          \/ \E n \in WriteSizes : WriteStart(e, n)
          \/ \E n \in ReadSizes : ReadStart(e, n)
          \/ WriteStep(e) \/ ReadStep(e) \/ Close(e)
    BY Zenon, <1>1 DEF Next
  <2>2. CASE \E n \in WriteSizes : WriteStart(e, n)
    BY Zenon, <2>2, WriteStartKeeps
  <2>3. CASE \E n \in ReadSizes : ReadStart(e, n)
    BY Zenon, <2>3, ReadStartKeeps
  <2>4. CASE WriteStep(e)
    BY Zenon, <2>4, WindowSufficientKeeps, WaitForWindowKeeps, FailsKeeps, WriteHeadersKeeps,
       WriteFrameKeeps, WriteStreamHeadersKeeps, WriteStreamKeeps, WritePayloadKeeps, WriteFailsKeeps
       DEF WriteStep
  <2>5. CASE ReadStep(e)
    BY Zenon, <2>5, ReadDataKeeps, ReadDataFailsKeeps, ReadOtherKeeps, FailsKeeps DEF ReadStep
  <2>6. CASE Close(e)
    BY Zenon, <2>6, CloseKeeps
  <2>. QED BY Zenon, <2>1, <2>2, <2>3, <2>4, <2>5, <2>6
<1>2. CASE UNCHANGED vars
  <2>1. DataInv'
    BY Zenon, <1>2, Still DEF vars, buffers, counters, history
  <2>2. "a" \in Ends
    BY DEF Ends
  <2>3. CallInv'
    BY Zenon, <1>2, <2>2, CallStill DEF vars, buffers, counters, history
  <2>. QED BY <2>1, <2>3 DEF Inv, DataInv
<1>. QED BY <1>1, <1>2

\* Units that count are the first numbers.
LEMMA CountsIs ==
  ASSUME NEW s \in Seq(Nat), Counts(s)
  PROVE  s = [i \in 1..Len(s) |-> i]
<1>1. PICK n \in Nat : n = Len(s)
  BY LenProperties
<1>2. DOMAIN s = 1..n /\ s = [i \in 1..n |-> s[i]]
  BY <1>1
<1>3. \A i \in 1..n : s[i] = i
  BY Zenon, <1>1 DEF Counts
<1>4. [i \in 1..n |-> s[i]] = [i \in 1..n |-> i]
  BY Zenon, <1>3
<1>. QED BY Zenon, <1>1, <1>2, <1>4

\* It is more than the properties.
LEMMA InvWhole ==
  Inv => StreamWhole
<1>. SUFFICES ASSUME Inv PROVE StreamWhole
  OBVIOUS
<1>1. DataTypes /\ \A x \in Ends : Good(x)
  BY DEF Inv
<1>2. TypeOK
  <2>1. ASSUME NEW e \in Ends
        PROVE  /\ sentBytes[e] \in 0..(Modulus - 1) /\ windowSize[e] \in 0..(Modulus - 1)
               /\ call[e] \in Calls /\ put[e] \in 0..MaxPut[e]
    <3>1. put[e] \in Nat /\ MaxPut[e] \in Nat /\ put[e] <= MaxPut[e] /\ call[e] \in Calls
      BY Zenon, CallsOf
    <3>2. put[e] \in 0..MaxPut[e]
      BY <3>1
    <3>3. sentBytes[e] \in 0..(Modulus - 1) /\ windowSize[e] \in 0..(Modulus - 1)
      BY DEF Inv, CallInv, DataTypes
    <3>. QED BY <3>1, <3>2, <3>3
  <2>2. /\ hasSentHeaders \in [Ends -> BOOLEAN] /\ closed \in [Ends -> BOOLEAN]
        /\ dropped \in [Ends -> BOOLEAN]
    BY DEF Inv, CallInv, DataTypes
  <2>. QED BY <2>1, <2>2 DEF TypeOK
<1>3. FramesStayAligned
  <2>. SUFFICES ASSUME NEW e \in Ends, ~closed[e]
                PROVE  /\ Framed(Coming(e))
                       /\ unsent[Peer(e)] # <<>> => call[Peer(e)].op = "payload" \/ closed[Peer(e)]
    BY Zenon DEF FramesStayAligned
  <2>1. Framed(Coming(e))
    BY Zenon, <1>1 DEF Good
  <2>2. Peer(e) \in Ends /\ Peer(Peer(e)) = e
    BY Zenon, Peers
  <2>3. Rest(Peer(e))
    BY Zenon, <2>2, CallsOf
  <2>. QED BY Zenon, <2>1, <2>2, <2>3 DEF Rest
<1>4. StreamIntact
  <2>. SUFFICES ASSUME NEW e \in Ends, ~closed[e], ~dropped[e], NEW taken, taken = got[e] \o readBuffer[e]
                PROVE  /\ taken = [i \in 1..Len(taken) |-> i] /\ Len(taken) <= put[Peer(e)]
                       /\ InOrder(Coming(e), Len(taken), put[Peer(e)])
    BY Zenon DEF StreamIntact
  <2>1. taken = Taken(e) /\ taken \in Seq(Nat)
    BY Zenon, <1>1, DataOf DEF Taken
  <2>2. Flow(Coming(e), taken, put[Peer(e)])
    BY Zenon, <1>1, <2>1 DEF Good
  <2>. QED BY Zenon, <2>1, <2>2, CountsIs DEF Flow
<1>5. ReadIsPrefix
  <2>. SUFFICES ASSUME NEW e \in Ends, ~dropped[e] PROVE got[e] = [i \in 1..Len(got[e]) |-> i]
    BY Zenon DEF ReadIsPrefix
  <2>1. Counts(got[e]) /\ got[e] \in Seq(Nat)
    BY Zenon, <1>1, DataOf DEF Good
  <2>. QED BY Zenon, <2>1, CountsIs
<1>. QED BY Zenon, <1>2, <1>3, <1>4, <1>5 DEF StreamWhole

LEMMA InvCredited ==
  Inv => CreditedOnce
BY Zenon DEF Inv, Balance, CreditedOnce, Taken

------------------------------------------------------------------------------
\* The stream is whole: what an open end has still to take is frames, one behind
\* another, whatever processIncomingFrames has taken out of its rawBuffer; the last
\* may lack the cells that its peer is about to write, or has not written because it
\* closed between a header and its payload (http3.go:612-619, 1015-1028).  It has
\* taken the first units of the frames its peer has begun, in their order, with the
\* others behind them; Read has returned a prefix of them, also around Close.
THEOREM StreamStaysWhole == Spec => []StreamWhole
BY InvInit, InvNext, InvWhole, PTL DEF Spec

\* Each unit that has been taken is credited once: what the window has grown by
\* and the increments on their way add up to the units the peer has taken,
\* whether Read or Write has handled the WINDOW_UPDATE frames.
THEOREM UnitsAreCreditedOnce == Spec => []CreditedOnce
BY InvInit, InvNext, InvCredited, PTL DEF Spec
==============================================================================
