---------------------- MODULE FlashBlockDriver_proofs ----------------------
(***************************************************************************)
(* Proofs about FlashBlockDriver.  First where the bytes of a transfer go, *)
(* compared with Place, the position a byte of data has; then the calls.   *)
(***************************************************************************)
EXTENDS FlashBlockDriver, TLAPS

\* Division with remainder.
LEMMA Euclid ==
  ASSUME NEW a \in Nat, NEW n \in Nat \ {0}
  PROVE  /\ a = n * (a \div n) + (a % n)
         /\ a % n \in 0..(n - 1)
         /\ a \div n \in Nat
BY Z3

LEMMA EuclidUnique ==
  ASSUME NEW q \in Nat, NEW n \in Nat \ {0}, NEW r \in 0..(n - 1)
  PROVE  (n * q + r) \div n = q /\ (n * q + r) % n = r
BY Z3

\* A page and a place in it, from a position.
LEMMA Position ==
  ASSUME NEW p \in Nat, NEW q \in Nat, NEW n \in Nat \ {0},
         NEW r \in 0..(n - 1), NEW s \in 0..(n - 1), p * n + r = q * n + s
  PROVE  p = q /\ r = s
BY Z3

LEMMA Ordered ==
  ASSUME NEW p \in Nat, NEW q \in Nat, NEW n \in Nat, p <= q
  PROVE  p * n <= q * n
BY Z3

\* The place r of page p.
LEMMA Product ==
  ASSUME NEW p \in Nat, NEW n \in Nat \ {0}, NEW r \in 0..(n - 1)
  PROVE  /\ p * n \in Nat /\ p * n = n * p
         /\ p * n + r \in Nat /\ (p + 1) * n \in Nat
         /\ p * n + r < (p + 1) * n
BY Z3

LEMMA Lengths ==
  /\ PageData \in Nat \ {0} /\ SpareLength \in Nat \ {0}
  /\ PageLength \in Nat \ {0} /\ PageData <= PageLength
  /\ Stride \in Nat \ {0} /\ PageData < Stride
  /\ PageCount \in Nat /\ ImageLength \in Nat
BY PagingAssumption, SMT DEF Stride

-----------------------------------------------------------------------------
(* Positions *)

LEMMA PlaceParts ==
  ASSUME NEW q \in Nat, NEW r \in 0..(PageData - 1)
  PROVE  Place(PageData * q + r) = q * PageLength + r
<1>1. (PageData * q + r) \div PageData = q /\ (PageData * q + r) % PageData = r
  BY EuclidUnique, Lengths
<1> QED BY <1>1 DEF Place

LEMMA PlaceOf ==
  ASSUME NEW a \in Nat
  PROVE  /\ a \div PageData \in Nat /\ a % PageData \in 0..(PageData - 1)
         /\ a = PageData * (a \div PageData) + (a % PageData)
         /\ Place(a) = (a \div PageData) * PageLength + (a % PageData)
         /\ Place(a) \in Nat
<1>1. /\ a \div PageData \in Nat /\ a % PageData \in 0..(PageData - 1)
      /\ a = PageData * (a \div PageData) + (a % PageData)
  BY Euclid, Lengths
<1>2. a % PageData \in 0..(PageLength - 1)
  BY <1>1, Lengths, SMT
<1>3. (a \div PageData) * PageLength + (a % PageData) \in Nat
  BY <1>1, <1>2, Product, Lengths
<1> QED BY <1>1, <1>3 DEF Place

LEMMA InPage ==
  ASSUME NEW a \in Nat
  PROVE  a % PageData \in 0..(PageLength - 1)
BY PlaceOf, Lengths, SMT

\* Different bytes of data have different places, none of them in the spare bytes.
LEMMA PlaceInjective ==
  ASSUME NEW a \in Nat, NEW b \in Nat, Place(a) = Place(b)
  PROVE  a = b
<1> DEFINE qa == a \div PageData
           qb == b \div PageData
           ra == a % PageData
           rb == b % PageData
<1>1. /\ qa \in Nat /\ ra \in 0..(PageLength - 1) /\ Place(a) = qa * PageLength + ra
      /\ a = PageData * qa + ra
  BY PlaceOf, InPage
<1>2. /\ qb \in Nat /\ rb \in 0..(PageLength - 1) /\ Place(b) = qb * PageLength + rb
      /\ b = PageData * qb + rb
  BY PlaceOf, InPage
<1> HIDE DEF qa, qb, ra, rb
<1>3. qa * PageLength + ra = qb * PageLength + rb
  BY <1>1, <1>2
<1>4. qa = qb /\ ra = rb
  BY <1>1, <1>2, <1>3, Position, Lengths
<1> QED BY <1>1, <1>2, <1>4

LEMMA PlaceInData ==
  ASSUME NEW a \in Nat
  PROVE  Place(a) % PageLength < PageData
<1> DEFINE q == a \div PageData
           r == a % PageData
<1>1. /\ q \in Nat /\ r \in 0..(PageLength - 1) /\ r \in 0..(PageData - 1)
      /\ Place(a) = q * PageLength + r
  BY PlaceOf, InPage
<1> HIDE DEF q, r
<1>2. q * PageLength = PageLength * q
  BY <1>1, Product, Lengths
<1>3. (PageLength * q + r) % PageLength = r
  BY <1>1, EuclidUnique, Lengths
<1> QED BY <1>1, <1>2, <1>3, Lengths, SMT

\* The pages before that of a data byte are in the buffer, and its own.
LEMMA PageInside ==
  ASSUME NEW a \in 0..(DataLength - 1)
  PROVE  a \in Nat /\ (a \div PageData + 1) * PageLength <= ImageLength
<1> DEFINE n == ImageLength \div PageLength
<1>1. n \in Nat /\ n * PageLength <= ImageLength
  <2>1. ImageLength = PageLength * n + (ImageLength % PageLength)
        /\ ImageLength % PageLength \in 0..(PageLength - 1) /\ n \in Nat
    BY Euclid, Lengths
  <2> HIDE DEF n
  <2>2. n * PageLength = PageLength * n /\ n * PageLength \in Nat
    BY <2>1, Product, Lengths
  <2> QED BY <2>1, <2>2, Lengths, SMT
<1>2. DataLength = n * PageData
  BY DEF DataLength
<1> HIDE DEF n
<1>3. n * PageData \in Nat
  BY <1>1, Lengths, Z3
<1>4. a \in Nat /\ a < n * PageData
  BY <1>2, <1>3, SMT
<1> DEFINE q == a \div PageData
<1>5. q \in Nat /\ q * PageData <= a
  <2>1. q \in Nat /\ a = PageData * q + (a % PageData) /\ a % PageData \in 0..(PageData - 1)
    BY <1>4, PlaceOf
  <2> HIDE DEF q
  <2>2. q * PageData = PageData * q /\ q * PageData \in Nat
    BY <2>1, Lengths, Z3
  <2> QED BY <2>1, <2>2, SMT
<1> HIDE DEF q
<1>6. q + 1 <= n
  <2>1. SUFFICES ASSUME n <= q PROVE FALSE
    BY <1>1, <1>5, SMT
  <2>2. n * PageData <= q * PageData
    BY <2>1, <1>1, <1>5, Ordered, Lengths
  <2>3. q * PageData \in Nat
    BY <1>5, Lengths, Z3
  <2> QED BY <1>3, <1>4, <1>5, <2>2, <2>3, SMT
<1>7. (q + 1) * PageLength <= n * PageLength
  <2>1. q + 1 \in Nat
    BY <1>5, SMT
  <2> QED BY <2>1, <1>1, <1>6, Ordered, Lengths
<1>8. (q + 1) * PageLength \in Nat /\ n * PageLength \in Nat
  BY <1>1, <1>5, Lengths, Z3
<1>9. (q + 1) * PageLength <= ImageLength
  BY <1>1, <1>7, <1>8, Lengths, SMT
<1> QED BY <1>4, <1>9 DEF q

LEMMA PlaceInside ==
  ASSUME NEW a \in 0..(DataLength - 1)
  PROVE  Place(a) \in Cells
<1> DEFINE q == a \div PageData
           r == a % PageData
<1>1. a \in Nat /\ (q + 1) * PageLength <= ImageLength
  BY PageInside
<1>2. q \in Nat /\ r \in 0..(PageLength - 1) /\ Place(a) = q * PageLength + r
  BY <1>1, PlaceOf, InPage
<1> HIDE DEF q, r
<1>3. /\ q * PageLength + r \in Nat /\ (q + 1) * PageLength \in Nat
      /\ q * PageLength + r < (q + 1) * PageLength
  BY <1>2, Product, Lengths
<1> QED BY <1>1, <1>2, <1>3, Lengths, SMT DEF Cells

-----------------------------------------------------------------------------
(* Transfers *)

\* The first piece of a transfer lies on the place of its bytes as long as they
\* stay in the page, and further along its page behind it.
LEMMA TargetShort ==
  ASSUME NEW off \in Nat, NEW len \in Nat, len < PageData, NEW k \in 0..(len - 1)
  PROVE  Target(off, len, k)
           = (off \div PageData) * PageLength + (off % PageData) + k
<1>1. First(off, len) = len
  BY DEF First
<1>2. k - First(off, len) < 0
  BY <1>1, SMT
<1> QED BY <1>2 DEF Target

\* A transfer that does not run short over the end of its page goes byte by byte
\* to the places of its range.
LEMMA TargetLies ==
  ASSUME NEW off \in Nat, NEW len \in Nat, NEW k \in 0..(len - 1),
         len >= PageData \/ (off % PageData) + k < PageData
  PROVE  Target(off, len, k) = Place(off + k)
<1> DEFINE q == off \div PageData
           r == off % PageData
<1>1. q \in Nat /\ r \in 0..(PageData - 1) /\ off = PageData * q + r
  BY PlaceOf
<1>2. CASE r + k < PageData
  <2>1. Target(off, len, k) = q * PageLength + r + k
    <3>1. CASE len < PageData
      BY <3>1, TargetShort
    <3>2. CASE len >= PageData
      <4>1. First(off, len) = PageData - r
        BY <3>2, Lengths, SMT DEF First
      <4>2. k - First(off, len) < 0
        BY <4>1, <1>1, <1>2, Lengths, SMT
      <4> QED BY <4>2 DEF Target
    <3> QED BY <3>1, <3>2, Lengths, SMT
  <2> HIDE DEF q, r
  <2>2. r + k \in 0..(PageData - 1) /\ PageData * q \in Nat /\ q * PageLength \in Nat
    BY <1>1, <1>2, Lengths, Z3
  <2>3. off + k = PageData * q + (r + k) /\ q * PageLength + r + k = q * PageLength + (r + k)
    BY <1>1, <2>2, SMT
  <2>4. Place(PageData * q + (r + k)) = q * PageLength + (r + k)
    BY <1>1, <2>2, PlaceParts
  <2> QED BY <2>1, <2>3, <2>4
<1>3. CASE len >= PageData /\ ~ (r + k < PageData)
  <2> DEFINE rest == k - (PageData - r)
             c == rest \div PageData
             s == rest % PageData
  <2>1. First(off, len) = PageData - r
    BY <1>3, Lengths, SMT DEF First
  <2>2. rest \in Nat
    BY <1>1, <1>3, Lengths, SMT
  <2>3. Target(off, len, k) = (q + 1 + c) * PageLength + s
    <3>1. ~ (rest < 0)
      BY <2>2, SMT
    <3> QED BY <2>1, <3>1 DEF Target
  <2>4. c \in Nat /\ s \in 0..(PageData - 1) /\ rest = PageData * c + s
    BY <2>2, PlaceOf
  <2> HIDE DEF q, r, c, s
  <2>5. q + 1 + c \in Nat
    BY <1>1, <2>4, SMT
  <2>6. off + k = PageData * (q + 1 + c) + s
    <3>1. PageData * (q + 1 + c) = PageData * q + PageData + PageData * c
      BY <1>1, <2>4, Lengths, Z3
    <3>2. PageData * q \in Nat /\ PageData * c \in Nat
      BY <1>1, <2>4, Lengths, Z3
    <3> QED BY <3>1, <3>2, <1>1, <2>4, Lengths, SMT
  <2>7. Place(PageData * (q + 1 + c) + s) = (q + 1 + c) * PageLength + s
    BY <2>4, <2>5, PlaceParts
  <2> QED BY <2>3, <2>6, <2>7
<1> QED BY <1>2, <1>3

\* No two bytes of a transfer go to the same position.
LEMMA TargetInjective ==
  ASSUME NEW off \in Nat, NEW len \in Nat,
         NEW j \in 0..(len - 1), NEW k \in 0..(len - 1),
         Target(off, len, j) = Target(off, len, k)
  PROVE  j = k
<1>1. CASE len < PageData
  <2> DEFINE q == off \div PageData
             r == off % PageData
  <2>1. q \in Nat /\ r \in 0..(PageLength - 1)
    BY PlaceOf, InPage
  <2>2. q * PageLength + r + j = q * PageLength + r + k
    BY <1>1, TargetShort
  <2> HIDE DEF q, r
  <2>3. q * PageLength + r \in Nat
    BY <2>1, Product, Lengths
  <2> QED BY <2>2, <2>3, SMT
<1>2. CASE len >= PageData
  <2>1. Place(off + j) = Place(off + k)
    BY <1>2, TargetLies
  <2>2. off + j \in Nat /\ off + k \in Nat
    BY SMT
  <2>3. off + j = off + k
    BY <2>1, <2>2, PlaceInjective
  <2> QED BY <2>3, SMT
<1> QED BY <1>1, <1>2, Lengths, SMT

\* A transfer that is short over the end of its page, byte by byte.
LEMMA TargetBeyond ==
  ASSUME NEW off \in Nat, NEW len \in Nat, len < PageData, NEW k \in 0..(len - 1),
         ~ ((off % PageData) + k < PageData)
  PROVE  LET q == off \div PageData
             t == (off % PageData) + k
         IN  /\ q \in Nat /\ q * PageLength \in Nat
             /\ t \in PageData..(2 * PageData - 1)
             /\ off + k = PageData * (q + 1) + (t - PageData)
             /\ Target(off, len, k) = q * PageLength + t
<1> DEFINE q == off \div PageData
           r == off % PageData
<1>1. q \in Nat /\ r \in 0..(PageData - 1) /\ off = PageData * q + r
  BY PlaceOf
<1>2. Target(off, len, k) = q * PageLength + r + k
  BY TargetShort
<1>3. ~ (r + k < PageData)
  OBVIOUS
<1> HIDE DEF q, r
<1>4. /\ q * PageLength \in Nat /\ PageData * q \in Nat
      /\ PageData * (q + 1) = PageData * q + PageData
  BY <1>1, Lengths, Z3
<1>5. r + k \in PageData..(2 * PageData - 1)
  BY <1>1, <1>3, Lengths, SMT
<1>6. off + k = PageData * (q + 1) + ((r + k) - PageData)
  BY <1>1, <1>4, Lengths, SMT
<1>7. q * PageLength + r + k = q * PageLength + (r + k)
  BY <1>1, <1>4, SMT
<1> QED BY <1>1, <1>2, <1>4, <1>5, <1>6, <1>7 DEF q, r

\* A transfer touches no byte of data outside its range.
LEMMA TargetInRange ==
  ASSUME NEW off \in Nat, NEW len \in Nat, NEW k \in 0..(len - 1),
         NEW a \in Nat, Place(a) = Target(off, len, k)
  PROVE  a \in off..(off + len - 1)
<1>1. CASE len >= PageData \/ (off % PageData) + k < PageData
  <2>1. off + k \in Nat
    BY SMT
  <2>2. a = off + k
    BY <1>1, <2>1, TargetLies, PlaceInjective
  <2> QED BY <2>2, SMT
<1>2. CASE len < PageData /\ ~ ((off % PageData) + k < PageData)
  <2> DEFINE q == off \div PageData
             t == (off % PageData) + k
             p == a \div PageData
             s == a % PageData
  <2>1. /\ q \in Nat /\ q * PageLength \in Nat /\ t \in PageData..(2 * PageData - 1)
        /\ off + k = PageData * (q + 1) + (t - PageData)
        /\ Target(off, len, k) = q * PageLength + t
    BY <1>2, TargetBeyond
  <2>2. t <= PageData - 1 + k
    BY PlaceOf, Lengths, SMT
  <2>3. /\ p \in Nat /\ s \in 0..(PageData - 1) /\ s \in 0..(PageLength - 1)
        /\ a = PageData * p + s /\ Place(a) = p * PageLength + s
    BY PlaceOf, InPage
  <2> HIDE DEF q, t, p, s
  <2>4. t >= PageLength
    <3> SUFFICES ASSUME t < PageLength PROVE FALSE
      BY <2>1, Lengths, SMT
    <3>1. t \in 0..(PageLength - 1)
      BY <2>1, Lengths, SMT
    <3>2. p * PageLength + s = q * PageLength + t
      BY <2>1, <2>3
    <3>3. s = t
      <4>1. p \in Nat /\ q \in Nat /\ PageLength \in Nat \ {0} /\ s \in 0..(PageLength - 1)
        BY <2>1, <2>3, Lengths
      <4> QED BY <3>1, <3>2, <4>1, Position
    <3> QED BY <2>1, <2>3, <3>3, Lengths, SMT
  <2>5. p = q + 1 /\ s = t - PageLength
    <3> DEFINE u == t - PageLength
               o == q + 1
    <3>1. u \in 0..(PageLength - 1) /\ o \in Nat
      BY <2>1, <2>4, Lengths, SMT
    <3>2. o * PageLength = q * PageLength + PageLength
      BY <2>1, Lengths, Z3
    <3>3. p * PageLength + s = o * PageLength + u
      BY <2>1, <2>3, <3>2, Lengths, SMT
    <3> HIDE DEF u, o
    <3>4. p = o /\ s = u
      BY <2>3, <3>1, <3>3, Position, Lengths
    <3> QED BY <3>4 DEF u, o
  <2>6. PageData * (q + 1) \in Nat
    BY <2>1, Lengths, Z3
  <2>7. a = off + k - (PageLength - PageData)
    BY <2>1, <2>3, <2>5, <2>6, Lengths, SMT
  <2> QED BY <2>1, <2>2, <2>4, <2>7, Lengths, SMT
<1> QED BY <1>1, <1>2, Lengths, SMT

\* A transfer inside the data stays in the buffer.
LEMMA TargetInside ==
  ASSUME NEW off \in Nat, NEW len \in Nat, NEW k \in 0..(len - 1),
         off + len <= DataLength, DataLength \in Nat
  PROVE  Target(off, len, k) \in Cells
<1>1. off + k \in Nat /\ off + k \in 0..(DataLength - 1)
  BY SMT
<1>2. CASE len >= PageData \/ (off % PageData) + k < PageData
  BY <1>1, <1>2, TargetLies, PlaceInside
<1>3. CASE len < PageData /\ ~ ((off % PageData) + k < PageData)
  <2> DEFINE q == off \div PageData
             t == (off % PageData) + k
  <2>1. /\ q \in Nat /\ q * PageLength \in Nat /\ t \in PageData..(2 * PageData - 1)
        /\ off + k = PageData * (q + 1) + (t - PageData)
        /\ Target(off, len, k) = q * PageLength + t
    BY <1>3, TargetBeyond
  <2> HIDE DEF q, t
  <2>2. (off + k) \div PageData = q + 1
    <3> DEFINE u == t - PageData
               o == q + 1
    <3>1. u \in 0..(PageData - 1) /\ o \in Nat /\ off + k = PageData * o + u
      BY <2>1, Lengths, SMT
    <3> HIDE DEF u, o
    <3>2. (PageData * o + u) \div PageData = o
      BY <3>1, EuclidUnique, Lengths
    <3> QED BY <3>1, <3>2 DEF o
  <2>3. (q + 1 + 1) * PageLength <= ImageLength
    BY <1>1, <2>2, PageInside
  <2>4. (q + 1 + 1) * PageLength = q * PageLength + 2 * PageLength
    BY <2>1, Lengths, Z3
  <2> QED BY <2>1, <2>3, <2>4, Lengths, SMT DEF Cells
<1> QED BY <1>2, <1>3, Lengths, SMT

-----------------------------------------------------------------------------
(* Calls *)

LEMMA StringLength ==
  ASSUME NEW d \in Strings
  PROVE  Len(d) \in Nat /\ d = [i \in 1..Len(d) |-> d[i]] /\ \A i \in 1..Len(d) : d[i] \in Byte
<1>1. d \in Seq(Byte)
  BY ByteAssumption
<1> QED BY <1>1, SMT

\* What an accepted Write inside the buffer does to it.
Stores(off, d) ==
  /\ \A k \in 0..(Len(d) - 1) : Target(off, Len(d), k) \in Cells
  /\ \A k \in 0..(Len(d) - 1) : image'[Target(off, Len(d), k)] = d[k + 1]
  /\ \A x \in Cells :
       (\A k \in 0..(Len(d) - 1) : Target(off, Len(d), k) # x) => image'[x] = image[x]
  /\ image' \in [Cells -> Byte]
  /\ reply' = Len(d) /\ Len(d) <= ImageLength
  /\ UNCHANGED <<phase, fault>>

LEMMA WriteStores ==
  ASSUME NEW off \in 0..ImageLength, NEW d \in Strings, Write(off, d),
         image \in [Cells -> Byte]
  PROVE  \/ reply' = 0 /\ UNCHANGED <<image, phase, fault>>
         \/ Stores(off, d)
         \/ Faulty("write") /\ \E k \in 0..(Len(d) - 1) : Target(off, Len(d), k) \notin Cells
<1> DEFINE n == Len(d)
           to == {Target(off, n, k) : k \in 0..(n - 1)}
           At(x) == CHOOSE k \in 0..(n - 1) : Target(off, n, k) = x
<1>1. off \in Nat /\ n \in Nat
  BY Lengths, StringLength, SMT
<1>2. CASE /\ Accepts(off, n) /\ to \subseteq Cells
           /\ image' = [x \in Cells |-> IF x \in to THEN d[1 + At(x)] ELSE image[x]]
           /\ reply' = n
           /\ UNCHANGED <<phase, fault>>
  <2>1. ASSUME NEW k \in 0..(n - 1)
        PROVE  /\ Target(off, n, k) \in Cells
               /\ image'[Target(off, n, k)] = d[k + 1]
    <3> DEFINE x == Target(off, n, k)
    <3>1. x \in to /\ x \in Cells
      BY <1>2
    <3>2. At(x) \in 0..(n - 1) /\ Target(off, n, At(x)) = x
      OBVIOUS
    <3>3. At(x) = k
      <4> HIDE DEF At
      <4> QED BY <1>1, <3>2, TargetInjective
    <3>4. image'[x] = d[1 + At(x)]
      BY <1>2, <3>1
    <3>5. 1 + k = k + 1
      BY SMT
    <3> QED BY <3>1, <3>3, <3>4, <3>5
  <2>2. ASSUME NEW x \in Cells, \A k \in 0..(n - 1) : Target(off, n, k) # x
        PROVE  image'[x] = image[x]
    BY <1>2, <2>2
  <2>3. ASSUME NEW x \in Cells
        PROVE  image'[x] \in Byte
    <3>1. CASE x \in to
      <4>1. PICK k \in 0..(n - 1) : Target(off, n, k) = x
        BY <3>1
      <4>2. image'[x] = d[k + 1] /\ k + 1 \in 1..n
        BY <1>1, <2>1, <4>1, SMT
      <4> QED BY <4>2, StringLength
    <3>2. CASE x \notin to
      BY <1>2, <3>2
    <3> QED BY <3>1, <3>2
  <2>4. image' \in [Cells -> Byte]
    BY <1>2, <2>3
  <2>5. n <= ImageLength
    BY <1>1, <1>2, Lengths, SMT DEF Accepts
  <2> HIDE DEF to, At
  <2> QED BY <1>2, <2>1, <2>2, <2>4, <2>5 DEF Stores
<1>3. CASE Accepts(off, n) /\ ~ (to \subseteq Cells) /\ Faulty("write")
  BY <1>3
<1> QED BY <1>2, <1>3 DEF Write

\* The buffer and the counters keep their types.
THEOREM DriverTypeCorrect == Spec => []TypeOK
<1>1. Init => TypeOK
  BY Lengths, ByteAssumption, SMT DEF Init, TypeOK, Phases, Faults
<1>2. TypeOK /\ [Next]_vars => TypeOK'
  <2> SUFFICES ASSUME TypeOK, [Next]_vars PROVE TypeOK'
    OBVIOUS
  <2>1. CASE CreateDefaults
    <3>1. CASE Faulty("create")
      BY <3>1 DEF Faulty, TypeOK, Phases, Faults
    <3>2. CASE /\ image' = [x \in Cells |->
                   IF \E p \in Pages : x - SpareOf(p) \in InSpare
                   THEN NewSpare[CHOOSE j \in InSpare : \E p \in Pages : x = SpareOf(p) + j]
                   ELSE 0]
               /\ phase' = "open"
               /\ UNCHANGED <<reply, fault>>
      <4>1. ASSUME NEW x \in Cells, \E p \in Pages : x - SpareOf(p) \in InSpare
            PROVE  \E j \in InSpare : \E p \in Pages : x = SpareOf(p) + j
        <5>1. PICK p \in Pages : x - SpareOf(p) \in InSpare
          BY <4>1
        <5>2. SpareOf(p) \in Int /\ x \in Int
          BY Lengths, Z3 DEF SpareOf, Pages, Cells
        <5>3. x = SpareOf(p) + (x - SpareOf(p))
          BY <5>2, SMT
        <5> QED BY <5>1, <5>3
      <4>2. image' \in [Cells -> Byte]
        BY <3>2, <4>1, ByteAssumption
      <4> QED BY <3>2, <4>2 DEF TypeOK, Phases
    <3> QED BY <2>1, <3>1, <3>2 DEF CreateDefaults
  <2>2. CASE OpenImage
    BY <2>2 DEF OpenImage, TypeOK, Phases
  <2>3. ASSUME NEW off \in 0..ImageLength, NEW d \in Strings, Write(off, d)
        PROVE  TypeOK'
    <3>1. image \in [Cells -> Byte]
      BY DEF TypeOK
    <3>2. CASE reply' = 0 /\ UNCHANGED <<image, phase, fault>>
      BY <3>2, Lengths, SMT DEF TypeOK
    <3>3. CASE Stores(off, d)
      BY <3>3, StringLength, Lengths, SMT DEF Stores, TypeOK
    <3>4. CASE Faulty("write")
      BY <3>4 DEF Faulty, TypeOK, Faults
    <3> QED BY <2>3, <3>1, <3>2, <3>3, <3>4, WriteStores
  <2>4. ASSUME NEW p \in Pages, NEW s \in Spares, WriteSpare(p, s)
        PROVE  TypeOK'
    <3>1. s \in [InSpare -> Byte]
      BY ByteAssumption
    <3> QED BY <2>4, <3>1 DEF WriteSpare, Faulty, TypeOK, Faults
  <2>5. CASE SaveImage
    <3>1. CASE Faulty("save")
      BY <3>1 DEF Faulty, TypeOK, Faults
    <3>2. CASE /\ PageCount * Stride <= ImageLength
               /\ image' = [x \in Cells |-> Recoded(x)]
               /\ phase' = "saved"
               /\ UNCHANGED <<reply, fault>>
      <4>1. ASSUME NEW x \in Cells
            PROVE  Recoded(x) \in Byte
        <5>1. CASE x % Stride = Stride - 1 /\ x \div Stride \in Pages
          <6> DEFINE w == [j \in 0..(Stride - 2) |-> image[x - (Stride - 1) + j]]
          <6>1. x \in Nat /\ x \in 0..(ImageLength - 1)
            BY Lengths, SMT DEF Cells
          <6>2. x = Stride * (x \div Stride) + (x % Stride) /\ x \div Stride \in Nat
            BY <6>1, Euclid, Lengths
          <6>3. Stride * (x \div Stride) \in Nat
            BY <6>2, Lengths, Z3
          <6>4. x - (Stride - 1) \in Nat
            BY <5>1, <6>1, <6>2, <6>3, Lengths, SMT
          <6>5. \A j \in 0..(Stride - 2) : x - (Stride - 1) + j \in Cells
            BY <6>1, <6>4, Lengths, SMT DEF Cells
          <6>6. w \in [0..(Stride - 2) -> Byte]
            BY <6>5 DEF TypeOK
          <6>7. EDC[w] \in Byte
            BY <6>6, ByteAssumption
          <6> QED BY <5>1, <6>7 DEF Recoded
        <5>2. CASE ~ (x % Stride = Stride - 1 /\ x \div Stride \in Pages)
          <6>1. image[x] \in Byte
            BY DEF TypeOK
          <6> QED BY <5>2, <6>1 DEF Recoded
        <5> QED BY <5>1, <5>2
      <4>2. image' \in [Cells -> Byte]
        BY <3>2, <4>1
      <4> QED BY <3>2, <4>2 DEF TypeOK, Phases
    <3> QED BY <2>5, <3>1, <3>2 DEF SaveImage
  <2>6. CASE UNCHANGED vars
    BY <2>6 DEF vars, TypeOK
  <2> QED BY <2>1, <2>2, <2>3, <2>4, <2>5, <2>6 DEF Next
<1> QED BY <1>1, <1>2, PTL DEF Spec

-----------------------------------------------------------------------------
(* What the calls keep *)

LEMMA DataLengthNat == DataLength \in Nat
<1>1. ImageLength \div PageLength \in Nat
  BY Euclid, Lengths
<1> QED BY <1>1, Product, Lengths, Z3 DEF DataLength

\* Write leaves the data outside its range as it is ...
LEMMA WriteElsewhere ==
  ASSUME NEW off \in Nat, NEW d \in Strings, Stores(off, d),
         NEW a \in 0..(DataLength - 1), a \notin off..(off + Len(d) - 1)
  PROVE  image'[Place(a)] = image[Place(a)]
<1>1. Place(a) \in Cells /\ a \in Nat
  BY PlaceInside, DataLengthNat, SMT
<1>2. \A k \in 0..(Len(d) - 1) : Target(off, Len(d), k) # Place(a)
  BY <1>1, TargetInRange, StringLength
<1> QED BY <1>1, <1>2 DEF Stores

\* ... and puts its bytes where they belong, a short range past a page excepted.
LEMMA WriteInRange ==
  ASSUME NEW off \in Nat, NEW d \in Strings, Stores(off, d),
         NEW a \in 0..(DataLength - 1), a \in off..(off + Len(d) - 1),
         Len(d) >= PageData \/ a \div PageData = off \div PageData
  PROVE  image'[Place(a)] = d[a - off + 1]
<1> DEFINE k == a - off
           n == Len(d)
<1>1. n \in Nat /\ a \in Nat /\ k \in 0..(n - 1) /\ a = off + k
  BY StringLength, DataLengthNat, SMT
<1>2. n >= PageData \/ (off % PageData) + k < PageData
  <2> SUFFICES ASSUME a \div PageData = off \div PageData
               PROVE  (off % PageData) + k < PageData
    OBVIOUS
  <2> DEFINE q == off \div PageData
             r == off % PageData
             s == a % PageData
  <2>1. q \in Nat /\ r \in 0..(PageData - 1) /\ off = PageData * q + r
    BY PlaceOf
  <2>2. s \in 0..(PageData - 1) /\ a = PageData * q + s
    BY <1>1, PlaceOf
  <2> HIDE DEF q, r, s
  <2>3. PageData * q \in Nat
    BY <2>1, Lengths, Z3
  <2>4. r + k = s
    <3> DEFINE z == PageData * q
    <3>1. z \in Nat /\ off = z + r /\ a = z + s /\ a = off + k
      BY <1>1, <2>1, <2>2, <2>3
    <3> HIDE DEF z
    <3> QED BY <1>1, <2>1, <2>2, <3>1, Lengths, SMT
  <2>5. r + k < PageData
    BY <2>2, <2>4, Lengths, SMT
  <2> QED BY <2>5 DEF r
<1>3. Target(off, n, k) = Place(a)
  BY <1>1, <1>2, TargetLies
<1>4. image'[Target(off, n, k)] = d[k + 1]
  BY <1>1 DEF Stores
<1> QED BY <1>3, <1>4

\* The places of data and the spare bytes are apart.
LEMMA SpareApart ==
  ASSUME PageLength = Stride, NEW a \in Nat, NEW p \in Pages,
         Place(a) - SpareOf(p) \in InSpare
  PROVE  FALSE
<1> DEFINE q == a \div PageData
           r == a % PageData
           j == Place(a) - SpareOf(p)
           s == PageData + j
<1>1. /\ q \in Nat /\ r \in 0..(PageLength - 1) /\ r \in 0..(PageData - 1)
      /\ Place(a) = q * PageLength + r /\ Place(a) \in Nat
  BY PlaceOf, InPage
<1>2. p \in Nat /\ p * PageLength \in Nat
  <2>1. p \in Nat
    BY Lengths, SMT DEF Pages
  <2> QED BY <2>1, Product, Lengths
<1>3. /\ j \in 0..(SpareLength - 1)
      /\ Place(a) = p * PageLength + s
      /\ s \in PageData..(PageLength - 1)
  BY <1>1, <1>2, Lengths, SMT DEF SpareOf, InSpare, Stride
<1> HIDE DEF q, r, j, s
<1>4. q * PageLength + r = p * PageLength + s /\ s \in 0..(PageLength - 1)
  BY <1>1, <1>3, Lengths, SMT
<1>5. r = s
  <2>1. /\ p \in Nat /\ q \in Nat /\ PageLength \in Nat \ {0}
        /\ r \in 0..(PageLength - 1)
    BY <1>1, <1>2, Lengths
  <2> QED BY <1>4, <2>1, Position
<1> QED BY <1>1, <1>3, <1>5, Lengths, SMT

LEMMA CodeApart ==
  ASSUME PageLength = Stride, NEW a \in Nat
  PROVE  Recoded(Place(a)) = image[Place(a)]
<1>1. Place(a) % PageLength < PageData /\ Place(a) \in Nat
  BY PlaceInData, PlaceOf
<1>2. Place(a) % Stride \in 0..(Stride - 1)
  BY <1>1, Euclid, Lengths
<1>3. Place(a) % Stride # Stride - 1
  BY <1>1, <1>2, Lengths, SMT
<1> QED BY <1>3 DEF Recoded

\* For every page and image length, every error code and every order of calls,
\* the block driver implements the flat store, if its pages have spare bytes.
THEOREM StoresFlat ==
  ASSUME PageLength = Stride
  PROVE  Spec => DataFlat
<1>1. ASSUME TypeOK
      PROVE  DataLies \in [0..(DataLength - 1) -> Byte]
  BY <1>1, PlaceInside DEF DataLies, TypeOK
<1>2. Init => Flat!FlatInit
  <2> SUFFICES ASSUME Init PROVE Flat!FlatInit
    OBVIOUS
  <2>1. image \in [Cells -> Byte]
    BY ByteAssumption DEF Init
  <2>2. DataLies \in [0..(DataLength - 1) -> Byte]
    BY <2>1, PlaceInside DEF DataLies
  <2> QED BY <2>2 DEF Flat!FlatInit, Flat!Addresses
<1>3. TypeOK /\ TypeOK' /\ [Next]_vars => [Flat!FlatNext]_DataLies
  <2> SUFFICES ASSUME TypeOK, TypeOK', [Next]_vars
               PROVE  Flat!FlatNext \/ DataLies' = DataLies
    OBVIOUS
  <2>1. ASSUME UNCHANGED image
        PROVE  DataLies' = DataLies
    BY <2>1 DEF DataLies
  <2>2. CASE CreateDefaults
    <3>1. CASE Faulty("create")
      BY <3>1, <2>1 DEF Faulty
    <3>2. CASE image' = [x \in Cells |->
                 IF \E p \in Pages : x - SpareOf(p) \in InSpare
                 THEN NewSpare[CHOOSE j \in InSpare : \E p \in Pages : x = SpareOf(p) + j]
                 ELSE 0]
      <4>1. ASSUME NEW a \in 0..(DataLength - 1)
            PROVE  image'[Place(a)] = 0
        <5>1. a \in Nat /\ Place(a) \in Cells
          BY PlaceInside, DataLengthNat, SMT
        <5>2. ~ \E p \in Pages : Place(a) - SpareOf(p) \in InSpare
          BY <5>1, SpareApart
        <5> QED BY <3>2, <5>1, <5>2
      <4>2. Flat!Format
        BY <4>1 DEF Flat!Format, Flat!Addresses, DataLies
      <4> QED BY <4>2 DEF Flat!FlatNext
    <3> QED BY <2>2, <3>1, <3>2 DEF CreateDefaults
  <2>3. CASE OpenImage
    BY <2>3, <2>1 DEF OpenImage
  <2>4. ASSUME NEW off \in 0..ImageLength, NEW d \in Strings, Write(off, d)
        PROVE  Flat!FlatNext \/ DataLies' = DataLies
    <3>1. CASE UNCHANGED image
      BY <3>1, <2>1
    <3>2. CASE Stores(off, d)
      <4>1. off \in Nat
        BY Lengths, SMT
      <4>2. CASE off \in 0..(DataLength - 1)
        <5>1. DataLies' \in [0..(DataLength - 1) -> Byte]
          BY PlaceInside DEF DataLies, TypeOK
        <5>2. ASSUME NEW a \in 0..(DataLength - 1)
              PROVE  /\ Flat!Certain(off, d, a) => DataLies'[a] = d[a - off + 1]
                     /\ a \notin off..(off + Len(d) - 1) => DataLies'[a] = DataLies[a]
          BY <3>2, <4>1, WriteElsewhere, WriteInRange DEF DataLies, Flat!Certain
        <5>3. Flat!Put(off, d)
          BY <5>1, <5>2 DEF Flat!Put, Flat!Addresses
        <5> QED BY <4>2, <5>3 DEF Flat!FlatNext, Flat!Addresses
      <4>3. CASE off \notin 0..(DataLength - 1)
        <5>1. ASSUME NEW a \in 0..(DataLength - 1)
              PROVE  image'[Place(a)] = image[Place(a)]
          <6>1. a \notin off..(off + Len(d) - 1)
            BY <4>1, <4>3, StringLength, DataLengthNat, SMT
          <6> QED BY <3>2, <4>1, <6>1, WriteElsewhere
        <5> QED BY <5>1 DEF DataLies
      <4> QED BY <4>2, <4>3
    <3>3. image \in [Cells -> Byte]
      BY DEF TypeOK
    <3> QED BY <2>4, <3>1, <3>2, <3>3, WriteStores DEF Faulty
  <2>5. ASSUME NEW p \in Pages, NEW s \in Spares, WriteSpare(p, s)
        PROVE  DataLies' = DataLies
    <3>1. CASE Faulty("spare")
      BY <3>1, <2>1 DEF Faulty
    <3>2. CASE image' = [x \in Cells |-> IF x - SpareOf(p) \in InSpare
                                         THEN s[x - SpareOf(p)] ELSE image[x]]
      <4>1. ASSUME NEW a \in 0..(DataLength - 1)
            PROVE  image'[Place(a)] = image[Place(a)]
        <5>1. a \in Nat /\ Place(a) \in Cells
          BY PlaceInside, DataLengthNat, SMT
        <5>2. ~ (Place(a) - SpareOf(p) \in InSpare)
          BY <5>1, SpareApart
        <5> QED BY <3>2, <5>1, <5>2
      <4> QED BY <4>1 DEF DataLies
    <3> QED BY <2>5, <3>1, <3>2 DEF WriteSpare
  <2>6. CASE SaveImage
    <3>1. CASE Faulty("save")
      BY <3>1, <2>1 DEF Faulty
    <3>2. CASE image' = [x \in Cells |-> Recoded(x)]
      <4>1. ASSUME NEW a \in 0..(DataLength - 1)
            PROVE  image'[Place(a)] = image[Place(a)]
        <5>1. a \in Nat /\ Place(a) \in Cells
          BY PlaceInside, DataLengthNat, SMT
        <5> QED BY <3>2, <5>1, CodeApart
      <4> QED BY <4>1 DEF DataLies
    <3> QED BY <2>6, <3>1, <3>2 DEF SaveImage
  <2>7. CASE UNCHANGED vars
    BY <2>7, <2>1 DEF vars
  <2> QED BY <2>2, <2>3, <2>4, <2>5, <2>6, <2>7 DEF Next
<1> QED BY <1>2, <1>3, DriverTypeCorrect, PTL DEF Spec, DataFlat, Flat!FlatSpec

\* A transfer that does not run short over the end of its page leaves the spare
\* bytes of every page alone.
THEOREM WritesSpareSpare == Spec => SpareKept
<1> DEFINE Keeps ==
      \A off \in 0..ImageLength, d \in Strings :
        ~ Crosses(off, Len(d)) /\ Write(off, d) =>
          \A x \in Cells : x % PageLength >= PageData => image'[x] = image[x]
<1>1. TypeOK /\ [Next]_vars => Keeps
  <2> SUFFICES ASSUME TypeOK, NEW off \in 0..ImageLength, NEW d \in Strings,
                      ~ Crosses(off, Len(d)), Write(off, d),
                      NEW x \in Cells, x % PageLength >= PageData
               PROVE  image'[x] = image[x]
    OBVIOUS
  <2>1. off \in Nat /\ Len(d) \in Nat /\ image \in [Cells -> Byte]
    BY StringLength, Lengths, SMT DEF TypeOK
  <2>2. CASE Stores(off, d)
    <3>1. ASSUME NEW k \in 0..(Len(d) - 1)
          PROVE  Target(off, Len(d), k) # x
      <4>1. Len(d) >= PageData \/ (off % PageData) + k < PageData
        <5>1. off % PageData \in 0..(PageData - 1)
          BY <2>1, PlaceOf
        <5> QED BY <2>1, <5>1, Lengths, SMT DEF Crosses
      <4>2. Target(off, Len(d), k) = Place(off + k) /\ off + k \in Nat
        BY <2>1, <4>1, TargetLies, SMT
      <4>3. Place(off + k) % PageLength < PageData
        BY <4>2, PlaceInData
      <4>4. Target(off, Len(d), k) % PageLength \in 0..(PageLength - 1)
        BY <4>2, PlaceOf, Euclid, Lengths
      <4>5. Target(off, Len(d), k) % PageLength < PageData
        BY <4>2, <4>3
      <4> QED BY <4>4, <4>5, Lengths, SMT
    <3> QED BY <2>2, <3>1 DEF Stores
  <2> QED BY <2>1, <2>2, WriteStores DEF Faulty
<1> HIDE DEF Keeps
<1>2. TypeOK /\ [Next]_vars => [Keeps]_vars
  BY <1>1
<1>3. Spec => [][Keeps]_vars
  BY <1>2, DriverTypeCorrect, PTL DEF Spec
<1> QED BY <1>3 DEF Keeps, SpareKept

\* Read returns what Write stored, for every range and page length.
THEOREM ReadsBackWhatWasWritten == Spec => ReadsBack
<1> DEFINE Back ==
      \A off \in 0..ImageLength, d \in Strings :
        d # <<>> /\ reply' = Len(d) /\ Write(off, d) /\ fault' = "none" =>
          Fetched(off, Len(d))' = d
<1>1. TypeOK /\ [Next]_vars => Back
  <2> SUFFICES ASSUME TypeOK, NEW off \in 0..ImageLength, NEW d \in Strings,
                      d # <<>>, reply' = Len(d), Write(off, d), fault' = "none"
               PROVE  Fetched(off, Len(d))' = d
    OBVIOUS
  <2>1. /\ Len(d) \in Nat /\ image \in [Cells -> Byte]
        /\ d = [i \in 1..Len(d) |-> d[i]]
    BY StringLength DEF TypeOK
  <2>2. Stores(off, d)
    <3>1. Len(d) # 0
      <4>1. d \in Seq(Byte)
        BY ByteAssumption
      <4> QED BY <4>1, SMT
    <3>2. ~ Faulty("write")
      BY DEF Faulty
    <3> QED BY <2>1, <3>1, <3>2, WriteStores
  <2>3. ASSUME NEW i \in 1..Len(d)
        PROVE  image'[Target(off, Len(d), i - 1)] = d[i]
    <3>1. i - 1 \in 0..(Len(d) - 1) /\ (i - 1) + 1 = i
      BY <2>1, SMT
    <3>2. image'[Target(off, Len(d), i - 1)] = d[(i - 1) + 1]
      BY <2>2, <3>1 DEF Stores
    <3> QED BY <3>1, <3>2
  <2>4. Fetched(off, Len(d))' = [i \in 1..Len(d) |-> image'[Target(off, Len(d), i - 1)]]
    BY DEF Fetched
  <2> QED BY <2>1, <2>3, <2>4
<1> HIDE DEF Back
<1>2. TypeOK /\ [Next]_vars => [Back]_vars
  BY <1>1
<1>3. Spec => [][Back]_vars
  BY <1>2, DriverTypeCorrect, PTL DEF Spec
<1> QED BY <1>3 DEF Back, ReadsBack

\* A transfer that ends inside the data of the image never leaves the buffer.
THEOREM DataWritesStayInside == Spec => DataNeverOverruns
<1> DEFINE Inside ==
      \A off \in 0..ImageLength, d \in Strings :
        off + Len(d) <= DataLength /\ Write(off, d) => fault' = "none"
<1>1. TypeOK /\ [Next]_vars => Inside
  <2> SUFFICES ASSUME TypeOK, NEW off \in 0..ImageLength, NEW d \in Strings,
                      off + Len(d) <= DataLength, Write(off, d)
               PROVE  fault' = "none"
    OBVIOUS
  <2>1. /\ off \in Nat /\ Len(d) \in Nat /\ image \in [Cells -> Byte]
        /\ fault = "none"
    BY StringLength, Lengths, SMT DEF TypeOK, Write, Running
  <2>2. \A k \in 0..(Len(d) - 1) : Target(off, Len(d), k) \in Cells
    BY <2>1, TargetInside, DataLengthNat
  <2>3. UNCHANGED fault
    BY <2>1, <2>2, WriteStores DEF Stores
  <2> QED BY <2>1, <2>3
<1> HIDE DEF Inside
<1>2. TypeOK /\ [Next]_vars => [Inside]_vars
  BY <1>1
<1>3. Spec => [][Inside]_vars
  BY <1>2, DriverTypeCorrect, PTL DEF Spec
<1> QED BY <1>3 DEF Inside, DataNeverOverruns

\* A saved image has the right code in every page, whatever its page length.
THEOREM SavedCodesRight == Spec => []CodesRight
<1>1. Init => CodesRight
  BY DEF Init, CodesRight
<1>2. CodesRight /\ [Next]_vars => CodesRight'
  <2> SUFFICES ASSUME CodesRight, [Next]_vars PROVE CodesRight'
    OBVIOUS
  <2>1. CASE SaveImage
    <3>1. CASE Faulty("save")
      BY <3>1 DEF Faulty, CodesRight
    <3>2. CASE /\ PageCount * Stride <= ImageLength
               /\ image' = [x \in Cells |-> Recoded(x)]
      <4> SUFFICES ASSUME NEW p \in Pages
                   PROVE  image'[p * Stride + Stride - 1]
                            = EDC[[j \in 0..(Stride - 2) |-> image'[p * Stride + j]]]
        BY DEF CodesRight
      <4>1. /\ p \in Nat /\ p * Stride \in Nat /\ (p + 1) * Stride = p * Stride + Stride
            /\ Stride * p = p * Stride
        <5>1. p \in Nat
          BY Lengths, SMT DEF Pages
        <5> QED BY <5>1, Lengths, Z3
      <4>2. p * Stride + Stride <= ImageLength
        <5>1. p + 1 \in Nat /\ p + 1 <= PageCount
          BY Lengths, SMT DEF Pages
        <5>2. (p + 1) * Stride <= PageCount * Stride
          BY <5>1, Ordered, Lengths
        <5>3. PageCount * Stride \in Nat
          BY Product, Lengths
        <5> QED BY <3>2, <4>1, <5>2, <5>3, Lengths, SMT
      <4>3. ASSUME NEW j \in 0..(Stride - 1)
            PROVE  /\ p * Stride + j \in Cells
                   /\ (p * Stride + j) % Stride = j /\ (p * Stride + j) \div Stride = p
        <5>1. p * Stride + j \in Cells
          BY <4>1, <4>2, Lengths, SMT DEF Cells
        <5>2. (Stride * p + j) % Stride = j /\ (Stride * p + j) \div Stride = p
          BY <4>1, EuclidUnique, Lengths
        <5> QED BY <4>1, <5>1, <5>2
      <4>4. ASSUME NEW j \in 0..(Stride - 2)
            PROVE  image'[p * Stride + j] = image[p * Stride + j]
        <5>1. j \in 0..(Stride - 1) /\ j # Stride - 1
          BY Lengths, SMT
        <5>2. Recoded(p * Stride + j) = image[p * Stride + j]
          BY <4>3, <5>1 DEF Recoded
        <5> QED BY <3>2, <4>3, <5>1, <5>2
      <4> DEFINE last == p * Stride + (Stride - 1)
      <4>5. /\ last \in Cells /\ last % Stride = Stride - 1 /\ last \div Stride \in Pages
        <5>1. Stride - 1 \in 0..(Stride - 1)
          BY Lengths, SMT
        <5> QED BY <4>3, <5>1
      <4>6. image'[last] = EDC[[j \in 0..(Stride - 2) |-> image[last - (Stride - 1) + j]]]
        BY <3>2, <4>5 DEF Recoded
      <4>7. last - (Stride - 1) = p * Stride /\ last = p * Stride + Stride - 1
        BY <4>1, Lengths, SMT
      <4> HIDE DEF last
      <4> QED BY <4>4, <4>6, <4>7
    <3> QED BY <2>1, <3>1, <3>2 DEF SaveImage
  <2>2. CASE phase' # "saved"
    BY <2>2 DEF CodesRight
  <2>3. ASSUME CreateDefaults \/ OpenImage \/ (\E off \in 0..ImageLength, d \in Strings : Write(off, d))
               \/ (\E p \in Pages, s \in Spares : WriteSpare(p, s))
        PROVE  phase' # "saved"
    BY <2>3 DEF CreateDefaults, OpenImage, Write, WriteSpare, Faulty, Running
  <2>4. CASE UNCHANGED vars
    BY <2>4 DEF vars, CodesRight
  <2> QED BY <2>1, <2>2, <2>3, <2>4 DEF Next
<1> QED BY <1>1, <1>2, PTL DEF Spec
=============================================================================
