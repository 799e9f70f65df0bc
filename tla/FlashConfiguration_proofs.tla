----------------------- MODULE FlashConfiguration_proofs -----------------------
(***************************************************************************)
(* Proofs about the spare bytes of a page and about opening images.  The   *)
(* layouts give every byte to one field, so that a setter that stores into *)
(* the bytes of its field changes no other field's number, and a number of *)
(* up to four bytes comes back as far as its bytes go.  From there a save, *)
(* an error code and a whole call do to the page what SpareRecord says,    *)
(* and none of them touches the bytes an image is recognised by.           *)
(***************************************************************************)
EXTENDS FlashConfiguration, TLAPS

-----------------------------------------------------------------------------
(* Numbers and their bytes *)

\* The bytes of a number add up to it.
LEMMA Digits ==
  ASSUME NEW v \in Nat
  PROVE  /\ v \div 1 = v
         /\ v % 65536 = (v % 256) + 256 * ((v \div 256) % 256)
         /\ v % 16777216 = (v % 256) + 256 * ((v \div 256) % 256) + 65536 * ((v \div 65536) % 256)
         /\ v = (v % 16777216) + 16777216 * (v \div 16777216)
  BY Z3

LEMMA Digits2 ==
  ASSUME NEW v \in Nat
  PROVE  /\ v % 256 \in 0..255 /\ (v \div 256) % 256 \in 0..255
         /\ (v % 65536) % 4096 = v % 4096 /\ (v % 256) % 64 = v % 64
  BY Z3

LEMMA Digits3 ==
  ASSUME NEW v \in Nat, NEW c \in 0..3
  PROVE  (64 * c + (v % 64)) % 64 = v % 64 /\ 64 * c + (v % 64) \in 0..255
  BY Z3

-----------------------------------------------------------------------------
(* Who owns which byte *)

\* Whose byte b is.
Owner(t, b) ==
  CASE b = 12 -> "type" [] b = 9 -> "pages" [] b \in {7, 8} -> "size"
    [] (t = 0 /\ b \in {0, 1}) \/ (t \in {1, 2} /\ b \in {1, 2}) -> "index"
    [] (t = 2 /\ b = 0) \/ (t # 2 /\ b = 5) -> "bad"
    [] b > 12 -> "none"
    [] OTHER -> "seq"

\* Places of a number of up to four bytes.
Proper(at) ==
  /\ at \in Seq(0..15) /\ Len(at) <= 4
  /\ \A i, j \in 1..Len(at) : at[i] = at[j] => i = j

Owned(t, f, at) == Proper(at) /\ \A i \in 1..Len(at) : Owner(t, at[i]) = f

LEMMA NoByte ==
  ASSUME NEW t, NEW f
  PROVE  Owned(t, f, <<>>)
BY DEF Owned, Proper

LEMMA OneByte ==
  ASSUME NEW t, NEW f, NEW a \in 0..15, Owner(t, a) = f
  PROVE  Owned(t, f, <<a>>)
BY DEF Owned, Proper

\* No two fields of a layout share a byte.
LEMMA PlacesOwned ==
  ASSUME NEW t \in SpareTypes, NEW f \in Fields
  PROVE  Owned(t, f, Places(t, f))
<1>1. t = 0 \/ t = 1 \/ t = 2 \/ t = 3
  BY DEF SpareTypes
<1>2. CASE f = "seq"
  <2>1. CASE t = 0
    <3>1. \A b \in {2, 3, 4, 6} : Owner(0, b) = "seq"
      BY DEF Owner
    <3>2. Owned(0, "seq", <<2, 3, 4, 6>>)
      BY <3>1 DEF Owned, Proper
    <3>3. QED
      BY <1>2, <2>1, <3>2 DEF Places
  <2>2. CASE t = 1
    <3>1. \A b \in {0, 3, 4, 6} : Owner(1, b) = "seq"
      BY DEF Owner
    <3>2. Owned(1, "seq", <<0, 3, 4, 6>>)
      BY <3>1 DEF Owned, Proper
    <3>3. QED
      BY <1>2, <2>2, <3>2 DEF Places
  <2>3. CASE t = 2
    <3>1. \A b \in {5, 4, 3} : Owner(2, b) = "seq"
      BY DEF Owner
    <3>2. Owned(2, "seq", <<5, 4, 3>>)
      BY <3>1 DEF Owned, Proper
    <3>3. QED
      BY <1>2, <2>3, <3>2 DEF Places
  <2>4. CASE t = 3
    BY <1>2, <2>4, NoByte DEF Places
  <2>5. QED
    BY <1>1, <2>1, <2>2, <2>3, <2>4
<1>3. CASE f = "index"
  <2>1. CASE t = 0
    <3>1. Owner(0, 0) = "index" /\ Owner(0, 1) = "index"
      BY DEF Owner
    <3>2. Owned(0, "index", <<0, 1>>)
      BY <3>1 DEF Owned, Proper
    <3>3. QED
      BY <1>3, <2>1, <3>2 DEF Places
  <2>2. CASE t \in {1, 2}
    <3>1. Owner(t, 1) = "index" /\ Owner(t, 2) = "index"
      BY <2>2 DEF Owner
    <3>2. Owned(t, "index", <<1, 2>>)
      BY <3>1 DEF Owned, Proper
    <3>3. QED
      BY <1>3, <2>2, <3>2 DEF Places
  <2>3. CASE t = 3
    BY <1>3, <2>3, NoByte DEF Places
  <2>4. QED
    BY <1>1, <2>1, <2>2, <2>3
<1>4. CASE f = "size"
  <2>1. Owner(t, 7) = "size" /\ Owner(t, 8) = "size"
    BY DEF Owner
  <2>2. Owned(t, "size", <<7, 8>>)
    BY <2>1 DEF Owned, Proper
  <2>3. QED
    BY <1>4, <2>2 DEF Places
<1>5. CASE f = "pages"
  <2>1. Owner(t, 9) = "pages"
    BY DEF Owner
  <2>2. QED
    BY <1>5, <2>1, OneByte DEF Places
<1>6. CASE f = "type"
  <2>1. Owner(t, 12) = "type"
    BY DEF Owner
  <2>2. QED
    BY <1>6, <2>1, OneByte DEF Places
<1>7. CASE f = "bad"
  <2>1. t = 2 => Owner(t, 0) = "bad"
    BY DEF Owner
  <2>2. t # 2 => Owner(t, 5) = "bad"
    BY <1>1 DEF Owner
  <2>3. QED
    BY <1>7, <2>1, <2>2, OneByte DEF Places
<1>8. QED
  BY <1>2, <1>3, <1>4, <1>5, <1>6, <1>7 DEF Fields

-----------------------------------------------------------------------------
(* Storing and reading *)

LEMMA Powers ==
  Power(1) = 1 /\ Power(2) = 256 /\ Power(3) = 65536 /\ Power(4) = 16777216
BY DEF Power

LEMMA ProperAre ==
  ASSUME NEW at, Proper(at)
  PROVE  /\ Len(at) \in Nat /\ Len(at) \in 0..4
         /\ \A i \in 1..Len(at) : at[i] \in 0..15
<1>1. at \in Seq(0..15) /\ Len(at) <= 4
  BY DEF Proper
<1>2. Len(at) \in Nat
  BY <1>1
<1>3. \A i \in 1..Len(at) : at[i] \in 0..15
  BY <1>1
<1>4. \A n \in Nat : n <= 4 => n \in 0..4
  OBVIOUS
<1>5. QED
  BY <1>1, <1>2, <1>3, <1>4, Zenon

\* Stored leaves every other byte alone.
LEMMA StoredElsewhere ==
  ASSUME NEW s, NEW at, NEW v, NEW b \in 0..15, \A i \in 1..Len(at) : at[i] # b
  PROVE  Stored(s, at, v)[b] = s[b]
<1>1. ~ \E i \in 1..Len(at) : at[i] = b
  OBVIOUS
<1>2. QED
  BY <1>1, Zenon DEF Stored

\* The byte of v that is stored in the i-th place.
Digit(v, i) == (v \div Power(i)) % 256

\* What Stored puts where.
LEMMA StoredAt ==
  ASSUME NEW s \in Bytes, NEW at, Proper(at), NEW v \in Nat
  PROVE  /\ Stored(s, at, v) \in Bytes
         /\ \A i \in 1..Len(at) : Stored(s, at, v)[at[i]] = Digit(v, i)
         /\ \A b \in 0..15 : (\A i \in 1..Len(at) : at[i] # b) => Stored(s, at, v)[b] = s[b]
<1>1. Len(at) \in 0..4 /\ \A i \in 1..Len(at) : at[i] \in 0..15
  BY ProperAre
<1>2. ASSUME NEW i \in 1..Len(at)
      PROVE  Power(i) \in {1, 256, 65536, 16777216}
  <2>1. i = 1 \/ i = 2 \/ i = 3 \/ i = 4
    BY <1>1
  <2>2. QED
    BY <2>1, Powers
<1>3. \A i \in 1..Len(at) : Digit(v, i) \in Byte
  <2>1. /\ (v \div 1) % 256 \in 0..255 /\ (v \div 256) % 256 \in 0..255
        /\ (v \div 65536) % 256 \in 0..255 /\ (v \div 16777216) % 256 \in 0..255
    BY Z3
  <2>2. ASSUME NEW i \in 1..Len(at)
        PROVE  (v \div Power(i)) % 256 \in 0..255
    <3> DEFINE n == Power(i)
    <3>1. n = 1 \/ n = 256 \/ n = 65536 \/ n = 16777216
      BY <1>2, SMT
    <3> HIDE DEF n
    <3>2. n = 1 => (v \div n) % 256 \in 0..255
      BY <2>1
    <3>3. n = 256 => (v \div n) % 256 \in 0..255
      BY <2>1
    <3>4. n = 65536 => (v \div n) % 256 \in 0..255
      BY <2>1, SMT
    <3>5. n = 16777216 => (v \div n) % 256 \in 0..255
      BY <2>1, SMT
    <3>6. (v \div n) % 256 \in 0..255
      BY <3>1, <3>2, <3>3, <3>4, <3>5, SMT
    <3>7. QED
      BY <3>6 DEF n
  <2>3. QED
    BY <2>2 DEF Byte, Digit
<1>4. ASSUME NEW i \in 1..Len(at)
      PROVE  Stored(s, at, v)[at[i]] = Digit(v, i)
  <2>1. (CHOOSE j \in 1..Len(at) : at[j] = at[i]) = i
    BY DEF Proper
  <2>2. QED
    BY <1>1, <2>1 DEF Stored, Digit
<1>5. ASSUME NEW b \in 0..15, \A i \in 1..Len(at) : at[i] # b
      PROVE  Stored(s, at, v)[b] = s[b]
  BY <1>5, StoredElsewhere
<1>6. ASSUME NEW b \in 0..15
      PROVE  Stored(s, at, v)[b] \in Byte
  <2>1. s[b] \in Byte
    BY DEF Bytes
  <2>2. CASE \A i \in 1..Len(at) : at[i] # b
    BY <1>5, <2>1, <2>2, Zenon
  <2>3. CASE \E i \in 1..Len(at) : at[i] = b
    BY <1>3, <1>4, <2>3, Zenon
  <2>4. QED
    BY <2>2, <2>3, Zenon
<1>7. Stored(s, at, v) \in Bytes
  <2>1. Stored(s, at, v) = [b \in 0..15 |-> Stored(s, at, v)[b]]
    BY DEF Stored
  <2>2. QED
    BY <1>6, <2>1 DEF Bytes
<1>8. QED
  BY <1>4, <1>5, <1>7

\* What a number is made of.
LEMMA NumberOf ==
  ASSUME NEW s \in Bytes, NEW at, Proper(at)
  PROVE  /\ Len(at) = 0 => Number(s, at) = 0
         /\ Len(at) = 1 => Number(s, at) = s[at[1]]
         /\ Len(at) = 2 => Number(s, at) = s[at[1]] + s[at[2]] * 256
         /\ Len(at) = 3 => Number(s, at) = s[at[1]] + s[at[2]] * 256 + s[at[3]] * 65536
         /\ Len(at) = 4 => Number(s, at) = s[at[1]] + s[at[2]] * 256 + s[at[3]] * 65536
                                             + s[at[4]] * 16777216
         /\ Number(s, at) \in Nat
<1>1. Len(at) \in 0..4 /\ \A i \in 1..Len(at) : s[at[i]] \in Nat
  <2>1. \A b \in 0..15 : s[b] \in Byte
    BY DEF Bytes
  <2>2. \A n \in Byte : n \in Nat
    BY DEF Byte
  <2>3. QED
    BY <2>1, <2>2, ProperAre, Zenon
<1> DEFINE byte(i) == IF i <= Len(at) THEN s[at[i]] * Power(i) ELSE 0
<1>2. \A i \in 1..4 : i <= Len(at) => i \in 1..Len(at)
  BY <1>1
<1>3. /\ byte(1) = IF 1 <= Len(at) THEN s[at[1]] ELSE 0
      /\ byte(2) = IF 2 <= Len(at) THEN s[at[2]] * 256 ELSE 0
      /\ byte(3) = IF 3 <= Len(at) THEN s[at[3]] * 65536 ELSE 0
      /\ byte(4) = IF 4 <= Len(at) THEN s[at[4]] * 16777216 ELSE 0
  BY <1>1, <1>2, Powers, SMT
<1>4. Number(s, at) = byte(1) + byte(2) + byte(3) + byte(4)
  BY DEF Number
<1> HIDE DEF byte
<1>5. Len(at) = 0 \/ Len(at) = 1 \/ Len(at) = 2 \/ Len(at) = 3 \/ Len(at) = 4
  BY <1>1
<1>6. CASE Len(at) = 0
  BY <1>3, <1>4, <1>6, SMT
<1>7. CASE Len(at) = 1
  BY <1>1, <1>2, <1>3, <1>4, <1>7, SMT
<1>8. CASE Len(at) = 2
  BY <1>1, <1>2, <1>3, <1>4, <1>8, SMT
<1>9. CASE Len(at) = 3
  BY <1>1, <1>2, <1>3, <1>4, <1>9, SMT
<1>10. CASE Len(at) = 4
  BY <1>1, <1>2, <1>3, <1>4, <1>10, SMT
<1>11. QED
  BY <1>5, <1>6, <1>7, <1>8, <1>9, <1>10, SMT

\* A number comes back as far as its bytes go.
LEMMA NumberStored ==
  ASSUME NEW s \in Bytes, NEW at, Proper(at), NEW v \in Nat
  PROVE  LET n == Number(Stored(s, at, v), at)
         IN  /\ Len(at) = 0 => n = 0
             /\ Len(at) = 1 => n = v % 256
             /\ Len(at) = 2 => n = v % 65536
             /\ Len(at) = 3 => n = v % 16777216
             /\ Len(at) = 4 /\ v \div 16777216 < 256 => n = v
<1> DEFINE w == Stored(s, at, v)
<1>1. w \in Bytes /\ \A i \in 1..Len(at) : w[at[i]] = (v \div Power(i)) % 256
  BY StoredAt DEF Digit
<1> HIDE DEF w
<1>2. Len(at) = 1 => Number(w, at) = v % 256
  BY <1>1, NumberOf, Powers, Digits
<1>3. Len(at) = 2 => Number(w, at) = v % 65536
  <2> SUFFICES ASSUME Len(at) = 2 PROVE Number(w, at) = v % 65536
    OBVIOUS
  <2>1. w[at[1]] = v % 256 /\ w[at[2]] = (v \div 256) % 256
    BY <1>1, Powers, Digits
  <2>2. Number(w, at) = (v % 256) + ((v \div 256) % 256) * 256
    BY <1>1, <2>1, NumberOf
  <2>3. QED
    BY <2>2, Digits, Digits2
<1>4. Len(at) = 3 => Number(w, at) = v % 16777216
  <2> SUFFICES ASSUME Len(at) = 3 PROVE Number(w, at) = v % 16777216
    OBVIOUS
  <2>1. w[at[1]] = v % 256 /\ w[at[2]] = (v \div 256) % 256 /\ w[at[3]] = (v \div 65536) % 256
    BY <1>1, Powers, Digits
  <2>2. Number(w, at) = (v % 256) + ((v \div 256) % 256) * 256 + ((v \div 65536) % 256) * 65536
    BY <1>1, <2>1, NumberOf
  <2>3. QED
    BY <2>2, Z3
<1>5. Len(at) = 4 /\ v \div 16777216 < 256 => Number(w, at) = v
  <2> SUFFICES ASSUME Len(at) = 4, v \div 16777216 < 256 PROVE Number(w, at) = v
    OBVIOUS
  <2>1. /\ w[at[1]] = v % 256 /\ w[at[2]] = (v \div 256) % 256
        /\ w[at[3]] = (v \div 65536) % 256 /\ w[at[4]] = (v \div 16777216) % 256
    BY <1>1, Powers, Digits
  <2>2. Number(w, at) = (v % 256) + ((v \div 256) % 256) * 256 + ((v \div 65536) % 256) * 65536
                          + ((v \div 16777216) % 256) * 16777216
    <3>1. Number(w, at) = w[at[1]] + w[at[2]] * 256 + w[at[3]] * 65536 + w[at[4]] * 16777216
      BY <1>1, NumberOf, SMT
    <3>2. QED
      BY <2>1, <3>1, SMT
  <2>3. QED
    BY <2>2, Z3
<1>6. QED
  BY <1>1, <1>2, <1>3, <1>4, <1>5, NumberOf DEF w

LEMMA NumberKept ==
  ASSUME NEW s \in Bytes, NEW r \in Bytes, NEW at, Proper(at),
         \A i \in 1..Len(at) : r[at[i]] = s[at[i]]
  PROVE  Number(r, at) = Number(s, at)
BY DEF Number, Proper

\* A number none of whose bytes is stored to stays.
LEMMA NumberElsewhere ==
  ASSUME NEW s \in Bytes, NEW at, Proper(at), NEW u \in Nat, NEW to, Proper(to),
         \A j \in 1..Len(to) : \A i \in 1..Len(at) : at[i] # to[j]
  PROVE  Number(Stored(s, at, u), to) = Number(s, to)
<1> DEFINE r == Stored(s, at, u)
<1>1. r \in Bytes
  BY StoredAt
<1>2. ASSUME NEW j \in 1..Len(to)
      PROVE  r[to[j]] = s[to[j]]
  <2>1. to[j] \in 0..15 /\ \A i \in 1..Len(at) : at[i] # to[j]
    BY ProperAre
  <2>2. ~ \E i \in 1..Len(at) : at[i] = to[j]
    BY <2>1
  <2>3. QED
    BY <2>1, <2>2, Zenon DEF Stored
<1> HIDE DEF r
<1>3. QED
  BY <1>1, <1>2, NumberKept DEF r

\* What a field keeps of a value.
Kept(t, f, v) ==
  CASE f = "seq"   -> (CASE t = 2 -> v % 16777216 [] t = 3 -> 0 [] OTHER -> v)
    [] f = "index" -> IF t = 3 THEN 0 ELSE v % 4096
    [] f = "type"  -> v % 64
    [] f = "size"  -> v % 65536
    [] f = "pages" -> v % 256
    [] f = "bad"   -> v % 2

\* Setters keep to bytes, getters return numbers.
LEMMA FieldBytes ==
  ASSUME NEW t \in SpareTypes, NEW s \in Bytes, NEW f \in Fields, NEW v \in Nat
  PROVE  SetField(t, s, f, v) \in Bytes
<1> DEFINE at == Places(t, f)
           u  == IF f = "bad" THEN (IF v % 2 = 1 THEN 0 ELSE 255) ELSE v
<1>1. Proper(at)
  BY PlacesOwned DEF Owned
<1>2. u \in Nat
  <2>1. (IF v % 2 = 1 THEN 0 ELSE 255) \in Nat
    BY SMT
  <2>2. QED
    BY <2>1, Zenon
<1>3. SetField(t, s, f, v) = Stored(s, at, u)
  BY DEF SetField
<1> HIDE DEF at, u
<1>4. Stored(s, at, u) \in Bytes
  BY <1>1, <1>2, StoredAt
<1>5. QED
  BY <1>3, <1>4

LEMMA FieldNumber ==
  ASSUME NEW t \in SpareTypes, NEW s \in Bytes, NEW f \in Fields
  PROVE  GetField(t, s, f) \in Nat
<1>1. Number(s, Places(t, f)) \in Nat
  BY PlacesOwned, NumberOf DEF Owned
<1>2. QED
  BY <1>1, Z3 DEF GetField

\* A getter returns what its setter was given, as far as there is room.
LEMMA FieldStored ==
  ASSUME NEW t \in SpareTypes, NEW s \in Bytes, NEW f \in Fields, NEW v \in Nat,
         f = "seq" => v \div 16777216 < 256
  PROVE  GetField(t, SetField(t, s, f, v), f) = Kept(t, f, v)
<1> DEFINE at == Places(t, f)
           u == IF f = "bad" THEN (IF v % 2 = 1 THEN 0 ELSE 255) ELSE v
           n == Number(Stored(s, at, u), at)
<1>1. Proper(at) /\ u \in Nat /\ SetField(t, s, f, v) = Stored(s, at, u)
  BY PlacesOwned DEF Owned, SetField
<1>2. /\ Len(at) = 0 => n = 0
      /\ Len(at) = 1 => n = u % 256
      /\ Len(at) = 2 => n = u % 65536
      /\ Len(at) = 3 => n = u % 16777216
      /\ Len(at) = 4 /\ u \div 16777216 < 256 => n = u
  <2> HIDE DEF at, u
  <2>1. QED
    BY <1>1, NumberStored
<1>3. t = 0 \/ t = 1 \/ t = 2 \/ t = 3
  BY DEF SpareTypes
<1>4. GetField(t, SetField(t, s, f, v), f) =
        CASE f = "index" -> n % 4096 [] f = "type" -> n % 64
          [] f = "bad" -> (IF n = 255 THEN 0 ELSE 1) [] OTHER -> n
  BY <1>1 DEF GetField
<1> HIDE DEF n
<1>5. CASE f = "seq"
  <2>1. u = v /\ GetField(t, SetField(t, s, f, v), f) = n
    BY <1>4, <1>5
  <2>2. CASE t = 2
    BY <1>2, <1>5, <2>1, <2>2 DEF Places, Kept
  <2>3. CASE t = 3
    BY <1>2, <1>5, <2>1, <2>3 DEF Places, Kept
  <2>4. CASE t = 0
    BY <1>2, <1>5, <2>1, <2>4 DEF Places, Kept
  <2>5. CASE t = 1
    BY <1>2, <1>5, <2>1, <2>5 DEF Places, Kept
  <2>6. QED
    BY <1>3, <2>2, <2>3, <2>4, <2>5
<1>6. CASE f = "index"
  <2>1. u = v /\ GetField(t, SetField(t, s, f, v), f) = n % 4096
    BY <1>4, <1>6
  <2>2. CASE t = 3
    BY <1>2, <1>6, <2>1, <2>2 DEF Places, Kept
  <2>3. CASE t # 3
    <3>1. Len(at) = 2
      BY <1>3, <1>6, <2>3 DEF Places
    <3>2. n = v % 65536
      BY <1>2, <2>1, <3>1
    <3>3. QED
      BY <1>6, <2>1, <2>3, <3>2, Digits2 DEF Kept
  <2>4. QED
    BY <2>2, <2>3
<1>7. CASE f = "type"
  <2>1. u = v /\ GetField(t, SetField(t, s, f, v), f) = n % 64
    BY <1>4, <1>7
  <2>2. n = v % 256
    BY <1>2, <1>7, <2>1 DEF Places
  <2>3. QED
    BY <1>7, <2>1, <2>2, Digits2 DEF Kept
<1>8. CASE f = "size"
  <2>1. u = v /\ GetField(t, SetField(t, s, f, v), f) = n
    BY <1>4, <1>8
  <2>2. QED
    BY <1>2, <1>8, <2>1 DEF Places, Kept
<1>9. CASE f = "pages"
  <2>1. u = v /\ GetField(t, SetField(t, s, f, v), f) = n
    BY <1>4, <1>9
  <2>2. QED
    BY <1>2, <1>9, <2>1 DEF Places, Kept
<1>10. CASE f = "bad"
  <2>1. GetField(t, SetField(t, s, f, v), f) = IF n = 255 THEN 0 ELSE 1
    BY <1>4, <1>10
  <2>2. Len(at) = 1
    BY <1>10 DEF Places
  <2>3. v % 2 = 0 \/ v % 2 = 1
    BY Z3
  <2>4. n = IF v % 2 = 1 THEN 0 ELSE 255
    BY <1>2, <1>10, <2>2
  <2>5. QED
    BY <1>10, <2>1, <2>3, <2>4 DEF Kept
<1>11. QED
  BY <1>5, <1>6, <1>7, <1>8, <1>9, <1>10 DEF Fields

\* No setter disturbs another field.
LEMMA FieldKept ==
  ASSUME NEW t \in SpareTypes, NEW s \in Bytes, NEW f \in Fields, NEW v \in Nat,
         NEW g \in Fields, f # g
  PROVE  GetField(t, SetField(t, s, f, v), g) = GetField(t, s, g)
<1> DEFINE at == Places(t, f)
           to == Places(t, g)
           u == IF f = "bad" THEN (IF v % 2 = 1 THEN 0 ELSE 255) ELSE v
           r == SetField(t, s, f, v)
<1>1. Proper(at) /\ u \in Nat /\ r = Stored(s, at, u) /\ r \in Bytes
  BY PlacesOwned, FieldBytes DEF Owned, SetField
<1>2. Proper(to) /\ \A i \in 1..Len(to) : to[i] \in 0..15
  BY PlacesOwned DEF Owned, Proper
<1>3. \A j \in 1..Len(to) : \A i \in 1..Len(at) : at[i] # to[j]
  <2>1. Owned(t, f, at) /\ Owned(t, g, to)
    BY PlacesOwned
  <2> HIDE DEF at, to
  <2>2. QED
    BY <2>1 DEF Owned
<1> HIDE DEF at, to, u, r
<1>4. Number(r, to) = Number(s, to)
  BY <1>1, <1>2, <1>3, NumberElsewhere
<1>5. QED
  BY <1>4 DEF GetField, to, r

LEMMA FieldSet ==
  ASSUME NEW t \in SpareTypes, NEW s \in Bytes, NEW f \in Fields, NEW v \in Nat,
         f = "seq" => v \div 16777216 < 256, NEW g \in Fields
  PROVE  GetField(t, SetField(t, s, f, v), g) = IF g = f THEN Kept(t, f, v) ELSE GetField(t, s, g)
BY FieldStored, FieldKept

\* The same for every field but the sequence number, whose values are DWORDs.
LEMMA OtherSet ==
  ASSUME NEW t \in SpareTypes, NEW s \in Bytes, NEW f \in Fields, f # "seq", NEW v \in Nat
  PROVE  /\ SetField(t, s, f, v) \in Bytes
         /\ \A g \in Fields :
              GetField(t, SetField(t, s, f, v), g) = IF g = f THEN Kept(t, f, v) ELSE GetField(t, s, g)
<1>1. SetField(t, s, f, v) \in Bytes
  BY FieldBytes
<1>2. ASSUME NEW g \in Fields
      PROVE  GetField(t, SetField(t, s, f, v), g) = IF g = f THEN Kept(t, f, v) ELSE GetField(t, s, g)
  BY FieldSet
<1>3. QED
  BY <1>1, <1>2

\* An error code changes no field, and no byte before them.
LEMMA CodeKeeps ==
  ASSUME NEW t \in SpareTypes, NEW s \in Bytes, NEW code \in Codes
  PROVE  /\ Coded(s, code) \in Bytes
         /\ \A b \in 0..11 : Coded(s, code)[b] = s[b]
         /\ \A g \in Fields : GetField(t, Coded(s, code), g) = GetField(t, s, g)
<1> DEFINE r == Coded(s, code)
<1>1. code[1] \in 0..3 /\ code[2] \in Byte
  BY SpareAssumption
<1>2. s[12] \in 0..255 /\ s[12] \in Nat
  BY DEF Bytes, Byte
<1>3. /\ 64 * code[1] + (s[12] % 64) \in 0..255
      /\ (64 * code[1] + (s[12] % 64)) % 64 = s[12] % 64
  BY <1>1, <1>2, Digits3
<1>4. /\ r[12] = 64 * code[1] + (s[12] % 64)
      /\ \A b \in 0..11 : r[b] = s[b]
  <2>1. DOMAIN s = 0..15
    BY DEF Bytes
  <2>2. 12 \in 0..15 /\ \A b \in 0..11 : b \in 0..15 /\ b \notin {12, 13, 14, 15}
    OBVIOUS
  <2>3. 12 \notin {13, 14, 15}
    OBVIOUS
  <2>4. r[12] = 64 * code[1] + (s[12] % 64)
    BY <2>1, <2>2, <2>3 DEF Coded
  <2>5. \A b \in 0..11 : r[b] = s[b]
    BY <2>1, <2>2 DEF Coded
  <2>6. QED
    BY <2>4, <2>5
<1>5. r \in Bytes
  BY <1>1, <1>3 DEF Coded, Bytes, Byte
<1> HIDE DEF r
<1>6. ASSUME NEW g \in Fields, g # "type"
      PROVE  GetField(t, r, g) = GetField(t, s, g)
  <2> DEFINE to == Places(t, g)
  <2>1. Proper(to) /\ \A i \in 1..Len(to) : to[i] \in 0..15 /\ Owner(t, to[i]) = g
    BY PlacesOwned DEF Owned, Proper
  <2>2. \A b \in 0..15 : b > 11 => Owner(t, b) \in {"type", "none"}
    BY DEF Owner
  <2> HIDE DEF to
  <2>3. ASSUME NEW i \in 1..Len(to)
        PROVE  to[i] \in 0..11
    <3>1. to[i] \in 0..15 /\ Owner(t, to[i]) = g
      BY <2>1
    <3>2. g \notin {"type", "none"}
      BY <1>6 DEF Fields
    <3>3. ~ (to[i] > 11)
      BY <2>2, <3>1, <3>2
    <3>4. QED
      BY <3>1, <3>3
  <2>4. Number(r, to) = Number(s, to)
    <3>1. \A i \in 1..Len(to) : r[to[i]] = s[to[i]]
      BY <1>4, <2>3
    <3>2. QED
      BY <1>5, <2>1, <3>1, NumberKept, Zenon
  <2>5. QED
    BY <2>4 DEF GetField, to
<1>7. GetField(t, r, "type") = GetField(t, s, "type")
  <2>1. Proper(<<12>>)
    BY DEF Proper
  <2>2. Number(r, <<12>>) = r[12] /\ Number(s, <<12>>) = s[12]
    BY <1>5, <2>1, NumberOf
  <2>3. QED
    BY <1>3, <1>4, <2>2 DEF GetField, Places
<1>8. QED
  BY <1>4, <1>5, <1>6, <1>7 DEF r

\* What a layout keeps of a value is what SpareRecord says of its capacity.
LEMMA KeptFits ==
  ASSUME TypeOK, NEW f \in Fields, NEW v \in Nat
  PROVE  /\ Capacity[f] \in Nat
         /\ Kept(spareType, f, v) = IF Capacity[f] = 0 THEN v ELSE v % Capacity[f]
<1>1. v % 1 = 0
  BY Z3
<1>2. spareType = 0 \/ spareType = 1 \/ spareType = 2 \/ spareType = 3
  BY DEF TypeOK, SpareTypes
<1>3. CASE f = "seq"
  <2>1. Capacity[f] = IF spareType = 2 THEN 16777216 ELSE IF spareType = 3 THEN 1 ELSE 0
    BY <1>2, <1>3, SMT DEF Capacity, Room
  <2>2. Kept(spareType, f, v) = IF spareType = 2 THEN v % 16777216 ELSE IF spareType = 3 THEN 0 ELSE v
    BY <1>2, <1>3, SMT DEF Kept
  <2>3. QED
    BY <1>1, <2>1, <2>2, SMT
<1>4. CASE f = "index"
  <2>1. Capacity[f] = IF spareType = 3 THEN 1 ELSE 4096
    BY <1>4, SMT DEF Capacity, Room
  <2>2. Kept(spareType, f, v) = IF spareType = 3 THEN 0 ELSE v % 4096
    BY <1>4, SMT DEF Kept
  <2>3. QED
    BY <1>1, <2>1, <2>2, SMT
<1>5. CASE f = "type"
  BY <1>5, SMT DEF Capacity, Room, Kept
<1>6. CASE f = "size"
  BY <1>6, SMT DEF Capacity, Room, Kept
<1>7. CASE f = "pages"
  BY <1>7, SMT DEF Capacity, Room, Kept
<1>8. CASE f = "bad"
  BY <1>8, SMT DEF Capacity, Room, Kept
<1>9. QED
  BY <1>3, <1>4, <1>5, <1>6, <1>7, <1>8, Zenon DEF Fields

-----------------------------------------------------------------------------
(* The actions of SpareArea *)

Field(f) == GetField(spareType, spare["file"], f)

\* What a step does to the page files are saved to.
LEMMA Updated ==
  ASSUME TypeOK, UNCHANGED spareType, NEW new \in Updates,
         \A f \in Fields : Field(f)' = IF f \in DOMAIN new THEN Kept(spareType, f, new[f]) ELSE Field(f),
         \A f \in Fields \cap DOMAIN new : new[f] \in Nat
  PROVE  Record!RecordNext
<1>1. [f \in Fields |-> Field(f)]' =
        [f \in Fields |-> IF f \in DOMAIN new
           THEN IF Capacity[f] = 0 THEN new[f] ELSE new[f] % Capacity[f] ELSE Field(f)]
  BY KeptFits
<1>2. Capacity' = Capacity
  BY SMT DEF Capacity, Room
<1>3. \A f \in Fields : [g \in Fields |-> Field(g)][f] = Field(f)
  OBVIOUS
<1>4. Record!Update(new)
  BY <1>1, <1>2 DEF Record!Update, Record!Fits, Field
<1>5. QED
  BY <1>4 DEF Record!RecordNext

\* Each call keeps the types and is an update of the record, or changes no field.
LEMMA RootUpdates ==
  ASSUME TypeOK, NEW v \in Versions, SaveRoot(v)
  PROVE  TypeOK' /\ Record!RecordNext
<1> DEFINE t == spareType
           s == spare["file"]
           s1 == SetField(t, s, "seq", v)
           s2 == SetField(t, s1, "type", 48)
           new == [seq |-> v, type |-> 48]
<1>1. t \in SpareTypes /\ s \in Bytes /\ v \in Nat /\ v \div 16777216 < 256
  BY SpareAssumption DEF TypeOK, Pages
<1>2. {"seq", "type"} \subseteq Fields
  BY DEF Fields
<1>3. s1 \in Bytes
  BY <1>1, <1>2, FieldBytes
<1>4. s2 \in Bytes
  <2> HIDE DEF s1
  <2>1. QED
    BY <1>1, <1>2, <1>3, FieldBytes
<1>5. spare' = [spare EXCEPT !["file"] = s2] /\ UNCHANGED <<spareType, source>>
  BY DEF SaveRoot
<1> HIDE DEF s1, s2
<1>6. TypeOK'
  BY <1>4, <1>5 DEF TypeOK
<1>7. \A f \in Fields : GetField(t, s1, f) = IF f = "seq" THEN Kept(t, "seq", v) ELSE GetField(t, s, f)
  BY <1>1, <1>2, FieldSet DEF s1
<1>8. \A f \in Fields : GetField(t, s2, f) = IF f = "type" THEN Kept(t, "type", 48) ELSE GetField(t, s1, f)
  <2>1. 48 \in Nat /\ "type" # "seq"
    OBVIOUS
  <2>2. QED
    BY <1>1, <1>2, <1>3, <2>1, FieldSet DEF s2
<1>9. spare'["file"] = s2
  BY <1>5 DEF TypeOK, Pages
<1>10. new \in Updates
  BY DEF Updates
<1>11. DOMAIN new = {"seq", "type"} /\ new["seq"] = v /\ new["type"] = 48
  OBVIOUS
<1> HIDE DEF new
<1>12. \A f \in Fields : Field(f)' = IF f \in DOMAIN new THEN Kept(spareType, f, new[f]) ELSE Field(f)
  <2>1. \A f \in Fields : Field(f)' = GetField(t, s2, f)
    BY <1>5, <1>9 DEF Field
  <2>2. QED
    BY <1>7, <1>8, <1>11, <2>1 DEF Field
<1>13. QED
  BY <1>1, <1>5, <1>6, <1>10, <1>11, <1>12, Updated

LEMMA MobileUpdates ==
  ASSUME TypeOK, NEW m \in MobileTypes, NEW v \in Versions, NEW n \in Counts,
         SaveMobile(m, v, n)
  PROVE  TypeOK' /\ Record!RecordNext
<1> DEFINE t == spareType
           s == spare["file"]
           s1 == SetField(t, s, "type", m)
           s2 == SetField(t, s1, "seq", v)
           s3 == SetField(t, s2, "pages", 32 - n)
           s4 == SetField(t, s3, "size", n * 512)
           new == [type |-> m, seq |-> v, pages |-> 32 - n, size |-> n * 512]
<1>1. t \in SpareTypes /\ s \in Bytes /\ v \in Nat /\ v \div 16777216 < 256
  BY SpareAssumption DEF TypeOK, Pages
<1>2. m \in Nat /\ 32 - n \in Nat /\ n * 512 \in Nat
  BY SpareAssumption
<1>3. {"seq", "type", "pages", "size"} \subseteq Fields
  BY DEF Fields
<1>4. spare' = [spare EXCEPT !["file"] = s4] /\ UNCHANGED <<spareType, source>>
  BY DEF SaveMobile
<1>5. /\ s1 \in Bytes
      /\ \A f \in Fields : GetField(t, s1, f) = IF f = "type" THEN Kept(t, "type", m) ELSE GetField(t, s, f)
  <2>1. "type" # "seq"
    OBVIOUS
  <2>2. QED
    BY <1>1, <1>2, <1>3, <2>1, OtherSet
<1> HIDE DEF s1
<1>6. /\ s2 \in Bytes
      /\ \A f \in Fields : GetField(t, s2, f) = IF f = "seq" THEN Kept(t, "seq", v) ELSE GetField(t, s1, f)
  BY <1>1, <1>3, <1>5, FieldBytes, FieldSet, SMT
<1> HIDE DEF s2
<1>7. /\ s3 \in Bytes
      /\ \A f \in Fields :
           GetField(t, s3, f) = IF f = "pages" THEN Kept(t, "pages", 32 - n) ELSE GetField(t, s2, f)
  <2>1. "pages" # "seq"
    OBVIOUS
  <2>2. QED
    BY <1>1, <1>2, <1>3, <1>6, <2>1, OtherSet
<1> HIDE DEF s3
<1>8. /\ s4 \in Bytes
      /\ \A f \in Fields :
           GetField(t, s4, f) = IF f = "size" THEN Kept(t, "size", n * 512) ELSE GetField(t, s3, f)
  <2>1. "size" # "seq"
    OBVIOUS
  <2>2. QED
    BY <1>1, <1>2, <1>3, <1>7, <2>1, OtherSet
<1> HIDE DEF s4
<1>9. TypeOK'
  BY <1>4, <1>8 DEF TypeOK
<1>10. spare'["file"] = s4
  BY <1>4 DEF TypeOK, Pages
<1>11. new \in Updates
  BY DEF Updates
<1>12. /\ DOMAIN new = {"seq", "type", "pages", "size"}
       /\ new["seq"] = v /\ new["type"] = m /\ new["pages"] = 32 - n /\ new["size"] = n * 512
  OBVIOUS
<1> HIDE DEF new
<1>13. \A f \in Fields : Field(f)' = IF f \in DOMAIN new THEN Kept(spareType, f, new[f]) ELSE Field(f)
  <2>1. \A f \in Fields : Field(f)' = GetField(t, s4, f)
    BY <1>4, <1>10 DEF Field
  <2>2. QED
    BY <1>5, <1>6, <1>7, <1>8, <1>12, <2>1 DEF Field
<1>14. \A f \in Fields \cap DOMAIN new : new[f] \in Nat
  BY <1>1, <1>2, <1>12
<1>15. QED
  BY <1>4, <1>9, <1>11, <1>13, <1>14, Updated

\* The codes of a whole image.
LEMMA CodesKeep ==
  ASSUME TypeOK, NEW code \in [Pages -> Codes],
         spare' = [p \in Pages |-> Coded(spare[p], code[p])]
  PROVE  /\ spare' \in [Pages -> Bytes]
         /\ \A p \in Pages : \A b \in 0..11 : spare'[p][b] = spare[p][b]
         /\ \A f \in Fields : GetField(spareType, spare'["file"], f) = Field(f)
<1>1. \A p \in Pages : spare[p] \in Bytes /\ code[p] \in Codes /\ spare'[p] = Coded(spare[p], code[p])
  BY DEF TypeOK
<1>2. spareType \in SpareTypes
  BY DEF TypeOK
<1>3. \A p \in Pages : /\ spare'[p] \in Bytes
                       /\ \A b \in 0..11 : spare'[p][b] = spare[p][b]
                       /\ \A f \in Fields : GetField(spareType, spare'[p], f) = GetField(spareType, spare[p], f)
  BY <1>1, <1>2, CodeKeeps
<1>4. "file" \in Pages
  BY DEF Pages
<1>5. QED
  BY <1>3, <1>4 DEF Field

LEMMA NextUpdates ==
  ASSUME TypeOK, Next
  PROVE  TypeOK' /\ (Record!RecordNext \/ \A f \in Fields : Field(f)' = Field(f))
<1>1. ASSUME NEW v \in Versions, SaveRoot(v)
      PROVE  TypeOK' /\ Record!RecordNext
  BY <1>1, RootUpdates
<1>2. ASSUME NEW m \in MobileTypes, NEW v \in Versions, NEW n \in Counts, SaveMobile(m, v, n)
      PROVE  TypeOK' /\ Record!RecordNext
  BY <1>2, MobileUpdates
<1>3. ASSUME SaveImage
      PROVE  TypeOK' /\ \A f \in Fields : Field(f)' = Field(f)
  <2>1. PICK code \in [Pages -> Codes] : spare' = [p \in Pages |-> Coded(spare[p], code[p])]
    BY <1>3 DEF SaveImage
  <2>2. UNCHANGED <<spareType, source>>
    BY <1>3 DEF SaveImage
  <2>3. /\ spare' \in [Pages -> Bytes]
        /\ \A f \in Fields : GetField(spareType, spare'["file"], f) = Field(f)
    BY <2>1, CodesKeep
  <2>4. QED
    BY <2>2, <2>3 DEF TypeOK, Field
<1>4. QED
  BY <1>1, <1>2, <1>3 DEF Next

-----------------------------------------------------------------------------
(* Types *)

LEMMA LaidTyped ==
  ASSUME NEW t \in SpareTypes, NEW big
  PROVE  Laid(t, big) \in [Pages -> Bytes]
<1>1. ASSUME NEW index \in Nat
      PROVE  Fresh(t, index) \in Bytes
  <2> DEFINE s == [b \in 0..15 |-> 0]
  <2>1. s \in Bytes
    BY DEF Bytes, Byte
  <2> HIDE DEF s
  <2>2. {"bad", "index"} \subseteq Fields /\ 0 \in Nat
    BY DEF Fields
  <2>3. SetField(t, s, "bad", 0) \in Bytes
    BY <2>1, <2>2, FieldBytes
  <2>4. SetField(t, SetField(t, s, "bad", 0), "index", index) \in Bytes
    BY <2>2, <2>3, FieldBytes
  <2>5. QED
    BY <2>4 DEF Fresh, s
<1>2. Fresh(t, 0) \in Bytes /\ Fresh(t, 1) \in Bytes /\ Fresh(t, 8) \in Bytes /\ Fresh(t, 600) \in Bytes
  BY <1>1
<1>3. ASSUME NEW p \in Pages
      PROVE  Fresh(t, CASE p = "small" -> (IF big THEN 0 ELSE 1)
                        [] p = "big"   -> (IF big THEN 1 ELSE 8)
                        [] OTHER       -> 600) \in Bytes
  <2>1. CASE big
    BY <1>2, <2>1
  <2>2. CASE ~ big
    BY <1>2, <2>2
  <2>3. QED
    BY <2>1, <2>2
<1>4. QED
  BY <1>3 DEF Laid

\* What is decided when an image is opened.
Settled(len, page, w, t) ==
  len \in Nat /\ page \in Nat \ {0} /\ w \in Nat /\ t \in SpareTypes

LEMMA LayoutTyped ==
  ASSUME NEW len, NEW page, NEW w, NEW t, Settled(len, page, w, t)
  PROVE  /\ LoadFlashConfig(w, len, page, t).type \in SpareTypes
         /\ LoadFlashConfig(w, len, page, t).count \in Nat
         /\ LoadFlashConfig(w, len, page, t).blockLength \in Nat
<1>1. len \div (256 * page) \in Nat /\ t \in SpareTypes
  BY Z3 DEF Settled
<1>2. \A b, c, r, y : /\ Layout(b, c, r, y).blockLength = b
                      /\ Layout(b, c, r, y).count = c /\ Layout(b, c, r, y).type = y
  BY DEF Layout
<1>3. QED
  BY <1>1, <1>2, SMT DEF LoadFlashConfig, SpareTypes

LEMMA OpenTyped ==
  ASSUME NEW s, NEW len \in Nat, NEW w \in Nat
  PROVE  /\ OpenContinue(s, len, 528, w).length = len
         /\ Settled(len, OpenContinue(s, len, 528, w).pageLength,
                    OpenContinue(s, len, 528, w).word, OpenContinue(s, len, 528, w).type)
<1> DEFINE t      == DetectSpareType(s)
           chosen == IF w # 0 THEN w ELSE Picked((len \div 528) * 512, t)
           paged  == IF w = 0 /\ (len \div 528) * 512 = 178956800 THEN 512 ELSE 528
           o      == OpenContinue(s, len, 528, w)
<1>1. t \in SpareTypes
  BY DEF DetectSpareType, SpareTypes
<1> HIDE DEF t
<1>2. \A n : Picked(n, t) \in Nat
  BY SMT DEF Picked, CoronaWord
<1>3. chosen \in Nat
  BY <1>2, Zenon
<1>4. paged \in Nat \ {0}
  BY SMT
<1>5. /\ o.length = len /\ o.pageLength = paged /\ o.word = chosen
      /\ o.type = LoadFlashConfig(chosen, len, paged, t).type
  BY SMT DEF OpenContinue, t
<1> HIDE DEF chosen, paged, o
<1>6. LoadFlashConfig(chosen, len, paged, t).type \in SpareTypes
  <2>1. Settled(len, paged, chosen, t)
    BY <1>1, <1>3, <1>4 DEF Settled
  <2>2. QED
    BY <2>1, LayoutTyped, Zenon
<1>7. o.length = len /\ Settled(len, o.pageLength, o.word, o.type)
  BY <1>3, <1>4, <1>5, <1>6 DEF Settled
<1>8. QED
  BY <1>7, Zenon DEF o

LEMMA LeastTyped ==
  ASSUME NEW x \in Nat, NEW y \in Nat
  PROVE  Least(x, y) \in Nat
BY DEF Least

LEMMA CountTyped ==
  ASSUME NEW len, NEW page, NEW w, NEW t, Settled(len, page, w, t)
  PROVE  /\ LoadFlashConfig(w, len, page, t).count \in Nat
         /\ PageCount(LoadFlashConfig(w, len, page, t)) \in Nat
<1> DEFINE l == LoadFlashConfig(w, len, page, t)
<1>1. l.count \in Nat /\ l.blockLength \in Nat
  BY LayoutTyped, Zenon
<1> HIDE DEF l
<1>2. \A m, n \in Nat : m * n \in Nat
  OBVIOUS
<1>3. \A n \in Nat : (n \div 16384) * 32 \in Nat
  BY Z3
<1>4. PageCount(l) \in Nat
  <2>1. l.count * l.blockLength \in Nat
    BY <1>1, <1>2, Zenon
  <2>2. QED
    BY <1>3, <2>1, SMT DEF PageCount
<1>5. QED
  BY <1>1, <1>4, Zenon DEF l

LEMMA ChipTyped ==
  ASSUME NEW w
  PROVE  Chip(w).type \in SpareTypes
<1>1. \A b, c, r, y : Layout(b, c, r, y).type = y
  BY DEF Layout
<1>2. QED
  BY <1>1, SMT DEF Chip, SpareTypes

LEMMA SettledTyped ==
  ConfigurationTypeOK
    <=> Settled(length, pageLength, word, spareType) /\ source \in {"created", "dumped"}
        /\ spare \in [Pages -> Bytes]
<1>1. Settled(length, pageLength, word, spareType)
        => Current.count \in Nat /\ PageCount(Current) \in Nat
  BY CountTyped, Zenon DEF Current
<1>2. QED
  BY <1>1, SMT DEF ConfigurationTypeOK, TypeOK, Settled

\* Every way to begin, and every way to go on, settles the layout.
LEMMA OpenedTyped ==
  ASSUME ConfigurationInit
  PROVE  ConfigurationTypeOK
<1>1. ASSUME Created
      PROVE  ConfigurationTypeOK
  <2>1. PICK d \in Descriptions :
          /\ length = d.length /\ pageLength = d.pageLength /\ word = d.word
          /\ spareType = LoadFlashConfig(d.word, d.length, d.pageLength, 0).type
          /\ source = "created" /\ spare = Laid(spareType, FALSE)
    BY <1>1 DEF Created, Configured
  <2>2. length \in Nat /\ pageLength \in Nat \ {0} /\ word \in Nat
    BY <2>1, ConfigurationAssumption
  <2>3. 0 \in SpareTypes
    BY DEF SpareTypes
  <2>4. spareType \in SpareTypes
    <3>1. Settled(d.length, d.pageLength, d.word, 0)
      BY <2>1, <2>2, <2>3 DEF Settled
    <3>2. QED
      BY <2>1, <3>1, LayoutTyped, Zenon
  <2>5. spare \in [Pages -> Bytes]
    BY <2>1, <2>4, LaidTyped, Zenon
  <2>6. QED
    <3>1. Settled(length, pageLength, word, spareType)
      BY <2>2, <2>4 DEF Settled
    <3>2. QED
      BY <2>1, <2>5, <3>1, SettledTyped, Zenon
<1>2. ASSUME NEW len \in Nat, NEW w \in Nat, Configured(OpenContinue(spare, len, 528, w))
      PROVE  Settled(length, pageLength, word, spareType)
  <2> DEFINE o == OpenContinue(spare, len, 528, w)
  <2>1. o.length = len /\ Settled(len, o.pageLength, o.word, o.type)
    BY OpenTyped, SMT
  <2> HIDE DEF o
  <2>2. length = o.length /\ pageLength = o.pageLength /\ word = o.word /\ spareType = o.type
    BY <1>2 DEF Configured, o
  <2>3. QED
    BY <2>1, <2>2, Zenon
<1>3. ASSUME Dumped
      PROVE  ConfigurationTypeOK
  <2>1. PICK d \in Dumps : /\ source = "dumped" /\ spare = Laid(d.type, d.type = 2)
                           /\ Configured(OpenImage(spare, d.length))
    BY <1>3 DEF Dumped
  <2>2. d.length \in Nat /\ d.type \in SpareTypes
    BY ConfigurationAssumption
  <2>3. Least(d.length, FileLimit) \in Nat
    BY <2>2, ConfigurationAssumption, LeastTyped
  <2>4. Settled(length, pageLength, word, spareType)
    <3>1. Configured(OpenContinue(spare, Least(d.length, FileLimit), 528, 0))
      BY <2>1 DEF OpenImage
    <3>2. 0 \in Nat
      OBVIOUS
    <3>3. QED
      BY <1>2, <2>3, <3>1, <3>2
  <2>5. spare \in [Pages -> Bytes]
    BY <2>1, <2>2, LaidTyped, Zenon
  <2>6. QED
    BY <2>1, <2>4, <2>5, SettledTyped, Zenon
<1>4. ASSUME Attached
      PROVE  ConfigurationTypeOK
  <2>1. PICK w \in ChipWords : /\ source = "dumped" /\ spare = Laid(Chip(w).type, Chip(w).type = 2)
                               /\ Configured(OpenDevice(spare, w))
    BY <1>4, Zenon DEF Attached
  <2>2. w \in Nat /\ Least(ChipBytes(Chip(w)), DeviceLimit) \in Nat
    BY ConfigurationAssumption, LeastTyped
  <2>3. Settled(length, pageLength, word, spareType)
    BY <1>2, <2>1, <2>2, Zenon DEF OpenDevice
  <2>4. spare \in [Pages -> Bytes]
    BY <2>1, ChipTyped, LaidTyped, Zenon
  <2>5. QED
    BY <2>1, <2>3, <2>4, SettledTyped, Zenon
<1>5. QED
  BY <1>1, <1>3, <1>4 DEF ConfigurationInit

LEMMA ReopenTyped ==
  ASSUME ConfigurationTypeOK, Reopen
  PROVE  ConfigurationTypeOK'
<1>1. PICK code \in [Pages -> Codes] : spare' = [p \in Pages |-> Coded(spare[p], code[p])]
  BY DEF Reopen
<1>2. spare' \in [Pages -> Bytes]
  BY <1>1, CodesKeep DEF ConfigurationTypeOK
<1>3. Least(length, FileLimit) \in Nat
  BY ConfigurationAssumption, LeastTyped DEF ConfigurationTypeOK
<1> DEFINE o == OpenImage(spare', length)
<1>4. Settled(o.length, o.pageLength, o.word, o.type)
  BY <1>3, OpenTyped DEF OpenImage
<1>5. length' = o.length /\ pageLength' = o.pageLength /\ word' = o.word /\ spareType' = o.type
  BY Zenon DEF Reopen
<1> HIDE DEF o
<1>6. Settled(length, pageLength, word, spareType)'
  BY <1>4, <1>5 DEF Settled
<1>7. source' \in {"created", "dumped"}
  BY DEF Reopen, ConfigurationTypeOK, TypeOK
<1>8. Current'.count \in Nat /\ PageCount(Current') \in Nat
  BY <1>6, CountTyped, Zenon DEF Current
<1>9. QED
  BY <1>2, <1>6, <1>7, <1>8, SMT DEF ConfigurationTypeOK, TypeOK, Settled

LEMMA ConfigurationStep ==
  ASSUME ConfigurationTypeOK, [ConfigurationNext]_allVars
  PROVE  ConfigurationTypeOK'
<1>1. CASE Next /\ UNCHANGED configuration
  <2>1. TypeOK'
    BY <1>1, NextUpdates DEF ConfigurationTypeOK
  <2>2. UNCHANGED <<length, pageLength, word>>
    BY <1>1 DEF configuration
  <2>3. spareType' = spareType
    BY <1>1 DEF Next, SaveRoot, SaveMobile, SaveImage
  <2>4. QED
    BY <2>1, <2>2, <2>3, Zenon DEF ConfigurationTypeOK, Current
<1>2. CASE Reopen
  BY <1>2, ReopenTyped
<1>3. CASE UNCHANGED allVars
  BY <1>3, Zenon DEF allVars, vars, configuration, ConfigurationTypeOK, TypeOK, Current
<1>4. QED
  BY <1>1, <1>2, <1>3 DEF ConfigurationNext

\* Whatever an ini file, a dump or a controller's register asks for, every opening
\* settles on one of the four spare types and on a whole number of small blocks
\* (OpenContinue, LoadFlashConfig).
THEOREM ConfigurationTypeCorrect == ConfigurationSpec => []ConfigurationTypeOK
BY OpenedTyped, ConfigurationStep, PTL DEF ConfigurationSpec

-----------------------------------------------------------------------------
(* The fields *)

\* A save and an error code do to the fields of a page what SpareRecord says: what
\* one SetSpare routine stores disturbs no other field, and a getter returns what
\* its setter was given as far as the layout has room for it.
THEOREM FieldsStayApart == ConfigurationSpec => FieldsApartWhileOpen
<1> DEFINE fields == [f \in Fields |-> Field(f)]
<1>1. ASSUME ConfigurationTypeOK
      PROVE  Record!RecordInit
  <2>1. TypeOK
    BY <1>1 DEF ConfigurationTypeOK
  <2>2. spareType \in SpareTypes /\ spare["file"] \in Bytes
    BY <2>1 DEF TypeOK, Pages
  <2>3. \A f \in Fields : Field(f) \in Nat
    BY <2>2, FieldNumber DEF Field
  <2>4. \A f \in Fields : Capacity[f] \in Nat
    <3>1. 0 \in Nat
      OBVIOUS
    <3>2. QED
      BY <2>1, <3>1, KeptFits
  <2>6. fields \in [Fields -> Nat]
    BY <2>3
  <2>7. Capacity \in [Fields -> Nat]
    <3>1. \A F : (\A f \in Fields : F[f] \in Nat) /\ F = [f \in Fields |-> F[f]] => F \in [Fields -> Nat]
      OBVIOUS
    <3>2. Capacity = [f \in Fields |-> Capacity[f]]
      BY Zenon DEF Capacity
    <3>3. QED
      BY <2>4, <3>1, <3>2, Zenon
  <2>8. QED
    BY <2>6, <2>7, Zenon DEF Record!RecordInit, Field
<1>2. ASSUME ConfigurationTypeOK, [ConfigurationNext]_allVars
      PROVE  [Reopen \/ Record!RecordNext]_<<fields>>
  <2>1. CASE Next /\ UNCHANGED configuration
    <3>1. Record!RecordNext \/ \A f \in Fields : Field(f)' = Field(f)
      BY <1>2, <2>1, NextUpdates DEF ConfigurationTypeOK
    <3>2. QED
      BY <3>1
  <2>2. CASE Reopen
    BY <2>2
  <2>3. CASE UNCHANGED allVars
    BY <2>3 DEF allVars, vars, Field
  <2>4. QED
    BY <1>2, <2>1, <2>2, <2>3 DEF ConfigurationNext
<1>3. ConfigurationSpec => []ConfigurationTypeOK
  BY ConfigurationTypeCorrect
<1>4. ConfigurationInit => ConfigurationTypeOK
  BY OpenedTyped
<1>5. QED
  BY <1>1, <1>2, <1>3, <1>4, PTL DEF ConfigurationSpec, FieldsApartWhileOpen, Field

-----------------------------------------------------------------------------
(* Openings *)

\* The guess of the spare type reads no byte that a save or an error code changes.
LEMMA GuessKept ==
  ASSUME NEW s, NEW r, \A p \in {"small", "big"} : \A b \in 0..11 : r[p][b] = s[p][b]
  PROVE  DetectSpareType(r) = DetectSpareType(s)
<1>1. \A p \in {"small", "big"} : /\ r[p][0] = s[p][0] /\ r[p][1] = s[p][1]
                                  /\ r[p][2] = s[p][2] /\ r[p][5] = s[p][5]
  BY SMT
<1>2. /\ Looks(r["small"], <<0, 1>>, 5) = Looks(s["small"], <<0, 1>>, 5)
      /\ Looks(r["small"], <<1, 2>>, 5) = Looks(s["small"], <<1, 2>>, 5)
      /\ Looks(r["big"], <<1, 2>>, 0) = Looks(s["big"], <<1, 2>>, 0)
  BY <1>1, SMT DEF Looks
<1>3. QED
  BY <1>2, Zenon DEF DetectSpareType

LEMMA OpensBy ==
  ASSUME NEW s, NEW r, NEW len, DetectSpareType(r) = DetectSpareType(s)
  PROVE  OpenImage(r, len) = OpenImage(s, len)
BY SMT DEF OpenImage, OpenContinue

\* No call between two openings changes what the next opening decides.
LEMMA CallsKeepGuess ==
  ASSUME TypeOK, Next
  PROVE  DetectSpareType(spare') = DetectSpareType(spare)
<1>1. ASSUME NEW s, spare' = [spare EXCEPT !["file"] = s]
      PROVE  DetectSpareType(spare') = DetectSpareType(spare)
  <2>1. \A p \in {"small", "big"} : spare'[p] = spare[p]
    BY <1>1 DEF TypeOK, Pages
  <2>2. QED
    BY <2>1, GuessKept
<1>2. CASE \E v \in Versions : SaveRoot(v)
  BY <1>1, <1>2, Zenon DEF SaveRoot
<1>3. CASE \E m \in MobileTypes, v \in Versions, n \in Counts : SaveMobile(m, v, n)
  BY <1>1, <1>3 DEF SaveMobile
<1>4. CASE SaveImage
  <2>1. PICK code \in [Pages -> Codes] : spare' = [p \in Pages |-> Coded(spare[p], code[p])]
    BY <1>4 DEF SaveImage
  <2>2. \A p \in Pages : \A b \in 0..11 : spare'[p][b] = spare[p][b]
    BY <2>1, CodesKeep
  <2>3. {"small", "big"} \subseteq Pages
    BY DEF Pages
  <2>4. QED
    BY <2>2, <2>3, GuessKept
<1>5. QED
  BY <1>2, <1>3, <1>4 DEF Next

LEMMA ReopenedStep ==
  ASSUME ConfigurationTypeOK, ReopensAlike, [ConfigurationNext]_allVars
  PROVE  ReopensAlike'
<1>1. CASE Next /\ UNCHANGED configuration
  <2>1. DetectSpareType(spare') = DetectSpareType(spare)
    BY <1>1, CallsKeepGuess DEF ConfigurationTypeOK
  <2>2. UNCHANGED <<length, pageLength, word, spareType, source>>
    BY <1>1 DEF configuration, Next, SaveRoot, SaveMobile, SaveImage
  <2>3. OpenImage(spare', length') = OpenImage(spare, length)
    BY <2>1, <2>2, OpensBy, Zenon
  <2>4. Telling' <=> Telling
    BY <2>2, Zenon DEF Telling
  <2>5. Current' = Current
    BY <2>2, Zenon DEF Current
  <2>6. QED
    BY <2>3, <2>4, <2>5, Zenon DEF ReopensAlike
<1>2. CASE Reopen
  <2> DEFINE o == OpenImage(spare', length)
  <2>1. length' = o.length /\ pageLength' = o.pageLength /\ word' = o.word /\ spareType' = o.type
    BY <1>2, Zenon DEF Reopen
  <2>2. o.length = Least(length, FileLimit)
    BY SMT DEF OpenImage, OpenContinue
  <2> HIDE DEF o
  <2>3. length \in Nat /\ FileLimit \in Nat
    BY ConfigurationAssumption DEF ConfigurationTypeOK
  <2>4. ASSUME Telling'
        PROVE  length' = length
    <3>1. length' < FileLimit
      BY <2>4 DEF Telling
    <3>2. QED
      BY <2>1, <2>2, <2>3, <3>1 DEF Least
  <2>5. Current' = LoadFlashConfig(o.word, o.length, o.pageLength, o.type)
    BY <2>1, Zenon DEF Current
  <2>6. QED
    BY <2>4, <2>5, Zenon DEF ReopensAlike, o
<1>3. CASE UNCHANGED allVars
  BY <1>3, Zenon DEF allVars, vars, configuration, ReopensAlike, Telling, Current
<1>4. QED
  BY <1>1, <1>2, <1>3 DEF ConfigurationNext

-----------------------------------------------------------------------------
(* The two decoders *)

\* What the driver makes of a word both know, by its family and its size.
LEMMA DriverDecodes ==
  ASSUME NEW w, w # CoronaWord, NEW len, NEW page, NEW t
  PROVE  /\ Family(w) = 0 /\ Size(w) = 1 =>
              LoadFlashConfig(w, len, page, t) = Layout(16384, 1024, 992, 0)
         /\ Family(w) = 0 /\ Size(w) = 3 =>
              LoadFlashConfig(w, len, page, t) = Layout(16384, 4096, 3968, 0)
         /\ Family(w) \in {1, 2} /\ Size(w) = 0 =>
              LoadFlashConfig(w, len, page, t) = Layout(16384, 1024, 992, 1)
         /\ Family(w) \in {1, 2} /\ Size(w) = 1 =>
              LoadFlashConfig(w, len, page, t)
                = Layout(16384, IF len \in {16777216, 17301504} THEN 1024 ELSE 4096, 992, 1)
         /\ Family(w) \in {1, 2} /\ Size(w) = 2 =>
              LoadFlashConfig(w, len, page, t) = Layout(131072, len \div (256 * page), 480, 2)
<1>1. CASE Family(w) = 0 /\ Size(w) \in {1, 3}
  BY <1>1, SMT DEF LoadFlashConfig
<1>2. CASE Family(w) \in {1, 2} /\ Size(w) \in {0, 1}
  BY <1>2, SMT DEF LoadFlashConfig
<1>3. CASE Family(w) \in {1, 2} /\ Size(w) = 2
  BY <1>3, SMT DEF LoadFlashConfig
<1>4. QED
  BY <1>1, <1>2, <1>3, SMT

\* What the controller makes of it.
LEMMA ChipDecodes ==
  ASSUME NEW w
  PROVE  /\ Family(w) = 0 /\ Size(w) = 1 => Chip(w) = Layout(16384, 1024, 992, 0)
         /\ Family(w) = 0 /\ Size(w) = 3 => Chip(w) = Layout(16384, 4096, 3968, 0)
         /\ Family(w) = 2 /\ Size(w) = 0 => Chip(w) = Layout(16384, 1024, 992, 1)
         /\ Family(w) = 1 /\ Size(w) = 1 => Chip(w) = Layout(16384, 1024, 992, 1)
         /\ Family(w) = 2 /\ Size(w) = 1 => Chip(w) = Layout(16384, 4096, 3968, 1)
         /\ Family(w) \in {1, 2} /\ Size(w) = 2 =>
              Chip(w) = Layout(131072, BigBytes(w) \div 131072, 480, 2)
<1>1. CASE Family(w) = 0 /\ Size(w) \in {1, 3}
  BY <1>1, SMT DEF Chip
<1>2. CASE Family(w) \in {1, 2} /\ Size(w) \in {0, 1}
  BY <1>2, SMT DEF Chip
<1>3. CASE Family(w) \in {1, 2} /\ Size(w) = 2
  BY <1>3, SMT DEF Chip
<1>4. QED
  BY <1>1, <1>2, <1>3, SMT

\* A case for each word both decode.
LEMMA DecodedCases ==
  ASSUME NEW w, BothDecode(w)
  PROVE  /\ w # CoronaWord
         /\ \/ Family(w) = 0 /\ Size(w) = 1
            \/ Family(w) = 0 /\ Size(w) = 3
            \/ Family(w) = 1 /\ Size(w) = 1
            \/ Family(w) = 2 /\ Size(w) = 0
            \/ Family(w) = 2 /\ Size(w) = 1
            \/ Family(w) \in {1, 2} /\ Size(w) = 2
BY DEF BothDecode

LEMMA LayoutParts ==
  ASSUME NEW b, NEW c, NEW r, NEW t
  PROVE  /\ Layout(b, c, r, t).blockLength = b /\ Layout(b, c, r, t).count = c
         /\ Layout(b, c, r, t).reserve = r /\ Layout(b, c, r, t).type = t
BY DEF Layout

\* The spare type does not depend on the length, the page or the guess.
LEMMA TypesAgree ==
  ASSUME NEW w, BothDecode(w), NEW len, NEW page, NEW t
  PROVE  LoadFlashConfig(w, len, page, t).type = Chip(w).type
<1>1. w # CoronaWord
  BY DecodedCases, SMT
<1>2. CASE Family(w) = 0 /\ Size(w) = 1
  BY <1>1, <1>2, DriverDecodes, ChipDecodes, LayoutParts, SMT
<1>3. CASE Family(w) = 0 /\ Size(w) = 3
  BY <1>1, <1>3, DriverDecodes, ChipDecodes, LayoutParts, SMT
<1>4. CASE Family(w) \in {1, 2} /\ Size(w) = 1
  <2>1. Chip(w).type = 1
    BY <1>4, ChipDecodes, LayoutParts, SMT
  <2>2. QED
    BY <1>1, <1>4, <2>1, DriverDecodes, LayoutParts, SMT
<1>5. CASE Family(w) = 2 /\ Size(w) = 0
  <2>1. Chip(w).type = 1
    BY <1>5, ChipDecodes, LayoutParts, SMT
  <2>2. LoadFlashConfig(w, len, page, t).type = 1
    BY <1>1, <1>5, DriverDecodes, LayoutParts, SMT
  <2>3. QED
    BY <2>1, <2>2, SMT
<1>6. CASE Family(w) \in {1, 2} /\ Size(w) = 2
  <2>1. Chip(w).type = 2
    BY <1>6, ChipDecodes, LayoutParts, SMT
  <2>2. LoadFlashConfig(w, len, page, t).type = 2
    BY <1>1, <1>6, DriverDecodes, LayoutParts, SMT
  <2>3. QED
    BY <2>1, <2>2, SMT
<1>7. QED
  BY <1>2, <1>3, <1>4, <1>5, <1>6, DecodedCases, SMT

\* The length of the part of a chip that is read.
LEMMA ChipLength ==
  ASSUME NEW w, BothDecode(w), Chip(w).count \in Nat, DeviceLimit = 69206016
  PROVE  LET len == Least(ChipBytes(Chip(w)), DeviceLimit)
         IN  /\ Family(w) = 0 /\ Size(w) = 1 => len = 17301504
             /\ Family(w) = 0 /\ Size(w) = 3 => len = 69206016
             /\ Family(w) = 1 /\ Size(w) = 1 => len = 17301504
             /\ Family(w) = 2 /\ Size(w) = 0 => len = 17301504
             /\ Family(w) = 2 /\ Size(w) = 1 => len = 69206016
             /\ Family(w) \in {1, 2} /\ Size(w) = 2 => len = Least(Chip(w).count * 135168, 69206016)
<1> DEFINE c == Chip(w)
<1>1. c.blockLength = 16384 => ChipBytes(c) = c.count * 16896
  <2>1. 16384 \div 512 = 32
    BY Z3
  <2>2. QED
    BY <2>1, SMT DEF ChipBytes, ChipPages
<1>2. c.blockLength = 131072 => ChipBytes(c) = c.count * 135168
  <2>1. 131072 \div 512 = 256
    BY Z3
  <2>2. QED
    BY <2>1, SMT DEF ChipBytes, ChipPages
<1>3. /\ Family(w) = 0 /\ Size(w) = 1 => c.blockLength = 16384 /\ c.count = 1024
      /\ Family(w) = 0 /\ Size(w) = 3 => c.blockLength = 16384 /\ c.count = 4096
      /\ Family(w) = 1 /\ Size(w) = 1 => c.blockLength = 16384 /\ c.count = 1024
      /\ Family(w) = 2 /\ Size(w) = 0 => c.blockLength = 16384 /\ c.count = 1024
      /\ Family(w) = 2 /\ Size(w) = 1 => c.blockLength = 16384 /\ c.count = 4096
      /\ Family(w) \in {1, 2} /\ Size(w) = 2 => c.blockLength = 131072
  BY ChipDecodes, LayoutParts, SMT
<1> HIDE DEF c
<1>4. Least(17301504, 69206016) = 17301504 /\ Least(69206016, 69206016) = 69206016
  BY SMT DEF Least
<1>5. QED
  BY <1>1, <1>2, <1>3, <1>4, SMT DEF c

\* The blocks of 128KB in so many pages, and the chip's own.
LEMMA BigCount ==
  ASSUME NEW n \in Nat
  PROVE  Least(n * 135168, 69206016) \div 135168 = Least(n, 512)
<1>1. CASE n <= 512
  <2>1. (n * 135168) \div 135168 = n
    BY Z3
  <2>2. QED
    BY <1>1, <2>1, SMT DEF Least
<1>2. CASE n > 512
  <2>1. 69206016 \div 135168 = 512
    BY Z3
  <2>2. QED
    BY <1>2, <2>1, SMT DEF Least
<1>3. QED
  BY <1>1, <1>2, SMT

\* In which layout an image is in use, as far as the controller decodes it.
DecodedType == BothDecode(word) => spareType = Chip(word).type

LEMMA OpenDecoded ==
  ASSUME NEW s, NEW len, NEW w, Configured(OpenContinue(s, len, 528, w))
  PROVE  DecodedType
<1> DEFINE t      == DetectSpareType(s)
           chosen == IF w # 0 THEN w ELSE Picked((len \div 528) * 512, t)
           paged  == IF w = 0 /\ (len \div 528) * 512 = 178956800 THEN 512 ELSE 528
           o      == OpenContinue(s, len, 528, w)
<1>1. o.word = chosen /\ o.type = LoadFlashConfig(chosen, len, paged, t).type
  BY SMT DEF OpenContinue
<1>2. word = o.word /\ spareType = o.type
  BY Zenon DEF Configured
<1> HIDE DEF chosen, paged, t, o
<1>3. word = chosen /\ spareType = LoadFlashConfig(word, len, paged, t).type
  BY <1>1, <1>2
<1>4. QED
  BY <1>3, TypesAgree, SMT DEF DecodedType

LEMMA DecodedInit ==
  ASSUME ConfigurationInit
  PROVE  DecodedType
<1>1. CASE Created
  <2>1. PICK d \in Descriptions :
          /\ word = d.word /\ spareType = LoadFlashConfig(d.word, d.length, d.pageLength, 0).type
    BY <1>1 DEF Created, Configured
  <2>2. spareType = LoadFlashConfig(word, d.length, d.pageLength, 0).type
    BY <2>1
  <2>3. QED
    BY <2>2, TypesAgree, SMT DEF DecodedType
<1>2. CASE Dumped
  BY <1>2, OpenDecoded, Zenon DEF Dumped, OpenImage
<1>3. CASE Attached
  BY <1>3, OpenDecoded, Zenon DEF Attached, OpenDevice
<1>4. QED
  BY <1>1, <1>2, <1>3 DEF ConfigurationInit
LEMMA DecodedStep ==
  ASSUME DecodedType, [ConfigurationNext]_allVars
  PROVE  DecodedType'
<1>1. CASE Next /\ UNCHANGED configuration
  BY <1>1, Zenon DEF configuration, Next, SaveRoot, SaveMobile, SaveImage, DecodedType
<1>2. CASE Reopen
  <2> DEFINE s == spare'
             l == Least(length, FileLimit)
             t == DetectSpareType(s)
             chosen == Picked((l \div 528) * 512, t)
             paged  == IF (l \div 528) * 512 = 178956800 THEN 512 ELSE 528
             o      == OpenImage(s, length)
  <2>1. o.word = chosen /\ o.type = LoadFlashConfig(chosen, l, paged, t).type
    BY SMT DEF OpenImage, OpenContinue
  <2>2. word' = o.word /\ spareType' = o.type
    BY <1>2, Zenon DEF Reopen
  <2> HIDE DEF chosen, paged, t, o, s, l
  <2>3. spareType' = LoadFlashConfig(word', l, paged, t).type
    BY <2>1, <2>2
  <2>4. BothDecode(word') => LoadFlashConfig(word', l, paged, t).type = Chip(word').type
    BY TypesAgree
  <2>5. QED
    BY <2>3, <2>4 DEF DecodedType
<1>3. CASE UNCHANGED allVars
  BY <1>3, Zenon DEF allVars, vars, configuration, DecodedType
<1>4. QED
  BY <1>1, <1>2, <1>3 DEF ConfigurationNext

\* The block count, where the length is the chip's.
LEMMA CountsAgree ==
  ASSUME NEW w, BothDecode(w), Chip(w).count \in Nat, DeviceLimit = 69206016, NEW t,
         NEW len, len = Least(ChipBytes(Chip(w)), DeviceLimit)
  PROVE  LET l == LoadFlashConfig(w, len, 528, t)
             c == Chip(w)
         IN  /\ l.blockLength = c.blockLength
             /\ l.count = Least(c.count, (DeviceLimit \div 528) \div (c.blockLength \div 512))
             /\ <<Family(w), Size(w)>> # <<2, 1>> => ConfigBlock(l) = c.reserve - 4
<1> DEFINE l == LoadFlashConfig(w, len, 528, t)
           c == Chip(w)
<1>1. w # CoronaWord
  BY DecodedCases, SMT
<1>2. (69206016 \div 528) \div (16384 \div 512) = 4096 /\ (69206016 \div 528) \div (131072 \div 512) = 512
  BY Z3
<1>3. Least(1024, 4096) = 1024 /\ Least(4096, 4096) = 4096
  BY SMT DEF Least
<1> DEFINE Agrees == /\ l.blockLength = c.blockLength
                     /\ l.count = Least(c.count, (DeviceLimit \div 528) \div (c.blockLength \div 512))
           Reserved == ConfigBlock(l) = c.reserve - 4
<1>4. CASE Family(w) = 0 /\ Size(w) = 1
  <2>1. l = Layout(16384, 1024, 992, 0) /\ c = Layout(16384, 1024, 992, 0)
    BY <1>1, <1>4, DriverDecodes, ChipDecodes, SMT
  <2>2. Agrees /\ Reserved
    BY <1>2, <1>3, <2>1, LayoutParts, SMT DEF ConfigBlock
  <2>3. QED
    BY <2>2, SMT
<1>5. CASE Family(w) = 0 /\ Size(w) = 3
  <2>1. l = Layout(16384, 4096, 3968, 0) /\ c = Layout(16384, 4096, 3968, 0)
    BY <1>1, <1>5, DriverDecodes, ChipDecodes, SMT
  <2>2. Agrees /\ Reserved
    BY <1>2, <1>3, <2>1, LayoutParts, SMT DEF ConfigBlock
  <2>3. QED
    BY <2>2, SMT
<1>6. CASE (Family(w) = 1 /\ Size(w) = 1) \/ (Family(w) = 2 /\ Size(w) = 0)
  <2>1. len = 17301504
    BY <1>6, ChipLength, SMT
  <2>2. l = Layout(16384, 1024, 992, 1) /\ c = Layout(16384, 1024, 992, 1)
    BY <1>1, <1>6, <2>1, DriverDecodes, ChipDecodes, SMT
  <2>3. Agrees /\ Reserved
    BY <1>2, <1>3, <2>2, LayoutParts, SMT DEF ConfigBlock
  <2>4. QED
    BY <2>3, SMT
<1>7. CASE Family(w) = 2 /\ Size(w) = 1
  <2>1. len = 69206016
    BY <1>7, ChipLength, SMT
  <2>2. l = Layout(16384, 4096, 992, 1) /\ c = Layout(16384, 4096, 3968, 1)
    BY <1>1, <1>7, <2>1, DriverDecodes, ChipDecodes, SMT
  <2>3. Agrees
    BY <1>2, <1>3, <2>2, LayoutParts, SMT
  <2>4. QED
    BY <1>7, <2>3, SMT
<1>8. CASE Family(w) \in {1, 2} /\ Size(w) = 2
  <2> DEFINE n == BigBytes(w) \div 131072
  <2>1. c = Layout(131072, n, 480, 2)
    BY <1>8, ChipDecodes, SMT
  <2>2. l = Layout(131072, len \div (256 * 528), 480, 2)
    BY <1>1, <1>8, DriverDecodes, SMT
  <2> HIDE DEF n
  <2>3. n \in Nat /\ c.count = n
    BY <2>1, LayoutParts, SMT
  <2>4. len = Least(n * 135168, 69206016)
    BY <1>8, <2>3, ChipLength, SMT
  <2>5. len \div (256 * 528) = Least(n, 512)
    BY <2>3, <2>4, BigCount, SMT
  <2> HIDE DEF l, c
  <2>6. l.count = Least(n, 512) /\ l.blockLength = 131072 /\ c.blockLength = 131072 /\ l.reserve = c.reserve
    BY <2>1, <2>2, <2>5, LayoutParts, SMT
  <2>7. Agrees /\ Reserved
    BY <1>2, <2>3, <2>6, SMT DEF ConfigBlock
  <2>8. QED
    BY <2>7, SMT DEF l, c
<1>9. QED
  BY <1>4, <1>5, <1>6, <1>7, <1>8, DecodedCases, SMT

\* The chip's types are those of its layouts.
LEMMA PlacesAgree ==
  ASSUME NEW t \in {0, 1, 2}
  PROVE  /\ \A f \in {"index", "bad"} : Places(t, f) = ChipPlaces(t, f)
         /\ t # 2 => Places(t, "seq") = ChipPlaces(t, "seq")
<1>1. Places(t, "index") = ChipPlaces(t, "index") /\ Places(t, "bad") = ChipPlaces(t, "bad")
  BY DEF Places, ChipPlaces
<1>2. t # 2 => Places(t, "seq") = ChipPlaces(t, "seq")
  BY DEF Places, ChipPlaces
<1>3. QED
  BY <1>1, <1>2

LEMMA DecodedTypes ==
  ASSUME NEW w, BothDecode(w)
  PROVE  Chip(w).type \in {0, 1, 2}
BY DecodedCases, ChipDecodes, LayoutParts, SMT

LEMMA AgreesWhenDecoded ==
  ASSUME DecodedType, DeviceLimit = 69206016
  PROVE  ControllerAgrees
<1> DEFINE c == Chip(word)
<1> SUFFICES ASSUME word \in ChipWords, BothDecode(word), Telling, length = Least(ChipBytes(c), DeviceLimit)
             PROVE  /\ Current.blockLength = c.blockLength /\ Current.type = c.type
                    /\ Current.count = Least(c.count, (DeviceLimit \div 528) \div (c.blockLength \div 512))
                    /\ <<Family(word), Size(word)>> # <<2, 1>> => ConfigBlock(Current) = c.reserve - 4
                    /\ \A f \in {"index", "bad"} : Places(spareType, f) = ChipPlaces(c.type, f)
                    /\ spareType # 2 => Places(spareType, "seq") = ChipPlaces(c.type, "seq")
  BY SMT DEF ControllerAgrees
<1>1. Chip(word).count \in Nat
  BY ConfigurationAssumption, SMT
<1>2. Current = LoadFlashConfig(word, length, 528, spareType)
  BY SMT DEF Current, Telling
<1>3. spareType = c.type /\ c.type \in {0, 1, 2}
  BY DecodedTypes, SMT DEF DecodedType
<1>4. Current.type = c.type
  BY <1>2, TypesAgree, SMT
<1>5. /\ Current.blockLength = c.blockLength
      /\ Current.count = Least(c.count, (DeviceLimit \div 528) \div (c.blockLength \div 512))
      /\ <<Family(word), Size(word)>> # <<2, 1>> => ConfigBlock(Current) = c.reserve - 4
  BY <1>1, <1>2, CountsAgree, SMT
<1>6. /\ \A f \in {"index", "bad"} : Places(spareType, f) = ChipPlaces(c.type, f)
      /\ spareType # 2 => Places(spareType, "seq") = ChipPlaces(c.type, "seq")
  BY <1>3, PlacesAgree, SMT
<1>7. QED
  BY <1>4, <1>5, <1>6, SMT

\* Whatever is opened from a file, made by an ini file or read from a controller: while
\* a chip's word is in use for as many bytes as are read of it, driver and controller
\* divide the flash alike, and keep number and marker of a block in the same bytes
\* (LoadFlashConfig, sfcx_init).
THEOREM DecodersAgree == ConfigurationSpec /\ DeviceLimit = 69206016 => []ControllerAgrees
<1>1. ConfigurationInit => DecodedType
  BY DecodedInit
<1>2. DecodedType /\ [ConfigurationNext]_allVars => DecodedType'
  BY DecodedStep
<1>3. CASE DeviceLimit = 69206016
  <2>1. DecodedType => ControllerAgrees
    BY <1>3, AgreesWhenDecoded
  <2>2. ConfigurationSpec => []ControllerAgrees
    BY <1>1, <1>2, <2>1, PTL DEF ConfigurationSpec
  <2>3. QED
    BY <2>2
<1>4. CASE DeviceLimit # 69206016
  BY <1>4
<1>5. QED
  BY <1>3, <1>4
-----------------------------------------------------------------------------
(* Reopening *)

\* The places at are a and c.
Only(at, a, c) == \A i \in 1..Len(at) : at[i] = a \/ at[i] = c

\* A byte beside the one or two a number is stored in.
LEMMA BesideStored ==
  ASSUME NEW s, NEW at, NEW v, NEW a, NEW c, Only(at, a, c), NEW b \in 0..15, b # a, b # c
  PROVE  Stored(s, at, v)[b] = s[b]
<1>1. \A i \in 1..Len(at) : at[i] # b
  BY DEF Only
<1>2. QED
  BY <1>1, StoredElsewhere, Zenon

\* The first digit of a number, and the second.
LEMMA FirstStored ==
  ASSUME NEW s \in Bytes, NEW at, Proper(at), NEW v \in Nat, 1 \in 1..Len(at)
  PROVE  Stored(s, at, v) \in Bytes /\ Stored(s, at, v)[at[1]] = v % 256
<1>1. Stored(s, at, v) \in Bytes /\ Stored(s, at, v)[at[1]] = Digit(v, 1)
  BY StoredAt, SMT
<1>2. QED
  BY <1>1, Powers, Digits DEF Digit

LEMMA SecondStored ==
  ASSUME NEW s \in Bytes, NEW at, Proper(at), NEW v \in Nat, 2 \in 1..Len(at)
  PROVE  Stored(s, at, v)[at[2]] = Digit(v, 2)
BY StoredAt, SMT

\* A number in one place, and in two.
OneAt(at, a)    == Proper(at) /\ Len(at) = 1 /\ at[1] = a
TwoAt(at, a, c) == Proper(at) /\ Len(at) = 2 /\ at[1] = a /\ at[2] = c

\* The bytes beside a and c are alike.
AlikeBeside(u, s, a, c) == \A b \in 0..15 : b # a /\ b # c => u[b] = s[b]

LEMMA OneStored ==
  ASSUME NEW s \in Bytes, NEW at, NEW a, OneAt(at, a), NEW v \in Nat
  PROVE  /\ Stored(s, at, v) \in Bytes /\ Stored(s, at, v)[a] = v % 256
         /\ AlikeBeside(Stored(s, at, v), s, a, a)
<1>1. Proper(at) /\ 1 \in 1..Len(at)
  BY DEF OneAt
<1>2. at[1] = a /\ Only(at, a, a)
  BY DEF Only, OneAt
<1>3. Stored(s, at, v) \in Bytes /\ Stored(s, at, v)[at[1]] = v % 256
  BY <1>1, FirstStored
<1>4. AlikeBeside(Stored(s, at, v), s, a, a)
  BY <1>2, BesideStored DEF AlikeBeside
<1>5. QED
  BY <1>2, <1>3, <1>4

LEMMA TwoStored ==
  ASSUME NEW s \in Bytes, NEW at, NEW a, NEW c, TwoAt(at, a, c), NEW v \in Nat
  PROVE  /\ Stored(s, at, v) \in Bytes
         /\ Stored(s, at, v)[a] = v % 256 /\ Stored(s, at, v)[c] = (v \div 256) % 256
         /\ AlikeBeside(Stored(s, at, v), s, a, c)
<1>1. Proper(at) /\ 1 \in 1..Len(at) /\ 2 \in 1..Len(at)
  BY DEF TwoAt
<1>2. at[1] = a /\ at[2] = c /\ Only(at, a, c)
  BY DEF Only, TwoAt
<1>3. Stored(s, at, v) \in Bytes /\ Stored(s, at, v)[at[1]] = v % 256
  BY <1>1, FirstStored
<1>4. Stored(s, at, v)[at[2]] = Digit(v, 2)
  BY <1>1, SecondStored
<1>5. Digit(v, 2) = (v \div 256) % 256
  BY Powers, SMT DEF Digit
<1>6. AlikeBeside(Stored(s, at, v), s, a, c)
  BY <1>2, BesideStored DEF AlikeBeside
<1>7. QED
  BY <1>2, <1>3, <1>4, <1>5, <1>6

\* Where a new page holds its marker and its number.
LEMMA FreshPlaces ==
  ASSUME NEW t \in {0, 1, 2}
  PROVE  /\ OneAt(Places(t, "bad"), IF t = 2 THEN 0 ELSE 5)
         /\ TwoAt(Places(t, "index"), IF t = 0 THEN 0 ELSE 1, IF t = 0 THEN 1 ELSE 2)
<1>1. Proper(Places(t, "bad")) /\ Proper(Places(t, "index"))
  BY PlacesOwned DEF Owned, SpareTypes, Fields
<1>2. Places(t, "bad") = IF t = 2 THEN <<0>> ELSE <<5>>
  BY DEF Places
<1>3. Places(t, "index") = IF t = 0 THEN <<0, 1>> ELSE <<1, 2>>
  BY DEF Places
<1>4. QED
  BY <1>1, <1>2, <1>3 DEF OneAt, TwoAt

\* What a new page says that has the number index.
LEMMA FreshBytes ==
  ASSUME NEW t \in {0, 1, 2}, NEW index \in {0, 1, 8}
  PROVE  /\ Fresh(t, index) \in Bytes
         /\ t = 0 => /\ Fresh(t, index)[0] = index /\ Fresh(t, index)[1] = 0
                     /\ Fresh(t, index)[5] = 255
         /\ t = 1 => /\ Fresh(t, index)[0] = 0 /\ Fresh(t, index)[1] = index
                     /\ Fresh(t, index)[2] = 0 /\ Fresh(t, index)[5] = 255
         /\ t = 2 => /\ Fresh(t, index)[0] = 255 /\ Fresh(t, index)[1] = index
                     /\ Fresh(t, index)[2] = 0 /\ Fresh(t, index)[5] = 0
<1> DEFINE z   == [b \in 0..15 |-> 0]
           bad == Places(t, "bad")
           num == Places(t, "index")
           m   == IF t = 2 THEN 0 ELSE 5
           a   == IF t = 0 THEN 0 ELSE 1
           c   == IF t = 0 THEN 1 ELSE 2
           s   == Stored(z, bad, 255)
           r   == Stored(s, num, index)
<1>1. z \in Bytes
  BY DEF Bytes, Byte
<1>2. \A b \in 0..15 : z[b] = 0
  OBVIOUS
<1>3. Fresh(t, index) = r
  BY DEF SetField, Fresh
<1>4. /\ index \in Nat /\ 255 \in Nat
      /\ 255 % 256 = 255 /\ index % 256 = index /\ (index \div 256) % 256 = 0
  BY Z3
<1>5. OneAt(bad, m) /\ TwoAt(num, a, c)
  BY FreshPlaces, Zenon
<1> HIDE DEF z, bad, num, m, a, c
<1>6. s \in Bytes /\ s[m] = 255 % 256 /\ AlikeBeside(s, z, m, m)
  BY <1>1, <1>4, <1>5, OneStored
<1> HIDE DEF s
<1>7. r \in Bytes /\ r[a] = index % 256 /\ r[c] = (index \div 256) % 256 /\ AlikeBeside(r, s, a, c)
  BY <1>4, <1>5, <1>6, TwoStored
<1> HIDE DEF r
<1>8. /\ r \in Bytes /\ s[m] = 255 /\ r[a] = index /\ r[c] = 0
      /\ \A b \in 0..15 : b # m => s[b] = 0
      /\ \A b \in 0..15 : b # a /\ b # c => r[b] = s[b]
  BY <1>2, <1>4, <1>6, <1>7 DEF AlikeBeside
<1>9. QED
  BY <1>3, <1>8 DEF m, a, c

\* The guess is right of a new image of small blocks and of a console's.
LEMMA GuessedRight ==
  ASSUME NEW t \in {0, 1, 2}
  PROVE  DetectSpareType(Laid(t, t = 2)) = t
<1> DEFINE s == Laid(t, t = 2)
<1>1. /\ s["small"] = Fresh(t, IF t = 2 THEN 0 ELSE 1)
      /\ s["big"] = Fresh(t, IF t = 2 THEN 1 ELSE 8)
  BY DEF Laid, Pages
<1> HIDE DEF s
<1>2. \A a, b, m : Looks(s["small"], <<a, b>>, m)
                     <=> (s["small"][b] % 16) * 256 + s["small"][a] = 1 /\ s["small"][m] = 255
  BY DEF Looks
<1>3. \A a, b, m : Looks(s["big"], <<a, b>>, m)
                     <=> (s["big"][b] % 16) * 256 + s["big"][a] = 1 /\ s["big"][m] = 255
  BY DEF Looks
<1>4. CASE t = 0
  <2>1. s["small"][0] = 1 /\ s["small"][1] = 0 /\ s["small"][5] = 255
    BY <1>1, <1>4, FreshBytes
  <2>2. Looks(s["small"], <<0, 1>>, 5)
    BY <1>2, <2>1
  <2>3. QED
    BY <1>4, <2>2 DEF DetectSpareType, s
<1>5. CASE t = 1
  <2>1. s["small"][0] = 0 /\ s["small"][1] = 1 /\ s["small"][2] = 0 /\ s["small"][5] = 255
    BY <1>1, <1>5, FreshBytes
  <2>2. ~ Looks(s["small"], <<0, 1>>, 5) /\ Looks(s["small"], <<1, 2>>, 5)
    BY <1>2, <2>1
  <2>3. QED
    BY <1>5, <2>2 DEF DetectSpareType, s
<1>6. CASE t = 2
  <2>1. s["small"][5] = 0 /\ s["big"][0] = 255 /\ s["big"][1] = 1 /\ s["big"][2] = 0
    BY <1>1, <1>6, FreshBytes
  <2>2. ~ Looks(s["small"], <<0, 1>>, 5) /\ ~ Looks(s["small"], <<1, 2>>, 5) /\ Looks(s["big"], <<1, 2>>, 0)
    BY <1>2, <1>3, <2>1
  <2>3. QED
    BY <1>6, <2>2 DEF DetectSpareType, s
<1>7. QED
  BY <1>4, <1>5, <1>6

\* The words OpenContinue picks for files of up to 64MB, and their layouts.
LEMMA PickedWords ==
  /\ Family(18448400) = 0 /\ Size(18448400) = 1 /\ Family(18448432) = 0 /\ Size(18448432) = 3
  /\ Family(143376) = 1 /\ Size(143376) = 1 /\ Family(11153440) = 1 /\ Size(11153440) = 2
BY Z3 DEF Family, Size

LEMMA PickedSmall ==
  ASSUME NEW n \in Nat, n <= 67108864, NEW t \in {0, 1, 2}, t = 2 => n > 16777216
  PROVE  Picked(n, t) = IF t = 1 THEN 143376 ELSE IF t = 2 THEN 11153440
                        ELSE IF n <= 16777216 THEN 18448400 ELSE 18448432
BY SMT DEF Picked

\* The layout the next run finds in the file.
Reread(s, len) ==
  LET o == OpenImage(s, len)
  IN  LoadFlashConfig(o.word, o.length, o.pageLength, o.type)

LEMMA RereadAs ==
  ASSUME NEW s, NEW len \in Nat, len < FileLimit, NEW t \in {0, 1, 2}, DetectSpareType(s) = t,
         (len \div 528) * 512 <= 67108864, t = 2 => (len \div 528) * 512 > 16777216
  PROVE  Reread(s, len) =
           IF t = 1 THEN Layout(16384, IF len \in {16777216, 17301504} THEN 1024 ELSE 4096, 992, 1)
           ELSE IF t = 2 THEN Layout(131072, len \div 135168, 480, 2)
           ELSE IF (len \div 528) * 512 <= 16777216 THEN Layout(16384, 1024, 992, 0)
           ELSE Layout(16384, 4096, 3968, 0)
<1> DEFINE n == (len \div 528) * 512
           w == Picked(n, t)
           o == OpenImage(s, len)
<1>1. n \in Nat
  BY Z3
<1>2. n # 178956800
  BY <1>1, Z3
<1>3. Least(len, FileLimit) = len
  BY ConfigurationAssumption, SMT DEF Least
<1>4. o = OpenContinue(s, len, 528, 0)
  BY <1>3, SMT DEF OpenImage
<1>5. o.word = w /\ o.length = len /\ o.pageLength = 528
  BY <1>2, <1>4, SMT DEF OpenContinue
<1>6. w = IF t = 1 THEN 143376 ELSE IF t = 2 THEN 11153440 ELSE IF n <= 16777216 THEN 18448400 ELSE 18448432
  BY <1>1, PickedSmall, SMT
<1> HIDE DEF w, o
<1>7. Reread(s, len) = LoadFlashConfig(w, len, 528, o.type)
  BY <1>5, SMT DEF Reread, o
<1>8. w # CoronaWord
  BY <1>6, SMT DEF CoronaWord
<1>9. 256 * 528 = 135168
  BY Z3
<1>10. CASE t = 1
  <2>1. Family(w) = 1 /\ Size(w) = 1
    BY <1>6, <1>10, PickedWords, SMT
  <2>2. LoadFlashConfig(w, len, 528, o.type)
          = Layout(16384, IF len \in {16777216, 17301504} THEN 1024 ELSE 4096, 992, 1)
    BY <1>8, <2>1, DriverDecodes, SMT
  <2>3. QED
    BY <1>7, <1>10, <2>2, SMT
<1>11. CASE t = 2
  <2>1. Family(w) = 1 /\ Size(w) = 2
    BY <1>6, <1>11, PickedWords, SMT
  <2>2. LoadFlashConfig(w, len, 528, o.type) = Layout(131072, len \div (256 * 528), 480, 2)
    BY <1>8, <2>1, DriverDecodes, SMT
  <2>3. QED
    BY <1>7, <1>9, <1>11, <2>2, SMT
<1>12. CASE t = 0
  <2>1. n <= 16777216 => Reread(s, len) = Layout(16384, 1024, 992, 0)
    BY <1>6, <1>7, <1>8, <1>12, PickedWords, DriverDecodes, SMT
  <2>2. ~ (n <= 16777216) => Reread(s, len) = Layout(16384, 4096, 3968, 0)
    BY <1>6, <1>7, <1>8, <1>12, PickedWords, DriverDecodes, SMT
  <2>3. QED
    BY <1>12, <2>1, <2>2, SMT
<1>13. QED
  BY <1>10, <1>11, <1>12

\* A dump opened once opens alike again.
LEMMA DumpedReopens ==
  ASSUME Dumped
  PROVE  ReopensAlike
<1>1. PICK d \in Dumps : Configured(OpenImage(spare, d.length))
  BY DEF Dumped
<1> DEFINE o == OpenImage(spare, d.length)
<1>2. o.length = Least(d.length, FileLimit)
  BY SMT DEF OpenImage, OpenContinue
<1>3. length = o.length /\ pageLength = o.pageLength /\ word = o.word /\ spareType = o.type
  BY <1>1, Zenon DEF Configured
<1>4. length < FileLimit => Least(length, FileLimit) = Least(d.length, FileLimit)
  BY <1>2, <1>3, ConfigurationAssumption, SMT DEF Least
<1>5. length < FileLimit => OpenImage(spare, length) = o
  BY <1>4, Zenon DEF OpenImage
<1> HIDE DEF o
<1>6. QED
  BY <1>3, <1>5, Zenon DEF ReopensAlike, Telling, Current

\* The words of a new image of small blocks, with the length that fits.
LEMMA FittingReopens ==
  ASSUME NEW s, NEW w \in Nat, NEW len \in Nat, len < FileLimit, Fitting(w, len),
         DetectSpareType(s) = LoadFlashConfig(w, len, 528, 0).type, NEW t
  PROVE  Reread(s, len) = LoadFlashConfig(w, len, 528, t)
<1> DEFINE n == (len \div 528) * 512
           T == DetectSpareType(s)
           l == LoadFlashConfig(w, len, 528, t)
           g == LoadFlashConfig(w, len, 528, 0)
<1>1. n \in Nat
  BY Z3
<1>2. Family(393216) = 3
  BY Z3 DEF Family
<1>3. \/ Family(w) = 0 /\ Size(w) = 1 /\ n <= 16777216
      \/ Family(w) = 0 /\ Size(w) = 3 /\ n > 16777216 /\ n <= 67108864
      \/ Family(w) \in {1, 2} /\ Size(w) = 0 /\ len \in {16777216, 17301504}
      \/ Family(w) \in {1, 2} /\ Size(w) = 1 /\ n <= 67108864
  BY SMT DEF Fitting
<1>4. w # CoronaWord
  BY <1>2, <1>3, SMT DEF CoronaWord
<1>5. T = g.type
  OBVIOUS
<1> HIDE DEF n, T, l, g
<1>6. CASE Family(w) = 0 /\ Size(w) = 1 /\ n <= 16777216
  <2>1. l = Layout(16384, 1024, 992, 0) /\ g = Layout(16384, 1024, 992, 0)
    BY <1>4, <1>6, DriverDecodes, SMT DEF l, g
  <2>2. T = 0
    BY <1>5, <2>1, LayoutParts, SMT
  <2>3. QED
    BY <1>1, <1>6, <2>1, <2>2, RereadAs, SMT DEF n, T, l
<1>7. CASE Family(w) = 0 /\ Size(w) = 3 /\ n > 16777216 /\ n <= 67108864
  <2>1. l = Layout(16384, 4096, 3968, 0) /\ g = Layout(16384, 4096, 3968, 0)
    BY <1>4, <1>7, DriverDecodes, SMT DEF l, g
  <2>2. T = 0
    BY <1>5, <2>1, LayoutParts, SMT
  <2>3. QED
    BY <1>1, <1>7, <2>1, <2>2, RereadAs, SMT DEF n, T, l
<1>8. CASE Family(w) \in {1, 2} /\ Size(w) = 0 /\ len \in {16777216, 17301504}
  <2>1. l = Layout(16384, 1024, 992, 1) /\ g = Layout(16384, 1024, 992, 1)
    BY <1>4, <1>8, DriverDecodes, SMT DEF l, g
  <2>2. T = 1
    BY <1>5, <2>1, LayoutParts, SMT
  <2>3. n <= 67108864
    BY <1>8, SMT DEF n
  <2>4. QED
    BY <1>1, <1>8, <2>1, <2>2, <2>3, RereadAs, SMT DEF n, T, l
<1>9. CASE Family(w) \in {1, 2} /\ Size(w) = 1 /\ n <= 67108864
  <2>1. /\ l = Layout(16384, IF len \in {16777216, 17301504} THEN 1024 ELSE 4096, 992, 1)
        /\ g = Layout(16384, IF len \in {16777216, 17301504} THEN 1024 ELSE 4096, 992, 1)
    BY <1>4, <1>9, DriverDecodes, SMT DEF l, g
  <2>2. T = 1
    BY <1>5, <2>1, LayoutParts, SMT
  <2>3. QED
    BY <1>1, <1>9, <2>1, <2>2, RereadAs, SMT DEF n, T, l
<1>10. QED
  BY <1>3, <1>6, <1>7, <1>8, <1>9, SMT DEF l

\* A chip both decoders know, read up to the limit, with big blocks from 32MB on.
LEMMA ChipReopens ==
  ASSUME NEW s, NEW w \in ChipWords, BothDecode(w), Size(w) = 2 => Chip(w).count >= 256,
         DeviceLimit = 69206016, NEW len \in Nat, len < FileLimit,
         len = Least(ChipBytes(Chip(w)), DeviceLimit), DetectSpareType(s) = Chip(w).type, NEW t
  PROVE  Reread(s, len) = LoadFlashConfig(w, len, 528, t)
<1> DEFINE T == DetectSpareType(s)
           l == LoadFlashConfig(w, len, 528, t)
           c == Chip(w)
<1>1. c.count \in Nat
  BY ConfigurationAssumption, SMT
<1>2. T = c.type
  OBVIOUS
<1>3. /\ Family(w) = 0 /\ Size(w) = 1 => len = 17301504
      /\ Family(w) = 0 /\ Size(w) = 3 => len = 69206016
      /\ Family(w) = 1 /\ Size(w) = 1 => len = 17301504
      /\ Family(w) = 2 /\ Size(w) = 0 => len = 17301504
      /\ Family(w) = 2 /\ Size(w) = 1 => len = 69206016
      /\ Family(w) \in {1, 2} /\ Size(w) = 2 => len = Least(c.count * 135168, 69206016)
  BY <1>1, ChipLength, SMT
<1>4. (17301504 \div 528) * 512 = 16777216 /\ (69206016 \div 528) * 512 = 67108864
  BY Z3
<1> HIDE DEF T, l, c
<1>5. CASE Family(w) = 0 /\ Size(w) = 1
  <2>1. l = Layout(16384, 1024, 992, 0) /\ c = Layout(16384, 1024, 992, 0)
    BY <1>5, DecodedCases, DriverDecodes, ChipDecodes, SMT DEF l, c
  <2>2. T = 0
    BY <1>2, <2>1, LayoutParts, SMT
  <2>3. QED
    BY <1>3, <1>4, <1>5, <2>1, <2>2, RereadAs, SMT DEF T, l
<1>6. CASE Family(w) = 0 /\ Size(w) = 3
  <2>1. l = Layout(16384, 4096, 3968, 0) /\ c = Layout(16384, 4096, 3968, 0)
    BY <1>6, DecodedCases, DriverDecodes, ChipDecodes, SMT DEF l, c
  <2>2. T = 0
    BY <1>2, <2>1, LayoutParts, SMT
  <2>3. QED
    BY <1>3, <1>4, <1>6, <2>1, <2>2, RereadAs, SMT DEF T, l
<1>7. CASE (Family(w) = 1 /\ Size(w) = 1) \/ (Family(w) = 2 /\ Size(w) = 0)
  <2>1. len = 17301504
    BY <1>3, <1>7, SMT
  <2>2. l = Layout(16384, 1024, 992, 1) /\ c = Layout(16384, 1024, 992, 1)
    BY <1>7, <2>1, DecodedCases, DriverDecodes, ChipDecodes, SMT DEF l, c
  <2>3. T = 1
    BY <1>2, <2>2, LayoutParts, SMT
  <2>4. QED
    BY <1>4, <2>1, <2>2, <2>3, RereadAs, SMT DEF T, l
<1>8. CASE Family(w) = 2 /\ Size(w) = 1
  <2>1. len = 69206016
    BY <1>3, <1>8, SMT
  <2>2. l = Layout(16384, 4096, 992, 1) /\ c.type = 1
    BY <1>8, <2>1, DecodedCases, DriverDecodes, ChipDecodes, LayoutParts, SMT DEF l, c
  <2>3. T = 1
    BY <1>2, <2>2, SMT
  <2>4. QED
    BY <1>4, <2>1, <2>2, <2>3, RereadAs, SMT DEF T, l
<1>9. CASE Family(w) \in {1, 2} /\ Size(w) = 2
  <2> DEFINE n == (len \div 528) * 512
  <2>1. l = Layout(131072, len \div (256 * 528), 480, 2) /\ c.type = 2
    BY <1>9, DecodedCases, DriverDecodes, ChipDecodes, LayoutParts, SMT DEF l, c
  <2>2. T = 2
    BY <1>2, <2>1, SMT
  <2>3. len >= 34603008 /\ len <= 69206016
    BY <1>1, <1>3, <1>9, SMT DEF Least, c
  <2>4. n <= 67108864 /\ n > 16777216
    BY <2>3, SMT
  <2>5. 256 * 528 = 135168
    BY Z3
  <2>6. QED
    BY <2>1, <2>2, <2>4, <2>5, RereadAs, SMT DEF T, l
<1>10. QED
  BY <1>5, <1>6, <1>7, <1>8, <1>9, DecodedCases, SMT DEF l

LEMMA BeginsReadable ==
  ASSUME ConfigurationInit, Consistent
  PROVE  ReopensAlike
<1>1. CASE Dumped
  BY <1>1, DumpedReopens
<1>2. CASE Created
  <2>1. PICK d \in Descriptions :
          /\ length = d.length /\ pageLength = d.pageLength /\ word = d.word
          /\ spareType = LoadFlashConfig(d.word, d.length, d.pageLength, 0).type
    BY <1>2 DEF Created, Configured
  <2>2. source = "created" /\ spare = Laid(spareType, FALSE)
    BY <1>2 DEF Created
  <2>3. d.length \in Nat /\ d.word \in Nat
    BY ConfigurationAssumption
  <2> SUFFICES ASSUME Telling
               PROVE  Reread(spare, length) = Current
    BY DEF ReopensAlike, Reread
  <2>4. pageLength = 528 /\ length < FileLimit /\ spareType \in {0, 1}
    BY <2>2 DEF Telling
  <2>5. DetectSpareType(spare) = spareType
    <3>1. CASE spareType = 0
      <4>1. spare = Laid(0, FALSE) /\ (0 = 2) = FALSE
        BY <2>2, <3>1
      <4>2. QED
        BY <3>1, <4>1, GuessedRight
    <3>2. CASE spareType = 1
      <4>1. spare = Laid(1, FALSE) /\ (1 = 2) = FALSE
        BY <2>2, <3>2
      <4>2. QED
        BY <3>2, <4>1, GuessedRight
    <3>3. QED
      BY <2>4, <3>1, <3>2
  <2>6. spareType = LoadFlashConfig(word, length, 528, 0).type
    BY <2>1, <2>4
  <2>7. d.pageLength = 528 /\ LoadFlashConfig(d.word, d.length, 528, 0).type \in {0, 1}
    BY <2>1, <2>4
  <2>8. Fitting(word, length)
    BY <2>1, <2>7 DEF Consistent
  <2>9. Current = LoadFlashConfig(word, length, 528, spareType)
    BY <2>4 DEF Current
  <2>10. word \in Nat /\ length \in Nat
    BY <2>1, <2>3
  <2>11. QED
    BY <2>4, <2>5, <2>6, <2>8, <2>9, <2>10, FittingReopens, SMT
<1>3. CASE Attached
  <2>1. PICK w \in ChipWords :
          /\ spare = Laid(Chip(w).type, Chip(w).type = 2)
          /\ Configured(OpenDevice(spare, w))
    BY <1>3 DEF Attached
  <2>2. BothDecode(w) /\ (Size(w) = 2 => Chip(w).count >= 256) /\ DeviceLimit = 69206016
    BY DEF Consistent
  <2>3. w # 0
    <3>1. Family(0) = 0 /\ Size(0) = 0
      BY Z3 DEF Family, Size
    <3>2. QED
      BY <2>2, <3>1, DecodedCases, SMT
  <2>4. DetectSpareType(spare) = Chip(w).type
    BY <2>1, <2>2, DecodedTypes, GuessedRight, SMT
  <2> DEFINE len == Least(ChipBytes(Chip(w)), DeviceLimit)
             o   == OpenContinue(spare, len, 528, w)
  <2>5. len \in Nat
    <3>1. ChipBytes(Chip(w)) \in Nat /\ DeviceLimit \in Nat
      BY ConfigurationAssumption, SMT
    <3>2. QED
      BY <3>1, SMT DEF Least
  <2>6. /\ o.length = len /\ o.pageLength = 528 /\ o.word = w
    BY <2>3, SMT DEF OpenContinue
  <2>7. length = o.length /\ pageLength = o.pageLength /\ word = o.word
    BY <2>1, SMT DEF Configured, OpenDevice
  <2> HIDE DEF len, o
  <2>8. length = len /\ pageLength = 528 /\ word = w
    BY <2>6, <2>7, SMT
  <2>9. length < FileLimit => Reread(spare, length) = LoadFlashConfig(w, length, 528, spareType)
    BY <2>2, <2>4, <2>5, <2>8, ChipReopens, SMT DEF len
  <2>10. QED
    BY <2>8, <2>9, SMT DEF ReopensAlike, Telling, Current, Reread
<1>4. QED
  BY <1>1, <1>2, <1>3 DEF ConfigurationInit

\* Neither the guess nor the length puts an image into another layout: what a run of
\* the program saves, with whatever saves and error codes in its spare bytes, the next
\* run opens with the same block length, count, reserve and spare type.  The images are
\* created with a length that fits their word, dumped from any console, or read from a
\* chip both decoders know.
THEOREM StaysReadable == ConfigurationSpec /\ Consistent => []ReopensAlike
<1>1. Consistent /\ ConfigurationInit => ReopensAlike
  BY BeginsReadable
<1>2. ConfigurationTypeOK /\ ReopensAlike /\ [ConfigurationNext]_allVars => ReopensAlike'
  BY ReopenedStep
<1>3. QED
  BY <1>1, <1>2, ConfigurationTypeCorrect, PTL DEF ConfigurationSpec
=============================================================================
