-------------------------- MODULE ImageParts_proofs --------------------------
(***************************************************************************)
(* Proofs about ImageParts: what is read from files and images, turned and *)
(* written again stays a loader, a vault or an image, a dump tells the     *)
(* truth about what it holds, and an ini file leads to the files it means. *)
(***************************************************************************)
EXTENDS ImageParts, TLAPS

-----------------------------------------------------------------------------
(* Loaders: Load and Save change the keys a loader is encrypted under,     *)
(* never what it is.                                                       *)

\* A place of bl[l] holds the loader l, or bytes that are not taken for one.
SoundPlace(l, m) ==
  /\ m = [part |-> m.part, plain |-> m.plain, rc4 |-> m.rc4, byCpu |-> m.byCpu]
  /\ m.plain \in BOOLEAN /\ m.byCpu \in BOOLEAN
  /\ Fields(m.part) /\ (m.part.magic # "none" => SoundLoader(m.part))
  /\ isValid(l, m) => Letter(m.part.text) = Letter(l)

\* n is m, turned.
Turned(m, n) ==
  /\ n = [part |-> n.part, plain |-> n.plain, rc4 |-> n.rc4, byCpu |-> n.byCpu]
  /\ n.plain \in BOOLEAN /\ n.byCpu \in BOOLEAN
  /\ n.part = [m.part EXCEPT !.under = n.part.under]

SoundPlaces(bl) == bl = [l \in Ids |-> bl[l]] /\ \A l \in Ids : SoundPlace(l, bl[l])

\* What is turned stays what it is.
LEMMA TurnedSound ==
  ASSUME NEW l, NEW m, NEW n, SoundPlace(l, m), Turned(m, n)
  PROVE  SoundPlace(l, n) /\ n.part.magic = m.part.magic /\ n.part.len = m.part.len
         /\ n.part.text = m.part.text
<1>1. Fields(m.part)
  BY DEF SoundPlace
<1>2. /\ n.part.magic = m.part.magic /\ n.part.text = m.part.text /\ n.part.len = m.part.len
      /\ n.part.digest = m.part.digest /\ n.part.used = m.part.used /\ Fields(n.part)
  BY <1>1 DEF Fields, Turned
<1>3. m.part.magic # "none" => SoundLoader(n.part)
  BY <1>2 DEF SoundPlace, SoundLoader
<1> QED
  BY <1>2, <1>3 DEF SoundPlace, Turned, isValid

\* Turning twice is turning.
LEMMA TurnedTwice ==
  ASSUME NEW m, NEW n, NEW o, Fields(m.part), Turned(m, n), Turned(n, o)
  PROVE  Turned(m, o)
BY DEF Fields, Turned

\* Crypt turns a loader.
LEMMA CryptTurns ==
  ASSUME NEW l, NEW m, NEW prev, NEW cpu, NEW bl2, Fields(m.part), Turned(m, m)
  PROVE  Turned(m, Crypt(l, m, prev, cpu, bl2))
<1> DEFINE key == CryptKey(l, m, prev, cpu, bl2)
<1>1. Crypt(l, m, prev, cpu, bl2) = [m EXCEPT !.part = Rc4(m.part, key), !.rc4 = key]
  BY DEF Crypt
<1> HIDE DEF key
<1> QED
  BY <1>1 DEF Fields, Turned, Rc4

\* Load(false) turns a loader.
LEMMA TakenTurns ==
  ASSUME NEW l, NEW m, Fields(m.part), Turned(m, m)
  PROVE  Turned(m, Taken(l, m))
<1> DEFINE plain == IF l \in {"1BL", "3BL"} THEN m.plain ELSE TRUE
           rc4   == IF l = "1BL" THEN KeptKey(m.part) ELSE m.rc4
<1>1. Taken(l, m) = [m EXCEPT !.plain = plain, !.rc4 = rc4]
  BY DEF Taken
<1>2. plain \in BOOLEAN
  BY DEF Turned
<1> HIDE DEF plain, rc4
<1>3. Taken(l, m) = [part |-> m.part, plain |-> plain, rc4 |-> rc4, byCpu |-> m.byCpu]
  BY <1>1 DEF Turned
<1> QED
  BY <1>2, <1>3 DEF Fields, Turned

\* A flag is not what a loader is.
LEMMA FlagsTurn ==
  ASSUME NEW m, NEW byCpu \in BOOLEAN, NEW plain \in BOOLEAN, Fields(m.part), Turned(m, m)
  PROVE  Turned(m, [m EXCEPT !.byCpu = byCpu, !.plain = plain]) /\ Turned(m, [m EXCEPT !.plain = plain])
<1>1. [m EXCEPT !.byCpu = byCpu, !.plain = plain] =
        [part |-> m.part, plain |-> plain, rc4 |-> m.rc4, byCpu |-> byCpu]
  <2> DEFINE n == [m EXCEPT !.byCpu = byCpu]
  <2>1. n = [part |-> m.part, plain |-> m.plain, rc4 |-> m.rc4, byCpu |-> byCpu]
    BY DEF Turned
  <2> HIDE DEF n
  <2>2. [n EXCEPT !.plain = plain] = [part |-> m.part, plain |-> plain, rc4 |-> m.rc4, byCpu |-> byCpu]
    BY <2>1
  <2> QED
    BY <2>2 DEF n
<1>2. [m EXCEPT !.plain = plain] = [part |-> m.part, plain |-> plain, rc4 |-> m.rc4, byCpu |-> m.byCpu]
  BY DEF Turned
<1>3. Turned(m, [part |-> m.part, plain |-> plain, rc4 |-> m.rc4, byCpu |-> byCpu])
  BY DEF Fields, Turned
<1>4. Turned(m, [part |-> m.part, plain |-> plain, rc4 |-> m.rc4, byCpu |-> m.byCpu])
  BY DEF Fields, Turned
<1> QED
  BY <1>1, <1>2, <1>3, <1>4

\* What has been turned can be turned on.
LEMMA TurnedOn ==
  ASSUME NEW m, NEW n, Fields(m.part), Turned(m, n)
  PROVE  Fields(n.part) /\ Turned(n, n)
BY DEF Fields, Turned

\* Load of an encrypted 4BL, in all its tries.
LEMMA Load4BLTurns ==
  ASSUME NEW m, NEW prev, NEW cpu, NEW bl2, Fields(m.part), Turned(m, m)
  PROVE  Turned(m, Load4BL(m, prev, cpu, bl2))
<1> DEFINE first  == Crypt("4BL", m, prev, cpu, bl2)
           again  == [first EXCEPT !.byCpu = TRUE, !.plain = FALSE]
           second == Crypt("4BL", again, prev, cpu, bl2)
<1>1. Load4BL(m, prev, cpu, bl2) \in
        {Taken("4BL", first), [first EXCEPT !.plain = FALSE], Taken("4BL", second), second}
  BY DEF Load4BL
<1>2. Turned(m, first)
  BY CryptTurns
<1>3. Fields(first.part) /\ Turned(first, first)
  BY <1>2, TurnedOn
<1> HIDE DEF first
<1>4. Turned(first, again)
  BY <1>3, FlagsTurn
<1>5. Fields(again.part) /\ Turned(again, again)
  BY <1>3, <1>4, TurnedOn
<1>6. Turned(first, second)
  <2> HIDE DEF again
  <2> QED
    BY <1>3, <1>4, <1>5, CryptTurns, TurnedTwice
<1> HIDE DEF again
<1>7. Turned(m, second) /\ Fields(second.part) /\ Turned(second, second)
  BY <1>2, <1>3, <1>6, TurnedTwice, TurnedOn
<1> HIDE DEF second
<1>8. Turned(m, Taken("4BL", first)) /\ Turned(m, Taken("4BL", second))
  BY <1>2, <1>3, <1>7, TakenTurns, TurnedTwice
<1>9. Turned(m, [first EXCEPT !.plain = FALSE])
  BY <1>2, <1>3, FlagsTurn, TurnedTwice
<1> QED
  BY <1>1, <1>7, <1>8, <1>9

\* Load and Save turn a loader.
LEMMA LoadTurns ==
  ASSUME NEW l, NEW m, NEW prev, NEW cpu, NEW bl2, Fields(m.part), Turned(m, m)
  PROVE  Turned(m, Load(l, m, prev, cpu, bl2)) /\ Turned(m, Save(l, m, prev, cpu, bl2))
<1> DEFINE n == Crypt(l, m, prev, cpu, bl2)
<1>1. Turned(m, n) /\ Fields(n.part) /\ Turned(n, n)
  BY CryptTurns, TurnedOn
<1>2. Turned(m, Save(l, m, prev, cpu, bl2))
  BY <1>1 DEF Save
<1> HIDE DEF n
<1>3. Turned(m, Taken(l, n)) /\ Turned(m, Taken(l, m))
  BY <1>1, TakenTurns, TurnedTwice
<1>4. Turned(m, Load4BL(m, prev, cpu, bl2))
  BY Load4BLTurns
<1> QED
  BY <1>2, <1>3, <1>4 DEF Load, n

\* A place gets the loader that was in it, turned.
LEMMA PlaceSet ==
  ASSUME NEW bl, SoundPlaces(bl), NEW l \in Ids, NEW n, SoundPlace(l, n)
  PROVE  SoundPlaces([bl EXCEPT ![l] = n])
BY DEF SoundPlaces


-----------------------------------------------------------------------------
(* LoadBootloaders *)

SoundWork(w) ==
  /\ w = [image |-> w.image, bl |-> w.bl, at |-> w.at, prev |-> w.prev, ret |-> w.ret]
  /\ SoundPlaces(w.bl) /\ SoundImage(w.image)

\* The two 2BL are told apart by their place alone.
Positioned(i, l, at) ==
  /\ l = "2BL" => i.beta \/ at = Entry
  /\ l = "2BL_B" => ~ i.beta /\ at # Entry

\* No magic is "none", and loaders of one magic but the two 2BL share a letter.
LEMMA MagicLetter ==
  ASSUME NEW l \in Ids, NEW t \in Ids
  PROVE  /\ Magic(l) # "none"
         /\ Magic(t) = Magic(l) => Letter(t) = Letter(l) \/ {l, t} = {"2BL", "2BL_B"}
<1>1. Magic(l) # "none"
  BY DEF Ids, Magic
<1>2. CASE l \in {"2BL", "2BL_B"}
  BY <1>1, <1>2 DEF Ids, Magic, Letter
<1>3. CASE l \in {"6BL", "6BL_B"}
  BY <1>1, <1>3 DEF Ids, Magic, Letter
<1>4. CASE l \in {"7BL", "7BL_B"}
  BY <1>1, <1>4 DEF Ids, Magic, Letter
<1>5. CASE l \in {"1BL", "3BL", "4BL", "5BL"}
  BY <1>1, <1>5 DEF Ids, Magic, Letter
<1> QED
  BY <1>2, <1>3, <1>4, <1>5 DEF Ids

\* What is read as a header at an address.
LEMMA HeaderSound ==
  ASSUME NEW i, NEW at, SoundImage(i)
  PROVE  /\ Fields(Header(i, at))
         /\ Header(i, at).magic # "none" => SoundLoader(Header(i, at)) /\ at \in DOMAIN i.cells
<1>1. CASE at \in DOMAIN i.cells
  BY <1>1 DEF Header, SoundImage, SoundCells, SoundLoader
<1>2. CASE at \notin DOMAIN i.cells
  BY <1>2 DEF Header, SoundImage, Nothing, Part, Fields
<1> QED
  BY <1>1, <1>2

\* A header read where its loader is looked for.
LEMMA ReadSound ==
  ASSUME NEW i, NEW at, NEW l \in Ids, NEW m, SoundImage(i), Positioned(i, l, at), SoundPlace(l, m)
  PROVE  LET n == [m EXCEPT !.part = Header(i, at)]
         IN  SoundPlace(l, n) /\ n.part = Header(i, at) /\ Turned(n, n)
<1> DEFINE p == Header(i, at)
           n == [m EXCEPT !.part = p]
<1>1. Fields(p) /\ (p.magic # "none" => SoundLoader(p) /\ at \in DOMAIN i.cells)
  BY HeaderSound
<1>2. p.magic = Magic(l) => Letter(p.text) = Letter(l)
  <2> SUFFICES ASSUME p.magic = Magic(l) PROVE Letter(p.text) = Letter(l)
    OBVIOUS
  <2>1. p.magic # "none" /\ SoundLoader(p) /\ at \in DOMAIN i.cells
    BY <1>1, MagicLetter
  <2>2. p.text \in Ids /\ Magic(p.text) = Magic(l)
    BY <2>1 DEF SoundLoader
  <2>3. p = i.cells[at]
    BY <2>1 DEF Header
  <2>4. {l, p.text} = {"2BL", "2BL_B"} => p.text = l
    BY <2>1, <2>3 DEF SoundImage, SoundCells, Positioned
  <2> QED
    BY <2>2, <2>4, MagicLetter
<1> HIDE DEF p
<1>3. n = [part |-> p, plain |-> m.plain, rc4 |-> m.rc4, byCpu |-> m.byCpu]
  BY DEF SoundPlace
<1>4. SoundPlace(l, n) /\ n.part = p
  <2> HIDE DEF n
  <2> QED
    BY <1>1, <1>2, <1>3 DEF SoundPlace, isValid
<1>5. Turned(n, n)
  <2> HIDE DEF n
  <2> QED
    BY <1>4 DEF SoundPlace, Turned, Fields
<1> QED
  BY <1>4, <1>5 DEF p


\* A loader is taken from its address, or its place shows that none is there.
LEMMA LoadBootloaderSound ==
  ASSUME NEW cpu, NEW w, NEW l \in Ids, SoundWork(w), Positioned(w.image, l, w.at)
  PROVE  LET v == LoadBootloader(cpu, w, l)
             p == Header(w.image, w.at)
         IN  /\ SoundWork(v) /\ v.image = w.image
             /\ \/ p.magic = Magic(l) /\ v.at = w.at + Advance(p.len) /\ v.ret = w.ret
                \/ v.at = w.at /\ v.ret = 2
<1> DEFINE p == Header(w.image, w.at)
           m == [w.bl[l] EXCEPT !.part = p]
           n == Load(l, m, w.prev, cpu, w.bl["2BL"])
           v == LoadBootloader(cpu, w, l)
<1>1. SoundPlace(l, m) /\ m.part = p /\ Turned(m, m)
  BY ReadSound DEF SoundWork, SoundPlaces
<1>2. v = IF isValid(l, m)
          THEN [w EXCEPT !.bl[l] = n, !.at = @ + Advance(m.part.len), !.prev = n.rc4]
          ELSE [w EXCEPT !.bl[l] = m, !.ret = 2]
  BY DEF LoadBootloader
<1> HIDE DEF m, p, v
<1>3. Turned(m, n)
  BY <1>1, LoadTurns DEF SoundPlace
<1> HIDE DEF n
<1>4. SoundPlace(l, n)
  BY <1>1, <1>3, TurnedSound
<1>5. CASE isValid(l, m)
  <2>1. v = [image |-> w.image, bl |-> [w.bl EXCEPT ![l] = n], at |-> w.at + Advance(p.len),
             prev |-> n.rc4, ret |-> w.ret]
    BY <1>1, <1>2, <1>5 DEF SoundWork
  <2>2. p.magic = Magic(l)
    BY <1>1, <1>5 DEF isValid
  <2>3. SoundPlaces([w.bl EXCEPT ![l] = n])
    BY <1>4, PlaceSet DEF SoundWork
  <2> QED
    BY <2>1, <2>2, <2>3 DEF SoundWork, v, p
<1>6. CASE ~ isValid(l, m)
  <2>1. v = [image |-> w.image, bl |-> [w.bl EXCEPT ![l] = m], at |-> w.at, prev |-> w.prev, ret |-> 2]
    BY <1>1, <1>2, <1>6 DEF SoundWork
  <2>2. SoundPlaces([w.bl EXCEPT ![l] = m])
    BY <1>1, PlaceSet DEF SoundWork
  <2> QED
    BY <2>1, <2>2 DEF SoundWork, v, p
<1> QED
  BY <1>5, <1>6


\* A new place and key change nothing else of the work.
LEMMA WorkMoved ==
  ASSUME NEW w, NEW at, NEW prev, SoundWork(w)
  PROVE  /\ [w EXCEPT !.prev = prev] =
              [image |-> w.image, bl |-> w.bl, at |-> w.at, prev |-> prev, ret |-> w.ret]
         /\ [w EXCEPT !.at = at] =
              [image |-> w.image, bl |-> w.bl, at |-> at, prev |-> w.prev, ret |-> w.ret]
<1>1. [w EXCEPT !.prev = prev] = [image |-> w.image, bl |-> w.bl, at |-> w.at, prev |-> prev, ret |-> w.ret]
  BY DEF SoundWork
<1>2. [w EXCEPT !.at = at] = [image |-> w.image, bl |-> w.bl, at |-> at, prev |-> w.prev, ret |-> w.ret]
  BY DEF SoundWork
<1> QED
  BY <1>1, <1>2

\* A step of the chain leaves the image alone; it stays where it is, or goes behind
\* a loader that is one.
LEMMA LoadStepSound ==
  ASSUME NEW cpu, NEW w, NEW l \in Ids, SoundWork(w),
         w.ret = 0 /\ Asked(w.image, cpu, w.bl, l) => Positioned(w.image, l, w.at)
  PROVE  LET v == LoadStep(cpu, w, l)
         IN  /\ SoundWork(v) /\ v.image = w.image
             /\ w.ret # 0 \/ ~ Asked(w.image, cpu, w.bl, l) => v = w
             /\ w.ret = 0 /\ Asked(w.image, cpu, w.bl, l) =>
                  v.ret # 0 \/ \E n \in Nat \ {0} : v.at = w.at + Advance(n)
<1> DEFINE u == [w EXCEPT !.prev = PrevKey(w, l)]
           v == LoadStep(cpu, w, l)
           p == Header(w.image, w.at)
<1>1. CASE w.ret = 0 /\ Asked(w.image, cpu, w.bl, l)
  <2>1. u = [image |-> w.image, bl |-> w.bl, at |-> w.at, prev |-> PrevKey(w, l), ret |-> w.ret]
    BY WorkMoved
  <2>2. v = LoadBootloader(cpu, u, l)
    BY <1>1 DEF LoadStep
  <2> HIDE DEF u, v
  <2>3. SoundWork(u) /\ Positioned(u.image, l, u.at) /\ u.image = w.image /\ u.at = w.at /\ u.ret = w.ret
    BY <2>1, <1>1 DEF SoundWork
  <2>4. /\ SoundWork(v) /\ v.image = w.image
        /\ (p.magic = Magic(l) /\ v.at = w.at + Advance(p.len)) \/ v.ret = 2
    BY <2>2, <2>3, LoadBootloaderSound
  <2>5. p.magic = Magic(l) => p.len \in Nat \ {0}
    <3> HIDE DEF p
    <3>1. p.magic # "none" => SoundLoader(p)
      BY HeaderSound DEF SoundWork, p
    <3> QED
      BY <3>1, MagicLetter DEF SoundLoader, Fields
  <2> QED
    BY <1>1, <2>4, <2>5 DEF v
<1>2. CASE ~ (w.ret = 0 /\ Asked(w.image, cpu, w.bl, l))
  BY <1>2 DEF LoadStep
<1> QED
  BY <1>1, <1>2

\* Rounding up leads on.
LEMMA AdvanceBounds ==
  ASSUME NEW n \in Nat \ {0}
  PROVE  Advance(n) \in Nat \ {0}
BY DEF Advance, RoundUp

\* The whole chain: the second 2BL is looked for behind the first.
LEMMA LoadChainSound ==
  ASSUME NEW i, NEW cpu, NEW key, NEW bl, SoundImage(i), SoundPlaces(bl), i.beta => cpu = "null"
  PROVE  SoundWork(LoadChain(i, cpu, key, bl)) /\ LoadChain(i, cpu, key, bl).image = i
<1> DEFINE w0 == Work(i, bl, IF i.beta THEN BetaEntry ELSE Entry, key)
           w1 == LoadStep(cpu, w0, "1BL")
           w2 == LoadStep(cpu, w1, "2BL")
           w3 == LoadStep(cpu, w2, "2BL_B")
           w4 == LoadStep(cpu, w3, "3BL")
           w5 == LoadStep(cpu, w4, "4BL")
           w6 == LoadStep(cpu, w5, "5BL")
<1>0. LoadChain(i, cpu, key, bl) = w6
  BY DEF LoadChain
<1>1. SoundWork(w0) /\ w0.image = i /\ (~ i.beta => w0.at = Entry) /\ w0.ret = 0
  BY DEF Work, SoundWork
<1> HIDE DEF w0
<1>2. SoundWork(w1) /\ w1.image = i /\ (~ i.beta => w1 = w0)
  BY <1>1, LoadStepSound DEF Positioned, Asked, Ids
<1> HIDE DEF w1
<1>3. SoundWork(w2) /\ w2.image = i /\ (~ i.beta /\ w2.ret = 0 => w2.at # Entry)
  <2>1. Positioned(i, "2BL", w1.at) /\ "2BL" \in Ids /\ Asked(i, cpu, w1.bl, "2BL")
    BY <1>1, <1>2 DEF Positioned, Ids, Asked
  <2>2. /\ SoundWork(w2) /\ w2.image = i
        /\ w1.ret = 0 => w2.ret # 0 \/ \E n \in Nat \ {0} : w2.at = w1.at + Advance(n)
    BY <1>2, <2>1, LoadStepSound
  <2> HIDE DEF w2
  <2> QED
    BY <1>1, <1>2, <2>2, AdvanceBounds, AddressAssumption
<1> HIDE DEF w2
<1>4. SoundWork(w3) /\ w3.image = i
  <2>1. w2.ret = 0 /\ Asked(i, cpu, w2.bl, "2BL_B") => Positioned(i, "2BL_B", w2.at)
    BY <1>3 DEF Positioned, Asked, SoundImage
  <2> QED
    BY <1>3, <2>1, LoadStepSound DEF Ids
<1> HIDE DEF w3
<1>5. SoundWork(w4) /\ w4.image = i
  BY <1>4, LoadStepSound DEF Positioned, Ids
<1> HIDE DEF w4
<1>6. SoundWork(w5) /\ w5.image = i
  BY <1>5, LoadStepSound DEF Positioned, Ids
<1> HIDE DEF w5
<1>7. SoundWork(w6) /\ w6.image = i
  BY <1>6, LoadStepSound DEF Positioned, Ids
<1> HIDE DEF w6
<1> QED
  BY <1>0, <1>7


\* The update slots.
LEMMA SlotLoaders ==
  ASSUME NEW i \in Slots
  PROVE  /\ {Six(i), Seven(i)} \subseteq Ids \ {"2BL", "2BL_B"}
         /\ Magic(Six(i)) = "6BL" /\ Magic(Seven(i)) = "7BL" /\ Six(i) # Seven(i)
         /\ i = 1 \/ i = 2
BY DEF Slots, Six, Seven, Ids, Magic

LEMMA Load6BLSound ==
  ASSUME NEW cpu, NEW key, NEW w, NEW i \in Slots, SoundWork(w)
  PROVE  SoundWork(Load6BL(cpu, key, w, i)) /\ Load6BL(cpu, key, w, i).image = w.image
<1> DEFINE at == Sys + (i - 1) * Slot
           v == [w EXCEPT !.at = at]
           u == [v EXCEPT !.prev = key]
<1>0. Load6BL(cpu, key, w, i) = LoadBootloader(cpu, u, Six(i))
  BY DEF Load6BL
<1> HIDE DEF at
<1>1. u = [image |-> w.image, bl |-> w.bl, at |-> at, prev |-> key, ret |-> w.ret]
  <2>1. v = [image |-> w.image, bl |-> w.bl, at |-> at, prev |-> w.prev, ret |-> w.ret]
    BY WorkMoved
  <2> HIDE DEF v
  <2> QED
    BY <2>1
<1> HIDE DEF u
<1>2. SoundWork(u) /\ u.image = w.image
  BY <1>1 DEF SoundWork
<1>3. Positioned(u.image, Six(i), u.at) /\ Six(i) \in Ids
  BY SlotLoaders DEF Positioned
<1> QED
  BY <1>0, <1>2, <1>3, LoadBootloaderSound

\* Blocks of the wrong file, or of the wrong places, are what a wrong key makes of
\* the right ones: the 7BL is turned.
LEMMA Load7BLSound ==
  ASSUME NEW cpu, NEW w, NEW i \in Slots, SoundWork(w)
  PROVE  SoundWork(Load7BL(cpu, w, i)) /\ Load7BL(cpu, w, i).image = w.image
<1> DEFINE l   == Seven(i)
           six == w.bl[Six(i)]
           at  == w.at + six.part.len
           p   == Header(w.image, at)
           m   == [w.bl[l] EXCEPT !.part = p]
           q   == Joined(w.image, six.part, m.part, i)
           o   == [m EXCEPT !.part = q]
           n   == Load(l, o, Inner(six, "7BL"), cpu, w.bl["2BL"])
           x   == IF isValid(l, m) THEN n ELSE m
           v   == Load7BL(cpu, w, i)
<1>1. l \in Ids /\ Positioned(w.image, l, at)
  BY SlotLoaders DEF Positioned
<1>2. v = IF ~ isValid(Six(i), six)
          THEN [w EXCEPT !.at = @ + Slot - six.part.len]
          ELSE [w EXCEPT !.at = at + Slot - six.part.len, !.bl[l] = x]
  BY Zenon DEF Load7BL
<1> HIDE DEF l, at, v
<1>3. SoundPlace(l, m) /\ Turned(m, m)
  BY <1>1, ReadSound DEF SoundWork, SoundPlaces
<1> HIDE DEF p, m
<1>4. q = m.part \/ q = [m.part EXCEPT !.under = m.part.under \cup {Noise}]
  BY DEF Joined
<1> HIDE DEF q
<1>5. o = [part |-> q, plain |-> m.plain, rc4 |-> m.rc4, byCpu |-> m.byCpu]
  BY <1>3 DEF SoundPlace
<1> HIDE DEF o
<1>6. Turned(m, o)
  <2> DEFINE joined == m.part.under \cup {Noise}
  <2> HIDE DEF joined
  <2>1. q = m.part \/ q = [m.part EXCEPT !.under = joined]
    BY <1>4 DEF joined
  <2> QED
    BY <2>1, <1>3, <1>5 DEF SoundPlace, Turned, Fields
<1>7. Fields(o.part) /\ Turned(o, o)
  BY <1>3, <1>6, TurnedOn DEF SoundPlace
<1>8. Turned(o, n)
  BY <1>7, LoadTurns
<1> HIDE DEF n
<1>9. SoundPlace(l, n)
  BY <1>3, <1>6, <1>8, TurnedTwice, TurnedSound DEF SoundPlace
<1>10. SoundPlace(l, x)
  BY <1>3, <1>9
<1> HIDE DEF x
<1>11. SoundPlaces([w.bl EXCEPT ![l] = x])
  BY <1>1, <1>10, PlaceSet DEF SoundWork
<1>12. CASE ~ isValid(Six(i), six)
  <2> DEFINE to == w.at + Slot - six.part.len
  <2>1. v = [w EXCEPT !.at = to]
    BY <1>2, <1>12
  <2> HIDE DEF to
  <2>2. v = [image |-> w.image, bl |-> w.bl, at |-> to, prev |-> w.prev, ret |-> w.ret]
    BY <2>1, WorkMoved
  <2> QED
    BY <2>2 DEF SoundWork, v
<1>13. CASE isValid(Six(i), six)
  <2> DEFINE to == at + Slot - six.part.len
             u == [w EXCEPT !.at = to]
  <2>1. v = [u EXCEPT !.bl[l] = x]
    BY <1>2, <1>13
  <2> HIDE DEF to
  <2>2. u = [image |-> w.image, bl |-> w.bl, at |-> to, prev |-> w.prev, ret |-> w.ret]
    BY WorkMoved
  <2> HIDE DEF u
  <2>3. v = [image |-> w.image, bl |-> [w.bl EXCEPT ![l] = x], at |-> to, prev |-> w.prev, ret |-> w.ret]
    BY <2>1, <2>2
  <2> QED
    BY <2>3, <1>11 DEF SoundWork, v
<1> QED
  BY <1>12, <1>13

\* What LoadBootloaders leaves in memory.
LEMMA LoadBootloadersSound ==
  ASSUME NEW i, NEW cpu, NEW key, NEW bl, SoundImage(i), SoundPlaces(bl), i.beta => cpu = "null"
  PROVE  SoundPlaces(LoadBootloaders(i, cpu, key, bl))
<1> DEFINE chain == LoadChain(i, cpu, key, bl)
           one   == Load6BL(cpu, key, chain, 1)
           sixes == Load6BL(cpu, key, one, 2)
           back  == [sixes EXCEPT !.at = Sys]
           first == Load7BL(cpu, back, 1)
           all   == Load7BL(cpu, first, 2)
<1>0. LoadBootloaders(i, cpu, key, bl) = IF chain.ret # 0 THEN chain.bl ELSE all.bl
  BY DEF LoadBootloaders
<1>1. SoundWork(chain) /\ 1 \in Slots /\ 2 \in Slots
  BY LoadChainSound DEF Slots
<1> HIDE DEF chain
<1>2. SoundWork(one)
  BY <1>1, Load6BLSound
<1> HIDE DEF one
<1>3. SoundWork(sixes)
  BY <1>1, <1>2, Load6BLSound
<1> HIDE DEF sixes
<1>4. SoundWork(back)
  <2>1. back = [image |-> sixes.image, bl |-> sixes.bl, at |-> Sys, prev |-> sixes.prev, ret |-> sixes.ret]
    BY <1>3, WorkMoved
  <2> HIDE DEF back
  <2> QED
    BY <2>1, <1>3 DEF SoundWork
<1> HIDE DEF back
<1>5. SoundWork(first)
  BY <1>1, <1>4, Load7BLSound
<1> HIDE DEF first
<1>6. SoundWork(all)
  BY <1>1, <1>5, Load7BLSound
<1> HIDE DEF all
<1> QED
  BY <1>0, <1>1, <1>6 DEF SoundWork


-----------------------------------------------------------------------------
(* SaveBootloaders *)

\* Nothing but cells and system files of an image is changed.
SameParts(i, j) ==
  /\ j.beta = i.beta /\ j.zeroed = i.zeroed
  /\ j.smc = i.smc /\ j.kv = i.kv /\ j.alt = i.alt

\* A loader is put over those it runs into, in the chain with its whole length.
LEMMA PutApart ==
  ASSUME NEW cells, NEW at \in Nat, NEW p, NEW size, Apart(cells), p.len \in Nat \ {0},
         size = p.len \/ at >= Sys,
         \A a \in DOMAIN cells : a \in Nat /\ cells[a].len \in Nat \ {0}
  PROVE  Apart(Put(cells, at, p, size))
<1> DEFINE kept == {a \in DOMAIN cells : End(cells, a) <= at \/ at + size <= a}
           new  == Put(cells, at, p, size)
<1>1. new = [a \in kept \cup {at} |-> IF a = at THEN p ELSE cells[a]]
  BY DEF Put
<1> HIDE DEF new
<1>2. SUFFICES ASSUME NEW a \in DOMAIN new, NEW b \in DOMAIN new, a < b, ~ (b >= Sys)
               PROVE  a + new[a].len <= b
  BY DEF Apart, new
<1>3. a \in kept \cup {at} /\ b \in kept \cup {at}
  BY <1>1, <1>2
<1>4. Sys \in Nat /\ Slot \in Nat
  BY AddressAssumption
<1>5. a \in Nat /\ b \in Nat
  BY <1>3
<1>6. CASE a = at
  <2>1. b \in DOMAIN cells /\ (End(cells, b) <= at \/ at + size <= b)
    BY <1>1, <1>2, <1>3, <1>4, <1>5, <1>6
  <2>2. End(cells, b) > b
    BY <2>1, <1>2, <1>4, <1>5 DEF End
  <2>3. End(cells, b) \in Int
    BY <2>1, <1>4, <1>5 DEF End
  <2>4. at + size <= b
    BY <2>1, <2>2, <2>3, <1>2, <1>5, <1>6
  <2> QED
    BY <1>1, <1>2, <1>4, <1>5, <1>6, <2>4
<1>7. CASE a # at /\ b = at
  <2>1. a \in DOMAIN cells /\ new[a] = cells[a] /\ End(cells, a) <= at
    BY <1>1, <1>2, <1>3, <1>4, <1>5, <1>7
  <2>2. cells[a].magic # "7BL"
    BY <2>1, <1>2, <1>4, <1>7 DEF End
  <2> QED
    BY <2>1, <2>2, <1>7 DEF End
<1>8. CASE a # at /\ b # at
  <2>1. a \in DOMAIN cells /\ b \in DOMAIN cells /\ new[a] = cells[a]
    BY <1>1, <1>3, <1>8
  <2> QED
    BY <2>1, <1>2 DEF Apart
<1> QED
  BY <1>6, <1>7, <1>8

\* The first 2BL at the entry point, the second elsewhere, and nothing else is a 2BL.
LEMMA PutSound ==
  ASSUME NEW i, NEW at \in Nat, NEW p, NEW size, SoundImage(i), ~ i.beta, SoundLoader(p),
         size = p.len \/ at >= Sys,
         p.text = "2BL_B" => at # Entry, p.text = "2BL" => at = Entry
  PROVE  LET j == [i EXCEPT !.cells = Put(i.cells, at, p, size)]
         IN  SoundImage(j) /\ SameParts(i, j)
<1> DEFINE new == Put(i.cells, at, p, size)
           j == [i EXCEPT !.cells = new]
<1>1. Apart(new)
  <2>1. \A a \in DOMAIN i.cells : a \in Nat /\ i.cells[a].len \in Nat \ {0}
    BY DEF SoundImage, SoundCells, SoundLoader, Fields
  <2>2. p.len \in Nat \ {0} /\ Apart(i.cells)
    BY DEF SoundLoader, Fields, SoundImage, SoundCells
  <2> QED
    BY <2>1, <2>2, PutApart
<1>2. \A a \in DOMAIN new :
        /\ a \in Nat /\ SoundLoader(new[a])
        /\ new[a].text = "2BL_B" => a # Entry
        /\ new[a].text = "2BL" => a = Entry
  <2> SUFFICES ASSUME NEW a \in DOMAIN new
               PROVE  /\ a \in Nat /\ SoundLoader(new[a])
                      /\ new[a].text = "2BL_B" => a # Entry
                      /\ new[a].text = "2BL" => a = Entry
    OBVIOUS
  <2>1. a = at \/ a \in DOMAIN i.cells
    BY DEF Put
  <2>2. CASE a = at
    <3>1. new[a] = p
      BY <2>2 DEF Put
    <3> QED
      BY <3>1, <2>2
  <2>3. CASE a # at
    <3>1. new[a] = i.cells[a]
      BY <2>3 DEF Put
    <3> QED
      BY <3>1, <2>1, <2>3 DEF SoundImage, SoundCells
  <2> QED
    BY <2>2, <2>3
<1> HIDE DEF new
<1>3. j = [beta |-> i.beta, zeroed |-> i.zeroed, big |-> i.big, junk |-> i.junk, cells |-> new, smc |-> i.smc,
           kv |-> i.kv, alt |-> i.alt, tails |-> i.tails]
  BY DEF SoundImage
<1> HIDE DEF j
<1>4. SoundCells(j)
  BY <1>1, <1>2, <1>3 DEF SoundCells
<1>5. SoundImage(j) /\ SameParts(i, j)
  BY <1>3, <1>4 DEF SoundImage, SameParts
<1> QED
  BY <1>5 DEF j, new


\* A loader that is in its place is written and leads on, with its whole length;
\* one that is missing ends SaveBootloaders.
LEMMA SaveBootloaderSound ==
  ASSUME NEW cpu, NEW w, NEW l \in Ids, NEW limit \in Int, SoundWork(w), ~ w.image.beta,
         w.at \in Nat, Positioned(w.image, l, w.at), limit <= 0 \/ w.at >= Sys
  PROVE  LET v == SaveBootloader(cpu, w, l, limit)
         IN  /\ SoundWork(v) /\ SameParts(w.image, v.image) /\ v.at \in Nat
             /\ v.ret = 1 \/ (v.ret = w.ret /\ v.at > w.at)
<1> DEFINE n == Save(l, w.bl[l], w.prev, cpu, w.bl["2BL"])
           p == n.part
           size == IF limit > 0 THEN limit ELSE p.len
           new == Put(w.image.cells, w.at, p, size)
           j == [w.image EXCEPT !.cells = new]
           v == SaveBootloader(cpu, w, l, limit)
<1>1. v = IF ~ isValid(l, w.bl[l]) THEN [w EXCEPT !.ret = 1]
          ELSE [w EXCEPT !.bl[l] = n, !.prev = n.rc4, !.at = @ + p.len, !.image.cells = new]
  BY Zenon DEF SaveBootloader
<1> HIDE DEF v
<1>2. SoundPlace(l, w.bl[l])
  BY DEF SoundWork, SoundPlaces
<1>3. Turned(w.bl[l], n)
  <2>1. Fields(w.bl[l].part) /\ Turned(w.bl[l], w.bl[l])
    BY <1>2 DEF SoundPlace, Turned, Fields
  <2> QED
    BY <2>1, LoadTurns
<1> HIDE DEF n
<1>4. SoundPlace(l, n) /\ p.magic = w.bl[l].part.magic
  BY <1>2, <1>3, TurnedSound
<1>5. CASE ~ isValid(l, w.bl[l])
  <2>1. v = [image |-> w.image, bl |-> w.bl, at |-> w.at, prev |-> w.prev, ret |-> 1]
    BY <1>1, <1>5 DEF SoundWork
  <2> QED
    BY <2>1 DEF SoundWork, SameParts, v
<1>6. CASE isValid(l, w.bl[l])
  <2>1. p.magic = Magic(l) /\ p.magic # "none"
    BY <1>4, <1>6, MagicLetter DEF isValid
  <2>2. SoundLoader(p) /\ p.len \in Nat \ {0} /\ Letter(p.text) = Letter(l) /\ isValid(l, n)
    BY <1>4, <2>1 DEF SoundPlace, isValid, SoundLoader, Fields
  <2>3. (p.text = "2BL_B" => w.at # Entry) /\ (p.text = "2BL" => w.at = Entry)
    BY <2>2 DEF Positioned, Letter, Ids
  <2>4. size = p.len \/ w.at >= Sys
    OBVIOUS
  <2> HIDE DEF size
  <2>5. SoundImage(j) /\ SameParts(w.image, j)
    BY <2>2, <2>3, <2>4, PutSound DEF SoundWork
  <2>6. SoundPlaces([w.bl EXCEPT ![l] = n])
    BY <1>4, PlaceSet DEF SoundWork
  <2> DEFINE bl == [w.bl EXCEPT ![l] = n]
             at == w.at + p.len
  <2> HIDE DEF new, p
  <2>7. v = [image |-> j, bl |-> bl, at |-> at, prev |-> n.rc4, ret |-> w.ret]
    <3>1. v = [w EXCEPT !.bl[l] = n, !.prev = n.rc4, !.at = w.at + p.len, !.image.cells = new]
      BY <1>1, <1>6
    <3> QED
      BY <3>1 DEF SoundWork
  <2>8. at \in Nat /\ at > w.at
    BY <2>2
  <2> HIDE DEF j, bl, at
  <2>9. SoundWork(v) /\ SameParts(w.image, v.image) /\ v.at \in Nat /\ v.ret = w.ret /\ v.at > w.at
    BY <2>5, <2>6, <2>7, <2>8 DEF SoundWork, bl
  <2> QED
    BY <2>9 DEF v
<1> QED
  BY <1>5, <1>6

\* FixPerBoxDigest writes the SMC's state into the 2BL.
LEMMA DigestSound ==
  ASSUME NEW w, NEW l \in Ids, NEW prev, NEW cpu, SoundWork(w)
  PROVE  LET v == Digest(w, l, prev, cpu)
         IN  SoundWork(v) /\ v.image = w.image /\ v.at = w.at /\ v.ret = w.ret
<1> DEFINE key == CryptKey(l, w.bl[l], prev, cpu, w.bl["2BL"])
           m == w.bl[l]
           v == Digest(w, l, prev, cpu)
           p == [m.part EXCEPT !.digest = w.image.smc]
           n == [part |-> p, plain |-> m.plain, rc4 |-> key, byCpu |-> m.byCpu]
           bl == [w.bl EXCEPT ![l] = n]
<1>1. v = [w EXCEPT !.bl[l].part.digest = w.image.smc, !.bl[l].rc4 = key]
  BY DEF Digest
<1> HIDE DEF v, key
<1>2. SoundPlace(l, m) /\ w.image.smc \in 0..1 /\ w.bl = [k \in Ids |-> w.bl[k]]
  BY DEF SoundWork, SoundPlaces, SoundImage
<1>3. /\ p.magic = m.part.magic /\ p.text = m.part.text /\ p.len = m.part.len /\ Fields(p)
  BY <1>2 DEF SoundPlace, Fields
<1>4. SoundPlace(l, n)
  <2> HIDE DEF p
  <2>1. SoundLoader(m.part) => SoundLoader(p)
    BY <1>3 DEF SoundLoader
  <2> QED
    BY <1>2, <1>3, <2>1 DEF SoundPlace, isValid
<1>5. SoundPlaces(bl)
  BY <1>4, PlaceSet DEF SoundWork
<1>6. v = [w EXCEPT !.bl = bl]
  <2> DEFINE a == [m EXCEPT !.part.digest = w.image.smc]
  <2>1. a = [part |-> p, plain |-> m.plain, rc4 |-> m.rc4, byCpu |-> m.byCpu]
    BY <1>2 DEF SoundPlace
  <2> HIDE DEF p, a
  <2>2. [a EXCEPT !.rc4 = key] = n
    BY <2>1
  <2> DEFINE b == [w.bl EXCEPT ![l] = a]
  <2> HIDE DEF n
  <2>3. [b EXCEPT ![l] = [b[l] EXCEPT !.rc4 = key]] = bl
    BY <2>2, <1>2
  <2> DEFINE u == [w EXCEPT !.bl[l].part.digest = w.image.smc]
  <2> HIDE DEF b, bl
  <2>4. u = [image |-> w.image, bl |-> b, at |-> w.at, prev |-> w.prev, ret |-> w.ret]
    BY DEF SoundWork, a, b
  <2>5. v = [u EXCEPT !.bl[l].rc4 = key]
    BY <1>1
  <2> HIDE DEF u
  <2>6. v = [image |-> w.image, bl |-> bl, at |-> w.at, prev |-> w.prev, ret |-> w.ret]
    BY <2>3, <2>4, <2>5
  <2> QED
    BY <2>6 DEF SoundWork
<1> HIDE DEF bl
<1>7. v = [image |-> w.image, bl |-> bl, at |-> w.at, prev |-> w.prev, ret |-> w.ret]
  BY <1>6 DEF SoundWork
<1> QED
  BY <1>5, <1>7 DEF SoundWork, v


\* A step of SaveBootloaders leaves vaults and SMC of the image alone.
LEMMA SaveStepSound ==
  ASSUME NEW cpu, NEW w, NEW l \in Ids, SoundWork(w), ~ w.image.beta, w.at \in Nat,
         w.ret = 0 /\ Kept(cpu, w.bl, l) => Positioned(w.image, l, w.at)
  PROVE  LET v == SaveStep(cpu, w, l)
         IN  /\ SoundWork(v) /\ SameParts(w.image, v.image) /\ v.at \in Nat
             /\ w.ret # 0 \/ ~ Kept(cpu, w.bl, l) => v = w
             /\ w.ret = 0 /\ Kept(cpu, w.bl, l) => v.ret # 0 \/ v.at > w.at
<1> DEFINE u == IF Digested(w.bl, l) THEN Digest(w, l, w.prev, cpu) ELSE w
           v == SaveStep(cpu, w, l)
<1>1. CASE w.ret # 0 \/ ~ Kept(cpu, w.bl, l)
  BY <1>1 DEF SaveStep, SameParts
<1>2. CASE w.ret = 0 /\ Kept(cpu, w.bl, l)
  <2>1. v = SaveBootloader(cpu, u, l, 0)
    BY <1>2 DEF SaveStep
  <2>2. SoundWork(u) /\ u.image = w.image /\ u.at = w.at /\ u.ret = w.ret
    BY DigestSound
  <2> HIDE DEF u, v
  <2>3. /\ SoundWork(v) /\ SameParts(w.image, v.image) /\ v.at \in Nat
        /\ v.ret = 1 \/ v.at > w.at
    BY <1>2, <2>1, <2>2, SaveBootloaderSound
  <2> QED
    BY <1>2, <2>3 DEF v
<1> QED
  BY <1>1, <1>2

LEMMA SameTwice ==
  ASSUME NEW i, NEW j, NEW k, SameParts(i, j), SameParts(j, k)
  PROVE  SameParts(i, k)
BY DEF SameParts

\* The chain of SaveBootloaders: the first 2BL comes to the entry point, the second
\* behind it.
LEMMA SaveChainSound ==
  ASSUME NEW i, NEW cpu, NEW key, NEW bl, SoundImage(i), SoundPlaces(bl), ~ i.beta
  PROVE  SoundWork(SaveChain(i, cpu, key, bl)) /\ SameParts(i, SaveChain(i, cpu, key, bl).image)
<1> DEFINE w0 == Work(i, bl, Entry, key)
           w1 == SaveStep(cpu, w0, "1BL")
           w2 == SaveStep(cpu, w1, "2BL")
           w3 == SaveStep(cpu, w2, "2BL_B")
           w4 == SaveStep(cpu, w3, "3BL")
           w5 == SaveStep(cpu, w4, "4BL")
           w6 == SaveStep(cpu, w5, "5BL")
           Goes(w) == SoundWork(w) /\ SameParts(i, w.image) /\ ~ w.image.beta /\ w.at \in Nat
<1>0. SaveChain(i, cpu, key, bl) = w6
  BY DEF SaveChain
<1>1. Goes(w0) /\ w0.at = Entry /\ w0.ret = 0
  BY AddressAssumption DEF Work, SoundWork, SameParts
<1>2. ASSUME NEW w, NEW l \in Ids, Goes(w), w.ret = 0 /\ Kept(cpu, w.bl, l) => Positioned(w.image, l, w.at)
      PROVE  Goes(SaveStep(cpu, w, l))
  <2>1. SoundWork(SaveStep(cpu, w, l)) /\ SameParts(w.image, SaveStep(cpu, w, l).image)
        /\ SaveStep(cpu, w, l).at \in Nat
    BY <1>2, SaveStepSound
  <2>2. ~ SaveStep(cpu, w, l).image.beta /\ SameParts(i, SaveStep(cpu, w, l).image)
    BY <1>2, <2>1, SameTwice DEF SameParts
  <2> QED
    BY <2>1, <2>2
<1> HIDE DEF w0
<1>3. w1 = w0
  BY <1>1, SaveStepSound DEF Kept, Ids
<1> HIDE DEF w1
<1>4. Goes(w2) /\ (w2.ret = 0 => w2.at # Entry)
  <2>1. Positioned(w1.image, "2BL", w1.at) /\ "2BL" \in Ids /\ Kept(cpu, w1.bl, "2BL")
    BY <1>1, <1>3 DEF Positioned, Ids, Kept
  <2>2. Goes(w2)
    BY <1>1, <1>2, <1>3, <2>1
  <2>3. w2.ret # 0 \/ w2.at > w1.at
    BY <1>1, <1>3, <2>1, SaveStepSound
  <2> HIDE DEF w2
  <2> QED
    BY <1>1, <1>3, <2>2, <2>3
<1> HIDE DEF w2
<1>5. Goes(w3)
  BY <1>2, <1>4 DEF Positioned, Ids
<1> HIDE DEF w3
<1>6. Goes(w4)
  BY <1>2, <1>5 DEF Positioned, Ids
<1> HIDE DEF w4
<1>7. Goes(w5)
  BY <1>2, <1>6 DEF Positioned, Ids
<1> HIDE DEF w5
<1>8. Goes(w6)
  BY <1>2, <1>7 DEF Positioned, Ids
<1> HIDE DEF w6
<1> QED
  BY <1>0, <1>8

\* The blocks a 7BL needs beside its slot are a number.
LEMMA NeedNatural ==
  ASSUME NEW len6 \in Nat, NEW len7 \in Nat, len7 >= Slot
  PROVE  Need(len6, len7) \in Nat
<1> DEFINE x == len7 - (Slot - len6) + Block - 1
           q == x \div Block
<1>1. x \in Nat /\ Block \in Nat /\ Block > 0 /\ Slot \in Nat
  BY AddressAssumption
<1> HIDE DEF x
<1>2. q \in Int /\ x = Block * q + (x % Block) /\ x % Block \in 0..(Block - 1)
  BY <1>1
<1> HIDE DEF q
<1>3. q >= 0
  <2> SUFFICES ASSUME q <= -1 PROVE FALSE
    BY <1>2
  <2>1. Block * q <= - Block
    BY <1>1, <1>2
  <2>2. Block * q \in Int
    BY <1>1, <1>2
  <2> HIDE DEF q
  <2> QED
    BY <1>1, <1>2, <2>1, <2>2
<1> QED
  BY <1>2, <1>3 DEF Need, q, x

\* FileSetData on the file of a slot.
LEMMA SetDataSound ==
  ASSUME NEW tail, NEW need \in Nat, NEW data, tail.blocks \in Nat,
         tail = [there |-> tail.there, blocks |-> tail.blocks, data |-> tail.data]
  PROVE  LET t == SetData(tail, need, data).tail
         IN  t = [there |-> t.there, blocks |-> t.blocks, data |-> t.data] /\ t.blocks \in Nat
<1> DEFINE t == SetData(tail, need, data).tail
<1>1. CASE tail.blocks < need
  <2>1. t = [tail EXCEPT !.blocks = tail.blocks + 1]
    BY <1>1 DEF SetData
  <2> HIDE DEF t
  <2>2. t = [there |-> tail.there, blocks |-> tail.blocks + 1, data |-> tail.data]
    BY <2>1
  <2> QED
    BY <2>2 DEF t
<1>2. CASE ~ (tail.blocks < need)
  <2>1. t = [tail EXCEPT !.blocks = need, !.data = data]
    BY <1>2 DEF SetData
  <2> HIDE DEF t
  <2>2. t = [there |-> tail.there, blocks |-> need, data |-> data]
    BY <2>1
  <2> QED
    BY <2>2 DEF t
<1> QED
  BY <1>1, <1>2


\* A new file for a slot.
LEMMA TailSet ==
  ASSUME NEW i, NEW j \in Slots, NEW t, SoundImage(i),
         t = [there |-> t.there, blocks |-> t.blocks, data |-> t.data], t.blocks \in Nat
  PROVE  LET k == [i EXCEPT !.tails[j] = t]
         IN  SoundImage(k) /\ SameParts(i, k)
<1> DEFINE tails == [i.tails EXCEPT ![j] = t]
           k == [i EXCEPT !.tails[j] = t]
<1>1. SoundTails(tails)
  BY DEF SoundImage, SoundTails
<1>2. k = [i EXCEPT !.tails = tails]
  OBVIOUS
<1> HIDE DEF tails, k
<1>3. k = [beta |-> i.beta, zeroed |-> i.zeroed, big |-> i.big, junk |-> i.junk, cells |-> i.cells, smc |-> i.smc,
           kv |-> i.kv, alt |-> i.alt, tails |-> tails]
  BY <1>2 DEF SoundImage
<1>4. SoundCells(k)
  BY <1>3 DEF SoundImage, SoundCells
<1>5. SoundImage(k) /\ SameParts(i, k)
  BY <1>1, <1>3, <1>4 DEF SoundImage, SameParts
<1> QED
  BY <1>5 DEF k

\* What a valid 6BL and 7BL have for lengths.
LEMMA SlotLengths ==
  ASSUME NEW w, NEW i \in Slots, SoundWork(w)
  PROVE  /\ isValid(Six(i), w.bl[Six(i)]) => w.bl[Six(i)].part.len \in Nat
         /\ isValid(Seven(i), w.bl[Seven(i)]) =>
              w.bl[Seven(i)].part.len \in Nat /\ w.bl[Seven(i)].part.len >= Slot
<1>1. SoundPlace(Six(i), w.bl[Six(i)]) /\ SoundPlace(Seven(i), w.bl[Seven(i)])
  BY SlotLoaders DEF SoundWork, SoundPlaces
<1>2. Magic(Six(i)) = "6BL" /\ Magic(Seven(i)) = "7BL"
  BY SlotLoaders
<1> QED
  BY <1>1, <1>2 DEF SoundPlace, SoundLoader, Fields, isValid

\* The addresses of the slots.
LEMMA SlotAddress ==
  ASSUME NEW i \in Slots
  PROVE  Sys + (i - 1) * Slot \in Nat /\ Sys + (i - 1) * Slot >= Sys /\ Sys > Entry
<1>1. (i - 1) * Slot = IF i = 1 THEN 0 ELSE Slot
  BY AddressAssumption DEF Slots
<1> QED
  BY <1>1, AddressAssumption

\* A 6BL gets its blocks.
LEMMA UsesSound ==
  ASSUME NEW l \in Ids, NEW m, NEW n \in Nat, SoundPlace(l, m)
  PROVE  SoundPlace(l, Uses(m, n))
<1> DEFINE p == [m.part EXCEPT !.used = n]
<1>1. Uses(m, n) = [m EXCEPT !.part = p]
  BY DEF Uses
<1>2. /\ p.magic = m.part.magic /\ p.text = m.part.text /\ p.len = m.part.len /\ Fields(p)
  BY DEF SoundPlace, Fields
<1> HIDE DEF p
<1>3. Uses(m, n) = [part |-> p, plain |-> m.plain, rc4 |-> m.rc4, byCpu |-> m.byCpu]
  BY <1>1 DEF SoundPlace
<1>4. SoundLoader(m.part) => SoundLoader(p)
  BY <1>2 DEF SoundLoader
<1> QED
  BY <1>2, <1>3, <1>4 DEF SoundPlace, isValid

LEMMA Save6BLSound ==
  ASSUME NEW cpu, NEW key, NEW w, NEW i \in Slots, SoundWork(w), ~ w.image.beta
  PROVE  LET v == Save6BL(cpu, key, w, i)
         IN  SoundWork(v) /\ SameParts(w.image, v.image)
<1> DEFINE l     == Six(i)
           six   == w.bl[l]
           seven == w.bl[Seven(i)]
           set   == SetData(w.image.tails[i], Need(six.part.len, seven.part.len), "blank")
           t     == set.tail
           named == [w EXCEPT !.image.tails[i] = set.tail, !.bl[l] = Uses(@, set.tail.blocks)]
           with7 == isValid(Seven(i), seven)
           here  == IF with7 THEN named ELSE w
           added == Added(w.image.tails[i])
           at    == Sys + (i - 1) * Slot
           v     == Save6BL(cpu, key, w, i)
<1>0. l \in Ids /\ l # "2BL" /\ l # "2BL_B"
  BY SlotLoaders
<1>1. \/ v = w
      \/ v = [w EXCEPT !.image.tails[i] = added, !.ret = 6]
      \/ /\ isValid(l, six)
         /\ v = SaveBootloader(cpu, [here EXCEPT !.at = at, !.prev = key], l, 0)
  BY Zenon DEF Save6BL
<1> HIDE DEF v
<1>2. CASE v = w
  BY <1>2 DEF SameParts, v
<1>3. CASE v = [w EXCEPT !.image.tails[i] = added, !.ret = 6]
  <2>1. added = [there |-> added.there, blocks |-> added.blocks, data |-> added.data] /\ added.blocks \in Nat
    BY DEF Added
  <2> HIDE DEF added
  <2> DEFINE j == [w.image EXCEPT !.tails[i] = added]
             u == [w EXCEPT !.image = j]
  <2>2. SoundImage(j) /\ SameParts(w.image, j)
    BY <2>1, TailSet DEF SoundWork
  <2>3. v = [u EXCEPT !.ret = 6]
    BY <1>3
  <2> HIDE DEF j
  <2>4. u = [image |-> j, bl |-> w.bl, at |-> w.at, prev |-> w.prev, ret |-> w.ret]
    BY DEF SoundWork
  <2> HIDE DEF u
  <2>5. v = [image |-> j, bl |-> w.bl, at |-> w.at, prev |-> w.prev, ret |-> 6]
    BY <2>3, <2>4
  <2> QED
    BY <2>2, <2>5 DEF SoundWork, v
<1>4. ASSUME isValid(l, six), v = SaveBootloader(cpu, [here EXCEPT !.at = at, !.prev = key], l, 0)
      PROVE  SoundWork(v) /\ SameParts(w.image, v.image)
  <2>1. SoundWork(here) /\ SameParts(w.image, here.image)
    <3>1. CASE ~ with7
      BY <3>1 DEF SameParts
    <3>2. CASE with7
      <4>1. Need(six.part.len, seven.part.len) \in Nat
        BY <1>4, <3>2, SlotLengths, NeedNatural
      <4>2. /\ w.image.tails[i].blocks \in Nat
            /\ w.image.tails[i] = [there |-> w.image.tails[i].there, blocks |-> w.image.tails[i].blocks,
                                   data |-> w.image.tails[i].data]
        BY DEF SoundWork, SoundImage, SoundTails
      <4>3. t = [there |-> t.there, blocks |-> t.blocks, data |-> t.data] /\ t.blocks \in Nat
        BY <4>1, <4>2, SetDataSound
      <4> DEFINE n == Uses(six, t.blocks)
                 j == [w.image EXCEPT !.tails[i] = t]
                 u == [w EXCEPT !.image.tails[i] = t]
      <4>4. named = [u EXCEPT !.bl[l] = Uses(@, t.blocks)]
        OBVIOUS
      <4> HIDE DEF t, named, l
      <4>5. SoundImage(j) /\ SameParts(w.image, j)
        BY <4>3, TailSet DEF SoundWork
      <4>6. SoundPlace(l, n)
        BY <1>0, <4>3, UsesSound DEF SoundWork, SoundPlaces
      <4>7. SoundPlaces([w.bl EXCEPT ![l] = n])
        BY <1>0, <4>6, PlaceSet DEF SoundWork
      <4>8. u = [image |-> j, bl |-> w.bl, at |-> w.at, prev |-> w.prev, ret |-> w.ret]
        BY DEF SoundWork
      <4> HIDE DEF u, j
      <4>9. named = [image |-> j, bl |-> [w.bl EXCEPT ![l] = n], at |-> w.at, prev |-> w.prev, ret |-> w.ret]
        BY <4>4, <4>8
      <4>10. SoundWork(named) /\ SameParts(w.image, named.image)
        BY <4>5, <4>7, <4>9 DEF SoundWork
      <4> QED
        BY <3>2, <4>10
    <3> QED
      BY <3>1, <3>2
  <2> HIDE DEF here, l, at
  <2> DEFINE a == [here EXCEPT !.at = at]
             u == [a EXCEPT !.prev = key]
  <2>2. v = SaveBootloader(cpu, u, l, 0)
    BY <1>4
  <2>3. u = [image |-> here.image, bl |-> here.bl, at |-> at, prev |-> key, ret |-> here.ret]
    <3>1. a = [image |-> here.image, bl |-> here.bl, at |-> at, prev |-> here.prev, ret |-> here.ret]
      BY <2>1, WorkMoved
    <3> HIDE DEF a
    <3> QED
      BY <3>1
  <2> HIDE DEF u
  <2>4. SoundWork(u) /\ u.image = here.image /\ u.at = at
    BY <2>1, <2>3 DEF SoundWork
  <2>5. at \in Nat
    BY SlotAddress DEF at
  <2>6. ~ u.image.beta /\ Positioned(u.image, l, u.at)
    BY <1>0, <2>1, <2>4 DEF SameParts, Positioned
  <2>7. SoundWork(v) /\ SameParts(u.image, v.image)
    BY <1>0, <2>2, <2>4, <2>5, <2>6, SaveBootloaderSound
  <2> QED
    BY <2>1, <2>4, <2>7, SameTwice
<1> QED
  BY <1>1, <1>2, <1>3, <1>4 DEF v


LEMMA Save7BLSound ==
  ASSUME NEW cpu, NEW nonces, NEW w, NEW i \in Slots, SoundWork(w), ~ w.image.beta
  PROVE  LET v == Save7BL(cpu, nonces, w, i)
         IN  SoundWork(v) /\ SameParts(w.image, v.image)
<1> DEFINE l    == Seven(i)
           six  == w.bl[Six(i)].part
           room == Slot - six.len
           at   == Sys + (i - 1) * Slot + six.len
           from == [w EXCEPT !.at = at, !.prev = nonces[i]]
           done == SaveBootloader(cpu, from, l, room)
           set  == SetData(w.image.tails[i], Need(six.len, w.bl[l].part.len), "rest")
           t    == set.tail
           ret  == IF set.code = 0 THEN 10 ELSE 0
           v    == Save7BL(cpu, nonces, w, i)
<1>0. l \in Ids /\ l # "2BL" /\ l # "2BL_B"
  BY SlotLoaders
<1>1. \/ v = w
      \/ /\ isValid(Six(i), w.bl[Six(i)]) /\ isValid(l, w.bl[l])
         /\ v = [done EXCEPT !.image.tails[i] = t, !.ret = ret]
  BY Zenon DEF Save7BL
<1> HIDE DEF v, ret
<1>2. CASE v = w
  BY <1>2 DEF SameParts, v
<1>3. ASSUME isValid(Six(i), w.bl[Six(i)]), isValid(l, w.bl[l]),
             v = [done EXCEPT !.image.tails[i] = t, !.ret = ret]
      PROVE  SoundWork(v) /\ SameParts(w.image, v.image)
  <2>1. six.len \in Nat /\ Need(six.len, w.bl[l].part.len) \in Nat
    BY <1>3, SlotLengths, NeedNatural
  <2>2. t = [there |-> t.there, blocks |-> t.blocks, data |-> t.data] /\ t.blocks \in Nat
    <3>1. /\ w.image.tails[i].blocks \in Nat
          /\ w.image.tails[i] = [there |-> w.image.tails[i].there, blocks |-> w.image.tails[i].blocks,
                                 data |-> w.image.tails[i].data]
      BY DEF SoundWork, SoundImage, SoundTails
    <3> QED
      BY <2>1, <3>1, SetDataSound
  <2> DEFINE base == Sys + (i - 1) * Slot
  <2>3. base \in Nat /\ base >= Sys /\ Sys \in Nat
    BY SlotAddress, AddressAssumption
  <2> HIDE DEF base
  <2>4. at \in Nat /\ at >= Sys /\ room \in Int
    BY <2>1, <2>3, AddressAssumption DEF base
  <2> HIDE DEF at, room, l
  <2> DEFINE a == [w EXCEPT !.at = at]
             u == [a EXCEPT !.prev = nonces[i]]
  <2>5. done = SaveBootloader(cpu, u, l, room)
    OBVIOUS
  <2> HIDE DEF done
  <2>6. u = [image |-> w.image, bl |-> w.bl, at |-> at, prev |-> nonces[i], ret |-> w.ret]
    <3>1. a = [image |-> w.image, bl |-> w.bl, at |-> at, prev |-> w.prev, ret |-> w.ret]
      BY WorkMoved
    <3> HIDE DEF a
    <3> QED
      BY <3>1
  <2> HIDE DEF u
  <2>7. SoundWork(u) /\ u.image = w.image /\ u.at = at
    BY <2>6 DEF SoundWork
  <2>8. SoundWork(done) /\ SameParts(w.image, done.image)
    <3>1. ~ u.image.beta /\ Positioned(u.image, l, u.at)
      BY <1>0, <2>7 DEF Positioned
    <3> QED
      BY <1>0, <2>4, <2>5, <2>7, <3>1, SaveBootloaderSound
  <2> HIDE DEF t
  <2> DEFINE j == [done.image EXCEPT !.tails[i] = t]
             x == [done EXCEPT !.image.tails[i] = t]
  <2>9. SoundImage(j) /\ SameParts(done.image, j)
    BY <2>2, <2>8, TailSet DEF SoundWork
  <2>10. v = [x EXCEPT !.ret = ret]
    BY <1>3
  <2>11. x = [image |-> j, bl |-> done.bl, at |-> done.at, prev |-> done.prev, ret |-> done.ret]
    BY <2>8 DEF SoundWork
  <2> HIDE DEF x, j
  <2>12. v = [image |-> j, bl |-> done.bl, at |-> done.at, prev |-> done.prev, ret |-> ret]
    BY <2>10, <2>11
  <2> QED
    BY <2>8, <2>9, <2>12, SameTwice DEF SoundWork
<1> QED
  BY <1>1, <1>2, <1>3 DEF v

\* What SaveBootloaders makes of loaders and image.
LEMMA SaveBootloadersSound ==
  ASSUME NEW i, NEW cpu, NEW key, NEW bl, SoundImage(i), SoundPlaces(bl), ~ i.beta
  PROVE  LET v == SaveBootloaders(i, cpu, key, bl)
         IN  SoundPlaces(v.bl) /\ SoundImage(v.image) /\ SameParts(i, v.image)
<1> DEFINE chain  == SaveChain(i, cpu, key, bl)
           nonces == [k \in Slots |-> Inner(chain.bl[Six(k)], "7BL")]
           one    == Save6BL(cpu, key, chain, 1)
           sixes  == Save6BL(cpu, key, one, 2)
           first  == Save7BL(cpu, nonces, sixes, 1)
           all    == Save7BL(cpu, nonces, first, 2)
           Goes(w) == SoundWork(w) /\ SameParts(i, w.image) /\ ~ w.image.beta
<1>0. SaveBootloaders(i, cpu, key, bl) = all
  BY DEF SaveBootloaders
<1> HIDE DEF nonces
<1>1. Goes(chain) /\ 1 \in Slots /\ 2 \in Slots
  BY SaveChainSound DEF SameParts, Slots
<1> HIDE DEF chain
<1>2. Goes(one)
  BY <1>1, Save6BLSound, SameTwice DEF SameParts
<1> HIDE DEF one
<1>3. Goes(sixes)
  BY <1>1, <1>2, Save6BLSound, SameTwice DEF SameParts
<1> HIDE DEF sixes
<1>4. Goes(first)
  BY <1>1, <1>3, Save7BLSound, SameTwice DEF SameParts
<1> HIDE DEF first
<1>5. Goes(all)
  BY <1>1, <1>4, Save7BLSound, SameTwice DEF SameParts
<1> HIDE DEF all
<1> QED
  BY <1>0, <1>5 DEF SoundWork


-----------------------------------------------------------------------------
(* Vaults and memory *)

\* Encrypting twice is decrypting.
LEMMA FlipTwice ==
  ASSUME NEW S, NEW key
  PROVE  Flip(Flip(S, key), key) = S
BY DEF Flip

\* Crypt of a vault: the nonce goes with the plain data, so that the flag is true.
LEMMA EncryptSound ==
  ASSUME NEW v, NEW cpu, SoundVault(v), v.plain
  PROVE  SoundVault(Encrypt(v, cpu)) /\ ~ Encrypt(v, cpu).plain /\ Encrypt(v, cpu).under # {}
<1> DEFINE nonce == CalculateNonce(v, cpu)
           under == Flip(v.under, <<cpu, nonce>>)
           off   == FALSE
           n     == Encrypt(v, cpu)
<1>1. nonce[2] = "plain"
  BY DEF SoundVault, CalculateNonce, Hash
<1>2. under # {}
  BY DEF SoundVault, Flip
<1>3. n = [v EXCEPT !.nonce = nonce, !.under = under, !.plain = off]
  BY DEF Encrypt
<1>4. off \in BOOLEAN /\ ~ off
  OBVIOUS
<1> HIDE DEF nonce, under, off, n
<1>5. n = [under |-> under, nonce |-> nonce, plain |-> off, alt |-> v.alt]
  BY <1>3 DEF SoundVault
<1> QED
  BY <1>1, <1>2, <1>4, <1>5 DEF SoundVault, n

LEMMA DecryptSound ==
  ASSUME NEW v, NEW cpu, SoundVault(v)
  PROVE  LET n == Decrypt(v, cpu)
         IN  /\ SoundVault(n) /\ n.nonce = v.nonce /\ n.alt = v.alt
             /\ n.under = Flip(v.under, <<cpu, v.nonce>>)
             /\ n.plain => n.under = {}
<1> DEFINE under == Flip(v.under, <<cpu, v.nonce>>)
           plain == Hash(under, cpu) = v.nonce
           n     == Decrypt(v, cpu)
<1>1. n = [v EXCEPT !.under = under, !.plain = plain]
  BY DEF Decrypt
<1>2. plain \in BOOLEAN
  OBVIOUS
<1>3. plain => under = {}
  <2> HIDE DEF under
  <2> QED
    BY DEF Hash, SoundVault
<1> HIDE DEF under, plain, n
<1>4. n = [under |-> under, nonce |-> v.nonce, plain |-> plain, alt |-> v.alt]
  BY <1>1 DEF SoundVault
<1> QED
  BY <1>2, <1>3, <1>4 DEF SoundVault, n, under

LEMMA SaveVaultSound ==
  ASSUME NEW v, NEW cpu, NEW encrypted, SoundVault(v)
  PROVE  SoundVault(SaveVault(v, encrypted, cpu))
BY EncryptSound, DecryptSound DEF SaveVault

SoundMemory(m) ==
  /\ m = [bl |-> m.bl, smc |-> m.smc, kv |-> m.kv, alt |-> m.alt]
  /\ SoundPlaces(m.bl) /\ SoundVault(m.kv) /\ SoundVault(m.alt)
  /\ m.smc = [data |-> m.smc.data, plain |-> m.smc.plain]
  /\ m.smc.data \in 0..1 /\ m.smc.plain \in BOOLEAN

LEMMA NoVaultSound ==
  SoundVault(NoVault)
<1> DEFINE off == FALSE
           nonce == <<"none", "plain">>
           under == {}
           alt == FALSE
<1>1. NoVault = [[under |-> under, nonce |-> nonce, plain |-> TRUE, alt |-> alt] EXCEPT !.plain = off]
  BY DEF NoVault, Vault
<1>2. nonce[2] = "plain" /\ off \in BOOLEAN /\ ~ off
  OBVIOUS
<1> HIDE DEF off, nonce, under, alt
<1>3. NoVault = [under |-> under, nonce |-> nonce, plain |-> off, alt |-> alt]
  BY <1>1
<1> QED
  BY <1>2, <1>3 DEF SoundVault

\* New objects, and a new image.
LEMMA UnsetSound ==
  ASSUME NEW l \in Ids
  PROVE  SoundPlace(l, Unset)
<1>1. Magic(l) # "none"
  BY MagicLetter
<1> QED
  BY <1>1 DEF SoundPlace, Unset, Nothing, Part, Fields, isValid

LEMMA FreshSound ==
  SoundMemory(Fresh)
<1> DEFINE bl  == [l \in Ids |-> Unset]
           off == FALSE
           smc == [data |-> 0, plain |-> off]
<1>1. SoundPlaces(bl)
  BY UnsetSound DEF SoundPlaces
<1>2. Fresh = [bl |-> bl, smc |-> smc, kv |-> NoVault, alt |-> NoVault]
  BY DEF Fresh
<1>3. off \in BOOLEAN
  OBVIOUS
<1> HIDE DEF bl, off
<1>4. smc = [data |-> smc.data, plain |-> smc.plain] /\ smc.data \in 0..1 /\ smc.plain \in BOOLEAN
  BY <1>3
<1> HIDE DEF smc
<1> QED
  BY <1>1, <1>2, <1>4, NoVaultSound DEF SoundMemory

LEMMA BlankSound ==
  SoundImage(Blank) /\ ~ Blank.beta
<1>1. SoundTails([i \in Slots |-> NoTail])
  <2>1. NoTail.blocks \in Nat
    BY DEF NoTail
  <2>2. NoTail = [there |-> NoTail.there, blocks |-> NoTail.blocks, data |-> NoTail.data]
    BY DEF NoTail
  <2> QED
    BY <2>1, <2>2 DEF SoundTails
<1>2. SoundCells(Blank)
  BY DEF SoundCells, Apart, Blank
<1> QED
  BY <1>1, <1>2, NoVaultSound DEF SoundImage, Blank

\* What LoadContinue leaves in memory: the SMC as it was before it was munged.
LEMMA LoadContinueSound ==
  ASSUME NEW m, NEW i, SoundMemory(m), SoundImage(i), Sealed(i)
  PROVE  LET n == LoadContinue(m, i)
         IN  /\ SoundMemory(n) /\ n.smc = [data |-> 0, plain |-> TRUE]
             /\ ~ i.beta => n.kv = LoadVault(i.kv, Cpu(i))
<1> DEFINE bl  == LoadBootloaders(i, Cpu(i), Key(i), m.bl)
           smc == LoadSMC([data |-> i.smc, plain |-> FALSE])
           kv  == IF i.beta THEN m.kv ELSE LoadVault(i.kv, Cpu(i))
           alt == IF ~ i.beta /\ kv.plain /\ kv.alt THEN LoadVault(i.alt, Cpu(i)) ELSE m.alt
<1>1. LoadContinue(m, i) = [bl |-> bl, smc |-> smc, kv |-> kv, alt |-> alt]
  BY DEF LoadContinue
<1>2. SoundPlaces(bl)
  BY LoadBootloadersSound DEF SoundMemory, Cpu
<1>3. smc = [data |-> 0, plain |-> TRUE]
  BY DEF Sealed, LoadSMC, UnMunge
<1>4. SoundVault(kv) /\ SoundVault(alt)
  BY DecryptSound DEF SoundMemory, SoundImage, LoadVault
<1>5. ~ i.beta => kv = LoadVault(i.kv, Cpu(i))
  OBVIOUS
<1> DEFINE on == TRUE
<1>6. smc = [data |-> 0, plain |-> on] /\ on \in BOOLEAN
  BY <1>3
<1> HIDE DEF on
<1>7. smc = [data |-> smc.data, plain |-> smc.plain] /\ smc.data \in 0..1 /\ smc.plain \in BOOLEAN
  BY <1>6
<1> HIDE DEF bl, smc, kv, alt
<1>8. SoundMemory(LoadContinue(m, i))
  BY <1>1, <1>2, <1>4, <1>7 DEF SoundMemory
<1> QED
  BY <1>1, <1>3, <1>5, <1>8


-----------------------------------------------------------------------------
(* Files, dumps and ini files *)

\* What a file is written for is what is read from it.
LEMMA OnSound ==
  ASSUME NEW vaults, NEW name, NEW v, SoundVaults(vaults), SoundVault(v), name[2] = "dec" => v.under = {}
  PROVE  SoundVaults(On(vaults, name, v))
BY DEF SoundVaults, On

LEMMA NamedSound ==
  ASSUME NEW vaults, NEW name, NEW v, SoundVaults(vaults), SoundVault(v)
  PROVE  SoundVaults(On(vaults, Named(name, v), v))
<1>1. Named(name, v)[2] = "dec" => v.under = {}
  BY DEF Named, SoundVault
<1> HIDE DEF Named
<1> QED
  BY <1>1, OnSound

\* DumpKeyVaults, a vault at a time: a vault that was not opened goes to its file
\* as it was before it was tried.
LEMMA DumpVaultSound ==
  ASSUME NEW vaults, NEW name, NEW v, NEW cpu, SoundVaults(vaults), SoundVault(v)
  PROVE  LET d == DumpVault(vaults, name, v, cpu)
         IN  /\ SoundVaults(d.vaults) /\ SoundVault(d.left)
             /\ ~ v.plain => LET u == Decrypt(v, cpu) IN d.vaults[Named(name, u)] = u
<1> DEFINE first  == SaveVault(v, ~ v.plain, cpu)
           second == SaveVault(first, first.plain, cpu)
           one    == On(vaults, Named(name, first), first)
           two    == On(one, Named(name, second), second)
           left   == SaveVault(second, ~ second.plain, cpu)
           d      == DumpVault(vaults, name, v, cpu)
<1>1. d = [vaults |-> two, left |-> left]
  BY DEF DumpVault
<1>2. ~ v.plain => first = v /\ second = Decrypt(v, cpu)
  BY DEF SaveVault
<1>3. SoundVault(first)
  BY SaveVaultSound
<1> HIDE DEF first, d
<1>4. SoundVault(second) /\ SoundVaults(one)
  BY <1>3, SaveVaultSound, NamedSound
<1> HIDE DEF second, one
<1>5. SoundVaults(two) /\ SoundVault(left)
  BY <1>4, SaveVaultSound, NamedSound
<1>6. two[Named(name, second)] = second
  BY DEF On
<1> HIDE DEF two, left
<1> QED
  BY <1>1, <1>2, <1>5, <1>6 DEF d

LEMMA DumpAltVaultSound ==
  ASSUME NEW vaults, NEW v, NEW cpu, SoundVaults(vaults), SoundVault(v)
  PROVE  LET d == DumpAltVault(vaults, v, cpu)
         IN  /\ SoundVaults(d.vaults) /\ SoundVault(d.left)
             /\ \A n \in DOMAIN vaults : n[1] # "AltKV" => n \in DOMAIN d.vaults /\ d.vaults[n] = vaults[n]
<1> DEFINE first  == SaveVault(v, ~ v.plain, cpu)
           second == SaveVault(first, ~ first.plain, cpu)
           one    == On(vaults, Named("AltKV", v), v)
           two    == On(one, Named("AltKV", first), first)
           d      == DumpAltVault(vaults, v, cpu)
<1>1. d = [vaults |-> two, left |-> second]
  BY DEF DumpAltVault
<1>2. SoundVault(first) /\ SoundVaults(one)
  BY SaveVaultSound, NamedSound
<1> HIDE DEF first, d
<1>3. SoundVault(second)
  BY <1>2, SaveVaultSound
<1> HIDE DEF second
<1>4. SoundVaults(two)
  <2> HIDE DEF one
  <2> QED
    BY <1>2, NamedSound
<1>5. \A n \in DOMAIN vaults : n[1] # "AltKV" => n \in DOMAIN two /\ two[n] = vaults[n]
  <2>1. Named("AltKV", v)[1] = "AltKV" /\ Named("AltKV", first)[1] = "AltKV"
    BY DEF Named
  <2> QED
    BY <2>1 DEF On
<1> HIDE DEF two
<1> QED
  BY <1>1, <1>3, <1>4, <1>5 DEF d

\* What becomes of the vaults of an image, u as it is in the image.
LEMMA DumpKeyVaultsSound ==
  ASSUME NEW vaults, NEW m, NEW cpu, NEW u, SoundVaults(vaults), SoundVault(m.kv), SoundVault(m.alt),
         SoundVault(u), u.under # {}, m.kv = LoadVault(u, cpu)
  PROVE  LET d == DumpKeyVaults(vaults, m, cpu)
         IN  /\ SoundVaults(d.vaults) /\ SoundVault(d.kv) /\ SoundVault(d.alt)
             /\ ~ m.kv.plain => d.vaults[<<"KV", "enc">>].under = u.under
<1> DEFINE main == DumpVault(vaults, "KV", m.kv, cpu)
           alt  == DumpAltVault(main.vaults, m.alt, cpu)
           with == m.kv.plain /\ m.kv.alt
           d    == DumpKeyVaults(vaults, m, cpu)
           back == Decrypt(m.kv, cpu)
<1>1. d = IF with THEN [vaults |-> alt.vaults, kv |-> main.left, alt |-> alt.left]
          ELSE [vaults |-> main.vaults, kv |-> main.left, alt |-> m.alt]
  BY DEF DumpKeyVaults
<1>2. /\ SoundVaults(main.vaults) /\ SoundVault(main.left)
      /\ ~ m.kv.plain => main.vaults[Named("KV", back)] = back
  BY DumpVaultSound
<1> HIDE DEF main, d
<1>3. SoundVaults(alt.vaults) /\ SoundVault(alt.left)
  BY <1>2, DumpAltVaultSound
<1> HIDE DEF alt
<1>4. back.under = u.under /\ ~ back.plain
  <2>1. m.kv.under = Flip(u.under, <<cpu, u.nonce>>) /\ m.kv.nonce = u.nonce
    BY DecryptSound DEF LoadVault
  <2>2. back.under = Flip(m.kv.under, <<cpu, m.kv.nonce>>) /\ (back.plain => back.under = {})
        /\ SoundVault(back)
    BY DecryptSound
  <2> HIDE DEF back
  <2> QED
    BY <2>1, <2>2, FlipTwice DEF SoundVault
<1> HIDE DEF back
<1>5. Named("KV", back) = <<"KV", "enc">>
  BY <1>4 DEF Named
<1>6. ~ m.kv.plain => ~ with /\ main.vaults[<<"KV", "enc">>].under = u.under
  BY <1>2, <1>4, <1>5
<1> HIDE DEF with
<1> QED
  BY <1>1, <1>2, <1>3, <1>6 DEF d

\* The dump of a loader has its letter and its build in its name.
LEMMA DumpBootloadersSound ==
  ASSUME NEW files, NEW cpu, NEW bl, SoundFiles(files), SoundPlaces(bl)
  PROVE  SoundFiles(DumpBootloaders(files, cpu, bl))
<1> DEFINE calls == {k \in DOMAIN DumpOrder : DumpOrder[k] \in Present(bl)}
           name(k) == DumpName(cpu, bl, DumpOrder[k])
           dumped == {name(k) : k \in calls}
           latest(n) == CHOOSE k \in calls : name(k) = n /\ \A j \in calls : name(j) = n => j <= k
           d == DumpBootloaders(files, cpu, bl)
<1>1. d = [n \in DOMAIN files \cup dumped |->
             IF n \in dumped THEN bl[DumpOrder[latest(n)]].part ELSE files[n]]
  BY DEF DumpBootloaders
<1>2. calls \subseteq 1..10
  BY DEF DumpOrder
<1>3. \A k \in calls : DumpOrder[k] \in Present(bl)
  OBVIOUS
<1> HIDE DEF calls, d
<1>4. ASSUME NEW n \in dumped
      PROVE  latest(n) \in calls /\ name(latest(n)) = n
  <2> HIDE DEF name
  <2>1. \E k \in calls : name(k) = n
    OBVIOUS
  <2> DEFINE S == {k \in calls : name(k) = n}
  <2>2. (\E k \in S : TRUE) /\ S \subseteq 1..10
    BY <1>2, <2>1
  <2>3. \E k \in S : \A j \in S : j <= k
    <3> HIDE DEF S
    <3> SUFFICES ASSUME \A k \in S : \E j \in S : ~ (j <= k) PROVE FALSE
      OBVIOUS
    <3>1. 10 \notin S
      BY <2>2
    <3>2. 9 \notin S
      BY <2>2, <3>1
    <3>3. 8 \notin S
      BY <2>2, <3>1, <3>2
    <3>4. 7 \notin S
      BY <2>2, <3>1, <3>2, <3>3
    <3>5. 6 \notin S
      BY <2>2, <3>1, <3>2, <3>3, <3>4
    <3>6. 5 \notin S
      BY <2>2, <3>1, <3>2, <3>3, <3>4, <3>5
    <3>7. S \subseteq 1..4
      BY <2>2, <3>1, <3>2, <3>3, <3>4, <3>5, <3>6
    <3>8. 4 \notin S
      BY <3>7
    <3>9. 3 \notin S
      BY <3>7, <3>8
    <3>10. 2 \notin S
      BY <3>7, <3>8, <3>9
    <3>11. \A k \in S : k = 1
      BY <3>7, <3>8, <3>9, <3>10
    <3> QED
      BY <2>2, <3>11
  <2>4. \E k \in calls : name(k) = n /\ \A j \in calls : name(j) = n => j <= k
    BY <2>3
  <2> QED
    BY <2>4
<1>5. ASSUME NEW k \in calls
      PROVE  LET p == bl[DumpOrder[k]].part
             IN  SoundLoader(p) /\ name(k)[2] = Letter(p.text) /\ name(k)[3] = p.build
  <2> DEFINE l == DumpOrder[k]
  <2>1. l \in Ids /\ isValid(l, bl[l])
    BY <1>3 DEF Present
  <2> HIDE DEF l
  <2>2. SoundPlace(l, bl[l]) /\ Magic(l) # "none"
    BY <2>1, MagicLetter DEF SoundPlaces
  <2>3. SoundLoader(bl[l].part) /\ Letter(bl[l].part.text) = Letter(l)
    BY <2>1, <2>2 DEF SoundPlace, isValid
  <2>4. DumpName(cpu, bl, l)[2] = Letter(l) /\ DumpName(cpu, bl, l)[3] = bl[l].part.build
    BY DEF DumpName
  <2> QED
    BY <2>3, <2>4 DEF l
<1>6. \A n \in DOMAIN d : SoundLoader(d[n]) /\ n[2] = Letter(d[n].text) /\ n[3] = d[n].build
  <2> SUFFICES ASSUME NEW n \in DOMAIN d
               PROVE  SoundLoader(d[n]) /\ n[2] = Letter(d[n].text) /\ n[3] = d[n].build
    OBVIOUS
  <2>1. CASE n \in dumped
    <3>1. latest(n) \in calls /\ name(latest(n)) = n
      BY <2>1, <1>4
    <3> DEFINE k == latest(n)
    <3>2. d[n] = bl[DumpOrder[k]].part
      BY <1>1, <2>1
    <3> HIDE DEF k, name
    <3> QED
      BY <1>5, <3>1, <3>2 DEF k
  <2>2. CASE n \notin dumped
    <3>1. n \in DOMAIN files /\ d[n] = files[n]
      BY <1>1, <2>2
    <3> QED
      BY <3>1 DEF SoundFiles
  <2> QED
    BY <2>1, <2>2
<1> QED
  BY <1>6 DEF SoundFiles, d


\* A loader of the chain shares its letter with no other.
LEMMA ChainLetter ==
  ASSUME NEW l \in Ids, NEW t \in Ids, Letter(t) = Letter(l)
  PROVE  t = l \/ l \notin Chain
<1>1. CASE l \in {"6BL", "6BL_B", "7BL", "7BL_B"}
  BY <1>1 DEF Chain, ChainOrder
<1>2. CASE l \in {"1BL", "2BL", "2BL_B", "3BL", "4BL", "5BL"}
  BY <1>2 DEF Letter, Ids
<1> QED
  BY <1>1, <1>2 DEF Ids

\* A loader of an ini file: the file of its letter, or, of a 7BL nobody has mended,
\* the one of a 6BL, whose magic is another.
LEMMA IniRead ==
  ASSUME NEW files, NEW ini, NEW l \in DOMAIN ini.bl, SoundFiles(files), SoundIni(ini),
         ini.bl[l] \in DOMAIN files
  PROVE  LET p == files[ini.bl[l]]
         IN  /\ SoundPlace(l, FromFile(p, l)) /\ FromFile(p, l).part = p
             /\ p.build = ini.bl[l][3]
             /\ \/ p.text = l
                \/ l \notin Chain /\ Letter(p.text) = Letter(l)
                \/ Letter(l) = "G" /\ ini.bl[l][2] = "F"
<1> DEFINE name == ini.bl[l]
           p == files[name]
           m == [Unset EXCEPT !.part = p]
           n == FromFile(p, l)
<1>1. /\ SoundLoader(p) /\ name[2] = Letter(p.text) /\ name[3] = p.build
      /\ l \in Ids
      /\ name[2] = Letter(l) \/ (Letter(l) = "G" /\ name[2] = "F")
  BY DEF SoundFiles, SoundIni
<1> HIDE DEF name, p
<1>2. p.text \in Ids /\ p.magic = Magic(p.text) /\ Fields(p)
  BY <1>1 DEF SoundLoader
<1>3. \/ p.text = l
      \/ l \notin Chain /\ Letter(p.text) = Letter(l)
      \/ Letter(l) = "G" /\ name[2] = "F"
  BY <1>1, <1>2, ChainLetter
<1>4. p.magic = Magic(l) => Letter(p.text) = Letter(l)
  BY <1>1, <1>2 DEF Magic, Letter, Ids
<1> DEFINE plain == IF l \in {"1BL", "3BL"} THEN Unset.plain ELSE TRUE
           rc4   == IF l = "1BL" THEN KeptKey(p) ELSE Unset.rc4
<1>5. Unset = [part |-> Unset.part, plain |-> Unset.plain, rc4 |-> Unset.rc4, byCpu |-> Unset.byCpu]
      /\ Unset.plain \in BOOLEAN /\ Unset.byCpu \in BOOLEAN
  BY DEF Unset
<1>6. m = [part |-> p, plain |-> Unset.plain, rc4 |-> Unset.rc4, byCpu |-> Unset.byCpu]
  BY <1>5
<1> HIDE DEF m
<1>7. n = [m EXCEPT !.plain = plain, !.rc4 = rc4]
  BY <1>6 DEF FromFile, Taken, m
<1>8. plain \in BOOLEAN
  BY <1>5
<1> HIDE DEF plain, rc4, n
<1>9. n = [part |-> p, plain |-> plain, rc4 |-> rc4, byCpu |-> Unset.byCpu]
  BY <1>6, <1>7
<1>10. SoundPlace(l, n) /\ n.part = p
  BY <1>1, <1>2, <1>4, <1>5, <1>8, <1>9 DEF SoundPlace, isValid
<1> QED
  BY <1>1, <1>3, <1>10 DEF n, p, name

\* The ini file a dump writes names a loader by its letter, a 7BL by that of a 6BL.
LEMMA WrittenIniSound ==
  ASSUME NEW m, NEW i
  PROVE  SoundIni(WriteImageIni(m, i))
<1> DEFINE bl == [l \in Present(m.bl) |-> IniName(m.bl, l)]
           kv == IF m.alt.plain THEN <<"KV joined", "dec">> ELSE <<"KV", "dec">>
           alt == {}
           files == {j \in Slots : ~ i.beta /\ i.tails[j].there}
           ini == WriteImageIni(m, i)
<1>1. ini = [bl |-> bl, kv |-> kv, alt |-> alt, files |-> files, big |-> i.big]
  BY DEF WriteImageIni
<1>2. kv[2] = "dec" /\ alt \subseteq {<<"AltKV", "dec">>}
  OBVIOUS
<1>3. \A l \in DOMAIN bl :
        /\ bl[l] = <<bl[l][1], bl[l][2], bl[l][3]>>
        /\ bl[l][2] = Letter(l) \/ (Letter(l) = "G" /\ bl[l][2] = "F")
  BY DEF IniName
<1>4. DOMAIN bl \subseteq Ids /\ bl = [l \in DOMAIN bl |-> bl[l]]
  BY DEF Present
<1> HIDE DEF bl, kv, alt, files, ini
<1> QED
  BY <1>1, <1>2, <1>3, <1>4 DEF SoundIni, ini

\* A user who mends it makes no other mistake.
LEMMA MendedIniSound ==
  ASSUME NEW ini, SoundIni(ini)
  PROVE  SoundIni(Mended(ini))
<1> DEFINE bl == [l \in DOMAIN ini.bl |-> [ini.bl[l] EXCEPT ![2] = Letter(l)]]
           kv == <<"KV", "dec">>
           alt == IF ini.kv[1] = "KV joined" THEN {<<"AltKV", "dec">>} ELSE ini.alt
           one == [ini EXCEPT !.bl = bl]
           two == [one EXCEPT !.kv = kv]
           new == [two EXCEPT !.alt = alt]
<1>1. \A l \in DOMAIN bl : bl[l] = <<bl[l][1], bl[l][2], bl[l][3]>> /\ bl[l][2] = Letter(l)
  BY DEF SoundIni
<1>2. kv[2] = "dec" /\ alt \subseteq {<<"AltKV", "dec">>}
  BY DEF SoundIni
<1>3. DOMAIN bl \subseteq Ids /\ bl = [l \in DOMAIN bl |-> bl[l]]
  BY DEF SoundIni
<1> HIDE DEF bl, kv, alt
<1>4. one = [bl |-> bl, kv |-> ini.kv, alt |-> ini.alt, files |-> ini.files, big |-> ini.big]
  BY DEF SoundIni
<1> HIDE DEF one
<1>5. two = [bl |-> bl, kv |-> kv, alt |-> ini.alt, files |-> ini.files, big |-> ini.big]
  BY <1>4
<1> HIDE DEF two
<1>6. new = [bl |-> bl, kv |-> kv, alt |-> alt, files |-> ini.files, big |-> ini.big]
  BY <1>5
<1> HIDE DEF new
<1>7. SoundIni(new)
  BY <1>1, <1>2, <1>3, <1>6 DEF SoundIni
<1> QED
  BY <1>7, Zenon DEF Mended, new, two, one, bl, kv, alt


-----------------------------------------------------------------------------
(* The invariant *)

\* The directory, the ini files and the saved images.
SoundShelves ==
  /\ \A p \in DOMAIN images : SoundImage(images[p]) /\ Sealed(images[p])
  /\ SoundFiles(dir.files) /\ SoundVaults(dir.vaults)
  /\ \A p \in DOMAIN inis : SoundIni(inis[p])

\* How far a run is: nothing read or an ini file read, the image written, the image
\* read and its vault tried with the key of the run.
UnderWay ==
  /\ phase \in {"started", "read"} => ~ image.beta
  /\ phase = "read" => mem.smc = TakenSMC /\ mem.kv.plain
  /\ phase \in {"written", "saved", "loaded"} => Sealed(image)
  /\ phase = "loaded" =>
       /\ given = mem /\ mem.smc = [data |-> 0, plain |-> TRUE]
       /\ ~ image.beta => mem.kv = LoadVault(image.kv, Cpu(image))

PartsInv ==
  /\ phase \in {"ready", "started", "loaded", "dumped", "read", "written", "saved", "fault"}
  /\ SoundMemory(mem) /\ SoundMemory(given) /\ SoundImage(image)
  /\ SoundShelves /\ UnderWay /\ DumpTrue /\ OwnFilesRead

\* The invariant contains what TypeOK asks for.
LEMMA PartsInvType == PartsInv => TypeOK
<1> SUFFICES ASSUME PartsInv PROVE TypeOK
  OBVIOUS
<1>1. ASSUME NEW l \in Ids, NEW bl, SoundPlaces(bl)
      PROVE  Loader(bl[l])
  <2>1. SoundPlace(l, bl[l])
    BY <1>1 DEF SoundPlaces
  <2> QED
    BY <2>1 DEF SoundPlace, Fields, Loader
<1>2. \A l \in Ids : Loader(mem.bl[l]) /\ Loader(given.bl[l])
  BY <1>1 DEF PartsInv, SoundMemory
<1>3. Apart(image.cells) /\ DOMAIN image.tails = Slots /\ image.smc \in 0..1
  BY DEF PartsInv, SoundImage, SoundCells, SoundTails
<1>4. mem.smc.data \in 0..1 /\ mem.smc.plain \in BOOLEAN
  BY DEF PartsInv, SoundMemory
<1> QED
  BY <1>2, <1>3, <1>4 DEF PartsInv, TypeOK

LEMMA PartsInit == Init => PartsInv
<1> SUFFICES ASSUME Init PROVE PartsInv
  OBVIOUS
<1>1. SoundMemory(mem) /\ SoundMemory(given) /\ SoundImage(image) /\ phase = "ready"
  BY FreshSound, BlankSound DEF Init
<1>2. SoundShelves
  <2>1. CASE /\ \E i \in Consoles : images = On(NoPaths, "img", i)
             /\ dir = [files |-> NoPaths, vaults |-> NoPaths, smc |-> 0] /\ inis = NoPaths
    <3>1. PICK i \in Consoles : images = On(NoPaths, "img", i)
      BY <2>1
    <3>2. \A p \in DOMAIN images : images[p] = i
      BY <3>1 DEF On, NoPaths
    <3>3. DOMAIN dir.files = {} /\ DOMAIN dir.vaults = {} /\ DOMAIN inis = {}
      BY <2>1 DEF NoPaths
    <3> QED
      BY <3>2, <3>3, ConsoleAssumption DEF SoundShelves, SoundFiles, SoundVaults
  <2>2. CASE /\ \E k \in Kits :
                  /\ dir = [files |-> k.files, vaults |-> k.vaults, smc |-> 0]
                  /\ inis = On(NoPaths, "dir", k.ini)
             /\ images = NoPaths
    <3>1. PICK k \in Kits : /\ dir = [files |-> k.files, vaults |-> k.vaults, smc |-> 0]
                            /\ inis = On(NoPaths, "dir", k.ini)
      BY <2>2
    <3>2. \A p \in DOMAIN inis : inis[p] = k.ini
      BY <3>1 DEF On, NoPaths
    <3>3. DOMAIN images = {}
      BY <2>2 DEF NoPaths
    <3>4. dir.files = k.files /\ dir.vaults = k.vaults
      BY <3>1
    <3> QED
      BY <3>2, <3>3, <3>4, KitAssumption DEF SoundShelves
  <2> QED
    BY <2>1, <2>2 DEF Init
<1> QED
  BY <1>1, <1>2 DEF PartsInv, UnderWay, DumpTrue, OwnFilesRead

-----------------------------------------------------------------------------
(* The steps *)

LEMMA StartStep == PartsInv /\ Start => PartsInv'
<1> SUFFICES ASSUME PartsInv, Start PROVE PartsInv'
  OBVIOUS
<1>1. phase' = "started" /\ mem' = Fresh /\ given' = Fresh /\ image' = Blank
  BY DEF Start
<1>2. SoundShelves'
  BY DEF Start, PartsInv, SoundShelves
<1> QED
  BY <1>1, <1>2, FreshSound, BlankSound DEF PartsInv, UnderWay, DumpTrue, OwnFilesRead

\* Steps that only end a run.
LEMMA EndStep == PartsInv /\ (NothingToDo \/ Finish) => PartsInv'
BY DEF PartsInv, NothingToDo, Finish, SoundShelves, UnderWay, DumpTrue, OwnFilesRead

LEMMA LoadImageFileStep == PartsInv /\ LoadImageFile => PartsInv'
<1> SUFFICES ASSUME PartsInv, LoadImageFile PROVE PartsInv'
  OBVIOUS
<1> DEFINE i == images[opts.image]
           n == LoadContinue(mem, i)
<1>1. /\ opts.image \in DOMAIN images /\ image' = i /\ mem' = n /\ given' = n
      /\ phase' \in {"loaded", "ready", "fault"} /\ opts' = opts
  BY DEF LoadImageFile
<1>2. SoundImage(i) /\ Sealed(i) /\ SoundMemory(mem)
  BY <1>1 DEF PartsInv, SoundShelves
<1> HIDE DEF i
<1>3. /\ SoundMemory(n) /\ n.smc = [data |-> 0, plain |-> TRUE]
      /\ ~ i.beta => n.kv = LoadVault(i.kv, Cpu(i))
  BY <1>2, LoadContinueSound
<1> HIDE DEF n
<1> DEFINE key == Cpu(i)
<1>5. Cpu(image)' = key
  BY <1>1 DEF Cpu
<1> HIDE DEF key
<1>4. SoundShelves'
  BY DEF LoadImageFile, PartsInv, SoundShelves
<1>6. phase' = "loaded" /\ ~ image'.beta => mem'.kv = LoadVault(image'.kv, Cpu(image)')
  BY <1>1, <1>3, <1>5 DEF key
<1> QED
  BY <1>1, <1>2, <1>3, <1>4, <1>6 DEF PartsInv, UnderWay, DumpTrue, OwnFilesRead

LEMMA DumpStep == PartsInv /\ Dump => PartsInv'
<1> SUFFICES ASSUME PartsInv, Dump PROVE PartsInv'
  OBVIOUS
<1> DEFINE cpu   == Cpu(image)
           d     == DumpKeyVaults(dir.vaults, mem, cpu)
           files == DumpBootloaders(dir.files, cpu, mem.bl)
           vaults == IF image.beta THEN dir.vaults ELSE d.vaults
           ini   == WriteImageIni(mem', image)
<1>1. /\ phase = "loaded" /\ phase' = "dumped"
      /\ opts' = opts /\ image' = image /\ images' = images /\ given' = given
  BY DEF Dump
<1>2. /\ dir' = [files |-> files, vaults |-> vaults,
                 smc |-> IF mem.smc.plain THEN mem.smc.data ELSE UnMunge(mem.smc).data]
      /\ mem' = IF image.beta THEN mem ELSE [mem EXCEPT !.kv = d.kv, !.alt = d.alt]
      /\ inis' = On(inis, opts.path, ini)
  BY DEF Dump
<1>3. /\ SoundMemory(mem) /\ SoundImage(image) /\ Sealed(image) /\ given = mem
      /\ mem.smc = [data |-> 0, plain |-> TRUE]
      /\ ~ image.beta => mem.kv = LoadVault(image.kv, cpu)
  BY <1>1 DEF PartsInv, UnderWay
<1>4. /\ SoundFiles(dir.files) /\ SoundVaults(dir.vaults) /\ \A p \in DOMAIN inis : SoundIni(inis[p])
      /\ \A p \in DOMAIN images : SoundImage(images[p]) /\ Sealed(images[p])
  BY DEF PartsInv, SoundShelves
<1>5. SoundFiles(files)
  BY <1>3, <1>4, DumpBootloadersSound DEF SoundMemory
<1>6. ~ image.beta => /\ SoundVaults(d.vaults) /\ SoundVault(d.kv) /\ SoundVault(d.alt)
                      /\ ~ mem.kv.plain => d.vaults[<<"KV", "enc">>].under = image.kv.under
  <2> SUFFICES ASSUME ~ image.beta
               PROVE  /\ SoundVaults(d.vaults) /\ SoundVault(d.kv) /\ SoundVault(d.alt)
                      /\ ~ mem.kv.plain => d.vaults[<<"KV", "enc">>].under = image.kv.under
    OBVIOUS
  <2>1. SoundVault(mem.kv) /\ SoundVault(mem.alt) /\ SoundVault(image.kv) /\ image.kv.under # {}
    BY <1>3 DEF SoundMemory, SoundImage, Sealed
  <2>2. mem.kv = LoadVault(image.kv, cpu)
    BY <1>3
  <2> HIDE DEF cpu
  <2> QED
    BY <1>3, <1>4, <2>1, <2>2, DumpKeyVaultsSound
<1>7. SoundIni(ini)
  BY WrittenIniSound
<1> HIDE DEF cpu, d, files, ini
<1>8. SoundMemory(mem')
  <2>1. CASE image.beta
    BY <1>2, <1>3, <2>1
  <2>2. CASE ~ image.beta
    <3> DEFINE kv == d.kv
               alt == d.alt
    <3>1. mem' = [mem EXCEPT !.kv = kv, !.alt = alt]
      BY <1>2, <2>2
    <3>2. SoundVault(kv) /\ SoundVault(alt)
      BY <1>6, <2>2
    <3> HIDE DEF kv, alt
    <3>3. mem' = [bl |-> mem.bl, smc |-> mem.smc, kv |-> kv, alt |-> alt]
      BY <3>1, <1>3 DEF SoundMemory
    <3> QED
      BY <1>3, <3>2, <3>3 DEF SoundMemory
  <2> QED
    BY <2>1, <2>2
<1>9. SoundVaults(vaults) /\ (~ image.beta => vaults = d.vaults)
  BY <1>4, <1>6
<1> HIDE DEF vaults
<1>10. dir'.files = files /\ dir'.vaults = vaults /\ dir'.smc = 0
  BY <1>2, <1>3
<1>11. \A p \in DOMAIN inis' : SoundIni(inis'[p])
  BY <1>2, <1>4, <1>7 DEF On
<1>12. SoundShelves'
  BY <1>1, <1>4, <1>5, <1>9, <1>10, <1>11 DEF SoundShelves
<1>13. DumpTrue'
  BY <1>1, <1>3, <1>6, <1>9, <1>10 DEF DumpTrue, SoundVaults
<1> QED
  BY <1>1, <1>3, <1>8, <1>12, <1>13 DEF PartsInv, UnderWay, OwnFilesRead


LEMMA MendIniStep == PartsInv /\ MendIni => PartsInv'
<1> SUFFICES ASSUME PartsInv, MendIni PROVE PartsInv'
  OBVIOUS
<1>1. PICK path \in DOMAIN inis : inis' = [inis EXCEPT ![path] = Mended(inis[path])]
  BY DEF MendIni
<1>2. SoundIni(inis[path])
  BY DEF PartsInv, SoundShelves
<1>3. SoundIni(Mended(inis[path]))
  BY <1>2, MendedIniSound
<1>4. \A p \in DOMAIN inis' : SoundIni(inis'[p])
  BY <1>1, <1>3 DEF PartsInv, SoundShelves
<1>5. /\ phase = "ready" /\ phase' = phase
      /\ UNCHANGED <<mem, image, dir, images, given>>
  BY DEF MendIni
<1>6. SoundShelves'
  BY <1>4, <1>5 DEF PartsInv, SoundShelves
<1> QED
  BY <1>5, <1>6 DEF PartsInv, UnderWay, DumpTrue, OwnFilesRead

\* What is read from an ini file: of every loader the file that is meant, and a
\* vault that is as plain as its flag says.
LEMMA ReadImageIniStep == PartsInv /\ ReadImageIni => PartsInv'
<1> SUFFICES ASSUME PartsInv, ReadImageIni PROVE PartsInv'
  OBVIOUS
<1> DEFINE ini == inis[opts.ini]
<1>1. /\ phase = "started" /\ opts.ini \in DOMAIN inis
      /\ opts' = opts /\ dir' = dir /\ inis' = inis /\ images' = images
  BY DEF ReadImageIni
<1>2. SoundShelves'
  BY <1>1 DEF PartsInv, SoundShelves
<1>3. CASE ~ Readable(ini)
  <2>1. phase' = "ready" /\ mem' = mem /\ image' = image /\ given' = given
    BY <1>3 DEF ReadImageIni
  <2> QED
    BY <1>2, <2>1 DEF PartsInv, UnderWay, DumpTrue, OwnFilesRead
<1>4. CASE Readable(ini)
  <2> DEFINE Given(l) == IF l \in DOMAIN ini.bl THEN FromFile(dir.files[ini.bl[l]], l) ELSE Unset
             bl    == [l \in Ids |-> Given(l)]
             kv    == TakenVault(dir.vaults[ini.kv])
             alt   == IF ini.alt = {} THEN NoVault ELSE TakenVault(dir.vaults[<<"AltKV", "dec">>])
             tails == [i \in Slots |-> IF i \in ini.files THEN Added(image.tails[i]) ELSE image.tails[i]]
  <2>1. /\ mem' = [bl |-> bl, smc |-> TakenSMC, kv |-> kv, alt |-> alt]
        /\ image' = [image EXCEPT !.big = ini.big, !.tails = tails]
        /\ given' = mem' /\ phase' \in {"read", "fault"}
    BY <1>4, Zenon DEF ReadImageIni
  <2>2. /\ SoundIni(ini) /\ SoundFiles(dir.files) /\ SoundVaults(dir.vaults)
        /\ SoundImage(image) /\ ~ image.beta
    BY <1>1 DEF PartsInv, SoundShelves, UnderWay
  <2> DEFINE Own(l) == LET p == dir.files[ini.bl[l]] IN
                       /\ p.build = ini.bl[l][3]
                       /\ \/ p.text = l
                          \/ l \notin Chain /\ Letter(p.text) = Letter(l)
                          \/ Letter(l) = "G" /\ ini.bl[l][2] = "F"
  <2>3. ASSUME NEW l \in DOMAIN ini.bl
        PROVE  /\ SoundPlace(l, FromFile(dir.files[ini.bl[l]], l)) /\ Own(l)
               /\ FromFile(dir.files[ini.bl[l]], l).part = dir.files[ini.bl[l]]
    <3>1. ini.bl[l] \in DOMAIN dir.files
      BY <1>4 DEF Readable
    <3> QED
      BY <2>2, <3>1, IniRead
  <2>4. \A l \in Ids : SoundPlace(l, Given(l))
    BY <2>3, UnsetSound
  <2>5. SoundPlaces(bl)
    <3> HIDE DEF Given
    <3> QED
      BY <2>4 DEF SoundPlaces
  <2>6. ASSUME NEW n \in DOMAIN dir.vaults, n[2] = "dec"
        PROVE  SoundVault(TakenVault(dir.vaults[n])) /\ TakenVault(dir.vaults[n]).plain
    <3> DEFINE v == dir.vaults[n]
               on == TRUE
               t == [v EXCEPT !.plain = on]
    <3>1. SoundVault(v) /\ v.under = {}
      BY <2>2, <2>6 DEF SoundVaults
    <3>2. TakenVault(v) = t /\ on \in BOOLEAN /\ on
      BY DEF TakenVault
    <3> HIDE DEF v, on, t
    <3>3. t = [under |-> v.under, nonce |-> v.nonce, plain |-> on, alt |-> v.alt]
      BY <3>1 DEF SoundVault, t
    <3>4. SoundVault(t) /\ t.plain
      BY <3>1, <3>2, <3>3 DEF SoundVault
    <3> QED
      BY <3>2, <3>4 DEF v
  <2>7. SoundVault(kv) /\ kv.plain
    BY <1>4, <2>2, <2>6 DEF Readable, SoundIni
  <2>8. SoundVault(alt)
    <3>1. CASE ini.alt = {}
      BY <3>1, NoVaultSound
    <3>2. CASE ini.alt # {}
      <4>1. <<"AltKV", "dec">> \in DOMAIN dir.vaults
        BY <1>4, <2>2, <3>2 DEF Readable, SoundIni
      <4>2. <<"AltKV", "dec">>[2] = "dec"
        OBVIOUS
      <4> QED
        BY <2>6, <3>2, <4>1, <4>2
    <3> QED
      BY <3>1, <3>2
  <2>9. SoundTails(tails)
    <3>1. \A i \in Slots : /\ tails[i] = [there |-> tails[i].there, blocks |-> tails[i].blocks, data |-> tails[i].data]
                           /\ tails[i].blocks \in Nat
      BY <2>2 DEF SoundImage, SoundTails, Added
    <3>2. tails = [i \in Slots |-> tails[i]]
      OBVIOUS
    <3> HIDE DEF tails
    <3> QED
      BY <3>1, <3>2 DEF SoundTails
  <2>10. OwnFilesRead'
    <3>1. /\ inis'[opts'.ini] = ini /\ DOMAIN ini.bl \subseteq Ids
          /\ \A l \in Ids : given'.bl[l] = Given(l)
      BY <1>1, <2>1, <2>2 DEF SoundIni
    <3>2. \A l \in DOMAIN ini.bl : given'.bl[l].part = dir.files[ini.bl[l]] /\ Own(l)
      BY <2>3, <3>1
    <3> HIDE DEF ini
    <3> QED
      BY <3>1, <3>2 DEF OwnFilesRead
  <2> HIDE DEF bl, kv, alt
  <2>11. TakenSMC = [data |-> TakenSMC.data, plain |-> TakenSMC.plain]
         /\ TakenSMC.data \in 0..1 /\ TakenSMC.plain \in BOOLEAN
    BY DEF TakenSMC
  <2>12. SoundMemory(mem')
    BY <2>1, <2>5, <2>7, <2>8, <2>11 DEF SoundMemory
  <2> HIDE DEF tails
  <2>13. image' = [beta |-> image.beta, zeroed |-> image.zeroed, big |-> ini.big, junk |-> image.junk, cells |-> image.cells,
                   smc |-> image.smc, kv |-> image.kv, alt |-> image.alt, tails |-> tails]
    <3> DEFINE big == ini.big
               one == [image EXCEPT !.big = big]
    <3>1. image' = [one EXCEPT !.tails = tails]
      BY <2>1
    <3> HIDE DEF big
    <3>2. one = [beta |-> image.beta, zeroed |-> image.zeroed, big |-> big, junk |-> image.junk, cells |-> image.cells,
                 smc |-> image.smc, kv |-> image.kv, alt |-> image.alt, tails |-> image.tails]
      BY <2>2 DEF SoundImage
    <3> HIDE DEF one
    <3> QED
      BY <3>1, <3>2 DEF big
  <2>14. SoundImage(image') /\ ~ image'.beta
    <3>1. SoundCells(image')
      BY <2>2, <2>13 DEF SoundImage, SoundCells
    <3> QED
      BY <2>2, <2>9, <2>13, <3>1 DEF SoundImage
  <2>15. mem'.smc = TakenSMC /\ mem'.kv.plain
    BY <2>1, <2>7
  <2> QED
    BY <1>2, <2>1, <2>10, <2>12, <2>14, <2>15 DEF PartsInv, UnderWay, DumpTrue
<1> QED
  BY <1>3, <1>4

LEMMA ReadCutStep == PartsInv /\ ReadCut => PartsInv'
<1> SUFFICES ASSUME PartsInv, ReadCut PROVE PartsInv'
  OBVIOUS
<1>1. phase' = "fault" /\ UNCHANGED <<mem, image, dir, given>>
  BY DEF ReadCut
<1>2. /\ \A p \in DOMAIN images' : p \in DOMAIN images /\ images'[p] = images[p]
      /\ \A p \in DOMAIN inis' : p \in DOMAIN inis /\ inis'[p] = inis[p]
  BY DEF ReadCut, Without
<1>3. SoundShelves'
  BY <1>1, <1>2 DEF PartsInv, SoundShelves
<1> QED
  BY <1>1, <1>3 DEF PartsInv, UnderWay, DumpTrue, OwnFilesRead


\* What SaveContinue writes before the loaders: SMC and vaults.
Parts ==
  LET alt == IF mem.kv.alt THEN SaveVault(mem.alt, TRUE, opts.cpu) ELSE mem.alt
  IN  [image EXCEPT !.smc = SaveSMC(mem.smc).data, !.kv = SaveVault(mem.kv, TRUE, opts.cpu),
                    !.alt = IF mem.kv.alt THEN alt ELSE @]

LEMMA PartsSealed ==
  ASSUME PartsInv, phase = "read"
  PROVE  /\ SoundImage(Parts) /\ ~ Parts.beta /\ Parts.smc = 1
         /\ Parts.kv = SaveVault(mem.kv, TRUE, opts.cpu) /\ Parts.kv.under # {}
         /\ Parts.cells = image.cells /\ Parts.tails = image.tails /\ Parts.junk = image.junk
         /\ Parts.zeroed = image.zeroed
<1> DEFINE kv   == SaveVault(mem.kv, TRUE, opts.cpu)
           alt  == IF mem.kv.alt THEN SaveVault(mem.alt, TRUE, opts.cpu) ELSE mem.alt
           over == IF mem.kv.alt THEN alt ELSE image.alt
           data == SaveSMC(mem.smc).data
           one  == [image EXCEPT !.smc = data]
           two  == [one EXCEPT !.kv = kv]
<1>1. /\ SoundMemory(mem) /\ SoundImage(image) /\ ~ image.beta
      /\ mem.smc = TakenSMC /\ mem.kv.plain
  BY DEF PartsInv, UnderWay
<1>2. data = 1
  BY <1>1 DEF SaveSMC, TakenSMC, Munge
<1>3. SoundVault(kv) /\ kv.under # {}
  BY <1>1, EncryptSound DEF SaveVault, SoundMemory
<1>4. SoundVault(over)
  BY <1>1, SaveVaultSound DEF SoundMemory, SoundImage
<1> HIDE DEF kv, alt, over, data
<1>5. Parts = [two EXCEPT !.alt = over]
  BY Zenon DEF Parts, kv, alt, over, data, two, one
<1>6. one = [beta |-> image.beta, zeroed |-> image.zeroed, big |-> image.big, junk |-> image.junk, cells |-> image.cells,
             smc |-> data, kv |-> image.kv, alt |-> image.alt, tails |-> image.tails]
  BY <1>1 DEF SoundImage
<1> HIDE DEF one
<1>7. two = [beta |-> image.beta, zeroed |-> image.zeroed, big |-> image.big, junk |-> image.junk, cells |-> image.cells,
             smc |-> data, kv |-> kv, alt |-> image.alt, tails |-> image.tails]
  BY <1>6
<1> HIDE DEF two
<1>8. Parts = [beta |-> image.beta, zeroed |-> image.zeroed, big |-> image.big, junk |-> image.junk, cells |-> image.cells,
               smc |-> data, kv |-> kv, alt |-> over, tails |-> image.tails]
  BY <1>5, <1>7
<1>9. SoundCells(Parts)
  BY <1>1, <1>8 DEF SoundImage, SoundCells
<1>10. SoundImage(Parts)
  BY <1>1, <1>2, <1>3, <1>4, <1>8, <1>9 DEF SoundImage
<1> QED
  BY <1>1, <1>2, <1>3, <1>8, <1>10 DEF kv

\* SMC and vaults are sealed before the loaders are written, and stay so.
LEMMA SaveContinueStep == PartsInv /\ SaveContinue => PartsInv'
<1> SUFFICES ASSUME PartsInv, SaveContinue PROVE PartsInv'
  OBVIOUS
<1> DEFINE smc   == SaveSMC(mem.smc)
           kv    == SaveVault(mem.kv, TRUE, opts.cpu)
           alt   == IF mem.kv.alt THEN SaveVault(mem.alt, TRUE, opts.cpu) ELSE mem.alt
           saved == SaveBootloaders(Parts, opts.cpu, <<opts.bl>>, mem.bl)
<1>1. /\ phase = "read" /\ phase' \in {"fault", "written"}
      /\ mem' = [bl |-> saved.bl, smc |-> smc, kv |-> kv, alt |-> alt]
      /\ image' = saved.image
      /\ dir' = dir /\ inis' = inis /\ images' = images /\ given' = given
  BY Zenon DEF SaveContinue, Parts
<1>2. SoundMemory(mem) /\ mem.smc = TakenSMC /\ mem.kv.plain
  BY <1>1 DEF PartsInv, UnderWay
<1>3. smc = [data |-> 1, plain |-> FALSE]
  BY <1>2 DEF SaveSMC, TakenSMC, Munge
<1>4. SoundVault(kv) /\ SoundVault(alt)
  BY <1>2, SaveVaultSound DEF SoundMemory
<1>5. SoundImage(Parts) /\ ~ Parts.beta /\ Parts.smc = 1 /\ Parts.kv.under # {}
  BY <1>1, PartsSealed
<1> HIDE DEF smc, kv, alt
<1>6. SoundPlaces(saved.bl) /\ SoundImage(saved.image) /\ SameParts(Parts, saved.image)
  BY <1>2, <1>5, SaveBootloadersSound DEF SoundMemory
<1> HIDE DEF saved
<1>7. SoundMemory(mem')
  <2> DEFINE off == FALSE
  <2>1. smc = [data |-> 1, plain |-> off] /\ off \in BOOLEAN
    BY <1>3
  <2> HIDE DEF off
  <2>2. smc = [data |-> smc.data, plain |-> smc.plain] /\ smc.data \in 0..1 /\ smc.plain \in BOOLEAN
    BY <2>1
  <2> QED
    BY <1>1, <1>4, <1>6, <2>2 DEF SoundMemory
<1>8. SoundImage(image') /\ Sealed(image')
  BY <1>1, <1>5, <1>6 DEF Sealed, SameParts
<1>9. SoundShelves'
  BY <1>1 DEF PartsInv, SoundShelves
<1> QED
  BY <1>1, <1>7, <1>8, <1>9 DEF PartsInv, UnderWay, DumpTrue, OwnFilesRead

LEMMA ReadBackStep == PartsInv /\ ReadBack => PartsInv'
<1> SUFFICES ASSUME PartsInv, ReadBack PROVE PartsInv'
  OBVIOUS
<1>1. phase = "written" /\ phase' \in {"saved", "fault"} /\ mem' = LoadContinue(mem, image)
      /\ UNCHANGED <<opts, image, dir, inis, images, given>>
  BY DEF ReadBack
<1>2. SoundMemory(mem')
  BY <1>1, LoadContinueSound DEF PartsInv, UnderWay
<1>3. SoundShelves'
  BY <1>1 DEF PartsInv, SoundShelves
<1> QED
  BY <1>1, <1>2, <1>3 DEF PartsInv, UnderWay, DumpTrue, OwnFilesRead

LEMMA SaveImageStep == PartsInv /\ SaveImage => PartsInv'
<1> SUFFICES ASSUME PartsInv, SaveImage PROVE PartsInv'
  OBVIOUS
<1>1. /\ phase = "saved" /\ phase' = "ready"
      /\ images' = On(images, opts.image, image) /\ inis' = Without(inis, opts.image)
      /\ UNCHANGED <<opts, mem, image, dir, given>>
  BY DEF SaveImage
<1>2. SoundImage(image) /\ Sealed(image)
  BY <1>1 DEF PartsInv, UnderWay
<1>3. /\ \A p \in DOMAIN images' : SoundImage(images'[p]) /\ Sealed(images'[p])
      /\ \A p \in DOMAIN inis' : SoundIni(inis'[p])
  BY <1>1, <1>2 DEF PartsInv, SoundShelves, On, Without
<1>4. SoundShelves'
  BY <1>1, <1>3 DEF PartsInv, SoundShelves
<1> QED
  BY <1>1, <1>4 DEF PartsInv, UnderWay, DumpTrue, OwnFilesRead

LEMMA PartsStutter == PartsInv /\ UNCHANGED vars => PartsInv'
<1> SUFFICES ASSUME PartsInv, UNCHANGED vars PROVE PartsInv'
  OBVIOUS
<1>1. UNCHANGED <<phase, opts, mem, image, dir, inis, images, given>>
  BY DEF vars
<1>2. SoundShelves'
  BY <1>1 DEF PartsInv, SoundShelves
<1> DEFINE key == Cpu(image)
<1>3. Cpu(image)' = key
  BY <1>1 DEF Cpu
<1>4. phase = "loaded" /\ ~ image.beta => mem.kv = LoadVault(image.kv, key)
  BY DEF PartsInv, UnderWay
<1> HIDE DEF key
<1>5. UnderWay'
  BY <1>1, <1>3, <1>4 DEF PartsInv, UnderWay
<1>6. DumpTrue' /\ OwnFilesRead'
  BY <1>1 DEF PartsInv, DumpTrue, OwnFilesRead
<1> QED
  BY <1>1, <1>2, <1>5, <1>6 DEF PartsInv

LEMMA PartsInductive == PartsInv /\ [Next]_vars => PartsInv'
BY StartStep, EndStep, LoadImageFileStep, DumpStep, MendIniStep, ReadImageIniStep, ReadCutStep,
   SaveContinueStep, ReadBackStep, SaveImageStep, PartsStutter DEF Next

-----------------------------------------------------------------------------
(* The theorems *)

LEMMA PartsAlways == Spec => []PartsInv
<1>1. Init => PartsInv
  BY PartsInit
<1>2. PartsInv /\ [Next]_vars => PartsInv'
  BY PartsInductive
<1> QED
  BY <1>1, <1>2, PTL DEF Spec

\* Whatever is read, turned and written: flags are flags, an SMC is munged at most
\* once, and no loader of the chain is put over another (Put of SaveBootloader).
THEOREM PartsTypeCorrect == Spec => []TypeOK
BY PartsAlways, PartsInvType, PTL

\* What DumpKeyVaults and DumpSMC call decrypted is, and a vault that the key did
\* not open is dumped as it is in the image.
LEMMA DumpsTellTheTruth == Spec => []DumpTrue
<1>1. PartsInv => DumpTrue
  BY DEF PartsInv
<1> QED
  BY <1>1, PartsAlways, PTL

\* ReadImageIni takes for every loader the dump of that loader and build, but a 7BL
\* that of a 6BL as long as nobody has mended the ini.
THEOREM LoadersReadFromOwnFiles == Spec => []OwnFilesRead
<1>1. PartsInv => OwnFilesRead
  BY DEF PartsInv
<1> QED
  BY <1>1, PartsAlways, PTL

-----------------------------------------------------------------------------
(* The flag of a 4BL                                                       *)

TrueFlag(m) == m.plain => m.part.under = {}

\* Crypt leaves the flag alone.
LEMMA CryptKeepsFlag ==
  ASSUME NEW l, NEW m, NEW prev, NEW cpu, NEW bl2, Turned(m, m)
  PROVE  Crypt(l, m, prev, cpu, bl2).plain = m.plain
<1> DEFINE key  == CryptKey(l, m, prev, cpu, bl2)
           part == Rc4(m.part, key)
<1>1. Crypt(l, m, prev, cpu, bl2) = [m EXCEPT !.part = part, !.rc4 = key]
  BY DEF Crypt
<1> HIDE DEF key, part
<1> QED
  BY <1>1 DEF Turned

\* Of the two tries on a 4BL, the flag is set by one that opened it.
LEMMA Load4BLFlag ==
  ASSUME NEW m, NEW prev, NEW cpu, NEW bl2, cpu # "null",
         Fields(m.part), Turned(m, m), m.plain = FALSE
  PROVE  TrueFlag(Load4BL(m, prev, cpu, bl2))
<1> DEFINE first  == Crypt("4BL", m, prev, cpu, bl2)
           again  == [first EXCEPT !.byCpu = TRUE, !.plain = FALSE]
           second == Crypt("4BL", again, prev, cpu, bl2)
<1>1. Load4BL(m, prev, cpu, bl2) =
        IF Decrypted4BL(first, cpu) THEN Taken("4BL", first)
        ELSE IF m.byCpu THEN [first EXCEPT !.plain = FALSE]
        ELSE IF Decrypted4BL(second, cpu) THEN Taken("4BL", second)
        ELSE second
  BY DEF Load4BL
<1>2. Fields(first.part) /\ Turned(first, first)
  BY CryptTurns, TurnedOn
<1> HIDE DEF first
<1>3. Turned(again, again) /\ Fields(again.part)
  BY <1>2, FlagsTurn, TurnedOn
<1>4. again.plain = FALSE
  BY <1>2 DEF Turned
<1> HIDE DEF again
<1>5. second.plain = FALSE /\ Turned(second, second) /\ Fields(second.part)
  BY <1>3, <1>4, CryptKeepsFlag, CryptTurns, TurnedOn
<1> HIDE DEF second
<1>6. ASSUME NEW n, Turned(n, n), Decrypted4BL(n, cpu)
      PROVE  TrueFlag(Taken("4BL", n))
  <2> DEFINE on == TRUE
  <2>1. Taken("4BL", n) = [n EXCEPT !.plain = on, !.rc4 = n.rc4]
    BY DEF Taken
  <2> HIDE DEF on
  <2>2. Taken("4BL", n).part = n.part
    BY <2>1, <1>6 DEF Turned
  <2>3. n.part.under = {}
    BY <1>6 DEF Decrypted4BL
  <2> QED
    BY <2>2, <2>3 DEF TrueFlag
<1>7. TrueFlag([first EXCEPT !.plain = FALSE])
  BY <1>2 DEF Turned, TrueFlag
<1> QED
  BY <1>1, <1>2, <1>5, <1>6, <1>7 DEF TrueFlag

\* LoadBootloader of the 4BL, and of another.
LEMMA LoadBootloaderFlag ==
  ASSUME NEW cpu, NEW w, NEW l \in Ids, SoundWork(w), Positioned(w.image, l, w.at)
  PROVE  LET v == LoadBootloader(cpu, w, l)
         IN  /\ l # "4BL" => v.bl["4BL"] = w.bl["4BL"]
             /\ l = "4BL" /\ cpu # "null" /\ w.bl["4BL"].plain = FALSE => TrueFlag(v.bl["4BL"])
<1> DEFINE m == [w.bl[l] EXCEPT !.part = Header(w.image, w.at)]
           n == Load(l, m, w.prev, cpu, w.bl["2BL"])
           v == LoadBootloader(cpu, w, l)
<1>1. SoundPlace(l, m) /\ Turned(m, m)
  BY ReadSound DEF SoundWork, SoundPlaces
<1>2. v = IF isValid(l, m)
          THEN [w EXCEPT !.bl[l] = n, !.at = @ + Advance(m.part.len), !.prev = n.rc4]
          ELSE [w EXCEPT !.bl[l] = m, !.ret = 2]
  BY DEF LoadBootloader
<1>3. m.plain = w.bl[l].plain
  BY DEF SoundWork, SoundPlaces, SoundPlace
<1>4. l = "4BL" => n = Load4BL(m, w.prev, cpu, w.bl["2BL"])
  BY DEF Load
<1> HIDE DEF m, n, v
<1>5. v.bl = [w.bl EXCEPT ![l] = n] \/ v.bl = [w.bl EXCEPT ![l] = m]
  BY <1>2 DEF SoundWork
<1>6. DOMAIN w.bl = Ids /\ "4BL" \in Ids
  BY DEF SoundWork, SoundPlaces, Ids
<1>7. ASSUME l = "4BL", cpu # "null", w.bl["4BL"].plain = FALSE
      PROVE  TrueFlag(n) /\ TrueFlag(m)
  <2>1. m.plain = FALSE /\ Fields(m.part)
    BY <1>1, <1>3, <1>7 DEF SoundPlace
  <2>2. TrueFlag(Load4BL(m, w.prev, cpu, w.bl["2BL"]))
    BY <1>1, <1>7, <2>1, Load4BLFlag
  <2> QED
    BY <1>4, <1>7, <2>1, <2>2 DEF TrueFlag
<1> QED
  BY <1>5, <1>6, <1>7 DEF v

\* A step of the chain, the 4BL's or another.
LEMMA LoadStepFlag ==
  ASSUME NEW cpu, NEW w, NEW l \in Ids, SoundWork(w),
         w.ret = 0 /\ Asked(w.image, cpu, w.bl, l) => Positioned(w.image, l, w.at)
  PROVE  LET v == LoadStep(cpu, w, l)
         IN  /\ l # "4BL" => v.bl["4BL"] = w.bl["4BL"]
             /\ l = "4BL" /\ cpu # "null" /\ w.bl["4BL"].plain = FALSE => TrueFlag(v.bl["4BL"])
<1> DEFINE u == [w EXCEPT !.prev = PrevKey(w, l)]
           v == LoadStep(cpu, w, l)
<1>1. CASE w.ret = 0 /\ Asked(w.image, cpu, w.bl, l)
  <2>1. u = [image |-> w.image, bl |-> w.bl, at |-> w.at, prev |-> PrevKey(w, l), ret |-> w.ret]
    BY WorkMoved
  <2>2. v = LoadBootloader(cpu, u, l)
    BY <1>1 DEF LoadStep
  <2> HIDE DEF u, v
  <2>3. SoundWork(u) /\ Positioned(u.image, l, u.at) /\ u.bl = w.bl
    BY <2>1, <1>1 DEF SoundWork
  <2>4. /\ l # "4BL" => v.bl["4BL"] = u.bl["4BL"]
        /\ l = "4BL" /\ cpu # "null" /\ u.bl["4BL"].plain = FALSE => TrueFlag(v.bl["4BL"])
    BY <2>2, <2>3, LoadBootloaderFlag
  <2> QED
    BY <2>3, <2>4 DEF v
<1>2. CASE ~ (w.ret = 0 /\ Asked(w.image, cpu, w.bl, l))
  BY <1>2 DEF LoadStep, TrueFlag
<1> QED
  BY <1>1, <1>2

\* The slots leave the 4BL alone.
LEMMA Load6BLFlag ==
  ASSUME NEW cpu, NEW key, NEW w, NEW i \in Slots, SoundWork(w)
  PROVE  Load6BL(cpu, key, w, i).bl["4BL"] = w.bl["4BL"]
<1>0. Six(i) \in Ids \ {"4BL"}
  BY DEF Slots, Six, Ids
<1> DEFINE at == Sys + (i - 1) * Slot
           v  == [w EXCEPT !.at = at]
           u  == [v EXCEPT !.prev = key]
<1>1. Load6BL(cpu, key, w, i) = LoadBootloader(cpu, u, Six(i))
  BY DEF Load6BL
<1> HIDE DEF at
<1>2. u = [image |-> w.image, bl |-> w.bl, at |-> at, prev |-> key, ret |-> w.ret]
  <2>1. v = [image |-> w.image, bl |-> w.bl, at |-> at, prev |-> w.prev, ret |-> w.ret]
    BY WorkMoved
  <2> HIDE DEF v
  <2> QED
    BY <2>1
<1> HIDE DEF u
<1>3. SoundWork(u) /\ Positioned(u.image, Six(i), u.at) /\ u.bl = w.bl
  BY <1>2, SlotLoaders DEF SoundWork, Positioned
<1>4. LoadBootloader(cpu, u, Six(i)).bl["4BL"] = u.bl["4BL"]
  BY <1>0, <1>3, LoadBootloaderFlag
<1> QED
  BY <1>1, <1>3, <1>4

LEMMA Load7BLFlag ==
  ASSUME NEW cpu, NEW w, NEW i \in Slots, SoundWork(w)
  PROVE  Load7BL(cpu, w, i).bl["4BL"] = w.bl["4BL"]
<1>0. Seven(i) \in Ids \ {"4BL"}
  BY DEF Slots, Seven, Ids
<1> DEFINE l   == Seven(i)
           six == w.bl[Six(i)]
           at  == w.at + six.part.len
           m   == [w.bl[l] EXCEPT !.part = Header(w.image, at)]
           n   == Load(l, [m EXCEPT !.part = Joined(w.image, six.part, @, i)],
                       Inner(six, "7BL"), cpu, w.bl["2BL"])
           x   == IF isValid(l, m) THEN n ELSE m
           to  == at + Slot - six.part.len
           out == w.at + Slot - six.part.len
           v   == Load7BL(cpu, w, i)
<1>1. v = IF ~ isValid(Six(i), six) THEN [w EXCEPT !.at = out]
          ELSE [w EXCEPT !.at = to, !.bl[l] = x]
  BY Zenon DEF Load7BL
<1> HIDE DEF six, m, n, x, to, out, v
<1>2. v.bl = w.bl \/ v.bl = [w.bl EXCEPT ![l] = x]
  BY <1>1 DEF SoundWork
<1>3. DOMAIN w.bl = Ids /\ "4BL" \in Ids
  BY DEF SoundWork, SoundPlaces, Ids
<1> QED
  BY <1>0, <1>2, <1>3 DEF v

\* The flag of the 4BL after LoadBootloaders, of an image that is not of a beta kit.
LEMMA LoadBootloadersFlag ==
  ASSUME NEW i, NEW cpu, NEW key, NEW bl, SoundImage(i), SoundPlaces(bl), ~ i.beta,
         cpu # "null", bl["4BL"].plain = FALSE
  PROVE  TrueFlag(LoadBootloaders(i, cpu, key, bl)["4BL"])
<1> DEFINE w0    == Work(i, bl, IF i.beta THEN BetaEntry ELSE Entry, key)
           w1    == LoadStep(cpu, w0, "1BL")
           w2    == LoadStep(cpu, w1, "2BL")
           w3    == LoadStep(cpu, w2, "2BL_B")
           w4    == LoadStep(cpu, w3, "3BL")
           w5    == LoadStep(cpu, w4, "4BL")
           w6    == LoadStep(cpu, w5, "5BL")
           chain == LoadChain(i, cpu, key, bl)
           one   == Load6BL(cpu, key, chain, 1)
           sixes == Load6BL(cpu, key, one, 2)
           back  == [sixes EXCEPT !.at = Sys]
           first == Load7BL(cpu, back, 1)
           all   == Load7BL(cpu, first, 2)
<1>0. /\ chain = w6 /\ w0.bl = bl
      /\ LoadBootloaders(i, cpu, key, bl) = IF chain.ret # 0 THEN chain.bl ELSE all.bl
  BY DEF LoadChain, LoadBootloaders, Work
<1>1. /\ SoundWork(w0) /\ SoundWork(w1) /\ SoundWork(w2) /\ SoundWork(w3) /\ SoundWork(w4) /\ SoundWork(w5)
      /\ w1.bl["4BL"] = w0.bl["4BL"] /\ w2.bl["4BL"] = w1.bl["4BL"] /\ w3.bl["4BL"] = w2.bl["4BL"]
      /\ w4.bl["4BL"] = w3.bl["4BL"]
  <2>1. SoundWork(w0) /\ w0.image = i /\ w0.at = Entry /\ w0.ret = 0
    BY DEF Work, SoundWork
  <2> HIDE DEF w0
  <2>2. SoundWork(w1) /\ w1 = w0 /\ w1.bl["4BL"] = w0.bl["4BL"]
    BY <2>1, LoadStepSound DEF Positioned, Asked, Ids
  <2> HIDE DEF w1
  <2>3. Positioned(i, "2BL", w1.at) /\ "2BL" \in Ids /\ "2BL" # "4BL" /\ Asked(i, cpu, w1.bl, "2BL")
    BY <2>1, <2>2 DEF Positioned, Ids, Asked
  <2>4. /\ SoundWork(w2) /\ w2.image = i
        /\ w2.ret # 0 \/ \E n \in Nat \ {0} : w2.at = w1.at + Advance(n)
    BY <2>1, <2>2, <2>3, LoadStepSound
  <2>5. w2.bl["4BL"] = w1.bl["4BL"]
    BY <2>1, <2>2, <2>3, LoadStepFlag
  <2> HIDE DEF w2
  <2>6. w2.ret = 0 => w2.at # Entry
    BY <2>1, <2>2, <2>4, AdvanceBounds, AddressAssumption
  <2>7. (w2.ret = 0 => Positioned(i, "2BL_B", w2.at)) /\ "2BL_B" \in Ids
    BY <2>6 DEF Positioned, Ids
  <2>8. SoundWork(w3) /\ w3.image = i
    BY <2>4, <2>7, LoadStepSound
  <2>9. w3.bl["4BL"] = w2.bl["4BL"]
    BY <2>4, <2>7, LoadStepFlag
  <2> HIDE DEF w3
  <2>10. Positioned(i, "3BL", w3.at) /\ "3BL" \in Ids
    BY DEF Positioned, Ids
  <2>11. SoundWork(w4) /\ w4.image = i /\ w4.bl["4BL"] = w3.bl["4BL"]
    BY <2>8, <2>10, LoadStepSound, LoadStepFlag
  <2> HIDE DEF w4
  <2>12. SoundWork(w5)
    BY <2>11, LoadStepSound DEF Positioned, Ids
  <2> QED
    BY <2>1, <2>2, <2>4, <2>5, <2>8, <2>9, <2>11, <2>12
<1> HIDE DEF w0, w1, w2, w3, w4
<1>2. TrueFlag(w5.bl["4BL"])
  <2>1. w4.bl["4BL"].plain = FALSE
    BY <1>0, <1>1
  <2> QED
    BY <1>1, <2>1, LoadStepFlag DEF Positioned, Ids
<1> HIDE DEF w5
<1>3. w6.bl["4BL"] = w5.bl["4BL"]
  <2>1. Positioned(w5.image, "5BL", w5.at) /\ "5BL" \in Ids /\ "5BL" # "4BL"
    BY DEF Positioned, Ids
  <2> QED
    BY <1>1, <2>1, LoadStepFlag
<1>4. SoundWork(chain) /\ 1 \in Slots /\ 2 \in Slots /\ TrueFlag(chain.bl["4BL"])
  BY <1>0, <1>2, <1>3, LoadChainSound DEF Slots
<1> HIDE DEF w6, chain
<1>5. SoundWork(one) /\ one.bl["4BL"] = chain.bl["4BL"]
  BY <1>4, Load6BLSound, Load6BLFlag
<1> HIDE DEF one
<1>6. SoundWork(sixes) /\ sixes.bl["4BL"] = one.bl["4BL"]
  BY <1>4, <1>5, Load6BLSound, Load6BLFlag
<1> HIDE DEF sixes
<1>7. SoundWork(back) /\ back.bl = sixes.bl
  <2>1. back = [image |-> sixes.image, bl |-> sixes.bl, at |-> Sys, prev |-> sixes.prev, ret |-> sixes.ret]
    BY <1>6, WorkMoved
  <2> HIDE DEF back
  <2> QED
    BY <2>1, <1>6 DEF SoundWork
<1> HIDE DEF back
<1>8. SoundWork(first) /\ first.bl["4BL"] = back.bl["4BL"]
  BY <1>4, <1>7, Load7BLSound, Load7BLFlag
<1> HIDE DEF first
<1>9. all.bl["4BL"] = first.bl["4BL"]
  BY <1>4, <1>8, Load7BLFlag
<1> HIDE DEF all
<1> QED
  BY <1>0, <1>4, <1>5, <1>6, <1>7, <1>8, <1>9

\* A run starts with new objects, and with a key that is one.
Started == phase = "started" => mem = Fresh /\ opts.cpu # "null"

FlagInv == Started /\ FlagsTrue

\* LoadImageFile reads into new objects.
LEMMA FlagLoaded == PartsInv /\ Started /\ LoadImageFile => FlagsTrue'
<1> SUFFICES ASSUME PartsInv, Started, LoadImageFile, phase' = "loaded"
             PROVE  /\ mem'.kv.plain => mem'.kv.under = {}
                    /\ mem'.alt.plain => mem'.alt.under = {}
                    /\ mem'.bl["4BL"].plain /\ ~ image'.beta => mem'.bl["4BL"].part.under = {}
  BY DEF FlagsTrue
<1> DEFINE i == images[opts.image]
<1>1. /\ i = image' /\ mem' = LoadContinue(mem, i) /\ mem = Fresh /\ opts.cpu # "null"
      /\ SoundImage(i) /\ Sealed(i) /\ SoundMemory(mem)
  BY DEF LoadImageFile, Started, PartsInv, SoundShelves
<1> HIDE DEF i
<1>2. SoundVault(mem'.kv) /\ SoundVault(mem'.alt)
  BY <1>1, LoadContinueSound DEF SoundMemory
<1>3. ASSUME ~ i.beta
      PROVE  TrueFlag(mem'.bl["4BL"])
  <2>1. mem'.bl = LoadBootloaders(i, Cpu(i), Key(i), mem.bl) /\ Cpu(i) # "null"
    BY <1>1, <1>3 DEF LoadContinue, Cpu
  <2>2. mem.bl["4BL"].plain = FALSE /\ SoundPlaces(mem.bl)
    BY <1>1 DEF Fresh, Unset, Ids, SoundMemory
  <2> QED
    BY <1>1, <1>3, <2>1, <2>2, LoadBootloadersFlag
<1> QED
  BY <1>1, <1>2, <1>3 DEF SoundVault, TrueFlag

\* bIsDecrypted of the vaults and of the 4BL of any image, loaded with any keys, is
\* set by a try that opened them.
LEMMA FlagsTellTheTruth == Spec => []FlagsTrue
<1>1. Init => FlagInv
  BY DEF Init, FlagInv, Started, FlagsTrue
<1>2. PartsInv /\ FlagInv /\ [Next]_vars => FlagInv'
  <2> SUFFICES ASSUME PartsInv, FlagInv, [Next]_vars PROVE FlagInv'
    OBVIOUS
  <2>1. CASE Start
    <3>1. PICK args \in CommandLines : opts' = Parse(args)
      BY <2>1 DEF Start
    <3>2. opts'.cpu # "null"
      BY <3>1, CommandLineAssumption
    <3> QED
      BY <2>1, <3>2 DEF Start, FlagInv, Started, FlagsTrue
  <2>2. CASE LoadImageFile
    <3>1. phase' # "started"
      BY <2>2 DEF LoadImageFile
    <3> QED
      BY <2>2, <3>1, FlagLoaded DEF FlagInv, Started
  <2>3. CASE NothingToDo \/ Finish
    BY <2>3 DEF NothingToDo, Finish, FlagInv, Started, FlagsTrue
  <2>4. CASE Dump
    BY <2>4 DEF Dump, FlagInv, Started, FlagsTrue
  <2>5. CASE MendIni
    BY <2>5 DEF MendIni, FlagInv, Started, FlagsTrue
  <2>6. CASE ReadImageIni
    <3>1. phase' \in {"ready", "read", "fault"}
      BY <2>6 DEF ReadImageIni
    <3> QED
      BY <3>1 DEF FlagInv, Started, FlagsTrue
  <2>7. CASE ReadCut
    BY <2>7 DEF ReadCut, FlagInv, Started, FlagsTrue
  <2>8. CASE SaveContinue
    <3>1. phase' \in {"fault", "written"}
      BY <2>8 DEF SaveContinue
    <3> QED
      BY <3>1 DEF FlagInv, Started, FlagsTrue
  <2>9. CASE ReadBack \/ SaveImage
    BY <2>9 DEF ReadBack, SaveImage, FlagInv, Started, FlagsTrue
  <2>10. CASE UNCHANGED vars
    BY <2>10 DEF vars, FlagInv, Started, FlagsTrue
  <2> QED
    BY <2>1, <2>2, <2>3, <2>4, <2>5, <2>6, <2>7, <2>8, <2>9, <2>10 DEF Next
<1>3. FlagInv => FlagsTrue
  BY DEF FlagInv
<1> QED
  BY <1>1, <1>2, <1>3, PartsAlways, PTL DEF Spec

\* What the program calls decrypted is: the vaults and the 4BL of LoadContinue by
\* their flags, what DumpKeyVaults and DumpSMC write by the names of its files.
THEOREM DecryptedMeansDecrypted == Spec => []CalledDecrypted
<1>1. FlagsTrue /\ DumpTrue => CalledDecrypted
  BY DEF CalledDecrypted
<1> QED
  BY <1>1, FlagsTellTheTruth, DumpsTellTheTruth, PTL


=============================================================================
