-------------------------- MODULE ImageFound_proofs --------------------------
(***************************************************************************)
(* Found where saved.  Load turns back what Save has turned, with the same *)
(* key; the walk of LoadBootloaders over the image then follows that of    *)
(* SaveBootloaders, loader by loader and slot by slot.                     *)
(***************************************************************************)
EXTENDS ImageParts_proofs

-----------------------------------------------------------------------------
(* Loaders that look alike *)

\* What is known of a loader without opening it.
Alike(p, q) ==
  /\ q.magic = p.magic /\ q.text = p.text /\ q.len = p.len /\ q.build = p.build
  /\ q.dev = p.dev /\ q.dual = p.dual

\* A loader as an ini names it: flagged as plain, and not known to need the CPU key.
Given(l, m) == m.plain = (l \notin {"1BL", "3BL"}) /\ ~ m.byCpu

LEMMA TurnedAlike ==
  ASSUME NEW m, NEW n, Fields(m.part), Turned(m, n)
  PROVE  Alike(m.part, n.part) /\ n.part.digest = m.part.digest /\ n.part.used = m.part.used
BY DEF Fields, Turned, Alike

\* The key of a loader does not depend on whether it is encrypted.
LEMMA KeyAgain ==
  ASSUME NEW l, NEW m, NEW n, NEW prev, NEW cpu, NEW b, NEW c,
         Alike(m.part, n.part), ~ m.byCpu, ~ n.byCpu, cpu # "null",
         n.rc4 = CryptKey(l, m, prev, cpu, b)
  PROVE  CryptKey(l, n, prev, cpu, c) = CryptKey(l, m, prev, cpu, b)
<1>1. CASE Magic(l) = "2BL"
  <2>0. l # "4BL"
    BY <1>1 DEF Magic
  <2>1. n.part.dual = m.part.dual /\ n.part.dev = m.part.dev /\ n.part.text = m.part.text
    BY DEF Alike
  <2>2. Key2BL(n.part, prev, cpu) = Key2BL(m.part, prev, cpu)
    <3>1. CASE prev # NullKey /\ cpu # "null" /\ (n.part.dual \/ n.part.dev)
      BY <2>1, <3>1 DEF Key2BL
    <3>2. CASE ~ (prev # NullKey /\ cpu # "null" /\ (n.part.dual \/ n.part.dev))
      <4>1. Key2BL(n.part, prev, cpu) = prev \o <<n.part.text, cpu>>
        BY <3>2 DEF Key2BL
      <4>2. Key2BL(m.part, prev, cpu) = prev \o <<m.part.text, cpu>>
        BY <2>1, <3>2 DEF Key2BL
      <4> QED
        BY <2>1, <4>1, <4>2, Zenon
    <3> QED
      BY <3>1, <3>2
  <2>3. CryptKey(l, n, prev, cpu, c) = Key2BL(n.part, prev, cpu)
    BY <1>1, <2>0 DEF CryptKey
  <2>4. CryptKey(l, m, prev, cpu, b) = Key2BL(m.part, prev, cpu)
    BY <1>1, <2>0 DEF CryptKey
  <2> QED
    BY <2>2, <2>3, <2>4, Zenon
<1>2. CASE Magic(l) # "2BL" /\ l = "4BL"
  <2>1. /\ Key4BL(n, prev, cpu, c) = Append(prev, n.part.text)
        /\ Key4BL(m, prev, cpu, b) = Append(prev, m.part.text)
    BY DEF Key4BL
  <2> QED
    BY <1>2, <2>1 DEF CryptKey, Alike
<1>3. CASE Magic(l) # "2BL" /\ l # "4BL"
  BY <1>3 DEF CryptKey, Alike
<1> QED
  BY <1>1, <1>2, <1>3

\* Load of what Save has written, with the key it was written with.
LEMMA SaveOpens ==
  ASSUME NEW l \in Ids \ {"1BL", "3BL"}, NEW m, NEW prev, NEW cpu, NEW b, NEW c,
         SoundPlace(l, m), Given(l, m), m.part.under = {}, cpu # "null"
  PROVE  LET n == Save(l, m, prev, cpu, b)
             o == Load(l, n, prev, cpu, c)
         IN  o.part.under = {} /\ o.rc4 = n.rc4
<1> DEFINE key == CryptKey(l, m, prev, cpu, b)
           n   == Save(l, m, prev, cpu, b)
           o   == Load(l, n, prev, cpu, c)
           t   == Crypt(l, n, prev, cpu, c)
<1>1. Fields(m.part) /\ Turned(m, m) /\ m.plain /\ ~ m.byCpu
  BY DEF SoundPlace, Turned, Given, Fields
<1>2. n = [m EXCEPT !.part = Rc4(m.part, key), !.rc4 = key]
  BY <1>1 DEF Save, Crypt
<1>3. Turned(m, n)
  BY <1>1, LoadTurns
<1> HIDE DEF key, n
<1>4. n = [part |-> Rc4(m.part, key), plain |-> m.plain, rc4 |-> key, byCpu |-> m.byCpu]
  BY <1>2 DEF SoundPlace
<1>5. n.rc4 = key /\ n.plain /\ ~ n.byCpu /\ n.part.under = {key}
  BY <1>1, <1>4 DEF Rc4, Fields
<1>6. Alike(m.part, n.part) /\ Fields(n.part) /\ Turned(n, n)
  BY <1>1, <1>3, TurnedAlike, TurnedOn
<1>7. CryptKey(l, n, prev, cpu, c) = key
  <2>1. n.rc4 = CryptKey(l, m, prev, cpu, b)
    BY <1>5 DEF key
  <2> QED
    BY <1>1, <1>5, <1>6, <2>1, KeyAgain DEF key
<1>8. t = [n EXCEPT !.part = Rc4(n.part, key), !.rc4 = key]
  BY <1>7 DEF Crypt
<1> HIDE DEF t
<1>9. t = [part |-> Rc4(n.part, key), plain |-> n.plain, rc4 |-> key, byCpu |-> n.byCpu]
  BY <1>6, <1>8 DEF Turned
<1>10. t.part.under = {} /\ t.rc4 = key
  BY <1>5, <1>6, <1>9 DEF Rc4, Fields
<1>11. o = Taken(l, t)
  <2>1. CASE l = "4BL"
    <3>1. t = Crypt("4BL", n, prev, cpu, c)
      BY <2>1 DEF t
    <3>2. Load("4BL", n, prev, cpu, c) = Load4BL(n, prev, cpu, c)
      BY Zenon DEF Load
    <3>3. Load4BL(n, prev, cpu, c) = Taken("4BL", t)
      BY <1>10, <3>1, Zenon DEF Load4BL, Decrypted4BL
    <3> QED
      BY <2>1, <3>2, <3>3
  <2>2. CASE l # "4BL"
    <3>1. l # "1BL"
      OBVIOUS
    <3> QED
      BY <2>2, <3>1, Zenon DEF Load, t
  <2> QED
    BY <2>1, <2>2
<1>12. Taken(l, t) = [t EXCEPT !.plain = IF l \in {"1BL", "3BL"} THEN t.plain ELSE TRUE, !.rc4 = t.rc4]
  BY DEF Taken
<1>13. Taken(l, t).part = t.part /\ Taken(l, t).rc4 = t.rc4
  BY <1>9, <1>12
<1> QED
  BY <1>5, <1>10, <1>11, <1>13 DEF n

\* A loader that is put in a place leaves those that end before it or begin behind.
LEMMA PutKeeps ==
  ASSUME NEW cells, NEW at, NEW p, NEW size
  PROVE  LET new == Put(cells, at, p, size)
         IN  /\ at \in DOMAIN new /\ new[at] = p
             /\ \A a \in DOMAIN cells :
                  a # at /\ (End(cells, a) <= at \/ at + size <= a) =>
                    a \in DOMAIN new /\ new[a] = cells[a] /\ End(new, a) = End(cells, a)
             /\ \A a \in DOMAIN new : a # at => a \in DOMAIN cells /\ new[a] = cells[a]
<1> DEFINE kept == {a \in DOMAIN cells : End(cells, a) <= at \/ at + size <= a}
           new  == Put(cells, at, p, size)
<1>1. new = [a \in kept \cup {at} |-> IF a = at THEN p ELSE cells[a]]
  BY DEF Put
<1> HIDE DEF new
<1>2. at \in DOMAIN new /\ new[at] = p
  BY <1>1
<1>3. ASSUME NEW a \in DOMAIN cells, a # at, End(cells, a) <= at \/ at + size <= a
      PROVE  a \in DOMAIN new /\ new[a] = cells[a] /\ End(new, a) = End(cells, a)
  <2>1. a \in DOMAIN new /\ new[a] = cells[a]
    BY <1>1, <1>3
  <2> QED
    BY <2>1 DEF End
<1>4. \A a \in DOMAIN new : a # at => a \in DOMAIN cells /\ new[a] = cells[a]
  BY <1>1
<1> QED
  BY <1>2, <1>3, <1>4 DEF new

\* SaveBootloader and LoadBootloader of a loader that is there.
LEMMA SaveBootloaderWrites ==
  ASSUME NEW cpu, NEW w, NEW l \in Ids, NEW limit, SoundWork(w), isValid(l, w.bl[l])
  PROVE  LET n    == Save(l, w.bl[l], w.prev, cpu, w.bl["2BL"])
             size == IF limit > 0 THEN limit ELSE n.part.len
         IN  SaveBootloader(cpu, w, l, limit) =
               [image |-> [w.image EXCEPT !.cells = Put(w.image.cells, w.at, n.part, size)],
                bl |-> [w.bl EXCEPT ![l] = n], at |-> w.at + n.part.len, prev |-> n.rc4, ret |-> w.ret]
<1> DEFINE n    == Save(l, w.bl[l], w.prev, cpu, w.bl["2BL"])
           p    == n.part
           size == IF limit > 0 THEN limit ELSE p.len
           new  == Put(w.image.cells, w.at, p, size)
           v    == SaveBootloader(cpu, w, l, limit)
<1>1. v = [w EXCEPT !.bl[l] = n, !.prev = n.rc4, !.at = w.at + p.len, !.image.cells = new]
  BY DEF SaveBootloader
<1> HIDE DEF v, new, n
<1>2. v = [image |-> [w.image EXCEPT !.cells = new], bl |-> [w.bl EXCEPT ![l] = n],
           at |-> w.at + p.len, prev |-> n.rc4, ret |-> w.ret]
  BY <1>1 DEF SoundWork
<1> QED
  BY <1>2 DEF v, new, n

LEMMA SaveBootloaderWhole ==
  ASSUME NEW cpu, NEW w, NEW l \in Ids, SoundWork(w), isValid(l, w.bl[l])
  PROVE  LET n == Save(l, w.bl[l], w.prev, cpu, w.bl["2BL"])
         IN  SaveBootloader(cpu, w, l, 0) =
               [image |-> [w.image EXCEPT !.cells = Put(w.image.cells, w.at, n.part, n.part.len)],
                bl |-> [w.bl EXCEPT ![l] = n], at |-> w.at + n.part.len, prev |-> n.rc4, ret |-> w.ret]
<1> DEFINE n     == Save(l, w.bl[l], w.prev, cpu, w.bl["2BL"])
           limit == 0
           size  == IF limit > 0 THEN limit ELSE n.part.len
<1> HIDE DEF limit
<1>1. SaveBootloader(cpu, w, l, limit) =
        [image |-> [w.image EXCEPT !.cells = Put(w.image.cells, w.at, n.part, size)],
         bl |-> [w.bl EXCEPT ![l] = n], at |-> w.at + n.part.len, prev |-> n.rc4, ret |-> w.ret]
  BY SaveBootloaderWrites
<1>2. size = n.part.len
  <2> HIDE DEF n
  <2> QED
    BY DEF limit
<1> HIDE DEF size, n
<1>3. SaveBootloader(cpu, w, l, 0) =
        [image |-> [w.image EXCEPT !.cells = Put(w.image.cells, w.at, n.part, n.part.len)],
         bl |-> [w.bl EXCEPT ![l] = n], at |-> w.at + n.part.len, prev |-> n.rc4, ret |-> w.ret]
  BY <1>1, <1>2 DEF limit
<1> QED
  BY <1>3, Zenon DEF n

LEMMA LoadBootloaderReads ==
  ASSUME NEW cpu, NEW w, NEW l \in Ids, SoundWork(w), isValid(l, w.bl[l]),
         Header(w.image, w.at) = w.bl[l].part
  PROVE  LET n == w.bl[l]
             o == Load(l, n, w.prev, cpu, w.bl["2BL"])
         IN  LoadBootloader(cpu, w, l) =
               [image |-> w.image, bl |-> [w.bl EXCEPT ![l] = o],
                at |-> w.at + Advance(n.part.len), prev |-> o.rc4, ret |-> w.ret]
<1> DEFINE n == w.bl[l]
           m == [n EXCEPT !.part = Header(w.image, w.at)]
           o == Load(l, n, w.prev, cpu, w.bl["2BL"])
           v == LoadBootloader(cpu, w, l)
<1>1. m = n
  <2>1. n = [part |-> n.part, plain |-> n.plain, rc4 |-> n.rc4, byCpu |-> n.byCpu]
    BY DEF SoundWork, SoundPlaces, SoundPlace
  <2> HIDE DEF n
  <2>2. m = [n EXCEPT !.part = n.part]
    BY DEF n
  <2> QED
    BY <2>1, <2>2
<1> HIDE DEF m
<1>2. v = [w EXCEPT !.bl[l] = o, !.at = w.at + Advance(n.part.len), !.prev = o.rc4]
  <2>1. v = IF isValid(l, m)
            THEN [w EXCEPT !.bl[l] = Load(l, m, w.prev, cpu, w.bl["2BL"]),
                           !.at = @ + Advance(m.part.len),
                           !.prev = Load(l, m, w.prev, cpu, w.bl["2BL"]).rc4]
            ELSE [w EXCEPT !.bl[l] = m, !.ret = 2]
    BY DEF LoadBootloader, m
  <2> HIDE DEF v
  <2> QED
    BY <1>1, <2>1
<1> HIDE DEF v, o
<1>3. v = [image |-> w.image, bl |-> [w.bl EXCEPT ![l] = o],
           at |-> w.at + Advance(n.part.len), prev |-> o.rc4, ret |-> w.ret]
  BY <1>2 DEF SoundWork
<1> QED
  BY <1>3 DEF v, o

\* LoadBootloader of whatever is there touches the other loaders not at all.
Shaped(w) ==
  /\ w = [image |-> w.image, bl |-> w.bl, at |-> w.at, prev |-> w.prev, ret |-> w.ret]
  /\ w.bl = [k \in Ids |-> w.bl[k]]

OnlyLoads(w, v, L) == Shaped(v) /\ v.image = w.image /\ \A k \in Ids \ L : v.bl[k] = w.bl[k]

LEMMA LoadBootloaderFrame ==
  ASSUME NEW cpu, NEW w, NEW l \in Ids, Shaped(w)
  PROVE  OnlyLoads(w, LoadBootloader(cpu, w, l), {l})
<1> DEFINE m == [w.bl[l] EXCEPT !.part = Header(w.image, w.at)]
           n == Load(l, m, w.prev, cpu, w.bl["2BL"])
           v == LoadBootloader(cpu, w, l)
<1>1. v = IF isValid(l, m)
          THEN [w EXCEPT !.bl[l] = n, !.at = @ + Advance(m.part.len), !.prev = n.rc4]
          ELSE [w EXCEPT !.bl[l] = m, !.ret = 2]
  BY DEF LoadBootloader
<1> HIDE DEF n, v
<1>2. CASE isValid(l, m)
  <2> DEFINE bl == [w.bl EXCEPT ![l] = n]
             at == w.at + Advance(m.part.len)
  <2> HIDE DEF m
  <2>1. v = [image |-> w.image, bl |-> bl, at |-> at, prev |-> n.rc4, ret |-> w.ret]
    BY <1>1, <1>2 DEF Shaped
  <2>2. bl = [k \in Ids |-> bl[k]] /\ \A k \in Ids \ {l} : bl[k] = w.bl[k]
    BY DEF Shaped
  <2> HIDE DEF bl, at
  <2>3. OnlyLoads(w, v, {l})
    BY <2>1, <2>2 DEF Shaped, OnlyLoads
  <2> QED
    BY <2>3 DEF v
<1>3. CASE ~ isValid(l, m)
  <2> DEFINE bl == [w.bl EXCEPT ![l] = m]
  <2> HIDE DEF m
  <2>1. v = [image |-> w.image, bl |-> bl, at |-> w.at, prev |-> w.prev, ret |-> 2]
    BY <1>1, <1>3 DEF Shaped
  <2>2. bl = [k \in Ids |-> bl[k]] /\ \A k \in Ids \ {l} : bl[k] = w.bl[k]
    BY DEF Shaped
  <2> HIDE DEF bl
  <2>3. OnlyLoads(w, v, {l})
    BY <2>1, <2>2 DEF Shaped, OnlyLoads
  <2> QED
    BY <2>3 DEF v
<1> QED
  BY <1>2, <1>3

LEMMA LoadStepFrame ==
  ASSUME NEW cpu, NEW w, NEW l \in Ids, Shaped(w)
  PROVE  OnlyLoads(w, LoadStep(cpu, w, l), {l})
<1> DEFINE u == [w EXCEPT !.prev = PrevKey(w, l)]
<1>1. u = [image |-> w.image, bl |-> w.bl, at |-> w.at, prev |-> PrevKey(w, l), ret |-> w.ret]
  BY DEF Shaped
<1>2. CASE w.ret = 0 /\ Asked(w.image, cpu, w.bl, l)
  <2>1. LoadStep(cpu, w, l) = LoadBootloader(cpu, u, l)
    BY <1>2 DEF LoadStep
  <2> HIDE DEF u
  <2>2. Shaped(u) /\ u.image = w.image /\ u.bl = w.bl
    BY <1>1 DEF Shaped
  <2>3. OnlyLoads(u, LoadBootloader(cpu, u, l), {l})
    BY <2>2, LoadBootloaderFrame
  <2> QED
    BY <2>1, <2>2, <2>3 DEF OnlyLoads
<1>3. CASE ~ (w.ret = 0 /\ Asked(w.image, cpu, w.bl, l))
  BY <1>3 DEF LoadStep, OnlyLoads
<1> QED
  BY <1>2, <1>3

\* Digest changes one loader: the digest in it, and the key it was used with.
LEMMA DigestWrites ==
  ASSUME NEW w, NEW l \in Ids, NEW prev, NEW cpu, SoundWork(w)
  PROVE  LET key == CryptKey(l, w.bl[l], prev, cpu, w.bl["2BL"])
             m   == w.bl[l]
             n   == [part |-> [m.part EXCEPT !.digest = w.image.smc], plain |-> m.plain,
                     rc4 |-> key, byCpu |-> m.byCpu]
         IN  Digest(w, l, prev, cpu) =
               [image |-> w.image, bl |-> [w.bl EXCEPT ![l] = n], at |-> w.at, prev |-> w.prev, ret |-> w.ret]
<1> DEFINE key == CryptKey(l, w.bl[l], prev, cpu, w.bl["2BL"])
           m == w.bl[l]
           v == Digest(w, l, prev, cpu)
           p == [m.part EXCEPT !.digest = w.image.smc]
           n == [part |-> p, plain |-> m.plain, rc4 |-> key, byCpu |-> m.byCpu]
           bl == [w.bl EXCEPT ![l] = n]
           a == [m EXCEPT !.part.digest = w.image.smc]
           b == [w.bl EXCEPT ![l] = a]
           u == [w EXCEPT !.bl[l].part.digest = w.image.smc]
<1>1. v = [w EXCEPT !.bl[l].part.digest = w.image.smc, !.bl[l].rc4 = key]
  BY DEF Digest
<1> HIDE DEF v, key
<1>2. SoundPlace(l, m) /\ w.bl = [k \in Ids |-> w.bl[k]]
  BY DEF SoundWork, SoundPlaces
<1>3. a = [part |-> p, plain |-> m.plain, rc4 |-> m.rc4, byCpu |-> m.byCpu]
  BY <1>2 DEF SoundPlace
<1> HIDE DEF p, a
<1>4. [a EXCEPT !.rc4 = key] = n
  BY <1>3
<1> HIDE DEF n
<1>5. [b EXCEPT ![l] = [b[l] EXCEPT !.rc4 = key]] = bl
  BY <1>2, <1>4
<1> HIDE DEF b, bl
<1>6. u = [image |-> w.image, bl |-> b, at |-> w.at, prev |-> w.prev, ret |-> w.ret]
  BY DEF SoundWork, a, b
<1>7. v = [u EXCEPT !.bl[l].rc4 = key]
  BY <1>1
<1> HIDE DEF u
<1>8. v = [image |-> w.image, bl |-> bl, at |-> w.at, prev |-> w.prev, ret |-> w.ret]
  BY <1>5, <1>6, <1>7
<1> QED
  BY <1>8 DEF v, bl, n, p, key

\* What was written as n opens with the key it was written with.
Opens(l, n, prev, cpu) ==
  \A c : LET o == Load(l, n, prev, cpu, c) IN o.part.under = {} /\ o.rc4 = n.rc4

\* What Save makes of m.
LEMMA SaveMakes ==
  ASSUME NEW l \in Ids \ {"1BL"}, NEW m, NEW prev, NEW cpu, NEW b, SoundPlace(l, m)
  PROVE  LET n == Save(l, m, prev, cpu, b)
         IN  /\ SoundPlace(l, n) /\ Alike(m.part, n.part)
             /\ n.part.digest = m.part.digest /\ n.part.used = m.part.used
             /\ Given(l, m) /\ m.part.under = {} /\ cpu # "null" /\ l # "3BL" => Opens(l, n, prev, cpu)
<1> DEFINE n == Save(l, m, prev, cpu, b)
<1>1. Fields(m.part) /\ Turned(m, m)
  BY DEF SoundPlace, Turned, Fields
<1>2. Turned(m, n)
  BY <1>1, LoadTurns
<1>3. ASSUME Given(l, m), m.part.under = {}, cpu # "null", l # "3BL"
      PROVE  Opens(l, n, prev, cpu)
  BY <1>3, SaveOpens DEF Opens
<1> HIDE DEF n
<1>4. SoundPlace(l, n)
  BY <1>2, TurnedSound
<1>5. Alike(m.part, n.part) /\ n.part.digest = m.part.digest /\ n.part.used = m.part.used
  BY <1>1, <1>2, TurnedAlike
<1> QED
  BY <1>3, <1>4, <1>5 DEF n

\* What a step of the chain writes, of a loader that is kept.
LEMMA SaveStepWrites ==
  ASSUME NEW cpu, NEW w, NEW l \in Ids \ {"1BL"}, SoundWork(w), w.ret = 0, Kept(cpu, w.bl, l),
         SaveStep(cpu, w, l).ret = 0
  PROVE  LET v == SaveStep(cpu, w, l)
             m == w.bl[l]
             n == v.bl[l]
         IN  /\ isValid(l, m) /\ SoundPlace(l, n) /\ Alike(m.part, n.part)
             /\ v.bl = [w.bl EXCEPT ![l] = n] /\ v.at = w.at + n.part.len /\ v.prev = n.rc4
             /\ v.image = [w.image EXCEPT !.cells = Put(w.image.cells, w.at, n.part, n.part.len)]
             /\ Digested(w.bl, l) => n.part.digest = w.image.smc
             /\ Given(l, m) /\ m.part.under = {} /\ cpu # "null" /\ l # "3BL" =>
                  Opens(l, n, w.prev, cpu)
<1> DEFINE u == IF Digested(w.bl, l) THEN Digest(w, l, w.prev, cpu) ELSE w
           v == SaveStep(cpu, w, l)
           m == w.bl[l]
           k == u.bl[l]
           n == Save(l, k, u.prev, cpu, u.bl["2BL"])
<1>1. v = SaveBootloader(cpu, u, l, 0)
  BY DEF SaveStep
<1>2. SoundWork(u)
  BY DigestSound
<1>3. SoundPlace(l, m) /\ w.bl = [j \in Ids |-> w.bl[j]]
  BY DEF SoundWork, SoundPlaces
<1>4. /\ u.image = w.image /\ u.at = w.at /\ u.prev = w.prev /\ u.ret = w.ret
      /\ u.bl = [w.bl EXCEPT ![l] = k] /\ Alike(m.part, k.part)
      /\ k.plain = m.plain /\ k.byCpu = m.byCpu /\ k.part.under = m.part.under
      /\ Digested(w.bl, l) => k.part.digest = w.image.smc
  <2>1. CASE Digested(w.bl, l)
    <3> DEFINE key == CryptKey(l, m, w.prev, cpu, w.bl["2BL"])
               p   == [m.part EXCEPT !.digest = w.image.smc]
               d   == [part |-> p, plain |-> m.plain, rc4 |-> key, byCpu |-> m.byCpu]
               bl  == [w.bl EXCEPT ![l] = d]
    <3>1. u = [image |-> w.image, bl |-> bl, at |-> w.at, prev |-> w.prev, ret |-> w.ret]
      BY <2>1, DigestWrites
    <3> HIDE DEF key, u, d
    <3>2. k = d
      BY <1>3, <3>1
    <3>3. Alike(m.part, p) /\ p.under = m.part.under /\ p.digest = w.image.smc
      BY <1>3 DEF Alike, SoundPlace, Fields
    <3> HIDE DEF p
    <3> QED
      BY <3>1, <3>2, <3>3 DEF d
  <2>2. CASE ~ Digested(w.bl, l)
    <3>1. u = w
      BY <2>2
    <3> HIDE DEF u
    <3> QED
      BY <1>3, <2>2, <3>1 DEF Alike
  <2> QED
    BY <2>1, <2>2
<1> HIDE DEF u, k
<1>5. isValid(l, k)
  <2>1. CASE ~ isValid(l, k)
    <3>1. v = [u EXCEPT !.ret = 1]
      BY <1>1, <2>1 DEF SaveBootloader, k
    <3>2. v.ret = 1
      BY <1>2, <3>1 DEF SoundWork
    <3> QED
      BY <3>2
  <2> QED
    BY <2>1
<1>6. isValid(l, m)
  BY <1>4, <1>5 DEF isValid, Alike
<1>7. v = [image |-> [u.image EXCEPT !.cells = Put(u.image.cells, u.at, n.part, n.part.len)],
           bl |-> [u.bl EXCEPT ![l] = n], at |-> u.at + n.part.len, prev |-> n.rc4, ret |-> u.ret]
  BY <1>1, <1>2, <1>5, SaveBootloaderWrites DEF k
<1>8. SoundPlace(l, k)
  BY <1>2 DEF SoundWork, SoundPlaces, k
<1>9. /\ SoundPlace(l, n) /\ Alike(k.part, n.part)
      /\ n.part.digest = k.part.digest /\ n.part.used = k.part.used
      /\ Given(l, k) /\ k.part.under = {} /\ cpu # "null" /\ l # "3BL" => Opens(l, n, w.prev, cpu)
  BY <1>4, <1>8, SaveMakes
<1> HIDE DEF n, v
<1>10. v.bl[l] = n /\ v.bl = [w.bl EXCEPT ![l] = n]
  BY <1>3, <1>4, <1>7
<1>11. Alike(m.part, n.part) /\ (Given(l, m) => Given(l, k))
  BY <1>4, <1>9 DEF Alike, Given
<1> QED
  BY <1>4, <1>6, <1>7, <1>9, <1>10, <1>11 DEF v

-----------------------------------------------------------------------------
(* The chain of a run that has read an ini file and written its image *)

\* A walk over the image that goes on writing: what is laid down ends before it.
Laying(w) ==
  /\ SoundWork(w) /\ ~ w.image.beta /\ w.at \in Nat /\ w.ret = 0
  /\ \A k \in Ids : Alike(given.bl[k].part, w.bl[k].part)
  /\ \A a \in DOMAIN w.image.cells :
       /\ a \in Nat /\ w.image.cells[a].len \in Nat \ {0} /\ w.image.cells[a].magic # "7BL"
       /\ a + w.image.cells[a].len <= w.at

\* What lies in one image lies in the other.
Within(i, j) == \A a \in DOMAIN i.cells : a \in DOMAIN j.cells /\ j.cells[a] = i.cells[a]

\* The step from w to v wrote the loader l.
Wrote(l, w, v) ==
  LET n == v.bl[l] IN
  /\ w.at \in DOMAIN v.image.cells /\ v.image.cells[w.at] = n.part
  /\ isValid(l, n) /\ SoundPlace(l, n) /\ Alike(given.bl[l].part, n.part)
  /\ v.at = w.at + given.bl[l].part.len /\ v.prev = n.rc4
  /\ Digested(given.bl, l) => n.part.digest = w.image.smc
  /\ given.bl[l].part.under = {} /\ l # "3BL" => Opens(l, n, w.prev, opts.cpu)

SameButCells(i, j) ==
  j.beta = i.beta /\ j.big = i.big /\ j.junk = i.junk /\ j.smc = i.smc /\ j.tails = i.tails

\* Which loaders are kept is seen from outside.
LEMMA KeptAlike ==
  ASSUME NEW cpu, NEW b, NEW c, NEW l \in Ids, \A k \in Ids : Alike(b[k].part, c[k].part)
  PROVE  (Kept(cpu, c, l) <=> Kept(cpu, b, l)) /\ (Digested(c, l) <=> Digested(b, l))
<1>1. /\ c["2BL"].part.dual = b["2BL"].part.dual /\ c["2BL"].part.build = b["2BL"].part.build
      /\ c["2BL"].part.dev = b["2BL"].part.dev
      /\ isValid("2BL_B", c["2BL_B"]) <=> isValid("2BL_B", b["2BL_B"])
  BY DEF Alike, Ids, isValid
<1> QED
  BY <1>1 DEF Kept, Digested, Ids

LEMMA LayStep ==
  ASSUME NEW w, NEW l \in Chain \ {"1BL"}, Laying(w), w.bl[l] = given.bl[l],
         isValid(l, given.bl[l]) => Given(l, given.bl[l]), opts.cpu # "null",
         Kept(opts.cpu, w.bl, l) => Positioned(w.image, l, w.at),
         SaveStep(opts.cpu, w, l).ret = 0
  PROVE  LET v == SaveStep(opts.cpu, w, l)
         IN  /\ Laying(v) /\ Within(w.image, v.image) /\ SameButCells(w.image, v.image)
             /\ \A k \in Ids \ {l} : v.bl[k] = w.bl[k]
             /\ Written(l) => Wrote(l, w, v)
             /\ ~ Written(l) => v = w
<1> DEFINE cpu == opts.cpu
           v == SaveStep(cpu, w, l)
           m == w.bl[l]
           n == v.bl[l]
           old == w.image.cells
           new == v.image.cells
<1>0. l \in Ids \ {"1BL"} /\ Magic(l) # "7BL"
  BY DEF Chain, ChainOrder, Ids, Magic
<1>1. (Kept(cpu, w.bl, l) <=> Written(l)) /\ (Digested(w.bl, l) <=> Digested(given.bl, l))
  BY <1>0, KeptAlike DEF Laying, Written
<1>2. CASE ~ Written(l)
  <2>1. v = w
    BY <1>1, <1>2 DEF SaveStep
  <2> QED
    BY <1>2, <2>1 DEF Within, SameButCells
<1>3. CASE Written(l)
  <2>1. /\ isValid(l, m) /\ SoundPlace(l, n) /\ Alike(m.part, n.part)
        /\ v.bl = [w.bl EXCEPT ![l] = n] /\ v.at = w.at + n.part.len /\ v.prev = n.rc4
        /\ v.image = [w.image EXCEPT !.cells = Put(old, w.at, n.part, n.part.len)]
        /\ Digested(w.bl, l) => n.part.digest = w.image.smc
        /\ Given(l, m) /\ m.part.under = {} /\ cpu # "null" /\ l # "3BL" => Opens(l, n, w.prev, cpu)
    BY <1>0, <1>1, <1>3, SaveStepWrites DEF Laying
  <2>2. SoundWork(v) /\ SameParts(w.image, v.image) /\ v.at \in Nat /\ v.ret = 0
    BY <1>0, SaveStepSound DEF Laying
  <2> HIDE DEF v
  <2>3. new = Put(old, w.at, n.part, n.part.len) /\ SameButCells(w.image, v.image)
    BY <2>1 DEF SameButCells, Laying, SoundWork, SoundImage
  <2>4. \A a \in DOMAIN old : a # w.at /\ End(old, a) <= w.at
    BY DEF Laying, End
  <2>5. /\ w.at \in DOMAIN new /\ new[w.at] = n.part /\ Within(w.image, v.image)
        /\ \A a \in DOMAIN new : a # w.at => a \in DOMAIN old /\ new[a] = old[a]
    BY <2>3, <2>4, PutKeeps DEF Within
  <2>6. isValid(l, n) /\ Alike(given.bl[l].part, n.part) /\ n.part.magic # "7BL"
        /\ n.part.len \in Nat \ {0} /\ n.part.len = given.bl[l].part.len
    <3>1. isValid(l, n) /\ Alike(given.bl[l].part, n.part) /\ n.part.len = given.bl[l].part.len
      BY <2>1 DEF isValid, Alike
    <3>2. n.part.magic # "none" /\ n.part.magic # "7BL"
      BY <1>0, <3>1, MagicLetter DEF isValid
    <3>3. n.part.len \in Nat \ {0}
      BY <2>1, <3>2 DEF SoundPlace, SoundLoader, Fields
    <3> QED
      BY <3>1, <3>2, <3>3
  <2>7. \A k \in Ids \ {l} : v.bl[k] = w.bl[k]
    BY <2>1 DEF Laying, SoundWork, SoundPlaces
  <2>8. \A k \in Ids : Alike(given.bl[k].part, v.bl[k].part)
    BY <2>6, <2>7 DEF Laying
  <2>9. \A a \in DOMAIN new :
          /\ a \in Nat /\ new[a].len \in Nat \ {0} /\ new[a].magic # "7BL"
          /\ a + new[a].len <= v.at
    <3> SUFFICES ASSUME NEW a \in DOMAIN new
                 PROVE  /\ a \in Nat /\ new[a].len \in Nat \ {0} /\ new[a].magic # "7BL"
                        /\ a + new[a].len <= v.at
      OBVIOUS
    <3>1. CASE a = w.at
      BY <2>1, <2>5, <2>6, <3>1 DEF Laying
    <3>2. CASE a # w.at
      <4>1. a \in DOMAIN old /\ new[a] = old[a] /\ w.at <= v.at
        BY <2>1, <2>5, <2>6, <3>2 DEF Laying
      <4> QED
        BY <2>2, <4>1 DEF Laying
    <3> QED
      BY <3>1, <3>2
  <2>10. Laying(v)
    BY <2>2, <2>8, <2>9 DEF Laying, SameParts
  <2>11. Wrote(l, w, v)
    BY <1>1, <2>1, <2>5, <2>6 DEF Wrote
  <2> QED
    BY <1>3, <2>3, <2>5, <2>7, <2>10, <2>11 DEF v
<1> QED
  BY <1>2, <1>3

\* How far SaveBootloaders is with the chain, after each loader.
Laid0(parts) == Work(parts, given.bl, Entry, <<opts.bl>>)
Laid1(parts) == SaveStep(opts.cpu, Laid0(parts), "2BL")
Laid2(parts) == SaveStep(opts.cpu, Laid1(parts), "2BL_B")
Laid3(parts) == SaveStep(opts.cpu, Laid2(parts), "3BL")
Laid4(parts) == SaveStep(opts.cpu, Laid3(parts), "4BL")
Laid5(parts) == SaveStep(opts.cpu, Laid4(parts), "5BL")

\* An image nothing was written to yet, and what an ini file gave.
Begun(parts) ==
  /\ SoundImage(parts) /\ ~ parts.beta /\ ~ parts.zeroed /\ DOMAIN parts.cells = {}
  /\ SoundPlaces(given.bl) /\ opts.cpu # "null"
  /\ \A l \in Ids : isValid(l, given.bl[l]) => Given(l, given.bl[l])

\* The step from w to v, of which c keeps everything.
Stepped(l, w, v, c) ==
  /\ Written(l) => Wrote(l, w, v)
  /\ ~ Written(l) => v = w
  /\ Within(v.image, c.image) /\ c.bl[l] = v.bl[l]

LEMMA WithinTwice ==
  ASSUME NEW i, NEW j, NEW k, Within(i, j), Within(j, k)
  PROVE  Within(i, k)
BY DEF Within

LEMMA GivenUp ==
  ASSUME NEW cpu, NEW w, NEW l, SaveStep(cpu, w, l).ret = 0
  PROVE  w.ret = 0
BY DEF SaveStep

LEMMA ChainLaid ==
  ASSUME NEW parts, Begun(parts), Laid5(parts).ret = 0
  PROVE  LET c == Laid5(parts)
         IN  /\ Stepped("2BL", Laid0(parts), Laid1(parts), c)
             /\ Stepped("2BL_B", Laid1(parts), Laid2(parts), c)
             /\ Stepped("3BL", Laid2(parts), Laid3(parts), c)
             /\ Stepped("4BL", Laid3(parts), Laid4(parts), c)
             /\ Stepped("5BL", Laid4(parts), Laid5(parts), c)
             /\ Laying(c) /\ SameButCells(parts, c.image)
             /\ \A k \in Ids \ Chain : c.bl[k] = given.bl[k]
             /\ \A w \in {Laid0(parts), Laid1(parts), Laid2(parts), Laid3(parts), Laid4(parts)} :
                  w.image.smc = parts.smc
<1> DEFINE w0 == Laid0(parts)
           w1 == Laid1(parts)
           w2 == Laid2(parts)
           w3 == Laid3(parts)
           w4 == Laid4(parts)
           c  == Laid5(parts)
           P(w, v, l) == /\ Laying(v) /\ Within(w.image, v.image) /\ SameButCells(w.image, v.image)
                         /\ \A k \in Ids \ {l} : v.bl[k] = w.bl[k]
                         /\ Written(l) => Wrote(l, w, v)
                         /\ ~ Written(l) => v = w
<1>1. /\ w1 = SaveStep(opts.cpu, w0, "2BL") /\ w2 = SaveStep(opts.cpu, w1, "2BL_B")
      /\ w3 = SaveStep(opts.cpu, w2, "3BL") /\ w4 = SaveStep(opts.cpu, w3, "4BL")
      /\ c = SaveStep(opts.cpu, w4, "5BL") /\ c.ret = 0
  BY DEF Laid1, Laid2, Laid3, Laid4, Laid5
<1>2. Laying(w0) /\ w0.at = Entry /\ w0.bl = given.bl /\ w0.image = parts
  <2>1. w0 = [image |-> parts, bl |-> given.bl, at |-> Entry, prev |-> <<opts.bl>>, ret |-> 0]
    BY DEF Laid0, Work
  <2> HIDE DEF w0
  <2>2. Entry \in Nat
    BY AddressAssumption
  <2>3. \A k \in Ids : Alike(given.bl[k].part, given.bl[k].part)
    BY DEF Alike
  <2> QED
    BY <2>1, <2>2, <2>3 DEF Laying, SoundWork, Begun
<1> HIDE DEF w0, w1, w2, w3, w4, c
<1>3. w4.ret = 0 /\ w3.ret = 0 /\ w2.ret = 0 /\ w1.ret = 0
  BY <1>1, GivenUp
<1>4. /\ {"2BL", "2BL_B", "3BL", "4BL", "5BL"} = Chain \ {"1BL"} /\ Chain \subseteq Ids
      /\ Written("2BL")
  BY DEF Chain, ChainOrder, Ids, Written, Kept
<1>5. P(w0, w1, "2BL")
  <2>1. Positioned(w0.image, "2BL", w0.at)
    BY <1>2 DEF Positioned
  <2> QED
    BY <1>1, <1>2, <1>3, <1>4, <2>1, LayStep DEF Begun
<1>6. P(w1, w2, "2BL_B")
  <2>1. w1.at # Entry
    <3>1. w1.at = Entry + given.bl["2BL"].part.len /\ given.bl["2BL"].part.len = w1.bl["2BL"].part.len
          /\ isValid("2BL", w1.bl["2BL"]) /\ SoundPlace("2BL", w1.bl["2BL"])
      BY <1>2, <1>4, <1>5 DEF Wrote, Alike
    <3>2. w1.bl["2BL"].part.len \in Nat \ {0}
      BY <1>4, <3>1, MagicLetter DEF isValid, SoundPlace, SoundLoader, Fields
    <3> QED
      BY <3>1, <3>2, AddressAssumption
  <2>2. Positioned(w1.image, "2BL_B", w1.at)
    BY <1>5, <2>1 DEF Positioned, Laying
  <2>3. w1.bl["2BL_B"] = given.bl["2BL_B"]
    BY <1>2, <1>4, <1>5
  <2> QED
    BY <1>1, <1>3, <1>4, <1>5, <2>2, <2>3, LayStep DEF Begun
<1>7. P(w2, w3, "3BL")
  <2>1. w2.bl["3BL"] = given.bl["3BL"]
    BY <1>2, <1>4, <1>5, <1>6
  <2>2. Positioned(w2.image, "3BL", w2.at)
    BY DEF Positioned
  <2> QED
    BY <1>1, <1>3, <1>4, <1>6, <2>1, <2>2, LayStep DEF Begun
<1>8. P(w3, w4, "4BL")
  <2>1. w3.bl["4BL"] = given.bl["4BL"]
    BY <1>2, <1>4, <1>5, <1>6, <1>7
  <2>2. Positioned(w3.image, "4BL", w3.at)
    BY DEF Positioned
  <2> QED
    BY <1>1, <1>3, <1>4, <1>7, <2>1, <2>2, LayStep DEF Begun
<1>9. P(w4, c, "5BL")
  <2>1. w4.bl["5BL"] = given.bl["5BL"]
    BY <1>2, <1>4, <1>5, <1>6, <1>7, <1>8
  <2>2. Positioned(w4.image, "5BL", w4.at)
    BY DEF Positioned
  <2> QED
    BY <1>1, <1>3, <1>4, <1>8, <2>1, <2>2, LayStep DEF Begun
<1> HIDE DEF P
<1>10. /\ Within(c.image, c.image) /\ Within(w4.image, c.image) /\ Within(w3.image, c.image)
       /\ Within(w2.image, c.image) /\ Within(w1.image, c.image)
  <2>1. Within(c.image, c.image)
    BY DEF Within
  <2>2. /\ Within(w4.image, c.image) /\ Within(w3.image, w4.image)
        /\ Within(w2.image, w3.image) /\ Within(w1.image, w2.image)
    BY <1>6, <1>7, <1>8, <1>9 DEF P
  <2> QED
    BY <2>1, <2>2, WithinTwice
<1>11. /\ c.bl["4BL"] = w4.bl["4BL"] /\ c.bl["3BL"] = w3.bl["3BL"]
       /\ c.bl["2BL_B"] = w2.bl["2BL_B"] /\ c.bl["2BL"] = w1.bl["2BL"]
       /\ \A k \in Ids \ Chain : c.bl[k] = given.bl[k]
  BY <1>2, <1>4, <1>5, <1>6, <1>7, <1>8, <1>9 DEF P
<1>12. /\ Stepped("2BL", w0, w1, c) /\ Stepped("2BL_B", w1, w2, c) /\ Stepped("3BL", w2, w3, c)
       /\ Stepped("4BL", w3, w4, c) /\ Stepped("5BL", w4, c, c)
  BY <1>5, <1>6, <1>7, <1>8, <1>9, <1>10, <1>11 DEF P, Stepped
<1>13. /\ SameButCells(parts, w1.image) /\ SameButCells(parts, w2.image) /\ SameButCells(parts, w3.image)
       /\ SameButCells(parts, w4.image) /\ SameButCells(parts, c.image)
  BY <1>2, <1>5, <1>6, <1>7, <1>8, <1>9 DEF P, SameButCells
<1>14. \A w \in {w0, w1, w2, w3, w4} : w.image.smc = parts.smc
  BY <1>2, <1>13 DEF SameButCells
<1>15. Laying(c)
  BY <1>9 DEF P
<1> QED
  BY <1>11, <1>12, <1>13, <1>14, <1>15 DEF w0, w1, w2, w3, w4, c

\* LoadBootloaders over the image of the run.
Reading(u) ==
  /\ SoundWork(u) /\ u.image = image /\ ~ image.beta /\ u.ret = 0
  /\ Alike(given.bl["2BL"].part, u.bl["2BL"].part)

\* The loader l that was given, as LoadBootloaders has it, when it is found.
Back(l, n, smc) ==
  Alike(given.bl[l].part, n.part) /\ (Digested(given.bl, l) => n.part.digest = smc)

\* Where the first walk laid a loader down, the second finds it, with the key it
\* was written with if it has come by that.
LEMMA FollowStep ==
  ASSUME NEW l \in Chain \ {"1BL"}, NEW w, NEW v, NEW c, NEW u, Stepped(l, w, v, c),
         Within(c.image, image), Reading(u), u.at = w.at, u.bl[l] = c.bl[l], opts.cpu # "null",
         Asked(image, opts.cpu, given.bl, l) <=> Written(l)
  PROVE  LET t == LoadStep(opts.cpu, u, l)
         IN  /\ Reading(t)
             /\ Written(l) => Back(l, t.bl[l], w.image.smc)
             /\ ~ Written(l) \/ RoundUp(given.bl[l].part.len) = given.bl[l].part.len => t.at = v.at
             /\ u.prev = w.prev /\ (Written(l) => given.bl[l].part.under = {} /\ l # "3BL") =>
                  t.prev = v.prev /\ (Written(l) => t.bl[l].part.under = {})
<1> DEFINE cpu == opts.cpu
           t == LoadStep(cpu, u, l)
           n == u.bl[l]
           x == [u EXCEPT !.prev = PrevKey(u, l)]
           o == Load(l, n, x.prev, cpu, x.bl["2BL"])
<1>0. l \in Ids \ {"1BL"} /\ "2BL" \in Ids
  BY DEF Chain, ChainOrder, Ids
<1>1. Asked(u.image, cpu, u.bl, l) <=> Written(l)
  BY DEF Asked, Reading, Alike
<1>2. CASE ~ Written(l)
  <2>1. t = u /\ v = w
    BY <1>1, <1>2 DEF LoadStep, Stepped
  <2> HIDE DEF t
  <2> QED
    BY <1>2, <2>1 DEF t
<1>3. CASE Written(l)
  <2>1. Wrote(l, w, v) /\ n = v.bl[l] /\ Within(v.image, image)
    BY <1>3, WithinTwice DEF Stepped
  <2>2. x = [image |-> u.image, bl |-> u.bl, at |-> u.at, prev |-> PrevKey(u, l), ret |-> u.ret]
    BY WorkMoved DEF Reading
  <2>3. t = LoadBootloader(cpu, x, l)
    BY <1>1, <1>3 DEF LoadStep, Reading
  <2> HIDE DEF t, x
  <2>4. SoundWork(x) /\ x.image = image /\ x.bl = u.bl /\ x.at = u.at /\ x.ret = 0
    BY <2>2 DEF SoundWork, Reading
  <2>5. Header(image, x.at) = n.part
    BY <2>1, <2>4 DEF Wrote, Within, Header
  <2>6. isValid(l, n) /\ SoundPlace(l, n) /\ Alike(given.bl[l].part, n.part)
    BY <2>1 DEF Wrote
  <2>7. t = [image |-> x.image, bl |-> [x.bl EXCEPT ![l] = o],
             at |-> x.at + Advance(n.part.len), prev |-> o.rc4, ret |-> x.ret]
    BY <1>0, <2>3, <2>4, <2>5, <2>6, LoadBootloaderReads
  <2>8. Fields(n.part) /\ Turned(n, n)
    BY <2>6 DEF SoundPlace, Turned, Fields
  <2>9. Turned(n, o)
    BY <2>8, LoadTurns
  <2>10. (u.prev = w.prev /\ given.bl[l].part.under = {} /\ l # "3BL") =>
            o.part.under = {} /\ o.rc4 = n.rc4
    <3> SUFFICES ASSUME u.prev = w.prev, given.bl[l].part.under = {}, l # "3BL"
                 PROVE  o.part.under = {} /\ o.rc4 = n.rc4
      OBVIOUS
    <3>1. x.prev = w.prev
      BY <2>2 DEF PrevKey
    <3>2. Opens(l, n, w.prev, cpu)
      BY <2>1 DEF Wrote
    <3> QED
      BY <3>1, <3>2 DEF Opens
  <2> HIDE DEF o
  <2>11. /\ SoundPlace(l, o) /\ Alike(n.part, o.part) /\ o.part.digest = n.part.digest
    BY <2>6, <2>8, <2>9, TurnedSound, TurnedAlike
  <2>12. SoundPlaces([x.bl EXCEPT ![l] = o])
    BY <1>0, <2>4, <2>11, PlaceSet DEF SoundWork
  <2>13. t.bl[l] = o /\ \A k \in Ids \ {l} : t.bl[k] = u.bl[k]
    BY <1>0, <2>4, <2>7 DEF SoundWork, SoundPlaces
  <2>14. Alike(given.bl[l].part, o.part)
    BY <2>6, <2>11 DEF Alike
  <2>15. Reading(t)
    <3>1. SoundWork(t) /\ t.image = image /\ t.ret = 0
      BY <2>4, <2>7, <2>12 DEF SoundWork
    <3>2. Alike(given.bl["2BL"].part, t.bl["2BL"].part)
      BY <1>0, <2>13, <2>14 DEF Reading
    <3> QED
      BY <3>1, <3>2 DEF Reading
  <2>16. Back(l, t.bl[l], w.image.smc)
    BY <2>1, <2>11, <2>13, <2>14 DEF Back, Wrote
  <2>17. RoundUp(given.bl[l].part.len) = given.bl[l].part.len => t.at = v.at
    <3>1. v.at = w.at + given.bl[l].part.len /\ n.part.len = given.bl[l].part.len
      BY <2>1 DEF Wrote, Alike
    <3> QED
      BY <2>4, <2>7, <3>1 DEF Advance
  <2>18. v.prev = n.rc4
    BY <2>1 DEF Wrote
  <2> QED
    BY <1>3, <2>7, <2>10, <2>13, <2>15, <2>16, <2>17, <2>18 DEF t
<1> QED
  BY <1>2, <1>3

\* How far LoadBootloaders is with the chain, after each loader.
Read0 == Work(image, mem.bl, Entry, <<opts.bl>>)
Read1 == LoadStep(opts.cpu, Read0, "2BL")
Read2 == LoadStep(opts.cpu, Read1, "2BL_B")
Read3 == LoadStep(opts.cpu, Read2, "3BL")
Read4 == LoadStep(opts.cpu, Read3, "4BL")
Read5 == LoadStep(opts.cpu, Read4, "5BL")

LEMMA ChainBefore ==
  /\ \A l \in {"2BL_B", "3BL", "4BL", "5BL"} : Before("2BL", l)
  /\ \A l \in {"3BL", "4BL", "5BL"} : Before("2BL_B", l)
  /\ \A l \in {"4BL", "5BL"} : Before("3BL", l)
  /\ Before("4BL", "5BL")
<1>1. /\ DOMAIN ChainOrder = 1..6
      /\ ChainOrder[2] = "2BL" /\ ChainOrder[3] = "2BL_B" /\ ChainOrder[4] = "3BL"
      /\ ChainOrder[5] = "4BL" /\ ChainOrder[6] = "5BL"
  BY DEF ChainOrder
<1>2. \A i, k \in 1..6 : i < k => Before(ChainOrder[i], ChainOrder[k])
  BY <1>1 DEF Before
<1>3. /\ Before(ChainOrder[2], ChainOrder[3]) /\ Before(ChainOrder[2], ChainOrder[4])
      /\ Before(ChainOrder[2], ChainOrder[5]) /\ Before(ChainOrder[2], ChainOrder[6])
      /\ Before(ChainOrder[3], ChainOrder[4]) /\ Before(ChainOrder[3], ChainOrder[5])
      /\ Before(ChainOrder[3], ChainOrder[6]) /\ Before(ChainOrder[4], ChainOrder[5])
      /\ Before(ChainOrder[4], ChainOrder[6]) /\ Before(ChainOrder[5], ChainOrder[6])
  BY <1>2
<1> QED
  BY <1>1, <1>3

LEMMA OnlyLoadsTwice ==
  ASSUME NEW u, NEW v, NEW w, NEW K, NEW L, OnlyLoads(u, v, K), OnlyLoads(v, w, L)
  PROVE  OnlyLoads(u, w, K \cup L)
BY DEF OnlyLoads

\* The chain is found as far as it fills its lines and asks for what was written, and
\* opens as far as it was given plain.
LEMMA ChainBack ==
  ASSUME NEW parts, Begun(parts), Laid5(parts).ret = 0, SoundImage(image), ~ image.beta,
         Within(Laid5(parts).image, image), SoundPlaces(mem.bl),
         \A l \in Chain \ {"1BL"} : mem.bl[l] = Laid5(parts).bl[l]
  PROVE  /\ OnlyLoads(Read0, Read5, Chain)
         /\ Placed("5BL") => Reading(Read5)
         /\ \A l \in Chain : Written(l) /\ Placed(l) =>
              Back(l, Read5.bl[l], parts.smc) /\ (Keyed(l) => Read5.bl[l].part.under = {})
<1> DEFINE cpu == opts.cpu
           w0 == Laid0(parts)
           w1 == Laid1(parts)
           w2 == Laid2(parts)
           w3 == Laid3(parts)
           w4 == Laid4(parts)
           c  == Laid5(parts)
           u0 == Read0
           u1 == Read1
           u2 == Read2
           u3 == Read3
           u4 == Read4
           d  == Read5
           Full(l) == RoundUp(given.bl[l].part.len) = given.bl[l].part.len
           Bare(l) == Written(l) => given.bl[l].part.under = {} /\ l # "3BL"
           F(l, w, v, u, t) ==
             /\ Reading(t)
             /\ Written(l) => Back(l, t.bl[l], parts.smc)
             /\ ~ Written(l) \/ Full(l) => t.at = v.at
             /\ u.prev = w.prev /\ Bare(l) => t.prev = v.prev /\ (Written(l) => t.bl[l].part.under = {})
<1>1. /\ u1 = LoadStep(cpu, u0, "2BL") /\ u2 = LoadStep(cpu, u1, "2BL_B") /\ u3 = LoadStep(cpu, u2, "3BL")
      /\ u4 = LoadStep(cpu, u3, "4BL") /\ d = LoadStep(cpu, u4, "5BL")
  BY DEF Read1, Read2, Read3, Read4, Read5
<1>2. /\ Stepped("2BL", w0, w1, c) /\ Stepped("2BL_B", w1, w2, c) /\ Stepped("3BL", w2, w3, c)
      /\ Stepped("4BL", w3, w4, c) /\ Stepped("5BL", w4, c, c) /\ Laying(c)
      /\ w0.image.smc = parts.smc /\ w1.image.smc = parts.smc /\ w2.image.smc = parts.smc
      /\ w3.image.smc = parts.smc /\ w4.image.smc = parts.smc
  BY ChainLaid
<1>3. u0.at = w0.at /\ u0.prev = w0.prev /\ u0.bl = mem.bl /\ u0.image = image
      /\ u0 = [image |-> u0.image, bl |-> u0.bl, at |-> u0.at, prev |-> u0.prev, ret |-> u0.ret]
      /\ u0.ret = 0
  BY DEF Read0, Laid0, Work
<1>4. /\ Chain \subseteq Ids /\ Chain \ {"1BL"} = {"2BL", "2BL_B", "3BL", "4BL", "5BL"}
      /\ ~ Written("1BL")
  BY DEF Chain, ChainOrder, Ids, Written, Kept
<1>5. /\ Written("2BL") /\ Asked(image, cpu, given.bl, "2BL")
      /\ Written("3BL") <=> Asked(image, cpu, given.bl, "3BL")
      /\ Written("4BL") /\ Asked(image, cpu, given.bl, "4BL")
      /\ Written("5BL") /\ Asked(image, cpu, given.bl, "5BL")
  BY DEF Written, Kept, Asked
<1>6. cpu # "null"
  BY DEF Begun
<1> HIDE DEF w0, w1, w2, w3, w4, c, u0, u1, u2, u3, u4, d, cpu
<1>7. Reading(u0)
  <2>1. Alike(given.bl["2BL"].part, u0.bl["2BL"].part)
    BY <1>2, <1>3, <1>4 DEF Laying, c
  <2> QED
    BY <1>3, <2>1 DEF Reading, SoundWork
<1>8. /\ OnlyLoads(u0, u1, {"2BL"}) /\ OnlyLoads(u1, u2, {"2BL_B"}) /\ OnlyLoads(u2, u3, {"3BL"})
      /\ OnlyLoads(u3, u4, {"4BL"}) /\ OnlyLoads(u4, d, {"5BL"})
  <2>1. Shaped(u0)
    BY <1>3 DEF Shaped, SoundPlaces
  <2>2. OnlyLoads(u0, u1, {"2BL"}) /\ Shaped(u1)
    BY <1>1, <1>4, <2>1, LoadStepFrame DEF OnlyLoads
  <2>3. OnlyLoads(u1, u2, {"2BL_B"}) /\ Shaped(u2)
    BY <1>1, <1>4, <2>2, LoadStepFrame DEF OnlyLoads
  <2>4. OnlyLoads(u2, u3, {"3BL"}) /\ Shaped(u3)
    BY <1>1, <1>4, <2>3, LoadStepFrame DEF OnlyLoads
  <2>5. OnlyLoads(u3, u4, {"4BL"}) /\ Shaped(u4)
    BY <1>1, <1>4, <2>4, LoadStepFrame DEF OnlyLoads
  <2>6. OnlyLoads(u4, d, {"5BL"})
    BY <1>1, <1>4, <2>5, LoadStepFrame
  <2> QED
    BY <2>2, <2>3, <2>4, <2>5, <2>6
<1>9. /\ u1.bl["2BL_B"] = c.bl["2BL_B"] /\ u2.bl["3BL"] = c.bl["3BL"]
      /\ u3.bl["4BL"] = c.bl["4BL"] /\ u4.bl["5BL"] = c.bl["5BL"] /\ u0.bl["2BL"] = c.bl["2BL"]
  BY <1>3, <1>4, <1>8 DEF OnlyLoads, c
<1>10. /\ d.bl["2BL"] = u1.bl["2BL"] /\ d.bl["2BL_B"] = u2.bl["2BL_B"] /\ d.bl["3BL"] = u3.bl["3BL"]
       /\ d.bl["4BL"] = u4.bl["4BL"]
  BY <1>4, <1>8 DEF OnlyLoads
<1>11. Within(c.image, image)
  BY DEF c
<1>12. F("2BL", w0, w1, u0, u1)
  BY <1>1, <1>2, <1>3, <1>4, <1>5, <1>6, <1>7, <1>9, <1>11, FollowStep DEF cpu
<1>13. ASSUME Full("2BL"), Asked(image, cpu, given.bl, "2BL_B") <=> Written("2BL_B")
       PROVE  F("2BL_B", w1, w2, u1, u2)
  <2>1. Reading(u1) /\ u1.at = w1.at
    BY <1>12, <1>13
  <2> QED
    BY <1>1, <1>2, <1>4, <1>6, <1>9, <1>11, <1>13, <2>1, FollowStep DEF cpu
<1>14. ASSUME F("2BL_B", w1, w2, u1, u2), ~ Written("2BL_B") \/ Full("2BL_B")
       PROVE  F("3BL", w2, w3, u2, u3)
  <2>1. Reading(u2) /\ u2.at = w2.at
    BY <1>14
  <2> QED
    BY <1>1, <1>2, <1>4, <1>5, <1>6, <1>9, <1>11, <2>1, FollowStep DEF cpu
<1>15. ASSUME F("3BL", w2, w3, u2, u3), ~ Written("3BL") \/ Full("3BL")
       PROVE  F("4BL", w3, w4, u3, u4)
  <2>1. Reading(u3) /\ u3.at = w3.at
    BY <1>15
  <2> QED
    BY <1>1, <1>2, <1>4, <1>5, <1>6, <1>9, <1>11, <2>1, FollowStep DEF cpu
<1>16. ASSUME F("4BL", w3, w4, u3, u4), Full("4BL")
       PROVE  F("5BL", w4, c, u4, d)
  <2>1. Reading(u4) /\ u4.at = w4.at
    BY <1>16
  <2> QED
    BY <1>1, <1>2, <1>4, <1>5, <1>6, <1>9, <1>11, <2>1, FollowStep DEF cpu
<1>17. ASSUME NEW l \in Chain, Placed(l)
       PROVE  /\ \A j \in Chain : Written(j) /\ Before(j, l) => Full(j)
              /\ l # "2BL" => (Asked(image, cpu, given.bl, "2BL_B") <=> Written("2BL_B"))
  BY <1>17 DEF Placed, cpu
<1>18. ASSUME NEW l \in Chain, Keyed(l)
       PROVE  /\ \A j \in Chain : Written(j) /\ (j = l \/ Before(j, l)) => given.bl[j].part.under = {}
              /\ Written("3BL") => l # "3BL" /\ ~ Before("3BL", l)
  BY <1>18 DEF Keyed
<1> HIDE DEF Full
<1>19. Placed("2BL_B") => F("2BL_B", w1, w2, u1, u2)
  <2> HIDE DEF F
  <2> QED
    BY <1>4, <1>5, <1>13, <1>17, ChainBefore
<1>20. Placed("3BL") => F("2BL_B", w1, w2, u1, u2) /\ F("3BL", w2, w3, u2, u3)
  <2> HIDE DEF F
  <2> QED
    BY <1>4, <1>5, <1>13, <1>14, <1>17, ChainBefore
<1>21. Placed("4BL") => F("2BL_B", w1, w2, u1, u2) /\ F("3BL", w2, w3, u2, u3) /\ F("4BL", w3, w4, u3, u4)
  <2> HIDE DEF F
  <2> QED
    BY <1>4, <1>5, <1>13, <1>14, <1>15, <1>17, ChainBefore
<1>22. Placed("5BL") => /\ F("2BL_B", w1, w2, u1, u2) /\ F("3BL", w2, w3, u2, u3)
                        /\ F("4BL", w3, w4, u3, u4) /\ F("5BL", w4, c, u4, d)
  <2> HIDE DEF F
  <2> QED
    BY <1>4, <1>5, <1>13, <1>14, <1>15, <1>16, <1>17, ChainBefore
<1>23. OnlyLoads(u0, d, Chain)
  BY <1>4, <1>8, OnlyLoadsTwice DEF OnlyLoads
<1>24. Placed("5BL") => Reading(d)
  BY <1>22
<1> DEFINE G(l) == Written(l) /\ Placed(l) =>
             Back(l, d.bl[l], parts.smc) /\ (Keyed(l) => d.bl[l].part.under = {})
<1>25. Bare("2BL") \/ ~ Keyed("2BL")
  BY <1>4, <1>18
<1>26. G("2BL")
  BY <1>3, <1>5, <1>10, <1>12, <1>25 DEF Back
<1>27. ASSUME NEW l \in {"2BL_B", "4BL", "5BL"}, Keyed(l), F("2BL_B", w1, w2, u1, u2)
       PROVE  Bare("2BL") /\ Bare("2BL_B") /\ u2.prev = w2.prev
              /\ (Written("2BL_B") => u2.bl["2BL_B"].part.under = {})
  <2>1. Bare("2BL") /\ Bare("2BL_B")
    BY <1>4, <1>18, <1>27, ChainBefore
  <2> QED
    BY <1>3, <1>12, <1>27, <2>1
<1>28. G("2BL_B")
  BY <1>4, <1>10, <1>19, <1>27 DEF Back
<1>29. G("3BL")
  BY <1>4, <1>10, <1>18, <1>20 DEF Back
<1>30. ASSUME NEW l \in {"4BL", "5BL"}, Keyed(l), F("2BL_B", w1, w2, u1, u2), F("3BL", w2, w3, u2, u3),
              F("4BL", w3, w4, u3, u4)
       PROVE  u4.prev = w4.prev /\ u4.bl["4BL"].part.under = {}
  <2>1. Bare("3BL") /\ Bare("4BL")
    BY <1>4, <1>18, <1>30, ChainBefore
  <2>2. u2.prev = w2.prev
    BY <1>27, <1>30
  <2> QED
    BY <1>5, <1>30, <2>1, <2>2
<1>31. G("4BL")
  BY <1>4, <1>10, <1>21, <1>30 DEF Back
<1>32. G("5BL")
  <2>1. Keyed("5BL") => Bare("5BL")
    BY <1>4, <1>18
  <2> QED
    BY <1>5, <1>22, <1>30, <2>1
<1>33. \A l \in Chain : G(l)
  BY <1>4, <1>26, <1>28, <1>29, <1>31, <1>32
<1> QED
  BY <1>23, <1>24, <1>33 DEF u0, d

-----------------------------------------------------------------------------
(* The update slots *)

SlotAt(i) == Sys + (i - 1) * Slot

\* A step that works on the loader l and the system file of slot i, and on nothing else.
OnlySaves(w, v, l, i) ==
  /\ \A k \in Ids \ {l} : v.bl[k] = w.bl[k]
  /\ Alike(w.bl[l].part, v.bl[l].part)
  /\ \A j \in Slots \ {i} : v.image.tails[j] = w.image.tails[j]
  /\ v.image.beta = w.image.beta /\ v.image.big = w.image.big
  /\ v.image.junk = w.image.junk /\ v.image.smc = w.image.smc

\* The loader l of v, as it was written at an address.
Put6(cpu, key, w, v, i) ==
  LET m   == w.bl[Six(i)]
      n   == v.bl[Six(i)]
      set == SetData(w.image.tails[i], Need(m.part.len, w.bl[Seven(i)].part.len), "blank")
  IN  /\ w.ret = 0 /\ v.ret = 0 /\ isValid(Six(i), m)
      /\ v.image.cells = Put(w.image.cells, SlotAt(i), n.part, n.part.len)
      /\ SoundPlace(Six(i), n)
      /\ Given(Six(i), m) /\ m.part.under = {} /\ cpu # "null" => Opens(Six(i), n, key, cpu)
      /\ isValid(Seven(i), w.bl[Seven(i)]) =>
           n.part.used = set.tail.blocks /\ v.image.tails[i] = set.tail

\* What Save6BL does: nothing, giving up, or writing.
Step6(cpu, key, w, v, i) ==
  /\ OnlySaves(w, v, Six(i), i)
  /\ \/ v = w /\ (w.ret # 0 \/ ~ isValid(Six(i), w.bl[Six(i)]))
     \/ /\ v.ret = 6 /\ v.image.cells = w.image.cells /\ v.bl = w.bl
        /\ isValid(Six(i), w.bl[Six(i)]) /\ isValid(Seven(i), w.bl[Seven(i)])
        /\ ~ w.image.tails[i].there
     \/ Put6(cpu, key, w, v, i)

LEMMA Save6Writes ==
  ASSUME NEW cpu, NEW key, NEW w, NEW i \in Slots, SoundWork(w), ~ w.image.beta
  PROVE  Step6(cpu, key, w, Save6BL(cpu, key, w, i), i)
<1> DEFINE l     == Six(i)
           six   == w.bl[l]
           seven == w.bl[Seven(i)]
           set   == SetData(w.image.tails[i], Need(six.part.len, seven.part.len), "blank")
           t     == set.tail
           named == [w EXCEPT !.image.tails[i] = set.tail, !.bl[l] = Uses(@, set.tail.blocks)]
           with7 == isValid(Seven(i), seven)
           here  == IF with7 THEN named ELSE w
           added == Added(w.image.tails[i])
           at    == Sys + (i - 1) * Slot
           v     == Save6BL(cpu, key, w, i)
<1>0. l \in Ids \ {"1BL", "3BL"} /\ Seven(i) # l
  BY SlotLoaders DEF Slots, Six, Seven, Ids
<1>1. \/ v = w /\ (w.ret # 0 \/ ~ isValid(l, six))
      \/ /\ v = [w EXCEPT !.image.tails[i] = added, !.ret = 6]
         /\ isValid(l, six) /\ with7 /\ ~ w.image.tails[i].there
      \/ /\ isValid(l, six) /\ w.ret = 0
         /\ v = SaveBootloader(cpu, [here EXCEPT !.at = at, !.prev = key], l, 0)
  BY Zenon DEF Save6BL
<1> HIDE DEF v
<1>2. w.bl = [k \in Ids |-> w.bl[k]] /\ SoundPlace(l, six) /\ Alike(six.part, six.part)
      /\ w.image = [beta |-> w.image.beta, zeroed |-> w.image.zeroed, big |-> w.image.big, junk |-> w.image.junk,
                    cells |-> w.image.cells, smc |-> w.image.smc, kv |-> w.image.kv,
                    alt |-> w.image.alt, tails |-> w.image.tails]
      /\ w.image.tails = [j \in Slots |-> w.image.tails[j]]
  BY <1>0 DEF SoundWork, SoundPlaces, SoundImage, SoundTails, Alike
<1>3. OnlySaves(w, w, l, i)
  BY <1>2 DEF OnlySaves
<1>4. ASSUME v = [w EXCEPT !.image.tails[i] = added, !.ret = 6]
      PROVE  OnlySaves(w, v, l, i) /\ v.ret = 6 /\ v.image.cells = w.image.cells /\ v.bl = w.bl
  <2> DEFINE j == [w.image EXCEPT !.tails[i] = added]
             u == [w EXCEPT !.image = j]
  <2> HIDE DEF added
  <2>1. v = [u EXCEPT !.ret = 6]
    BY <1>4
  <2>2. /\ \A k \in Slots \ {i} : j.tails[k] = w.image.tails[k]
        /\ j.beta = w.image.beta /\ j.big = w.image.big /\ j.junk = w.image.junk
        /\ j.smc = w.image.smc /\ j.cells = w.image.cells
    BY <1>2
  <2> HIDE DEF j
  <2>3. u = [image |-> j, bl |-> w.bl, at |-> w.at, prev |-> w.prev, ret |-> w.ret]
    BY DEF SoundWork
  <2> HIDE DEF u
  <2>4. v = [image |-> j, bl |-> w.bl, at |-> w.at, prev |-> w.prev, ret |-> 6]
    BY <2>1, <2>3
  <2>5. OnlySaves(w, v, l, i)
    BY <1>2, <2>2, <2>4 DEF OnlySaves
  <2>6. v.ret = 6 /\ v.image.cells = w.image.cells /\ v.bl = w.bl
    BY <2>2, <2>4
  <2> QED
    BY <2>5, <2>6
<1>5. ASSUME isValid(l, six), w.ret = 0, v = SaveBootloader(cpu, [here EXCEPT !.at = at, !.prev = key], l, 0)
      PROVE  OnlySaves(w, v, l, i) /\ Put6(cpu, key, w, v, i)
  <2>1. /\ SoundWork(here) /\ here.ret = 0
        /\ OnlySaves(w, here, l, i) /\ here.image.cells = w.image.cells
        /\ here.bl[l].part.under = six.part.under /\ (Given(l, six) => Given(l, here.bl[l]))
        /\ isValid(l, here.bl[l])
        /\ with7 => here.bl[l].part.used = t.blocks /\ here.image.tails[i] = t
    <3>1. CASE ~ with7
      BY <1>2, <1>5, <3>1 DEF OnlySaves
    <3>2. CASE with7
      <4>1. Need(six.part.len, seven.part.len) \in Nat
        BY <1>5, <3>2, SlotLengths, NeedNatural
      <4>2. /\ w.image.tails[i].blocks \in Nat
            /\ w.image.tails[i] = [there |-> w.image.tails[i].there, blocks |-> w.image.tails[i].blocks,
                                   data |-> w.image.tails[i].data]
        BY DEF SoundWork, SoundImage, SoundTails
      <4>3. t = [there |-> t.there, blocks |-> t.blocks, data |-> t.data] /\ t.blocks \in Nat
        BY <4>1, <4>2, SetDataSound
      <4> DEFINE n == Uses(six, t.blocks)
                 j == [w.image EXCEPT !.tails[i] = t]
                 u == [w EXCEPT !.image.tails[i] = t]
                 bl == [w.bl EXCEPT ![l] = n]
      <4>4. named = [u EXCEPT !.bl[l] = Uses(@, t.blocks)]
        OBVIOUS
      <4> HIDE DEF t, named, l
      <4>5. SoundImage(j)
        BY <4>3, TailSet DEF SoundWork
      <4>6. SoundPlace(l, n)
        BY <1>0, <1>2, <4>3, UsesSound
      <4>7. SoundPlaces(bl)
        BY <1>0, <4>6, PlaceSet DEF SoundWork
      <4>8. u = [image |-> j, bl |-> w.bl, at |-> w.at, prev |-> w.prev, ret |-> w.ret]
        BY DEF SoundWork
      <4>9. /\ j.tails[i] = t /\ \A k \in Slots \ {i} : j.tails[k] = w.image.tails[k]
            /\ j.beta = w.image.beta /\ j.big = w.image.big /\ j.junk = w.image.junk
            /\ j.smc = w.image.smc /\ j.cells = w.image.cells
        BY <1>2
      <4>10. /\ Alike(six.part, n.part) /\ n.part.under = six.part.under /\ n.part.used = t.blocks
             /\ n.plain = six.plain /\ n.byCpu = six.byCpu
        <5> DEFINE p == [six.part EXCEPT !.used = t.blocks]
        <5>1. Alike(six.part, p) /\ p.under = six.part.under /\ p.used = t.blocks
          BY <1>2 DEF SoundPlace, Fields, Alike
        <5> HIDE DEF p
        <5>2. n = [six EXCEPT !.part = p]
          BY DEF Uses, p
        <5>3. n.part = p /\ n.plain = six.plain /\ n.byCpu = six.byCpu
          BY <1>2, <5>2 DEF SoundPlace
        <5> QED
          BY <5>1, <5>3
      <4>11. isValid(l, n) /\ (Given(l, six) => Given(l, n))
        BY <1>5, <4>10 DEF isValid, Alike, Given
      <4> HIDE DEF u, j, n
      <4>12. bl[l] = n /\ \A k \in Ids \ {l} : bl[k] = w.bl[k]
        BY <1>0, <1>2
      <4>13. named = [image |-> j, bl |-> bl, at |-> w.at, prev |-> w.prev, ret |-> w.ret]
        <5>1. named = [u EXCEPT !.bl[l] = n]
          BY <4>4, <4>8 DEF n
        <5> QED
          BY <4>8, <5>1
      <4> HIDE DEF bl
      <4>14. SoundWork(named)
        BY <4>5, <4>7, <4>13 DEF SoundWork
      <4>15. OnlySaves(w, named, l, i)
        BY <4>9, <4>10, <4>12, <4>13 DEF OnlySaves
      <4> QED
        BY <1>5, <3>2, <4>9, <4>10, <4>11, <4>12, <4>13, <4>14, <4>15
    <3> QED
      BY <3>1, <3>2
  <2> HIDE DEF here, l, at, with7, t
  <2> DEFINE a == [here EXCEPT !.at = at]
             u == [a EXCEPT !.prev = key]
             n == Save(l, u.bl[l], u.prev, cpu, u.bl["2BL"])
  <2>2. v = SaveBootloader(cpu, u, l, 0)
    BY <1>5
  <2>3. u = [image |-> here.image, bl |-> here.bl, at |-> at, prev |-> key, ret |-> here.ret]
    <3>1. a = [image |-> here.image, bl |-> here.bl, at |-> at, prev |-> here.prev, ret |-> here.ret]
      BY <2>1, WorkMoved
    <3> HIDE DEF a
    <3> QED
      BY <3>1
  <2> HIDE DEF u
  <2>4. SoundWork(u) /\ u.image = here.image /\ u.at = at /\ u.bl = here.bl /\ u.prev = key
    BY <2>1, <2>3 DEF SoundWork
  <2>5. v = [image |-> [u.image EXCEPT !.cells = Put(u.image.cells, u.at, n.part, n.part.len)],
             bl |-> [u.bl EXCEPT ![l] = n], at |-> u.at + n.part.len, prev |-> n.rc4, ret |-> u.ret]
    <3>1. isValid(l, u.bl[l]) /\ l \in Ids
      BY <1>0, <2>1, <2>4
    <3> HIDE DEF v
    <3> QED
      BY <2>2, <2>4, <3>1, SaveBootloaderWhole, Zenon
  <2>6. SoundPlace(l, u.bl[l])
    BY <1>0, <2>4 DEF SoundWork, SoundPlaces
  <2>7. /\ SoundPlace(l, n) /\ Alike(u.bl[l].part, n.part) /\ n.part.used = u.bl[l].part.used
        /\ Given(l, u.bl[l]) /\ u.bl[l].part.under = {} /\ cpu # "null" => Opens(l, n, key, cpu)
    BY <1>0, <2>4, <2>6, SaveMakes
  <2> HIDE DEF n
  <2>8. v.bl[l] = n /\ \A k \in Ids \ {l} : v.bl[k] = w.bl[k]
    BY <1>0, <2>1, <2>4, <2>5 DEF SoundWork, SoundPlaces, OnlySaves
  <2>9. /\ v.image.cells = Put(w.image.cells, at, n.part, n.part.len) /\ v.image.tails = here.image.tails
        /\ v.image.beta = here.image.beta /\ v.image.big = here.image.big
        /\ v.image.junk = here.image.junk /\ v.image.smc = here.image.smc
    BY <2>1, <2>4, <2>5 DEF SoundWork, SoundImage
  <2>10. OnlySaves(w, v, l, i)
    BY <2>1, <2>4, <2>7, <2>8, <2>9 DEF OnlySaves, Alike
  <2>11. Put6(cpu, key, w, v, i)
    <3>1. v.ret = 0
      BY <2>1, <2>3, <2>5
    <3> QED
      BY <1>5, <2>1, <2>4, <2>7, <2>8, <2>9, <3>1 DEF Put6, SlotAt, l, at, with7, t
  <2> QED
    BY <2>10, <2>11
<1>6. /\ OnlySaves(w, v, l, i)
      /\ \/ v = w /\ (w.ret # 0 \/ ~ isValid(l, six))
         \/ /\ v.ret = 6 /\ v.image.cells = w.image.cells /\ v.bl = w.bl
            /\ isValid(l, six) /\ isValid(Seven(i), seven) /\ ~ w.image.tails[i].there
         \/ Put6(cpu, key, w, v, i)
  <2> HIDE DEF added, here, at
  <2> QED
    BY <1>1, <1>3, <1>4, <1>5, Zenon
<1> QED
  BY <1>6, Zenon DEF Step6, v

\* The 7BL of slot i in v, as it was written behind its 6BL.
Put7(cpu, nonces, w, v, i) ==
  LET six  == w.bl[Six(i)].part
      m    == w.bl[Seven(i)]
      n    == v.bl[Seven(i)]
      room == Slot - six.len
      set  == SetData(w.image.tails[i], Need(six.len, m.part.len), "rest")
  IN  /\ w.ret = 0 /\ isValid(Six(i), w.bl[Six(i)]) /\ isValid(Seven(i), m)
      /\ v.image.cells = Put(w.image.cells, SlotAt(i) + six.len, n.part,
                             IF room > 0 THEN room ELSE n.part.len)
      /\ SoundPlace(Seven(i), n)
      /\ Given(Seven(i), m) /\ m.part.under = {} /\ cpu # "null" => Opens(Seven(i), n, nonces[i], cpu)
      /\ v.image.tails[i] = set.tail /\ v.ret = IF set.code = 0 THEN 10 ELSE 0

\* What Save7BL does: nothing, or writing.
Step7(cpu, nonces, w, v, i) ==
  /\ OnlySaves(w, v, Seven(i), i)
  /\ \/ v = w /\ (w.ret # 0 \/ ~ isValid(Six(i), w.bl[Six(i)]) \/ ~ isValid(Seven(i), w.bl[Seven(i)]))
     \/ Put7(cpu, nonces, w, v, i)

LEMMA Save7Writes ==
  ASSUME NEW cpu, NEW nonces, NEW w, NEW i \in Slots, SoundWork(w)
  PROVE  Step7(cpu, nonces, w, Save7BL(cpu, nonces, w, i), i)
<1> DEFINE l    == Seven(i)
           six  == w.bl[Six(i)].part
           m    == w.bl[l]
           room == Slot - six.len
           at   == Sys + (i - 1) * Slot + six.len
           prev == nonces[i]
           from == [w EXCEPT !.at = at, !.prev = prev]
           done == SaveBootloader(cpu, from, l, room)
           set  == SetData(w.image.tails[i], Need(six.len, m.part.len), "rest")
           t    == set.tail
           ret  == IF set.code = 0 THEN 10 ELSE 0
           v    == Save7BL(cpu, nonces, w, i)
           none == w.ret # 0 \/ ~ isValid(Six(i), w.bl[Six(i)]) \/ ~ isValid(l, m)
<1>0. l \in Ids \ {"1BL", "3BL"} /\ Six(i) \in Ids /\ Six(i) # l
  BY SlotLoaders DEF Slots, Six, Seven, Ids
<1>1. \/ v = w /\ none
      \/ ~ none /\ v = [done EXCEPT !.image.tails[i] = t, !.ret = ret]
  BY Zenon DEF Save7BL
<1> HIDE DEF v, ret, t
<1>2. /\ w.bl = [k \in Ids |-> w.bl[k]] /\ SoundPlace(l, m) /\ Alike(m.part, m.part)
      /\ w.image = [beta |-> w.image.beta, zeroed |-> w.image.zeroed, big |-> w.image.big, junk |-> w.image.junk,
                    cells |-> w.image.cells, smc |-> w.image.smc, kv |-> w.image.kv,
                    alt |-> w.image.alt, tails |-> w.image.tails]
      /\ w.image.tails = [j \in Slots |-> w.image.tails[j]]
  BY <1>0 DEF SoundWork, SoundPlaces, SoundImage, SoundTails, Alike
<1>3. OnlySaves(w, w, l, i)
  BY <1>2 DEF OnlySaves
<1>4. ASSUME ~ none, v = [done EXCEPT !.image.tails[i] = t, !.ret = ret]
      PROVE  OnlySaves(w, v, l, i) /\ Put7(cpu, nonces, w, v, i)
  <2> HIDE DEF at, room, prev
  <2> DEFINE a == [w EXCEPT !.at = at]
             u == [a EXCEPT !.prev = prev]
             n == Save(l, u.bl[l], u.prev, cpu, u.bl["2BL"])
             size == IF room > 0 THEN room ELSE n.part.len
  <2>1. done = SaveBootloader(cpu, u, l, room)
    OBVIOUS
  <2> HIDE DEF done
  <2>2. u = [image |-> w.image, bl |-> w.bl, at |-> at, prev |-> prev, ret |-> w.ret]
    <3>1. a = [image |-> w.image, bl |-> w.bl, at |-> at, prev |-> w.prev, ret |-> w.ret]
      BY WorkMoved
    <3> HIDE DEF a
    <3> QED
      BY <3>1
  <2> HIDE DEF u
  <2>3. SoundWork(u) /\ u.image = w.image /\ u.at = at /\ u.bl = w.bl /\ u.prev = prev
    BY <2>2 DEF SoundWork
  <2>4. done = [image |-> [u.image EXCEPT !.cells = Put(u.image.cells, u.at, n.part, size)],
                bl |-> [u.bl EXCEPT ![l] = n], at |-> u.at + n.part.len, prev |-> n.rc4, ret |-> u.ret]
    <3>1. isValid(l, u.bl[l]) /\ l \in Ids
      BY <1>0, <1>4, <2>3
    <3> HIDE DEF l, m
    <3> QED
      BY <2>1, <2>3, <3>1, SaveBootloaderWrites
  <2>5. SoundPlace(l, u.bl[l])
    BY <1>2, <2>3
  <2>6. /\ SoundPlace(l, n) /\ Alike(u.bl[l].part, n.part)
        /\ Given(l, u.bl[l]) /\ u.bl[l].part.under = {} /\ cpu # "null" => Opens(l, n, u.prev, cpu)
    <3> HIDE DEF l
    <3> QED
      BY <1>0, <2>5, SaveMakes
  <2> HIDE DEF n, size
  <2> DEFINE cells == Put(w.image.cells, at, n.part, size)
             j == [done.image EXCEPT !.tails[i] = t]
             x == [done EXCEPT !.image.tails[i] = t]
             bl == [w.bl EXCEPT ![l] = n]
  <2>7. done.image = [w.image EXCEPT !.cells = cells] /\ done.bl = bl
        /\ done = [image |-> done.image, bl |-> done.bl, at |-> done.at, prev |-> done.prev, ret |-> done.ret]
    BY <2>3, <2>4
  <2> HIDE DEF cells
  <2>8. /\ j.cells = cells /\ j.tails[i] = t /\ \A k \in Slots \ {i} : j.tails[k] = w.image.tails[k]
        /\ j.beta = w.image.beta /\ j.big = w.image.big /\ j.junk = w.image.junk /\ j.smc = w.image.smc
    BY <1>2, <2>7
  <2>9. v = [x EXCEPT !.ret = ret]
    BY <1>4
  <2>10. x = [image |-> j, bl |-> done.bl, at |-> done.at, prev |-> done.prev, ret |-> done.ret]
    BY <2>7
  <2> HIDE DEF x, j, bl
  <2>11. v.image = j /\ v.bl = bl /\ v.ret = ret
    BY <2>7, <2>9, <2>10
  <2>12. bl[l] = n /\ \A k \in Ids \ {l} : bl[k] = w.bl[k]
    BY <1>0, <1>2 DEF bl
  <2>13. OnlySaves(w, v, l, i)
    BY <2>3, <2>6, <2>8, <2>11, <2>12 DEF OnlySaves
  <2>14. Put7(cpu, nonces, w, v, i)
    <3>1. at = SlotAt(i) + six.len
      BY DEF SlotAt, at
    <3>2. v.bl[l] = n /\ v.image.tails[i] = t /\ v.ret = ret
      BY <2>8, <2>11, <2>12
    <3>3. v.image.cells = Put(w.image.cells, SlotAt(i) + six.len, v.bl[l].part,
                              IF room > 0 THEN room ELSE v.bl[l].part.len)
      BY <2>8, <2>11, <3>1, <3>2 DEF cells, size
    <3>4. /\ SoundPlace(l, v.bl[l])
          /\ Given(l, m) /\ m.part.under = {} /\ cpu # "null" => Opens(l, v.bl[l], prev, cpu)
      BY <2>3, <2>6, <3>2
    <3>5. w.ret = 0 /\ isValid(Six(i), w.bl[Six(i)]) /\ isValid(l, m)
      BY <1>4
    <3> QED
      BY <3>2, <3>3, <3>4, <3>5, Zenon DEF Put7, room, t, ret, prev
  <2> QED
    BY <2>13, <2>14
<1>5. /\ OnlySaves(w, v, l, i)
      /\ \/ v = w /\ none
         \/ Put7(cpu, nonces, w, v, i)
  BY <1>1, <1>3, <1>4, Zenon
<1> QED
  BY <1>5, Zenon DEF Step7, v, none

\* A walk over the update slots, which lie behind the chain.
Slotting(parts, w) ==
  /\ SoundWork(w) /\ Within(Laid5(parts).image, w.image)
  /\ \A k \in Ids : Alike(given.bl[k].part, w.bl[k].part)
  /\ \A k \in Chain : w.bl[k] = Laid5(parts).bl[k]
  /\ w.image.beta = parts.beta /\ w.image.big = parts.big
  /\ w.image.junk = parts.junk /\ w.image.smc = parts.smc

LEMMA AlikeTwice ==
  ASSUME NEW p, NEW q, NEW r, Alike(p, q), Alike(q, r)
  PROVE  Alike(p, r)
BY DEF Alike

\* Where the loaders of the slots are put.
LEMMA SlotPlaces ==
  ASSUME NEW w, NEW j \in Slots, SoundWork(w), isValid(Six(j), w.bl[Six(j)])
  PROVE  LET len == w.bl[Six(j)].part.len
         IN  /\ SlotAt(j) \in Nat /\ SlotAt(j) + len \in Nat /\ len \in Nat \ {0}
             /\ SlotAt(j) >= Sys /\ SlotAt(j) + len > Sys
             /\ SlotAt(j) = IF j = 1 THEN Sys ELSE Sys + Slot
<1> DEFINE len == w.bl[Six(j)].part.len
<1>1. SlotAt(j) = IF j = 1 THEN Sys ELSE Sys + Slot
  BY AddressAssumption DEF SlotAt, Slots
<1>2. Sys \in Nat /\ Slot \in Nat
  BY AddressAssumption
<1>3. len \in Nat \ {0}
  <2>1. SoundPlace(Six(j), w.bl[Six(j)]) /\ Magic(Six(j)) = "6BL"
    BY SlotLoaders DEF SoundWork, SoundPlaces
  <2> QED
    BY <2>1 DEF SoundPlace, SoundLoader, Fields, isValid
<1> HIDE DEF len
<1>4. SlotAt(j) \in Nat /\ SlotAt(j) + len \in Nat /\ SlotAt(j) >= Sys /\ SlotAt(j) + len > Sys
  BY <1>1, <1>2, <1>3
<1> QED
  BY <1>1, <1>3, <1>4 DEF len

LEMMA SixPut ==
  ASSUME NEW cpu, NEW key, NEW w, NEW v, NEW j \in Slots, Step6(cpu, key, w, v, j)
  PROVE  \/ v.image.cells = w.image.cells
         \/ /\ isValid(Six(j), w.bl[Six(j)])
            /\ \E p : v.image.cells = Put(w.image.cells, SlotAt(j), p, w.bl[Six(j)].part.len)
<1>1. CASE Put6(cpu, key, w, v, j)
  <2>1. Alike(w.bl[Six(j)].part, v.bl[Six(j)].part)
    BY DEF Step6, OnlySaves
  <2>2. v.bl[Six(j)].part.len = w.bl[Six(j)].part.len
    BY <2>1 DEF Alike
  <2> QED
    BY <1>1, <2>2 DEF Put6
<1>2. CASE v = w \/ v.image.cells = w.image.cells
  BY <1>2
<1> QED
  BY <1>1, <1>2 DEF Step6

LEMMA SevenPut ==
  ASSUME NEW cpu, NEW nonces, NEW w, NEW v, NEW j \in Slots, SoundWork(w), Step7(cpu, nonces, w, v, j)
  PROVE  LET len == w.bl[Six(j)].part.len
         IN  \/ v.image.cells = w.image.cells
             \/ /\ isValid(Six(j), w.bl[Six(j)])
                /\ \E p, size : /\ v.image.cells = Put(w.image.cells, SlotAt(j) + len, p, size)
                                /\ Slot > len => size = Slot - len
<1> DEFINE len == w.bl[Six(j)].part.len
<1>1. CASE Put7(cpu, nonces, w, v, j)
  <2> DEFINE n    == v.bl[Seven(j)]
             room == Slot - len
             size == IF room > 0 THEN room ELSE n.part.len
  <2>1. isValid(Six(j), w.bl[Six(j)]) /\ v.image.cells = Put(w.image.cells, SlotAt(j) + len, n.part, size)
    BY <1>1 DEF Put7
  <2>2. len \in Int /\ Slot \in Int
    BY <2>1, SlotPlaces, AddressAssumption
  <2>3. Slot > len => size = Slot - len
    <3> HIDE DEF len, n
    <3> QED
      BY <2>2
  <2> HIDE DEF size, n
  <2> QED
    BY <2>1, <2>3
<1>2. CASE v = w
  BY <1>2
<1> QED
  BY <1>1, <1>2 DEF Step7

LEMMA SlotPut ==
  ASSUME NEW cpu, NEW key, NEW w, NEW v, NEW j \in Slots, SoundWork(w),
         Step6(cpu, key, w, v, j) \/ Step7(cpu, key, w, v, j)
  PROVE  \/ v.image.cells = w.image.cells
         \/ /\ isValid(Six(j), w.bl[Six(j)])
            /\ \E p, size :
                 \/ v.image.cells = Put(w.image.cells, SlotAt(j), p, size)
                 \/ v.image.cells = Put(w.image.cells, SlotAt(j) + w.bl[Six(j)].part.len, p, size)
<1>1. CASE Step6(cpu, key, w, v, j)
  BY <1>1, SixPut
<1>2. CASE Step7(cpu, key, w, v, j)
  BY <1>2, SevenPut
<1> QED
  BY <1>1, <1>2

LEMMA SlotFrame ==
  ASSUME NEW parts, NEW cpu, NEW key, NEW w, NEW v, NEW j \in Slots, Slotting(parts, w), SoundWork(v),
         Laying(Laid5(parts)), Laid5(parts).at <= Sys,
         Step6(cpu, key, w, v, j) \/ Step7(cpu, key, w, v, j)
  PROVE  Slotting(parts, v)
<1> DEFINE c   == Laid5(parts)
           old == w.image.cells
           new == v.image.cells
<1>1. PICK l \in {Six(j), Seven(j)} : OnlySaves(w, v, l, j)
  BY DEF Step6, Step7
<1>2. l \in Ids /\ l \notin Chain /\ Chain \subseteq Ids
  BY <1>1 DEF Slots, Six, Seven, Ids, Chain, ChainOrder
<1>3. \A k \in Ids : Alike(given.bl[k].part, v.bl[k].part)
  BY <1>1, AlikeTwice DEF Slotting, OnlySaves
<1>4. \A k \in Chain : v.bl[k] = c.bl[k]
  BY <1>1, <1>2 DEF Slotting, OnlySaves
<1>5. Within(c.image, v.image)
  <2> SUFFICES ASSUME NEW a \in DOMAIN c.image.cells
               PROVE  a \in DOMAIN new /\ new[a] = c.image.cells[a]
    BY DEF Within
  <2> HIDE DEF c
  <2>1. a \in DOMAIN old /\ old[a] = c.image.cells[a]
    BY DEF Slotting, Within, c
  <2>2. /\ a \in Nat /\ old[a].len \in Nat \ {0} /\ old[a].magic # "7BL" /\ a + old[a].len <= c.at
        /\ c.at \in Nat
    BY <2>1 DEF Laying, c
  <2>3. End(old, a) = a + old[a].len
    BY <2>2 DEF End
  <2>4. End(old, a) <= Sys /\ a < Sys /\ Sys \in Nat /\ End(old, a) \in Nat
    BY <2>2, <2>3, AddressAssumption DEF c
  <2>5. CASE new = old
    BY <2>1, <2>5
  <2>6. CASE new # old
    <3>0. SoundWork(w)
      BY DEF Slotting
    <3>1. /\ isValid(Six(j), w.bl[Six(j)])
          /\ \E p, size : \/ new = Put(old, SlotAt(j), p, size)
                          \/ new = Put(old, SlotAt(j) + w.bl[Six(j)].part.len, p, size)
      BY <2>6, <3>0, SlotPut
    <3>2. \A at \in {SlotAt(j), SlotAt(j) + w.bl[Six(j)].part.len} : at \in Nat /\ at >= Sys
      BY <2>4, <3>0, <3>1, SlotPlaces
    <3>3. PICK at, p, size : new = Put(old, at, p, size) /\ at \in Nat /\ at >= Sys
      BY <3>1, <3>2, Zenon
    <3>4. a # at /\ End(old, a) <= at
      BY <2>2, <2>4, <3>3
    <3> QED
      BY <2>1, <3>3, <3>4, PutKeeps
  <2> QED
    BY <2>5, <2>6
<1>6. /\ v.image.beta = parts.beta /\ v.image.big = parts.big
      /\ v.image.junk = parts.junk /\ v.image.smc = parts.smc
  BY <1>1 DEF Slotting, OnlySaves
<1> QED
  BY <1>3, <1>4, <1>5, <1>6 DEF Slotting

\* A 6BL lies in its slot, as it is in memory.
SixLies(w, i) == SlotAt(i) \in DOMAIN w.image.cells /\ w.image.cells[SlotAt(i)] = w.bl[Six(i)].part

\* A 6BL leaves room for its 7BL.
Room(bl) == \A j \in Slots : isValid(Six(j), bl[Six(j)]) => bl[Six(j)].part.len < Slot

\* What is written after a 6BL lies beside it.
LEMMA SixStays ==
  ASSUME NEW cpu, NEW key, NEW w, NEW v, NEW i \in Slots, NEW j \in Slots, SoundWork(w), Room(w.bl),
         isValid(Six(i), w.bl[Six(i)]), SixLies(w, i),
         (j # i /\ Step6(cpu, key, w, v, j)) \/ Step7(cpu, key, w, v, j)
  PROVE  SixLies(v, i) /\ v.bl[Six(i)] = w.bl[Six(i)]
<1> DEFINE old == w.image.cells
           new == v.image.cells
           a   == SlotAt(i)
           b   == SlotAt(j)
           len == w.bl[Six(i)].part.len
           run == w.bl[Six(j)].part.len
<1>1. v.bl[Six(i)] = w.bl[Six(i)]
  <2>1. Six(i) \in Ids /\ Six(i) # Seven(j) /\ (j # i => Six(i) # Six(j))
    BY DEF Slots, Six, Seven, Ids
  <2> QED
    BY <2>1 DEF Step6, Step7, OnlySaves
<1>2. /\ a \in Nat /\ len \in Nat \ {0} /\ a = (IF i = 1 THEN Sys ELSE Sys + Slot)
      /\ len < Slot /\ old[a].magic = "6BL" /\ old[a].len = len /\ a \in DOMAIN old
      /\ Slot \in Nat /\ Sys \in Nat
  <2>1. /\ a \in Nat /\ len \in Nat \ {0} /\ a = (IF i = 1 THEN Sys ELSE Sys + Slot)
    BY SlotPlaces
  <2>2. w.bl[Six(i)].part.magic = "6BL"
    BY SlotLoaders DEF isValid
  <2> QED
    BY <2>1, <2>2, AddressAssumption DEF SixLies, Room
<1>3. End(old, a) = a + len
  BY <1>2 DEF End
<1>4. CASE new = old
  BY <1>1, <1>4 DEF SixLies
<1>5. CASE new # old
  <2>1. \E p, size :
          \/ new = Put(old, b, p, size) /\ j # i /\ size = run
          \/ new = Put(old, b + run, p, size) /\ (Slot > run => size = Slot - run)
    <3>1. CASE j # i /\ Step6(cpu, key, w, v, j)
      BY <1>5, <3>1, SixPut
    <3>2. CASE Step7(cpu, key, w, v, j)
      BY <1>5, <3>2, SevenPut
    <3> QED
      BY <3>1, <3>2
  <2>2. isValid(Six(j), w.bl[Six(j)])
    BY <1>5, SlotPut
  <2>0. PICK p, size :
          \/ new = Put(old, b, p, size) /\ j # i /\ size = run
          \/ new = Put(old, b + run, p, size) /\ (Slot > run => size = Slot - run)
    BY <2>1
  <2>3. /\ b \in Nat /\ run \in Nat \ {0} /\ b = (IF j = 1 THEN Sys ELSE Sys + Slot) /\ run < Slot
    BY <2>2, SlotPlaces DEF Room
  <2>4. i \in 1..2 /\ j \in 1..2
    BY DEF Slots
  <2> HIDE DEF a, b, len, run, new, old
  <2>5. CASE new = Put(old, b, p, size) /\ j # i /\ size = run
    <3>1. a # b /\ (End(old, a) <= b \/ b + size <= a)
      BY <1>2, <1>3, <2>3, <2>4, <2>5
    <3>2. a \in DOMAIN new /\ new[a] = old[a]
      BY <1>2, <2>5, <3>1, PutKeeps
    <3> QED
      BY <1>1, <3>2 DEF SixLies, new, old, a
  <2>6. CASE new = Put(old, b + run, p, size) /\ (Slot > run => size = Slot - run)
    <3>0. size = Slot - run
      BY <1>2, <2>3, <2>6
    <3>1. a # b + run /\ (End(old, a) <= b + run \/ (b + run) + size <= a)
      <4>1. CASE i = j
        <5>1. a = b /\ len = run
          BY <4>1 DEF a, b, len, run
        <5> QED
          BY <1>2, <1>3, <2>3, <5>1
      <4>2. CASE i = 1 /\ j = 2
        BY <1>2, <1>3, <2>3, <4>2
      <4>3. CASE i = 2 /\ j = 1
        BY <1>2, <1>3, <2>3, <3>0, <4>3
      <4> QED
        BY <2>4, <4>1, <4>2, <4>3
    <3>2. a \in DOMAIN new /\ new[a] = old[a]
      BY <1>2, <2>6, <3>1, PutKeeps
    <3> QED
      BY <1>1, <3>2 DEF SixLies, new, old, a
  <2> QED
    BY <2>0, <2>5, <2>6
<1> QED
  BY <1>4, <1>5

\* Without a 6BL nothing comes to the place of the first slot.
LEMMA SlotFree ==
  ASSUME NEW cpu, NEW key, NEW w, NEW v, NEW j \in Slots, SoundWork(w),
         ~ isValid(Six(1), w.bl[Six(1)]), Sys \notin DOMAIN w.image.cells,
         Step6(cpu, key, w, v, j) \/ Step7(cpu, key, w, v, j)
  PROVE  Sys \notin DOMAIN v.image.cells
<1> DEFINE old == w.image.cells
           new == v.image.cells
           b   == SlotAt(j)
           run == w.bl[Six(j)].part.len
<1>1. CASE new = old
  BY <1>1
<1>2. CASE new # old
  <2>1. isValid(Six(j), w.bl[Six(j)])
    BY <1>2, SlotPut
  <2>2. b = Sys + Slot /\ run \in Nat /\ Sys \in Nat /\ Slot \in Nat \ {0}
    BY <2>1, SlotPlaces, AddressAssumption
  <2>3. \E p, size : new = Put(old, b, p, size) \/ new = Put(old, b + run, p, size)
    BY <1>2, SlotPut
  <2> HIDE DEF b, run, new, old
  <2>4. Sys # b /\ Sys # b + run
    BY <2>2
  <2>5. PICK at, p, size : new = Put(old, at, p, size) /\ at # Sys
    BY <2>3, <2>4, Zenon
  <2>6. Sys \in DOMAIN new => Sys \in DOMAIN old
    BY <2>5, PutKeeps
  <2> QED
    BY <2>6 DEF new, old
<1> QED
  BY <1>1, <1>2

\* The system file of a slot once Save6BL is through with it.
Once(need) == SetData(Added(NoTail), need, "blank").tail

LEMMA OnceTwice ==
  ASSUME NEW need \in Nat
  PROVE  LET twice == SetData(Once(need), need, "rest")
         IN  /\ need <= 2 => Once(need).blocks = need /\ twice.tail.data = "rest" /\ twice.code = 0
             /\ need > 2 => twice.code # 0
<1>1. Once(need).blocks = IF 1 < need THEN 2 ELSE need
  BY DEF Once, SetData, Added
<1> DEFINE t == Once(need)
           twice == SetData(t, need, "rest")
<1> HIDE DEF t
<1>2. t.blocks < need => twice.code = 2
  BY DEF SetData
<1>3. ~ (t.blocks < need) => twice.code = 0 /\ twice.tail = [t EXCEPT !.blocks = need, !.data = "rest"]
  BY DEF SetData
<1>4. [t EXCEPT !.blocks = need, !.data = "rest"].data = "rest"
  <2>1. "data" \in DOMAIN t
    BY DEF t, Once, SetData, Added
  <2> QED
    BY <2>1
<1>5. ~ (t.blocks < need) => twice.code = 0 /\ twice.tail.data = "rest"
  BY <1>3, <1>4
<1> QED
  BY <1>1, <1>2, <1>5 DEF t

\* The first slots of an ini's image: its system files are there, with a block each.
Tailed(i) ==
  /\ i.junk = 0
  /\ i.tails = [j \in Slots |-> IF j \in inis[opts.ini].files THEN Added(NoTail) ELSE NoTail]

\* What Save6BL does of slot i, when its system file did not have to be added.
LEMMA SixLaid ==
  ASSUME NEW key, NEW w, NEW v, NEW i \in Slots, Step6(opts.cpu, key, w, v, i), w.ret = 0,
         w.bl[Six(i)] = given.bl[Six(i)], w.bl[Seven(i)] = given.bl[Seven(i)],
         HasSeven(i) => w.image.tails[i] = Added(NoTail),
         isValid(Six(i), given.bl[Six(i)]) => Given(Six(i), given.bl[Six(i)]), opts.cpu # "null"
  PROVE  /\ v.ret = 0
         /\ HasSeven(i) => /\ v.image.tails[i] = Once(Needed(i))
                           /\ v.bl[Six(i)].part.used = Once(Needed(i)).blocks
         /\ isValid(Six(i), given.bl[Six(i)]) =>
              /\ SixLies(v, i)
              /\ given.bl[Six(i)].part.under = {} => Opens(Six(i), v.bl[Six(i)], key, opts.cpu)
<1>1. CASE ~ isValid(Six(i), given.bl[Six(i)])
  <2>1. ~ Put6(opts.cpu, key, w, v, i)
    BY <1>1, Zenon DEF Put6
  <2>2. v = w
    BY <1>1, <2>1 DEF Step6
  <2> QED
    BY <1>1, <2>2 DEF HasSeven
<1>2. CASE isValid(Six(i), given.bl[Six(i)])
  <2>1. Put6(opts.cpu, key, w, v, i)
    <3>1. HasSeven(i) => w.image.tails[i].there
      BY DEF Added
    <3> QED
      BY <1>2, <3>1 DEF Step6, HasSeven
  <2> DEFINE n    == v.bl[Six(i)]
             size == n.part.len
             need == Need(w.bl[Six(i)].part.len, w.bl[Seven(i)].part.len)
  <2>2. /\ v.ret = 0 /\ v.image.cells = Put(w.image.cells, SlotAt(i), n.part, size)
        /\ given.bl[Six(i)].part.under = {} => Opens(Six(i), n, key, opts.cpu)
    BY <1>2, <2>1 DEF Put6
  <2>3. SixLies(v, i)
    <3> HIDE DEF size
    <3> QED
      BY <2>2, PutKeeps DEF SixLies
  <2>4. HasSeven(i) => v.image.tails[i] = Once(Needed(i)) /\ n.part.used = Once(Needed(i)).blocks
    <3> SUFFICES ASSUME HasSeven(i)
                 PROVE  v.image.tails[i] = Once(Needed(i)) /\ n.part.used = Once(Needed(i)).blocks
      OBVIOUS
    <3>1. need = Needed(i) /\ isValid(Seven(i), w.bl[Seven(i)])
      BY DEF Needed, HasSeven
    <3>2. /\ n.part.used = SetData(w.image.tails[i], need, "blank").tail.blocks
          /\ v.image.tails[i] = SetData(w.image.tails[i], need, "blank").tail
      BY <2>1, <3>1, Zenon DEF Put6
    <3> HIDE DEF need
    <3> QED
      BY <3>1, <3>2 DEF Once
  <2> QED
    BY <1>2, <2>2, <2>3, <2>4
<1> QED
  BY <1>1, <1>2

\* A 7BL lies behind its 6BL, which names the blocks its rest is in.
SevenLies(w, i, nonce) ==
  LET at == SlotAt(i) + w.bl[Six(i)].part.len
  IN  /\ at \in DOMAIN w.image.cells /\ w.image.cells[at] = w.bl[Seven(i)].part
      /\ Opens(Seven(i), w.bl[Seven(i)], nonce, opts.cpu)
      /\ w.image.tails[i].data = "rest" /\ w.bl[Six(i)].part.used = Needed(i)

\* What Save7BL does of slot i.
LEMMA SevenLaid ==
  ASSUME NEW nonces, NEW w, NEW v, NEW i \in Slots, Step7(opts.cpu, nonces, w, v, i), w.ret = 0,
         w.bl[Seven(i)] = given.bl[Seven(i)], Alike(given.bl[Six(i)].part, w.bl[Six(i)].part),
         HasSeven(i), Needed(i) \in Nat, w.image.tails[i] = Once(Needed(i)),
         w.bl[Six(i)].part.used = Once(Needed(i)).blocks,
         Given(Seven(i), given.bl[Seven(i)]), opts.cpu # "null"
  PROVE  /\ Needed(i) > 2 => v.ret = 0
         /\ Needed(i) <= 2 /\ given.bl[Seven(i)].part.under = {} =>
              v.ret = 10 /\ SevenLies(v, i, nonces[i])
<1> DEFINE m    == w.bl[Seven(i)]
           n    == v.bl[Seven(i)]
           six  == w.bl[Six(i)].part
           at   == SlotAt(i) + six.len
           room == Slot - six.len
           size == IF room > 0 THEN room ELSE n.part.len
           set  == SetData(w.image.tails[i], Need(six.len, m.part.len), "rest")
<1>1. isValid(Six(i), w.bl[Six(i)]) /\ isValid(Seven(i), m)
  BY DEF HasSeven, Alike, isValid
<1>2. Put7(opts.cpu, nonces, w, v, i)
  BY <1>1 DEF Step7
<1>3. /\ v.image.cells = Put(w.image.cells, at, n.part, size)
      /\ m.part.under = {} => Opens(Seven(i), n, nonces[i], opts.cpu)
      /\ v.image.tails[i] = set.tail /\ v.ret = IF set.code = 0 THEN 10 ELSE 0
  BY <1>2, Zenon DEF Put7
<1>4. set = SetData(Once(Needed(i)), Needed(i), "rest")
  BY DEF Alike, Needed
<1>5. v.bl[Six(i)] = w.bl[Six(i)]
  BY SlotLoaders DEF Step7, OnlySaves
<1> HIDE DEF size, set, at
<1>6. at \in DOMAIN v.image.cells /\ v.image.cells[at] = n.part
  BY <1>3, PutKeeps
<1>7. /\ Needed(i) <= 2 => Once(Needed(i)).blocks = Needed(i) /\ set.tail.data = "rest" /\ set.code = 0
      /\ Needed(i) > 2 => set.code # 0
  BY <1>4, OnceTwice
<1>8. ASSUME Needed(i) <= 2, given.bl[Seven(i)].part.under = {}
      PROVE  v.ret = 10 /\ SevenLies(v, i, nonces[i])
  <2>1. v.ret = 10 /\ v.image.tails[i].data = "rest" /\ v.bl[Six(i)].part.used = Needed(i)
    BY <1>3, <1>5, <1>7, <1>8
  <2>2. Opens(Seven(i), n, nonces[i], opts.cpu)
    BY <1>3, <1>8
  <2>3. at = SlotAt(i) + v.bl[Six(i)].part.len
    BY <1>5 DEF at
  <2> QED
    BY <1>6, <2>1, <2>2, <2>3 DEF SevenLies
<1> QED
  BY <1>3, <1>7, <1>8

\* How far SaveBootloaders is with the slots.
Nonces(parts) == [i \in Slots |-> Inner(Laid5(parts).bl[Six(i)], "7BL")]
Laid6(parts) == Save6BL(opts.cpu, <<opts.bl>>, Laid5(parts), 1)
Laid7(parts) == Save6BL(opts.cpu, <<opts.bl>>, Laid6(parts), 2)
Laid8(parts) == Save7BL(opts.cpu, Nonces(parts), Laid7(parts), 1)
Laid9(parts) == Save7BL(opts.cpu, Nonces(parts), Laid8(parts), 2)

\* The chain is whole and ends before the slots.
ChainWhole(parts) ==
  Begun(parts) /\ Tailed(parts) /\ Laid5(parts).ret = 0 /\ Laid5(parts).at <= Sys

LEMMA SlotsWalk ==
  ASSUME NEW parts, ChainWhole(parts)
  PROVE  /\ \A w \in {Laid5(parts), Laid6(parts), Laid7(parts), Laid8(parts), Laid9(parts)} :
              Slotting(parts, w)
         /\ Step6(opts.cpu, <<opts.bl>>, Laid5(parts), Laid6(parts), 1)
         /\ Step6(opts.cpu, <<opts.bl>>, Laid6(parts), Laid7(parts), 2)
         /\ Step7(opts.cpu, Nonces(parts), Laid7(parts), Laid8(parts), 1)
         /\ Step7(opts.cpu, Nonces(parts), Laid8(parts), Laid9(parts), 2)
         /\ \A i \in Slots : /\ Laid5(parts).bl[Six(i)] = given.bl[Six(i)]
                             /\ Laid5(parts).bl[Seven(i)] = given.bl[Seven(i)]
                             /\ HasSeven(i) /\ i \in inis[opts.ini].files =>
                                  Laid5(parts).image.tails[i] = Added(NoTail)
<1> DEFINE cpu == opts.cpu
           key == <<opts.bl>>
           nonces == Nonces(parts)
           w5 == Laid5(parts)
           w6 == Laid6(parts)
           w7 == Laid7(parts)
           w8 == Laid8(parts)
           w9 == Laid9(parts)
<1>1. /\ w6 = Save6BL(cpu, key, w5, 1) /\ w7 = Save6BL(cpu, key, w6, 2)
      /\ w8 = Save7BL(cpu, nonces, w7, 1) /\ w9 = Save7BL(cpu, nonces, w8, 2)
  BY DEF Laid6, Laid7, Laid8, Laid9
<1>2. /\ Laying(w5) /\ SameButCells(parts, w5.image)
      /\ \A k \in Ids \ Chain : w5.bl[k] = given.bl[k]
  BY ChainLaid DEF ChainWhole
<1>3. w5.at <= Sys /\ Tailed(parts) /\ ~ parts.beta
  BY DEF ChainWhole, Begun
<1> HIDE DEF cpu, key, nonces, w6, w7, w8, w9
<1>4. Slotting(parts, w5) /\ 1 \in Slots /\ 2 \in Slots
  <2>1. Within(w5.image, w5.image) /\ Chain \subseteq Ids
    BY DEF Within, Chain, ChainOrder, Ids
  <2> QED
    BY <1>2, <2>1 DEF Slotting, Laying, SameButCells, Slots
<1>5. Step6(cpu, key, w5, w6, 1) /\ Slotting(parts, w6)
  <2>1. SoundWork(w5) /\ ~ w5.image.beta
    BY <1>3, <1>4 DEF Slotting
  <2>2. Step6(cpu, key, w5, w6, 1) /\ SoundWork(w6)
    BY <1>1, <1>4, <2>1, Save6Writes, Save6BLSound
  <2> QED
    BY <1>2, <1>3, <1>4, <2>2, SlotFrame
<1>6. Step6(cpu, key, w6, w7, 2) /\ Slotting(parts, w7)
  <2>1. SoundWork(w6) /\ ~ w6.image.beta
    BY <1>3, <1>5 DEF Slotting
  <2>2. Step6(cpu, key, w6, w7, 2) /\ SoundWork(w7)
    BY <1>1, <1>4, <2>1, Save6Writes, Save6BLSound
  <2> QED
    BY <1>2, <1>3, <1>4, <1>5, <2>2, SlotFrame
<1>7. Step7(cpu, nonces, w7, w8, 1) /\ Slotting(parts, w8)
  <2>1. SoundWork(w7) /\ ~ w7.image.beta
    BY <1>3, <1>6 DEF Slotting
  <2>2. Step7(cpu, nonces, w7, w8, 1) /\ SoundWork(w8)
    BY <1>1, <1>4, <2>1, Save7Writes, Save7BLSound
  <2> QED
    BY <1>2, <1>3, <1>4, <1>6, <2>2, SlotFrame
<1>8. Step7(cpu, nonces, w8, w9, 2) /\ Slotting(parts, w9)
  <2>1. SoundWork(w8) /\ ~ w8.image.beta
    BY <1>3, <1>7 DEF Slotting
  <2>2. Step7(cpu, nonces, w8, w9, 2) /\ SoundWork(w9)
    BY <1>1, <1>4, <2>1, Save7Writes, Save7BLSound
  <2> QED
    BY <1>2, <1>3, <1>4, <1>7, <2>2, SlotFrame
<1>9. \A i \in Slots : /\ w5.bl[Six(i)] = given.bl[Six(i)] /\ w5.bl[Seven(i)] = given.bl[Seven(i)]
                       /\ HasSeven(i) /\ i \in inis[opts.ini].files => w5.image.tails[i] = Added(NoTail)
  <2> SUFFICES ASSUME NEW i \in Slots
               PROVE  /\ w5.bl[Six(i)] = given.bl[Six(i)] /\ w5.bl[Seven(i)] = given.bl[Seven(i)]
                      /\ i \in inis[opts.ini].files => w5.image.tails[i] = Added(NoTail)
    OBVIOUS
  <2>1. Six(i) \in Ids \ Chain /\ Seven(i) \in Ids \ Chain
    BY DEF Slots, Six, Seven, Ids, Chain, ChainOrder
  <2>2. w5.image.tails = parts.tails
    BY <1>2 DEF SameButCells
  <2> QED
    BY <1>2, <1>3, <2>1, <2>2 DEF Tailed
<1> QED
  BY <1>4, <1>5, <1>6, <1>7, <1>8, <1>9 DEF cpu, key, nonces, w6, w7, w8, w9

\* The loaders of a slot that gets as far as being written.
Reached(i) ==
  /\ isValid(Six(i), given.bl[Six(i)]) /\ Room(given.bl)
  /\ \A j \in 1..i : HasSeven(j) => j \in inis[opts.ini].files

Whole(i) ==
  /\ HasSeven(i) /\ Room(given.bl) /\ Needed(i) <= 2 /\ given.bl[Seven(i)].part.under = {}
  /\ \A j \in Slots : HasSeven(j) => j \in inis[opts.ini].files
  /\ \A j \in 1..(i - 1) : HasSeven(j) => Needed(j) > 2

\* Validity and room are seen from outside.
LEMMA SlotAlike ==
  ASSUME NEW parts, NEW w, Slotting(parts, w)
  PROVE  /\ \A l \in Ids : isValid(l, w.bl[l]) <=> isValid(l, given.bl[l])
         /\ Room(w.bl) <=> Room(given.bl)
<1>1. \A l \in Ids : w.bl[l].part.magic = given.bl[l].part.magic /\ w.bl[l].part.len = given.bl[l].part.len
  BY DEF Slotting, Alike
<1>2. \A j \in Slots : Six(j) \in Ids
  BY SlotLoaders
<1> QED
  BY <1>1, <1>2 DEF isValid, Room

\* What is seen of the loaders a step of the slots has not come to yet.
LEMMA SlotsLater ==
  ASSUME NEW parts, ChainWhole(parts)
  PROVE  LET w5 == Laid5(parts)
             w6 == Laid6(parts)
             w7 == Laid7(parts)
             w8 == Laid8(parts)
         IN  /\ w6.bl["6BL_B"] = w5.bl["6BL_B"] /\ w6.bl["7BL_B"] = w5.bl["7BL_B"]
             /\ w6.image.tails[2] = w5.image.tails[2]
             /\ \A i \in Slots : w7.bl[Seven(i)] = w5.bl[Seven(i)]
             /\ w7.bl["6BL"] = w6.bl["6BL"] /\ w7.image.tails[1] = w6.image.tails[1]
             /\ w8.bl["6BL_B"] = w7.bl["6BL_B"] /\ w8.bl["7BL_B"] = w7.bl["7BL_B"]
             /\ w8.bl["6BL"] = w7.bl["6BL"] /\ w8.image.tails[2] = w7.image.tails[2]
<1>1. /\ OnlySaves(Laid5(parts), Laid6(parts), "6BL", 1)
      /\ OnlySaves(Laid6(parts), Laid7(parts), "6BL_B", 2)
      /\ OnlySaves(Laid7(parts), Laid8(parts), "7BL", 1)
  BY SlotsWalk DEF Step6, Step7, Six, Seven
<1>2. {"6BL", "6BL_B", "7BL", "7BL_B"} \subseteq Ids /\ Slots = {1, 2}
  BY DEF Ids, Slots
<1> HIDE DEF Laid5, Laid6, Laid7, Laid8
<1> QED
  BY <1>1, <1>2 DEF OnlySaves, Seven

\* What SaveBootloaders leaves in the slots.
LEMMA SixesLaid ==
  ASSUME NEW parts, ChainWhole(parts), NEW i \in Slots, Reached(i)
  PROVE  /\ Laid6(parts).ret = 0 /\ (i = 2 => Laid7(parts).ret = 0)
         /\ SixLies(Laid9(parts), i)
         /\ given.bl[Six(i)].part.under = {} =>
              Opens(Six(i), Laid9(parts).bl[Six(i)], <<opts.bl>>, opts.cpu)
         /\ HasSeven(i) => Laid9(parts).bl[Six(i)].part.used = Once(Needed(i)).blocks
<1> DEFINE cpu == opts.cpu
           key == <<opts.bl>>
           nonces == Nonces(parts)
           w5 == Laid5(parts)
           w6 == Laid6(parts)
           w7 == Laid7(parts)
           w8 == Laid8(parts)
           w9 == Laid9(parts)
           Lies(w) == /\ SixLies(w, i)
                      /\ given.bl[Six(i)].part.under = {} => Opens(Six(i), w.bl[Six(i)], key, cpu)
                      /\ HasSeven(i) => w.bl[Six(i)].part.used = Once(Needed(i)).blocks
<1>1. /\ Slotting(parts, w5) /\ Slotting(parts, w6) /\ Slotting(parts, w7)
      /\ Slotting(parts, w8) /\ Slotting(parts, w9)
      /\ Step6(cpu, key, w5, w6, 1) /\ Step6(cpu, key, w6, w7, 2)
      /\ Step7(cpu, nonces, w7, w8, 1) /\ Step7(cpu, nonces, w8, w9, 2)
      /\ \A j \in Slots : /\ w5.bl[Six(j)] = given.bl[Six(j)] /\ w5.bl[Seven(j)] = given.bl[Seven(j)]
                          /\ HasSeven(j) /\ j \in inis[opts.ini].files => w5.image.tails[j] = Added(NoTail)
  BY SlotsWalk
<1>2. w5.ret = 0 /\ cpu # "null" /\ (\A l \in Ids : isValid(l, given.bl[l]) => Given(l, given.bl[l]))
  BY DEF ChainWhole, Begun
<1>3. /\ w6.bl["6BL_B"] = w5.bl["6BL_B"] /\ w6.bl["7BL_B"] = w5.bl["7BL_B"]
      /\ w6.image.tails[2] = w5.image.tails[2]
  BY SlotsLater
<1>4. 1 \in Slots /\ 2 \in Slots /\ i \in {1, 2} /\ Six(i) \in Ids /\ Six(1) \in Ids /\ Six(2) = "6BL_B" /\ Seven(2) = "7BL_B"
  BY DEF Slots, Six, Seven, Ids
<1>5. /\ isValid(Six(i), given.bl[Six(i)]) /\ Room(given.bl)
      /\ HasSeven(1) => 1 \in inis[opts.ini].files
      /\ i = 2 /\ HasSeven(2) => 2 \in inis[opts.ini].files
  BY <1>4 DEF Reached
<1> HIDE DEF cpu, key, nonces, w5, w6, w7, w8, w9
<1>6. /\ w6.ret = 0
      /\ i = 1 => Lies(w6)
  BY <1>1, <1>2, <1>4, <1>5, SixLaid DEF cpu
<1>7. i = 2 => w7.ret = 0 /\ Lies(w7)
  BY <1>1, <1>2, <1>3, <1>4, <1>5, <1>6, SixLaid DEF cpu
<1>8. ASSUME NEW w \in {w6, w7, w8}
      PROVE  SoundWork(w) /\ Room(w.bl) /\ isValid(Six(i), w.bl[Six(i)])
  BY <1>1, <1>4, <1>5, SlotAlike DEF Slotting
<1>9. Lies(w7)
  <2>1. CASE i = 1
    <3>1. SixLies(w6, i) /\ i \in Slots /\ SoundWork(w6) /\ Room(w6.bl) /\ isValid(Six(i), w6.bl[Six(i)])
          /\ 2 # i
      BY <1>4, <1>6, <1>8, <2>1
    <3>2. SixLies(w7, i) /\ w7.bl[Six(i)] = w6.bl[Six(i)]
      BY <1>1, <1>4, <3>1, SixStays
    <3> QED
      BY <1>6, <2>1, <3>2
  <2> QED
    BY <1>4, <1>7, <2>1
<1>10. Lies(w8)
  <2>1. SixLies(w8, i) /\ w8.bl[Six(i)] = w7.bl[Six(i)]
    BY <1>1, <1>4, <1>8, <1>9, SixStays
  <2> QED
    BY <1>9, <2>1
<1>11. Lies(w9)
  <2>1. SixLies(w9, i) /\ w9.bl[Six(i)] = w8.bl[Six(i)]
    BY <1>1, <1>4, <1>8, <1>10, SixStays
  <2> QED
    BY <1>10, <2>1
<1> QED
  BY <1>6, <1>7, <1>11 DEF w6, w7, w9, cpu, key

LEMMA SevensLaid ==
  ASSUME NEW parts, ChainWhole(parts), NEW i \in Slots, Whole(i)
  PROVE  SevenLies(Laid9(parts), i, Nonces(parts)[i])
<1> DEFINE cpu == opts.cpu
           key == <<opts.bl>>
           nonces == Nonces(parts)
           w5 == Laid5(parts)
           w6 == Laid6(parts)
           w7 == Laid7(parts)
           w8 == Laid8(parts)
           w9 == Laid9(parts)
<1>1. /\ Slotting(parts, w5) /\ Slotting(parts, w7) /\ Slotting(parts, w8)
      /\ Step6(cpu, key, w5, w6, 1) /\ Step6(cpu, key, w6, w7, 2)
      /\ Step7(cpu, nonces, w7, w8, 1) /\ Step7(cpu, nonces, w8, w9, 2)
      /\ \A j \in Slots : /\ w5.bl[Six(j)] = given.bl[Six(j)] /\ w5.bl[Seven(j)] = given.bl[Seven(j)]
                          /\ HasSeven(j) /\ j \in inis[opts.ini].files => w5.image.tails[j] = Added(NoTail)
  BY SlotsWalk
<1>2. w5.ret = 0 /\ cpu # "null" /\ (\A l \in Ids : isValid(l, given.bl[l]) => Given(l, given.bl[l]))
      /\ SoundPlaces(given.bl)
  BY DEF ChainWhole, Begun
<1>3. /\ w6.bl["6BL_B"] = w5.bl["6BL_B"] /\ w6.bl["7BL_B"] = w5.bl["7BL_B"]
      /\ w6.image.tails[2] = w5.image.tails[2]
      /\ \A j \in Slots : w7.bl[Seven(j)] = w5.bl[Seven(j)]
      /\ w7.bl["6BL"] = w6.bl["6BL"] /\ w7.image.tails[1] = w6.image.tails[1]
      /\ w8.bl["6BL_B"] = w7.bl["6BL_B"] /\ w8.bl["7BL_B"] = w7.bl["7BL_B"]
      /\ w8.bl["6BL"] = w7.bl["6BL"] /\ w8.image.tails[2] = w7.image.tails[2]
  BY SlotsLater
<1>4. /\ 1 \in Slots /\ 2 \in Slots /\ i \in {1, 2}
      /\ Six(1) = "6BL" /\ Seven(1) = "7BL" /\ Six(2) = "6BL_B" /\ Seven(2) = "7BL_B"
      /\ {"6BL", "6BL_B", "7BL", "7BL_B"} \subseteq Ids
  BY DEF Slots, Six, Seven, Ids
<1>5. /\ HasSeven(i) /\ Needed(i) <= 2 /\ given.bl[Seven(i)].part.under = {}
      /\ \A j \in Slots : HasSeven(j) => j \in inis[opts.ini].files
      /\ i = 2 /\ HasSeven(1) => Needed(1) > 2
  BY <1>4 DEF Whole
<1>6. \A j \in Slots : HasSeven(j) => Needed(j) \in Nat
  <2> SUFFICES ASSUME NEW j \in Slots, HasSeven(j) PROVE Needed(j) \in Nat
    OBVIOUS
  <2>1. SoundPlace(Six(j), given.bl[Six(j)]) /\ SoundPlace(Seven(j), given.bl[Seven(j)])
        /\ Magic(Six(j)) = "6BL" /\ Magic(Seven(j)) = "7BL"
    BY <1>2, SlotLoaders DEF SoundPlaces
  <2>2. /\ given.bl[Six(j)].part.len \in Nat /\ given.bl[Seven(j)].part.len \in Nat
        /\ given.bl[Seven(j)].part.len >= Slot
    BY <2>1 DEF HasSeven, isValid, SoundPlace, SoundLoader, Fields
  <2> QED
    BY <2>2, NeedNatural DEF Needed
<1> HIDE DEF cpu, key, nonces, w5, w6, w7, w8, w9
<1> DEFINE Ready(w, j) == HasSeven(j) => /\ w.image.tails[j] = Once(Needed(j))
                                         /\ w.bl[Six(j)].part.used = Once(Needed(j)).blocks
<1>7. w6.ret = 0 /\ Ready(w6, 1)
  BY <1>1, <1>2, <1>4, <1>5, SixLaid DEF cpu
<1>8. w7.ret = 0 /\ Ready(w7, 2)
  BY <1>1, <1>2, <1>3, <1>4, <1>5, <1>7, SixLaid DEF cpu
<1>9. Ready(w7, 1)
  BY <1>3, <1>4, <1>7
<1>10. \A j \in Slots : HasSeven(j) => Given(Seven(j), given.bl[Seven(j)])
  BY <1>2, SlotLoaders DEF HasSeven
<1>11. \A j \in Slots : /\ Alike(given.bl[Six(j)].part, w7.bl[Six(j)].part)
                        /\ Alike(given.bl[Six(j)].part, w8.bl[Six(j)].part)
  BY <1>1, SlotLoaders DEF Slotting
<1>12. HasSeven(1) => /\ Needed(1) > 2 => w8.ret = 0
                      /\ Needed(1) <= 2 /\ given.bl[Seven(1)].part.under = {} =>
                           w8.ret = 10 /\ SevenLies(w8, 1, nonces[1])
  BY <1>1, <1>2, <1>3, <1>4, <1>6, <1>8, <1>9, <1>10, <1>11, SevenLaid DEF cpu
<1>13. CASE i = 1
  <2>1. w8.ret = 10 /\ SevenLies(w8, 1, nonces[1])
    BY <1>5, <1>12, <1>13
  <2>2. ~ Put7(cpu, nonces, w8, w9, 2)
    <3>1. w8.ret # 0
      BY <2>1
    <3> QED
      BY <3>1, Zenon DEF Put7
  <2>3. w9 = w8
    BY <1>1, <2>2 DEF Step7
  <2> QED
    BY <1>13, <2>1, <2>3 DEF w9, nonces
<1>14. CASE i = 2
  <2>1. w8.ret = 0
    <3>1. CASE HasSeven(1)
      BY <1>5, <1>12, <1>14, <3>1
    <3>2. CASE ~ HasSeven(1)
      <4>1. isValid(Six(1), w7.bl[Six(1)]) <=> isValid(Six(1), given.bl[Six(1)])
        BY <1>1, <1>4, SlotAlike
      <4>2. isValid(Seven(1), w7.bl[Seven(1)]) <=> isValid(Seven(1), given.bl[Seven(1)])
        BY <1>1, <1>4, SlotAlike
      <4>3. ~ Put7(cpu, nonces, w7, w8, 1)
        BY <3>2, <4>1, <4>2, Zenon DEF Put7, HasSeven
      <4> QED
        BY <1>1, <1>8, <4>3 DEF Step7
    <3> QED
      BY <3>1, <3>2
  <2>2. Ready(w8, 2)
    BY <1>3, <1>4, <1>8
  <2>3. SevenLies(w9, 2, nonces[2])
    BY <1>1, <1>2, <1>3, <1>4, <1>5, <1>6, <1>10, <1>11, <1>14, <2>1, <2>2, SevenLaid DEF cpu
  <2> QED
    BY <1>14, <2>3 DEF w9, nonces
<1> QED
  BY <1>4, <1>13, <1>14

LEMMA FirstFree ==
  ASSUME NEW parts, ChainWhole(parts), ~ isValid(Six(1), given.bl[Six(1)])
  PROVE  Sys \notin DOMAIN Laid9(parts).image.cells
<1> DEFINE w5 == Laid5(parts)
           w6 == Laid6(parts)
           w7 == Laid7(parts)
           w8 == Laid8(parts)
           w9 == Laid9(parts)
<1>1. /\ Slotting(parts, w5) /\ Slotting(parts, w6) /\ Slotting(parts, w7) /\ Slotting(parts, w8)
      /\ Step6(opts.cpu, <<opts.bl>>, w5, w6, 1) /\ Step6(opts.cpu, <<opts.bl>>, w6, w7, 2)
      /\ Step7(opts.cpu, Nonces(parts), w7, w8, 1) /\ Step7(opts.cpu, Nonces(parts), w8, w9, 2)
  BY SlotsWalk
<1>2. Laying(w5) /\ w5.at <= Sys
  BY ChainLaid DEF ChainWhole
<1>3. 1 \in Slots /\ 2 \in Slots /\ Six(1) \in Ids
  BY DEF Slots, Six, Ids
<1> HIDE DEF w5, w6, w7, w8, w9
<1>4. Sys \notin DOMAIN w5.image.cells
  BY <1>2, AddressAssumption DEF Laying
<1>5. \A w \in {w5, w6, w7, w8} : SoundWork(w) /\ ~ isValid(Six(1), w.bl[Six(1)])
  BY <1>1, <1>3, SlotAlike DEF Slotting
<1>6. Sys \notin DOMAIN w6.image.cells
  BY <1>1, <1>3, <1>4, <1>5, SlotFree
<1>7. Sys \notin DOMAIN w7.image.cells
  BY <1>1, <1>3, <1>5, <1>6, SlotFree
<1>8. Sys \notin DOMAIN w8.image.cells
  BY <1>1, <1>3, <1>5, <1>7, SlotFree
<1> QED
  BY <1>1, <1>3, <1>5, <1>8, SlotFree DEF w9

-----------------------------------------------------------------------------
(* LoadBootloaders at the slots *)

\* What Load6BL makes of slot i, from u to v.
SixRead(cpu, key, u, v, i) ==
  LET n == u.bl[Six(i)]
      o == v.bl[Six(i)]
  IN  /\ OnlyLoads(u, v, {Six(i)})
      /\ SixLies(u, i) /\ isValid(Six(i), n) =>
           /\ Alike(n.part, o.part) /\ o.part.used = n.part.used
           /\ Opens(Six(i), n, key, cpu) => o.part.under = {}
      /\ SlotAt(i) \notin DOMAIN u.image.cells => o.part = Nothing(u.image.junk)

LEMMA Load6Reads ==
  ASSUME NEW cpu, NEW key, NEW u, NEW i \in Slots, SoundWork(u)
  PROVE  SixRead(cpu, key, u, Load6BL(cpu, key, u, i), i)
<1> DEFINE l == Six(i)
           n == u.bl[l]
           at == Sys + (i - 1) * Slot
           a == [u EXCEPT !.at = at]
           x == [a EXCEPT !.prev = key]
           m == [n EXCEPT !.part = Header(x.image, x.at)]
           o == Load(l, n, x.prev, cpu, x.bl["2BL"])
           v == Load6BL(cpu, key, u, i)
<1>0. l \in Ids /\ Magic(l) = "6BL"
  BY SlotLoaders
<1>1. v = LoadBootloader(cpu, x, l)
  BY DEF Load6BL
<1> HIDE DEF at, v
<1>2. x = [image |-> u.image, bl |-> u.bl, at |-> at, prev |-> key, ret |-> u.ret]
  <2>1. a = [image |-> u.image, bl |-> u.bl, at |-> at, prev |-> u.prev, ret |-> u.ret]
    BY WorkMoved
  <2> HIDE DEF a
  <2> QED
    BY <2>1
<1> HIDE DEF x
<1>3. SoundWork(x) /\ x.image = u.image /\ x.bl = u.bl /\ x.at = at /\ x.prev = key
  BY <1>2 DEF SoundWork
<1>4. at = SlotAt(i)
  BY DEF SlotAt, at
<1>5. OnlyLoads(u, v, {l})
  <2>1. Shaped(x)
    BY <1>3 DEF Shaped, SoundWork, SoundPlaces
  <2> HIDE DEF l
  <2>2. OnlyLoads(x, v, {l})
    BY <1>0, <1>1, <2>1, LoadBootloaderFrame
  <2> QED
    BY <1>3, <2>2 DEF OnlyLoads
<1>6. SoundPlace(l, n) /\ Fields(n.part) /\ Turned(n, n)
  <2>1. SoundPlace(l, n)
    BY <1>0 DEF SoundWork, SoundPlaces
  <2> HIDE DEF n
  <2> QED
    BY <2>1 DEF SoundPlace, Turned, Fields
<1>7. ASSUME SixLies(u, i), isValid(l, n)
      PROVE  /\ Alike(n.part, v.bl[l].part) /\ v.bl[l].part.used = n.part.used
             /\ Opens(l, n, key, cpu) => v.bl[l].part.under = {}
  <2>1. Header(x.image, x.at) = n.part
    BY <1>3, <1>4, <1>7 DEF SixLies, Header
  <2>2. v = [image |-> x.image, bl |-> [x.bl EXCEPT ![l] = o],
             at |-> x.at + Advance(n.part.len), prev |-> o.rc4, ret |-> x.ret]
    <3>1. isValid(l, x.bl[l]) /\ Header(x.image, x.at) = x.bl[l].part
      BY <1>3, <1>7, <2>1
    <3> HIDE DEF l
    <3> QED
      BY <1>0, <1>1, <1>3, <3>1, LoadBootloaderReads
  <2>3. Turned(n, o)
    BY <1>6, LoadTurns
  <2>4. Opens(l, n, key, cpu) => o.part.under = {}
    BY <1>3 DEF Opens
  <2> HIDE DEF o
  <2>5. Alike(n.part, o.part) /\ o.part.used = n.part.used
    BY <1>6, <2>3, TurnedAlike
  <2>6. v.bl[l] = o
    BY <1>0, <1>3, <2>2 DEF SoundWork, SoundPlaces
  <2> QED
    BY <2>4, <2>5, <2>6
<1>8. ASSUME SlotAt(i) \notin DOMAIN u.image.cells
      PROVE  v.bl[l].part = Nothing(u.image.junk)
  <2>1. Header(x.image, x.at) = Nothing(u.image.junk)
    BY <1>3, <1>4, <1>8 DEF Header
  <2>2. m = [part |-> Nothing(u.image.junk), plain |-> n.plain, rc4 |-> n.rc4, byCpu |-> n.byCpu]
    BY <1>6, <2>1 DEF SoundPlace
  <2>3. ~ isValid(l, m)
    BY <1>0, <2>2 DEF isValid, Nothing, Part
  <2>4. v = [x EXCEPT !.bl[l] = m, !.ret = 2]
    BY <1>1, <1>3, <2>3 DEF LoadBootloader
  <2> HIDE DEF m
  <2>5. v.bl = [u.bl EXCEPT ![l] = m]
    BY <1>2, <2>4
  <2>6. v.bl[l] = m
    BY <1>0, <2>5 DEF SoundWork, SoundPlaces
  <2> QED
    BY <2>2, <2>6
<1> QED
  BY <1>5, <1>7, <1>8, Zenon DEF v, SixRead

\* What Load7BL makes of slot i, from w to v.
SevenRead(cpu, w, v, i) ==
  LET six == w.bl[Six(i)]
      n   == w.bl[Seven(i)]
      at  == w.at + six.part.len
  IN  /\ OnlyLoads(w, v, {Seven(i)})
      /\ w.at \in Nat /\ (isValid(Six(i), six) \/ six.part.len = 0) => v.at = w.at + Slot
      /\ /\ isValid(Six(i), six) /\ six.part.under = {} /\ six.part.used = Need(six.part.len, n.part.len)
         /\ w.image.tails[i].data = "rest" /\ ~ w.image.big /\ isValid(Seven(i), n)
         /\ at \in DOMAIN w.image.cells /\ w.image.cells[at] = n.part
         /\ Opens(Seven(i), n, Inner(six, "7BL"), cpu)
         => Alike(n.part, v.bl[Seven(i)].part) /\ v.bl[Seven(i)].part.under = {}

LEMMA Load7Reads ==
  ASSUME NEW cpu, NEW w, NEW i \in Slots, SoundWork(w)
  PROVE  SevenRead(cpu, w, Load7BL(cpu, w, i), i)
<1> DEFINE l   == Seven(i)
           six == w.bl[Six(i)]
           n   == w.bl[l]
           at  == w.at + six.part.len
           p   == Header(w.image, at)
           m   == [n EXCEPT !.part = p]
           q   == Joined(w.image, six.part, m.part, i)
           o   == Load(l, [m EXCEPT !.part = q], Inner(six, "7BL"), cpu, w.bl["2BL"])
           x   == IF isValid(l, m) THEN o ELSE m
           v   == Load7BL(cpu, w, i)
<1>0. l \in Ids /\ Six(i) \in Ids /\ Six(i) # l
  BY SlotLoaders
<1>1. v = IF ~ isValid(Six(i), six)
          THEN [w EXCEPT !.at = @ + Slot - six.part.len]
          ELSE [w EXCEPT !.at = at + Slot - six.part.len, !.bl[l] = x]
  BY Zenon DEF Load7BL
<1> HIDE DEF l, v, x
<1>2. Slot \in Nat /\ six.part.len \in Int
  <2>1. SoundPlace(Six(i), six)
    BY <1>0 DEF SoundWork, SoundPlaces
  <2> QED
    BY <2>1, AddressAssumption DEF SoundPlace, Fields
<1>3. CASE ~ isValid(Six(i), six)
  <2> DEFINE to == w.at + Slot - six.part.len
  <2>1. v = [w EXCEPT !.at = to]
    BY <1>1, <1>3
  <2> HIDE DEF to
  <2>2. v = [image |-> w.image, bl |-> w.bl, at |-> to, prev |-> w.prev, ret |-> w.ret]
    BY <2>1, WorkMoved
  <2>3. OnlyLoads(w, v, {l})
    BY <2>2 DEF OnlyLoads, Shaped, SoundWork, SoundPlaces
  <2>4. w.at \in Nat /\ six.part.len = 0 => v.at = w.at + Slot
    BY <1>2, <2>2 DEF to
  <2> QED
    BY <1>3, <2>3, <2>4, Zenon DEF v, l, SevenRead
<1>4. CASE isValid(Six(i), six)
  <2> DEFINE to == at + Slot - six.part.len
             u == [w EXCEPT !.at = to]
             bl == [w.bl EXCEPT ![l] = x]
  <2>0. v = [u EXCEPT !.bl[l] = x]
    BY <1>1, <1>4
  <2>1. w.at \in Nat => to = w.at + Slot
    BY <1>2
  <2> HIDE DEF to
  <2>2. u = [image |-> w.image, bl |-> w.bl, at |-> to, prev |-> w.prev, ret |-> w.ret]
    BY WorkMoved
  <2> HIDE DEF u
  <2>3. v = [image |-> w.image, bl |-> bl, at |-> to, prev |-> w.prev, ret |-> w.ret]
    BY <2>0, <2>2
  <2>4. bl = [k \in Ids |-> bl[k]] /\ bl[l] = x /\ \A k \in Ids \ {l} : bl[k] = w.bl[k]
    BY <1>0 DEF SoundWork, SoundPlaces
  <2> HIDE DEF bl
  <2>5. OnlyLoads(w, v, {l}) /\ v.bl[l] = x /\ (w.at \in Nat => v.at = w.at + Slot)
    BY <2>1, <2>3, <2>4 DEF OnlyLoads, Shaped
  <2>6. ASSUME six.part.under = {}, six.part.used = Need(six.part.len, n.part.len),
               w.image.tails[i].data = "rest", ~ w.image.big, isValid(l, n),
               at \in DOMAIN w.image.cells, w.image.cells[at] = n.part, Opens(l, n, Inner(six, "7BL"), cpu)
        PROVE  Alike(n.part, x.part) /\ x.part.under = {}
    <3>1. SoundPlace(l, n)
      BY <1>0 DEF SoundWork, SoundPlaces
    <3>2. p = n.part
      BY <2>6 DEF Header
    <3> HIDE DEF n, p, six, at
    <3>3. n = [part |-> n.part, plain |-> n.plain, rc4 |-> n.rc4, byCpu |-> n.byCpu]
      BY <3>1 DEF SoundPlace
    <3>4. m = n
      BY <3>2, <3>3
    <3> HIDE DEF m
    <3>5. q = n.part
      BY <2>6, <3>4 DEF Joined
    <3> HIDE DEF q
    <3>6. [m EXCEPT !.part = q] = n
      BY <3>3, <3>4, <3>5
    <3>7. o = Load(l, n, Inner(six, "7BL"), cpu, w.bl["2BL"])
      BY <3>6
    <3>8. x = o
      BY <2>6, <3>4 DEF x
    <3> HIDE DEF o
    <3>9. Fields(n.part) /\ Turned(n, n)
      BY <3>1 DEF SoundPlace, Turned, Fields
    <3>10. Turned(n, x)
      BY <3>7, <3>8, <3>9, LoadTurns
    <3>11. x.part.under = {}
      BY <2>6, <3>7, <3>8 DEF Opens
    <3> QED
      BY <3>9, <3>10, <3>11, TurnedAlike
  <2> QED
    BY <1>4, <2>5, <2>6, Zenon DEF v, l, SevenRead
<1> QED
  BY <1>3, <1>4

Read6 == Load6BL(opts.cpu, <<opts.bl>>, Read5, 1)
Read7 == Load6BL(opts.cpu, <<opts.bl>>, Read6, 2)
Back7 == [Read7 EXCEPT !.at = Sys]
Read8 == Load7BL(opts.cpu, Back7, 1)
Read9 == Load7BL(opts.cpu, Read8, 2)

\* A loader of a slot as LoadBootloaders has it, when it is found.
SlotBack(l) == Alike(given.bl[l].part, Read9.bl[l].part) /\ Read9.bl[l].part.under = {}

LEMMA SlotsBack ==
  ASSUME NEW parts, ChainWhole(parts), image = Laid9(parts).image, mem.bl = Laid9(parts).bl,
         Reading(Read5), OnlyLoads(Read0, Read5, Chain), NEW i \in Slots, Reached(i),
         given.bl[Six(i)].part.under = {}
  PROVE  /\ SlotBack(Six(i))
         /\ Whole(i) /\ ~ image.big => SlotBack(Seven(i))
<1> DEFINE cpu == opts.cpu
           key == <<opts.bl>>
           e   == Laid9(parts)
           r5  == Read5
           r6  == Read6
           r7  == Read7
           b   == Back7
           r8  == Read8
           r9  == Read9
<1>1. /\ r6 = Load6BL(cpu, key, r5, 1) /\ r7 = Load6BL(cpu, key, r6, 2)
      /\ b = [r7 EXCEPT !.at = Sys] /\ r8 = Load7BL(cpu, b, 1) /\ r9 = Load7BL(cpu, r8, 2)
  BY DEF Read6, Read7, Back7, Read8, Read9
<1>2. /\ 1 \in Slots /\ 2 \in Slots /\ i \in {1, 2}
      /\ Six(1) = "6BL" /\ Seven(1) = "7BL" /\ Six(2) = "6BL_B" /\ Seven(2) = "7BL_B"
      /\ {"6BL", "6BL_B", "7BL", "7BL_B"} \subseteq Ids \ Chain /\ Six(i) \in Ids /\ Seven(i) \in Ids
  BY DEF Slots, Six, Seven, Ids, Chain, ChainOrder
<1>3. SoundWork(r5) /\ r5.image = image /\ \A l \in Ids \ Chain : r5.bl[l] = mem.bl[l]
  <2>1. Read0.bl = mem.bl
    BY DEF Read0, Work
  <2> QED
    BY <2>1 DEF Reading, OnlyLoads
<1>4. Slotting(parts, e) /\ image = e.image /\ mem.bl = e.bl /\ image.junk = 0
  BY SlotsWalk DEF ChainWhole, Tailed, Slotting
<1> HIDE DEF e, cpu, key, r5, r6, r7, b, r8, r9
<1>5. SoundWork(r6) /\ r6.image = image /\ SixRead(cpu, key, r5, r6, 1) /\ OnlyLoads(r5, r6, {"6BL"})
  <2>1. SixRead(cpu, key, r5, r6, 1)
    BY <1>1, <1>2, <1>3, Load6Reads
  <2>2. OnlyLoads(r5, r6, {"6BL"})
    BY <1>2, <2>1 DEF SixRead
  <2>3. SoundWork(r6) /\ r6.image = image
    BY <1>1, <1>2, <1>3, Load6BLSound
  <2> QED
    BY <2>1, <2>2, <2>3
<1>6. SoundWork(r7) /\ r7.image = image /\ SixRead(cpu, key, r6, r7, 2) /\ OnlyLoads(r6, r7, {"6BL_B"})
  <2>1. SixRead(cpu, key, r6, r7, 2)
    BY <1>1, <1>2, <1>5, Load6Reads
  <2>2. OnlyLoads(r6, r7, {"6BL_B"})
    BY <1>2, <2>1 DEF SixRead
  <2>3. SoundWork(r7) /\ r7.image = image
    BY <1>1, <1>2, <1>5, Load6BLSound
  <2> QED
    BY <2>1, <2>2, <2>3
<1>7. b = [image |-> r7.image, bl |-> r7.bl, at |-> Sys, prev |-> r7.prev, ret |-> r7.ret]
  BY <1>1, <1>6, WorkMoved
<1>8. SoundWork(b) /\ b.image = image /\ b.bl = r7.bl /\ b.at = SlotAt(1)
  <2>1. SlotAt(1) = Sys /\ Sys \in Nat
    BY AddressAssumption DEF SlotAt
  <2> QED
    BY <1>6, <1>7, <2>1 DEF SoundWork
<1>9. SoundWork(r8) /\ r8.image = image /\ SevenRead(cpu, b, r8, 1) /\ OnlyLoads(b, r8, {"7BL"})
  <2>1. SevenRead(cpu, b, r8, 1)
    BY <1>1, <1>2, <1>8, Load7Reads
  <2>2. OnlyLoads(b, r8, {"7BL"})
    BY <1>2, <2>1 DEF SevenRead
  <2>3. SoundWork(r8) /\ r8.image = b.image
    <3>1. r8 = Load7BL(cpu, b, 1)
      BY <1>1
    <3> QED
      BY <1>2, <1>8, <3>1, Load7BLSound
  <2> QED
    BY <1>8, <2>1, <2>2, <2>3
<1>10. /\ r6.bl["6BL_B"] = e.bl["6BL_B"] /\ r5.bl["6BL"] = e.bl["6BL"]
       /\ r7.bl["6BL"] = r6.bl["6BL"] /\ b.bl["6BL"] = r7.bl["6BL"] /\ b.bl["6BL_B"] = r7.bl["6BL_B"]
       /\ b.bl["7BL"] = e.bl["7BL"] /\ r8.bl["7BL_B"] = e.bl["7BL_B"]
       /\ r8.bl["6BL"] = r7.bl["6BL"] /\ r8.bl["6BL_B"] = r7.bl["6BL_B"]
  BY <1>2, <1>3, <1>4, <1>5, <1>6, <1>8, <1>9 DEF OnlyLoads
<1>11. \A l \in Ids : Alike(given.bl[l].part, e.bl[l].part) /\ (isValid(l, e.bl[l]) <=> isValid(l, given.bl[l]))
  BY <1>4, SlotAlike DEF Slotting
<1>12. ASSUME NEW j \in Slots, Reached(j)
       PROVE  /\ Alike(given.bl[Six(j)].part, r7.bl[Six(j)].part)
              /\ r7.bl[Six(j)].part.used = e.bl[Six(j)].part.used
              /\ given.bl[Six(j)].part.under = {} => r7.bl[Six(j)].part.under = {}
  <2>1. SixLies(e, j) /\ (given.bl[Six(j)].part.under = {} => Opens(Six(j), e.bl[Six(j)], key, cpu))
    BY <1>12, SixesLaid DEF e, key, cpu
  <2>2. isValid(Six(j), e.bl[Six(j)]) /\ Alike(given.bl[Six(j)].part, e.bl[Six(j)].part)
    BY <1>11, <1>12, SlotLoaders DEF Reached
  <2>3. CASE j = 1
    <3>1. SixLies(r5, 1) /\ isValid(Six(1), r5.bl[Six(1)])
      BY <1>2, <1>3, <1>4, <1>10, <2>1, <2>2, <2>3 DEF SixLies
    <3>2. /\ Alike(r5.bl[Six(1)].part, r6.bl[Six(1)].part) /\ r6.bl[Six(1)].part.used = r5.bl[Six(1)].part.used
          /\ Opens(Six(1), r5.bl[Six(1)], key, cpu) => r6.bl[Six(1)].part.under = {}
      BY <1>5, <3>1 DEF SixRead
    <3> QED
      BY <1>2, <1>10, <2>1, <2>2, <2>3, <3>2, AlikeTwice
  <2>4. CASE j = 2
    <3>1. SixLies(r6, 2) /\ isValid(Six(2), r6.bl[Six(2)])
      BY <1>2, <1>4, <1>5, <1>10, <2>1, <2>2, <2>4 DEF SixLies
    <3>2. /\ Alike(r6.bl[Six(2)].part, r7.bl[Six(2)].part) /\ r7.bl[Six(2)].part.used = r6.bl[Six(2)].part.used
          /\ Opens(Six(2), r6.bl[Six(2)], key, cpu) => r7.bl[Six(2)].part.under = {}
      BY <1>6, <3>1 DEF SixRead
    <3> QED
      BY <1>2, <1>10, <2>1, <2>2, <2>4, <3>2, AlikeTwice
  <2> QED
    BY <1>2, <2>3, <2>4 DEF Slots
<1>13. r8.at = SlotAt(2)
  <2>1. isValid(Six(1), b.bl[Six(1)]) \/ b.bl[Six(1)].part.len = 0
    <3>1. CASE isValid(Six(1), given.bl[Six(1)])
      <4>1. Reached(1)
        BY <1>2, <3>1 DEF Reached
      <4>2. Alike(given.bl[Six(1)].part, b.bl[Six(1)].part)
        BY <1>2, <1>10, <1>12, <4>1
      <4> QED
        BY <3>1, <4>2 DEF Alike, isValid
    <3>2. CASE ~ isValid(Six(1), given.bl[Six(1)])
      <4>1. Sys \notin DOMAIN image.cells
        BY <1>4, <3>2, FirstFree DEF e
      <4>2. SlotAt(1) = Sys
        BY AddressAssumption DEF SlotAt
      <4>3. r6.bl[Six(1)].part = Nothing(0)
        BY <1>3, <1>4, <1>5, <4>1, <4>2 DEF SixRead
      <4> QED
        BY <1>2, <1>10, <4>3 DEF Nothing, Part
    <3> QED
      BY <3>1, <3>2
  <2>2. r8.at = b.at + Slot
    <3>1. b.at \in Nat
      BY <1>2, <1>8, SlotAddress DEF SlotAt
    <3> QED
      BY <1>9, <2>1, <3>1 DEF SevenRead
  <2>3. SlotAt(1) + Slot = SlotAt(2)
    BY AddressAssumption DEF SlotAt
  <2> QED
    BY <1>8, <2>2, <2>3
<1>14. SevenRead(cpu, r8, r9, 2) /\ OnlyLoads(r8, r9, {"7BL_B"})
  <2>1. SevenRead(cpu, r8, r9, 2)
    BY <1>1, <1>2, <1>9, <1>13, Load7Reads
  <2> QED
    BY <1>2, <2>1 DEF SevenRead
<1>15. r9.bl[Six(i)] = r7.bl[Six(i)] /\ r9.bl["7BL"] = r8.bl["7BL"]
  BY <1>2, <1>10, <1>14 DEF OnlyLoads
<1>16. Alike(given.bl[Six(i)].part, r7.bl[Six(i)].part) /\ r7.bl[Six(i)].part.under = {}
       /\ r7.bl[Six(i)].part.used = e.bl[Six(i)].part.used
  BY <1>12
<1>17. ASSUME Whole(i), ~ image.big
       PROVE  Alike(given.bl[Seven(i)].part, r9.bl[Seven(i)].part) /\ r9.bl[Seven(i)].part.under = {}
  <2> DEFINE six == r7.bl[Six(i)]
             n   == e.bl[Seven(i)]
             at  == SlotAt(i) + six.part.len
  <2>1. SevenLies(e, i, Nonces(parts)[i])
    BY <1>17, SevensLaid DEF e
  <2>2. Nonces(parts)[i] = Inner(six, "7BL")
    <3>1. Laid5(parts).bl[Six(i)] = given.bl[Six(i)]
      BY SlotsWalk
    <3>2. Nonces(parts)[i] = Inner(given.bl[Six(i)], "7BL")
      BY <3>1 DEF Nonces
    <3>3. six.part.text = given.bl[Six(i)].part.text
      BY <1>16 DEF Alike
    <3> QED
      BY <1>16, <3>2, <3>3 DEF Inner
  <2>3. isValid(Six(i), six) /\ isValid(Seven(i), n) /\ Alike(given.bl[Seven(i)].part, n.part)
    BY <1>2, <1>11, <1>16, <1>17 DEF Whole, HasSeven, Alike, isValid
  <2>4. /\ six.part.len = e.bl[Six(i)].part.len /\ six.part.used = Need(six.part.len, n.part.len)
        /\ Opens(Seven(i), n, Inner(six, "7BL"), cpu)
        /\ image.tails[i].data = "rest" /\ at \in DOMAIN image.cells /\ image.cells[at] = n.part
    <3>1. six.part.len = given.bl[Six(i)].part.len /\ e.bl[Six(i)].part.len = given.bl[Six(i)].part.len
          /\ n.part.len = given.bl[Seven(i)].part.len
      BY <1>2, <1>11, <1>16 DEF Alike
    <3>2. six.part.used = Need(six.part.len, n.part.len)
      BY <1>16, <2>1, <3>1 DEF SevenLies, Needed
    <3> QED
      BY <1>4, <2>1, <2>2, <3>1, <3>2 DEF SevenLies, cpu
  <2>5. CASE i = 1
    <3>1. /\ b.bl[Six(1)] = six /\ b.bl[Seven(1)] = n
      BY <1>2, <1>10, <2>5
    <3> HIDE DEF six, n
    <3>2. Alike(n.part, r8.bl[Seven(1)].part) /\ r8.bl[Seven(1)].part.under = {}
      BY <1>8, <1>9, <1>16, <1>17, <2>3, <2>4, <2>5, <3>1 DEF six, SevenRead
    <3> QED
      BY <1>2, <1>15, <2>3, <2>5, <3>2, AlikeTwice
  <2>6. CASE i = 2
    <3>1. /\ r8.bl[Six(2)] = six /\ r8.bl[Seven(2)] = n
      BY <1>2, <1>10, <2>6
    <3> HIDE DEF six, n
    <3>2. Alike(n.part, r9.bl[Seven(2)].part) /\ r9.bl[Seven(2)].part.under = {}
      BY <1>9, <1>13, <1>14, <1>16, <1>17, <2>3, <2>4, <2>6, <3>1 DEF six, SevenRead
    <3> QED
      BY <1>2, <2>3, <2>6, <3>2, AlikeTwice
  <2> QED
    BY <1>2, <2>5, <2>6
<1> QED
  BY <1>15, <1>16, <1>17 DEF SlotBack, r9

-----------------------------------------------------------------------------
(* SaveBootloaders and LoadBootloaders as a whole *)

\* The 1BL is only looked at in a beta kit.
LEMMA SavedIs ==
  ASSUME NEW parts
  PROVE  SaveBootloaders(parts, opts.cpu, <<opts.bl>>, given.bl) = Laid9(parts)
<1> DEFINE w0 == Laid0(parts)
<1>1. SaveStep(opts.cpu, w0, "1BL") = w0
  <2>1. ~ Kept(opts.cpu, w0.bl, "1BL")
    BY DEF Kept
  <2> QED
    BY <2>1, Zenon DEF SaveStep
<1>2. w0 = Work(parts, given.bl, Entry, <<opts.bl>>)
  BY DEF Laid0
<1> HIDE DEF w0
<1>3. SaveChain(parts, opts.cpu, <<opts.bl>>, given.bl) = Laid5(parts)
  BY <1>1, <1>2, Zenon DEF SaveChain, Laid1, Laid2, Laid3, Laid4, Laid5, w0
<1> QED
  BY <1>3, Zenon DEF SaveBootloaders, Laid6, Laid7, Laid8, Laid9, Nonces

LEMMA FoundIs ==
  ASSUME ~ image.beta
  PROVE  /\ LoadChain(image, opts.cpu, <<opts.bl>>, mem.bl) = Read5
         /\ LoadBootloaders(image, opts.cpu, <<opts.bl>>, mem.bl) =
              IF Read5.ret # 0 THEN Read5.bl ELSE Read9.bl
<1> DEFINE start == Work(image, mem.bl, IF image.beta THEN BetaEntry ELSE Entry, <<opts.bl>>)
<1>1. start = Read0
  BY DEF Read0
<1>2. ~ Asked(Read0.image, opts.cpu, Read0.bl, "1BL")
  BY DEF Read0, Work, Asked
<1>3. LoadStep(opts.cpu, Read0, "1BL") = Read0
  BY <1>2, Zenon DEF LoadStep
<1>4. LoadChain(image, opts.cpu, <<opts.bl>>, mem.bl) = Read5
  BY <1>1, <1>3, Zenon DEF LoadChain, Read1, Read2, Read3, Read4, Read5
<1> QED
  BY <1>4, Zenon DEF LoadBootloaders, Read6, Read7, Back7, Read8, Read9

\* A chain that was given up ends SaveBootloaders with 1.
LEMMA StepReturns ==
  ASSUME NEW cpu, NEW w, NEW l, "ret" \in DOMAIN w, w.ret \in 0..1
  PROVE  LET v == SaveStep(cpu, w, l) IN "ret" \in DOMAIN v /\ v.ret \in 0..1
<1> DEFINE u == IF Digested(w.bl, l) THEN Digest(w, l, w.prev, cpu) ELSE w
           v == SaveStep(cpu, w, l)
<1>1. v = w \/ v = SaveBootloader(cpu, u, l, 0)
  BY DEF SaveStep
<1>2. "ret" \in DOMAIN u /\ u.ret = w.ret
  BY DEF Digest
<1> HIDE DEF u, v
<1>3. ASSUME v = SaveBootloader(cpu, u, l, 0)
      PROVE  "ret" \in DOMAIN v /\ v.ret \in 0..1
  BY <1>2, <1>3 DEF SaveBootloader
<1> QED
  BY <1>1, <1>3 DEF v

LEMMA ChainKept ==
  ASSUME NEW parts, Laid9(parts).ret # 1
  PROVE  Laid5(parts).ret = 0
<1>1. "ret" \in DOMAIN Laid0(parts) /\ Laid0(parts).ret \in 0..1
  BY DEF Laid0, Work
<1>2. "ret" \in DOMAIN Laid3(parts) /\ Laid3(parts).ret \in 0..1
  BY <1>1, StepReturns DEF Laid1, Laid2, Laid3
<1>3. Laid5(parts).ret \in 0..1
  BY <1>2, StepReturns DEF Laid4, Laid5
<1>4. ASSUME Laid5(parts).ret # 0
      PROVE  Laid9(parts).ret = Laid5(parts).ret
  <2>1. Laid6(parts) = Laid5(parts)
    BY <1>4, Zenon DEF Laid6, Save6BL
  <2>2. Laid7(parts) = Laid5(parts)
    BY <1>4, <2>1, Zenon DEF Laid7, Save6BL
  <2>3. Laid8(parts) = Laid5(parts)
    BY <1>4, <2>2, Zenon DEF Laid8, Save7BL
  <2>4. Laid9(parts) = Laid5(parts)
    BY <1>4, <2>3, Zenon DEF Laid9, Save7BL
  <2> QED
    BY <2>4
<1> QED
  BY <1>3, <1>4

\* The chain ends where Fits says.
LEMMA FitsWhole ==
  ASSUME NEW parts, Begun(parts), Tailed(parts), Laid5(parts).ret = 0, Fits
  PROVE  ChainWhole(parts)
<1> DEFINE len(l) == IF Written(l) THEN given.bl[l].part.len ELSE 0
           Goes(l, w, v) == v.at = w.at + len(l)
<1>1. {"2BL", "2BL_B", "3BL", "4BL", "5BL"} \subseteq Ids
  BY DEF Ids
<1>2. \A l \in Ids : len(l) \in Int
  <2> SUFFICES ASSUME NEW l \in Ids PROVE len(l) \in Int
    OBVIOUS
  <2>1. \A k \in Ids : SoundPlace(k, given.bl[k])
    BY DEF Begun, SoundPlaces
  <2>2. \A k \in Ids : given.bl[k].part.len \in Int
    BY <2>1 DEF SoundPlace, Fields
  <2>3. CASE Written(l)
    BY <2>2, <2>3
  <2>4. CASE ~ Written(l)
    BY <2>4
  <2> QED
    BY <2>3, <2>4
<1>3. Laid0(parts).at = Entry /\ Entry \in Nat /\ Sys \in Nat
  BY AddressAssumption DEF Laid0, Work
<1>4. /\ Stepped("2BL", Laid0(parts), Laid1(parts), Laid5(parts))
      /\ Stepped("2BL_B", Laid1(parts), Laid2(parts), Laid5(parts))
      /\ Stepped("3BL", Laid2(parts), Laid3(parts), Laid5(parts))
      /\ Stepped("4BL", Laid3(parts), Laid4(parts), Laid5(parts))
      /\ Stepped("5BL", Laid4(parts), Laid5(parts), Laid5(parts))
  BY ChainLaid
<1>5. ASSUME NEW l \in Ids, NEW w, NEW v, NEW c, Stepped(l, w, v, c), w.at \in Int
      PROVE  Goes(l, w, v) /\ v.at \in Int
  <2>1. CASE Written(l)
    BY <1>2, <1>5, <2>1 DEF Stepped, Wrote
  <2>2. CASE ~ Written(l)
    BY <1>5, <2>2 DEF Stepped
  <2> QED
    BY <2>1, <2>2
<1>6. Entry + len("2BL") + len("2BL_B") + len("3BL") + len("4BL") + len("5BL") <= Sys
  BY DEF Fits
<1>7. Goes("2BL", Laid0(parts), Laid1(parts)) /\ Laid1(parts).at \in Int
  BY <1>1, <1>3, <1>4, <1>5
<1>8. Goes("2BL_B", Laid1(parts), Laid2(parts)) /\ Laid2(parts).at \in Int
  BY <1>1, <1>4, <1>5, <1>7
<1>9. Goes("3BL", Laid2(parts), Laid3(parts)) /\ Laid3(parts).at \in Int
  BY <1>1, <1>4, <1>5, <1>8
<1>10. Goes("4BL", Laid3(parts), Laid4(parts)) /\ Laid4(parts).at \in Int
  BY <1>1, <1>4, <1>5, <1>9
<1>11. Goes("5BL", Laid4(parts), Laid5(parts)) /\ Laid5(parts).at \in Int
  BY <1>1, <1>4, <1>5, <1>10
<1>12. Laid5(parts).at <= Sys
  <2> HIDE DEF len
  <2> QED
    BY <1>1, <1>2, <1>3, <1>6, <1>7, <1>8, <1>9, <1>10, <1>11
<1> QED
  BY <1>12 DEF ChainWhole

\* The slots are read behind the chain, whose loaders stay as they are.
LEMMA SlotsRead ==
  ASSUME SoundWork(Read5)
  PROVE  \A l \in Chain : Read9.bl[l] = Read5.bl[l]
<1> DEFINE r5 == Read5
           r6 == Read6
           r7 == Read7
           b  == Back7
           r8 == Read8
           r9 == Read9
<1>1. /\ r6 = Load6BL(opts.cpu, <<opts.bl>>, r5, 1) /\ r7 = Load6BL(opts.cpu, <<opts.bl>>, r6, 2)
      /\ b = [r7 EXCEPT !.at = Sys] /\ r8 = Load7BL(opts.cpu, b, 1) /\ r9 = Load7BL(opts.cpu, r8, 2)
  BY DEF Read6, Read7, Back7, Read8, Read9
<1>2. 1 \in Slots /\ 2 \in Slots /\ \A i \in Slots : Six(i) \notin Chain /\ Seven(i) \notin Chain
  BY DEF Slots, Six, Seven, Chain, ChainOrder
<1>3. Chain \subseteq Ids
  BY DEF Chain, ChainOrder, Ids
<1> HIDE DEF r5, r6, r7, b, r8, r9
<1>4. SoundWork(r6) /\ OnlyLoads(r5, r6, {Six(1)})
  <2>1. SixRead(opts.cpu, <<opts.bl>>, r5, r6, 1) /\ SoundWork(r6)
    BY <1>1, <1>2, Load6Reads, Load6BLSound DEF r5
  <2> QED
    BY <2>1 DEF SixRead
<1>5. SoundWork(r7) /\ OnlyLoads(r6, r7, {Six(2)})
  <2>1. SixRead(opts.cpu, <<opts.bl>>, r6, r7, 2) /\ SoundWork(r7)
    BY <1>1, <1>2, <1>4, Load6Reads, Load6BLSound
  <2> QED
    BY <2>1 DEF SixRead
<1>6. SoundWork(b) /\ b.bl = r7.bl
  <2>1. b = [image |-> r7.image, bl |-> r7.bl, at |-> Sys, prev |-> r7.prev, ret |-> r7.ret]
    BY <1>1, <1>5, WorkMoved
  <2> QED
    BY <1>5, <2>1 DEF SoundWork
<1>7. SoundWork(r8) /\ OnlyLoads(b, r8, {Seven(1)})
  <2>1. SevenRead(opts.cpu, b, r8, 1) /\ SoundWork(r8)
    BY <1>1, <1>2, <1>6, Load7Reads, Load7BLSound
  <2> QED
    BY <2>1 DEF SevenRead
<1>8. OnlyLoads(r8, r9, {Seven(2)})
  <2>1. SevenRead(opts.cpu, r8, r9, 2)
    BY <1>1, <1>2, <1>7, Load7Reads
  <2> QED
    BY <2>1 DEF SevenRead
<1>9. \A l \in Chain : r9.bl[l] = r5.bl[l]
  BY <1>2, <1>3, <1>4, <1>5, <1>6, <1>7, <1>8 DEF OnlyLoads
<1> QED
  BY <1>9 DEF r5, r9

\* What is promised of a loader.
Found(l, n) ==
  /\ n.part.text = given.bl[l].part.text /\ n.part.len = given.bl[l].part.len
  /\ isValid(l, n) /\ n.part.under = {}
  /\ l \in Chain /\ Digested(given.bl, l) => n.part.digest = image.smc

LEMMA ReadFinds ==
  ASSUME NEW parts, Begun(parts), Tailed(parts), Laid5(parts).ret = 0, image = Laid9(parts).image,
         mem.bl = Laid9(parts).bl, NEW l \in Ids, isValid(l, given.bl[l]), Fits, Sound(l)
  PROVE  Found(l, LoadBootloaders(image, opts.cpu, <<opts.bl>>, mem.bl)[l])
<1> DEFINE bl == LoadBootloaders(image, opts.cpu, <<opts.bl>>, mem.bl)
<1>1. ChainWhole(parts)
  BY FitsWhole
<1>2. /\ SoundImage(image) /\ ~ image.beta /\ Within(Laid5(parts).image, image) /\ SoundPlaces(mem.bl)
      /\ image.smc = parts.smc /\ \A k \in Chain : mem.bl[k] = Laid5(parts).bl[k]
  <2>1. Slotting(parts, Laid9(parts)) /\ ~ parts.beta
    BY <1>1, SlotsWalk DEF Begun
  <2> QED
    BY <2>1 DEF Slotting, SoundWork
<1>3. /\ OnlyLoads(Read0, Read5, Chain)
      /\ Placed("5BL") => Reading(Read5)
      /\ \A k \in Chain : Written(k) /\ Placed(k) =>
           Back(k, Read5.bl[k], parts.smc) /\ (Keyed(k) => Read5.bl[k].part.under = {})
  BY <1>2, ChainBack
<1>4. LoadChain(image, opts.cpu, <<opts.bl>>, mem.bl) = Read5
  BY <1>2, FoundIs
<1>5. bl = IF Read5.ret # 0 THEN Read5.bl ELSE Read9.bl
  BY <1>2, FoundIs
<1>6. SoundWork(Read5)
  BY <1>2, <1>4, LoadChainSound
<1> HIDE DEF bl
<1>7. ASSUME l \in Chain, Written(l), Placed(l), Keyed(l)
      PROVE  Found(l, bl[l])
  <2>1. bl[l] = Read5.bl[l]
    BY <1>5, <1>6, <1>7, SlotsRead
  <2>2. Back(l, bl[l], image.smc) /\ bl[l].part.under = {}
    BY <1>2, <1>3, <1>7, <2>1
  <2> QED
    BY <2>2 DEF Back, Alike, isValid, Found
<1>8. ASSUME NEW i \in Slots, SlotReached(i), isValid(Six(i), given.bl[Six(i)])
      PROVE  /\ bl = Read9.bl /\ SlotBack(Six(i))
             /\ HasSeven(i) /\ SevenWhole(i) => SlotBack(Seven(i))
  <2>1. Reading(Read5)
    BY <1>3, <1>8 DEF SlotReached
  <2>2. bl = Read9.bl
    BY <1>5, <2>1 DEF Reading
  <2>3. Reached(i) /\ given.bl[Six(i)].part.under = {}
    BY <1>8 DEF SlotReached, Reached, Room
  <2>4. HasSeven(i) /\ SevenWhole(i) => Whole(i) /\ ~ image.big
    BY <2>3 DEF SevenWhole, Whole, Reached
  <2> QED
    BY <1>1, <1>3, <2>1, <2>2, <2>3, <2>4, SlotsBack
<1>9. ASSUME l \notin Chain, bl = Read9.bl, SlotBack(l)
      PROVE  Found(l, bl[l])
  BY <1>9 DEF SlotBack, Alike, isValid, Found
<1>10. \A i \in Slots : Six(i) \notin Chain /\ Seven(i) \notin Chain
  BY DEF Slots, Six, Seven, Chain, ChainOrder
<1>11. ASSUME NEW i \in Slots, l = Six(i), SlotReached(i)
       PROVE  Found(l, bl[l])
  BY <1>8, <1>9, <1>10, <1>11
<1>12. ASSUME NEW i \in Slots, l = Seven(i), isValid(Six(i), given.bl[Six(i)]), SevenWhole(i)
       PROVE  Found(l, bl[l])
  <2>1. HasSeven(i) /\ SlotReached(i)
    BY <1>12 DEF HasSeven, SevenWhole
  <2> QED
    BY <1>8, <1>9, <1>10, <1>12, <2>1
<1> QED
  BY <1>7, <1>11, <1>12 DEF Sound, bl

-----------------------------------------------------------------------------
(* The invariant *)

\* What an ini file gave, before and after it was written.
Entered(i) ==
  /\ ~ i.beta /\ ~ i.zeroed /\ DOMAIN i.cells = {} /\ Tailed(i)
  /\ \A l \in Ids : isValid(l, given.bl[l]) => Given(l, given.bl[l])

Saved(parts) == SaveBootloaders(parts, opts.cpu, <<opts.bl>>, given.bl)

FoundInv ==
  /\ opts.cpu # "null"
  /\ phase = "started" => image = Blank
  /\ phase = "read" => given = mem /\ Entered(image)
  /\ phase = "written" =>
       \E parts : /\ SoundImage(parts) /\ Entered(parts) /\ Saved(parts).ret # 1
                  /\ image = Saved(parts).image /\ mem.bl = Saved(parts).bl
  /\ FoundWhereSaved

LEMMA FoundInit == Init => FoundInv
<1>1. Defaults.cpu = "zero"
  BY Zenon DEF Defaults
<1> QED
  BY <1>1 DEF Init, FoundInv, FoundWhereSaved

\* Steps that neither read an ini file nor write or read back its image.
LEMMA FoundAside ==
  FoundInv /\ (NothingToDo \/ LoadImageFile \/ Dump \/ Finish \/ MendIni \/ ReadCut \/ SaveImage) => FoundInv'
<1> SUFFICES ASSUME FoundInv,
                    NothingToDo \/ LoadImageFile \/ Dump \/ Finish \/ MendIni \/ ReadCut \/ SaveImage
             PROVE  FoundInv'
  OBVIOUS
<1>1. opts' = opts
  BY DEF NothingToDo, LoadImageFile, Dump, Finish, MendIni, ReadCut, SaveImage
<1>2. phase' \in {"ready", "loaded", "dumped", "fault"}
  BY DEF NothingToDo, LoadImageFile, Dump, Finish, MendIni, ReadCut, SaveImage
<1> QED
  BY <1>1, <1>2 DEF FoundInv, FoundWhereSaved

LEMMA FoundStutter == FoundInv /\ UNCHANGED vars => FoundInv'
<1> SUFFICES ASSUME FoundInv, UNCHANGED vars PROVE FoundInv'
  OBVIOUS
<1>1. UNCHANGED <<phase, opts, mem, image, inis, given>>
  BY DEF vars
<1>2. \A i : Entered(i)' <=> Entered(i)
  BY <1>1 DEF Entered, Tailed
<1>3. \A parts : Saved(parts)' = Saved(parts)
  BY <1>1 DEF Saved
<1>4. (Fits' <=> Fits) /\ \A l : Sound(l)' <=> Sound(l)
  BY <1>1 DEF Fits, Sound, Written, Placed, Keyed, SlotReached, SevenWhole, HasSeven, Needed
<1>5. FoundWhereSaved'
  BY <1>1, <1>4 DEF FoundInv, FoundWhereSaved
<1>6. image' = image /\ (Entered(image)' <=> Entered(image))
  BY <1>1 DEF Entered, Tailed
<1> QED
  BY <1>1, <1>2, <1>3, <1>5, <1>6 DEF FoundInv

LEMMA FoundStart == FoundInv /\ Start => FoundInv'
<1> SUFFICES ASSUME FoundInv, Start PROVE FoundInv'
  OBVIOUS
<1>1. phase' = "started" /\ image' = Blank
  BY DEF Start
<1>2. opts'.cpu # "null"
  BY CommandLineAssumption DEF Start
<1> QED
  BY <1>1, <1>2 DEF FoundInv, FoundWhereSaved

\* What is read from an ini file is flagged as plain.
LEMMA FileGiven ==
  ASSUME NEW l \in Ids, NEW p, isValid(l, FromFile(p, l))
  PROVE  Given(l, FromFile(p, l))
<1> DEFINE off == FALSE
           m == [part |-> p, plain |-> off, rc4 |-> <<>>, byCpu |-> off]
           plain == IF l \in {"1BL", "3BL"} THEN off ELSE TRUE
           rc4 == IF l = "1BL" THEN KeptKey(p) ELSE <<>>
<1>1. Unset = [part |-> Nothing(0), plain |-> off, rc4 |-> <<>>, byCpu |-> off]
  BY Zenon DEF Unset
<1>2. plain = (l \notin {"1BL", "3BL"}) /\ ~ off
  OBVIOUS
<1> HIDE DEF off
<1>3. [Unset EXCEPT !.part = p] = m
  BY <1>1
<1> HIDE DEF m
<1>4. FromFile(p, l) = [m EXCEPT !.plain = plain, !.rc4 = rc4]
  BY <1>3, Zenon DEF FromFile, Taken, off, m
<1> HIDE DEF plain, rc4
<1>5. FromFile(p, l).plain = plain /\ FromFile(p, l).byCpu = off
  BY <1>4 DEF m
<1> QED
  BY <1>2, <1>5 DEF Given

LEMMA FoundReadIni == PartsInv /\ FoundInv /\ ReadImageIni => FoundInv'
<1> SUFFICES ASSUME PartsInv, FoundInv, ReadImageIni PROVE FoundInv'
  OBVIOUS
<1> DEFINE ini == inis[opts.ini]
<1>1. phase = "started" /\ opts' = opts /\ inis' = inis /\ image = Blank
  BY DEF ReadImageIni, FoundInv
<1>2. CASE ~ Readable(ini)
  <2>1. phase' = "ready"
    BY <1>2 DEF ReadImageIni
  <2> QED
    BY <1>1, <2>1 DEF FoundInv, FoundWhereSaved
<1>3. CASE Readable(ini)
  <2> DEFINE bl    == [l \in Ids |-> IF l \in DOMAIN ini.bl THEN FromFile(dir.files[ini.bl[l]], l) ELSE Unset]
             tails == [i \in Slots |-> IF i \in ini.files THEN Added(image.tails[i]) ELSE image.tails[i]]
             big   == ini.big
  <2>0. /\ mem' = [bl  |-> bl, smc |-> TakenSMC, kv |-> TakenVault(dir.vaults[ini.kv]),
                   alt |-> IF ini.alt = {} THEN NoVault ELSE TakenVault(dir.vaults[<<"AltKV", "dec">>])]
        /\ image' = [image EXCEPT !.big = big, !.tails = tails]
        /\ given' = mem' /\ phase' \in {"read", "fault"}
    BY <1>3, Zenon DEF ReadImageIni
  <2>2. tails = [i \in Slots |-> IF i \in ini.files THEN Added(NoTail) ELSE NoTail]
    BY <1>1 DEF Blank
  <2>3. \A l \in Ids : isValid(l, bl[l]) => Given(l, bl[l])
    <3>1. \A l \in Ids : ~ isValid(l, Unset)
      BY MagicLetter DEF isValid, Unset, Nothing, Part
    <3> QED
      BY <3>1, FileGiven
  <2> HIDE DEF bl, tails, big
  <2>1. /\ mem'.bl = bl /\ image' = [image EXCEPT !.big = big, !.tails = tails]
        /\ given' = mem' /\ phase' \in {"read", "fault"}
    BY <2>0
  <2>4. ~ image'.beta /\ ~ image'.zeroed /\ DOMAIN image'.cells = {} /\ image'.junk = 0 /\ image'.tails = tails
    BY <1>1, <2>1 DEF Blank
  <2>5. Tailed(image)'
    BY <1>1, <2>2, <2>4 DEF Tailed
  <2>6. Entered(image)'
    BY <2>1, <2>3, <2>4, <2>5 DEF Entered
  <2> QED
    BY <1>1, <2>1, <2>6 DEF FoundInv, FoundWhereSaved
<1> QED
  BY <1>2, <1>3

LEMMA FoundSave == PartsInv /\ FoundInv /\ SaveContinue => FoundInv'
<1> SUFFICES ASSUME PartsInv, FoundInv, SaveContinue PROVE FoundInv'
  OBVIOUS
<1> DEFINE saved == SaveBootloaders(Parts, opts.cpu, <<opts.bl>>, mem.bl)
           p == Parts
<1>1. /\ phase = "read" /\ phase' = IF saved.ret = 1 THEN "fault" ELSE "written"
      /\ mem'.bl = saved.bl /\ image' = saved.image
      /\ opts' = opts /\ inis' = inis /\ given' = given
  BY Zenon DEF SaveContinue, Parts
<1>2. given = mem /\ Entered(image)
  BY <1>1 DEF FoundInv
<1>3. SoundImage(p) /\ Entered(p) /\ saved = Saved(p)
  <2>1. /\ SoundImage(p) /\ ~ p.beta /\ p.cells = image.cells
        /\ p.tails = image.tails /\ p.junk = image.junk /\ p.zeroed = image.zeroed
    BY <1>1, PartsSealed
  <2>2. saved = Saved(p)
    BY <1>2 DEF Saved
  <2> HIDE DEF p, saved
  <2> QED
    BY <1>2, <2>1, <2>2 DEF Entered, Tailed
<1> HIDE DEF saved, p
<1>4. CASE saved.ret = 1
  BY <1>1, <1>4 DEF FoundInv, FoundWhereSaved
<1>5. CASE saved.ret # 1
  <2>1. \A parts : Entered(parts) => Entered(parts)'
    BY <1>1 DEF Entered, Tailed
  <2>2. \A parts : Saved(parts)' = Saved(parts)
    BY <1>1 DEF Saved
  <2> QED
    BY <1>1, <1>3, <1>5, <2>1, <2>2 DEF FoundInv, FoundWhereSaved
<1> QED
  BY <1>4, <1>5

LEMMA FoundReadBack == PartsInv /\ FoundInv /\ ReadBack => FoundInv'
<1> SUFFICES ASSUME PartsInv, FoundInv, ReadBack PROVE FoundInv'
  OBVIOUS
<1>1. /\ phase = "written" /\ phase' \in {"saved", "fault"} /\ mem' = LoadContinue(mem, image)
      /\ UNCHANGED <<opts, image, dir, inis, images, given>>
  BY DEF ReadBack
<1>2. PICK parts : /\ SoundImage(parts) /\ Entered(parts) /\ Saved(parts).ret # 1
                   /\ image = Saved(parts).image /\ mem.bl = Saved(parts).bl
  BY <1>1 DEF FoundInv
<1>3. Begun(parts) /\ Tailed(parts) /\ Saved(parts) = Laid9(parts)
  <2>1. SoundPlaces(given.bl)
    BY DEF PartsInv, SoundMemory
  <2>2. Saved(parts) = Laid9(parts)
    BY SavedIs DEF Saved
  <2> QED
    BY <1>2, <2>1, <2>2 DEF Begun, Entered, FoundInv
<1>4. Laid5(parts).ret = 0
  BY <1>2, <1>3, ChainKept
<1>5. ~ image.beta /\ ~ image.zeroed
  <2>1. SameParts(parts, Saved(parts).image)
    BY <1>2, <1>3, SaveBootloadersSound DEF Begun, Saved
  <2> QED
    BY <1>2, <1>3, <2>1 DEF SameParts, Begun
<1>6. mem'.bl = LoadBootloaders(image, opts.cpu, <<opts.bl>>, mem.bl)
  BY <1>1, <1>5 DEF LoadContinue, Cpu, Key
<1>7. \A l \in Ids : isValid(l, given.bl[l]) /\ Fits /\ Sound(l) => Found(l, mem'.bl[l])
  BY <1>2, <1>3, <1>4, <1>6, ReadFinds
<1>8. FoundWhereSaved'
  <2>1. (Fits' <=> Fits) /\ \A l : Sound(l)' <=> Sound(l)
    BY <1>1 DEF Fits, Sound, Written, Placed, Keyed, SlotReached, SevenWhole, HasSeven, Needed
  <2> QED
    BY <1>1, <1>7, <2>1 DEF FoundWhereSaved, Found
<1> QED
  BY <1>1, <1>8 DEF FoundInv

LEMMA FoundInductive == PartsInv /\ FoundInv /\ [Next]_vars => FoundInv'
BY FoundAside, FoundStutter, FoundStart, FoundReadIni, FoundSave, FoundReadBack DEF Next

\* Every loader that SaveBootloaders writes from an ini file, LoadBootloaders finds
\* in the image and opens, with the digest SaveContinue took over the SMC, as far
\* as the chain ends before the slots and fills its lines of 16 bytes, and no
\* system file is added late.
THEOREM SavedIsFound == Spec => []FoundWhereSaved
<1>1. Init => FoundInv
  BY FoundInit
<1>2. PartsInv /\ FoundInv /\ [Next]_vars => FoundInv'
  BY FoundInductive
<1>3. FoundInv => FoundWhereSaved
  BY DEF FoundInv
<1> QED
  BY <1>1, <1>2, <1>3, PartsAlways, PTL DEF Spec
=============================================================================
