---------------------------- MODULE ImageLoaders ----------------------------
(***************************************************************************)
(* SaveBootloaders and LoadBootloaders of CXeFlashImage.cpp: the chain of  *)
(* loaders from the entry point on, each found behind the one before it    *)
(* and encrypted with a key that comes from it, and the two update slots,  *)
(* a 6BL with the start of its 7BL, the rest of which is a system file.    *)
(* An image is [beta: header build below 1838, zeroed: below 1839, big: a  *)
(* block of the file system is not the block of the driver of that number, *)
(* junk: what a length reads as where nothing is, cells: address ->        *)
(* loader, smc, kv, alt, tails: the two system files], and longer than     *)
(* its loaders, so that no transfer of one is cut short.  A length is      *)
(* counted in units of 4 bytes.                                            *)
(***************************************************************************)
EXTENDS Bootloaders

CONSTANTS
  Entry,   \* blHdr.dwEntrypoint
  Sys,     \* dwSysUpdateAddr
  Slot,    \* dwPatchSlotLength
  Block    \* dwLilBlockLength

ASSUME AddressAssumption ==
  /\ {Entry, Sys, Slot, Block} \subseteq Nat \ {0}
  /\ Entry < Sys

BetaEntry == 0

\* What is read as a header at an address.
Header(image, at) ==
  IF at \in DOMAIN image.cells THEN image.cells[at] ELSE Nothing(image.junk)

\* Where a loader in an image ends: a 7BL with its slot.
End(cells, a) ==
  IF cells[a].magic # "7BL" THEN a + cells[a].len
  ELSE Sys + (IF a < Sys + Slot THEN Slot ELSE 2 * Slot)

\* CXeFlashBlockDriver::Write of a loader: loaders it runs over are gone.
Put(cells, at, p, size) ==
  LET kept == {a \in DOMAIN cells : End(cells, a) <= at \/ at + size <= a}
  IN  [a \in kept \cup {at} |-> IF a = at THEN p ELSE cells[a]]

Six(i)   == IF i = 1 THEN "6BL" ELSE "6BL_B"
Seven(i) == IF i = 1 THEN "7BL" ELSE "7BL_B"
Slots    == 1..2

ChainOrder == <<"1BL", "2BL", "2BL_B", "3BL", "4BL", "5BL">>

\* What the chain and the slots are worked on with: the image, the loaders, the
\* place, the key of the loader before, and whether it was given up.
Work(image, bl, at, prev) ==
  [image |-> image, bl |-> bl, at |-> at, prev |-> prev, ret |-> 0]

-----------------------------------------------------------------------------
(* LoadBootloaders *)

RoundUp(len) == ((len + 3) \div 4) * 4

\* Mutant: the length is not rounded.
NotRounded(len) == len

\* Where LoadBootloader goes on.
Advance(len) == RoundUp(len)

LoadBootloader(cpu, w, l) ==
  LET m == [w.bl[l] EXCEPT !.part = Header(w.image, w.at)]
      n == Load(l, m, w.prev, cpu, w.bl["2BL"])
  IN  IF isValid(l, m)
      THEN [w EXCEPT !.bl[l] = n, !.at = @ + Advance(m.part.len), !.prev = n.rc4]
      ELSE [w EXCEPT !.bl[l] = m, !.ret = 2]

\* Which loaders the header and the first 2BL ask for.
Asked(image, cpu, bl, l) ==
  CASE l = "1BL"   -> image.beta
    [] l = "2BL_B" -> bl["2BL"].part.dual /\ cpu # "null" /\ bl["2BL"].part.build > 1888
    [] l = "3BL"   -> bl["2BL"].part.dev
    [] OTHER       -> TRUE

\* The 3BL has a nonce in the 2BL before it, the others use its key.
PrevKey(w, l) ==
  IF l # "3BL" THEN w.prev
  ELSE Inner(w.bl[IF isValid("2BL_B", w.bl["2BL_B"]) THEN "2BL_B" ELSE "2BL"], "3BL")

LoadStep(cpu, w, l) ==
  IF w.ret = 0 /\ Asked(w.image, cpu, w.bl, l)
  THEN LoadBootloader(cpu, [w EXCEPT !.prev = PrevKey(w, l)], l)
  ELSE w

LoadChain(image, cpu, key, bl) ==
  LET start == Work(image, bl, IF image.beta THEN BetaEntry ELSE Entry, key)
  IN  LoadStep(cpu, LoadStep(cpu, LoadStep(cpu,
        LoadStep(cpu, LoadStep(cpu, LoadStep(cpu, start,
          "1BL"), "2BL"), "2BL_B"), "3BL"), "4BL"), "5BL")

Load6BL(cpu, key, w, i) ==
  LoadBootloader(cpu, [w EXCEPT !.at = Sys + (i - 1) * Slot, !.prev = key], Six(i))

\* Blocks the rest of a 7BL needs.
Need(len6, len7) == (len7 - (Slot - len6) + Block - 1) \div Block

\* The 7BL put together from its slot and the blocks its 6BL lists, which are
\* counted in the blocks of the driver and read without the offset of the file
\* system.
Joined(image, six, p, i) ==
  IF six.under = {} /\ six.used = Need(six.len, p.len)
     /\ image.tails[i].data = "rest" /\ ~ image.big
  THEN p
  ELSE [p EXCEPT !.under = @ \cup {Noise}]

Load7BL(cpu, w, i) ==
  LET six == w.bl[Six(i)]
      at  == w.at + six.part.len
      m   == [w.bl[Seven(i)] EXCEPT !.part = Header(w.image, at)]
      n   == Load(Seven(i), [m EXCEPT !.part = Joined(w.image, six.part, @, i)],
                  Inner(six, "7BL"), cpu, w.bl["2BL"])
  IN  IF ~ isValid(Six(i), six)
      THEN [w EXCEPT !.at = @ + Slot - six.part.len]
      ELSE [w EXCEPT !.at = at + Slot - six.part.len,
                     !.bl[Seven(i)] = IF isValid(Seven(i), m) THEN n ELSE m]

\* LoadBootloaders: the slots only behind a whole chain.
LoadBootloaders(image, cpu, key, bl) ==
  LET chain == LoadChain(image, cpu, key, bl)
      sixes == Load6BL(cpu, key, Load6BL(cpu, key, chain, 1), 2)
      all   == Load7BL(cpu, Load7BL(cpu, [sixes EXCEPT !.at = Sys], 1), 2)
  IN  IF chain.ret # 0 THEN chain.bl ELSE all.bl

-----------------------------------------------------------------------------
(* SaveBootloaders, of an image that is not of a beta kit: the program     *)
(* creates no other.                                                       *)

\* The system file of slot i is there, with so many blocks and these bytes.
NoTail == [there |-> FALSE, blocks |-> 0, data |-> "none"]
Added(tail) == [there |-> TRUE, blocks |-> 1, data |-> "none"]

\* FileSetData on it: one block more, reported with 2, as long as one lacks.
SetData(tail, need, data) ==
  IF tail.blocks < need THEN [tail |-> [tail EXCEPT !.blocks = @ + 1], code |-> 2]
  ELSE [tail |-> [tail EXCEPT !.blocks = need, !.data = data], code |-> 0]

\* SaveBootloader, with dwWriteLimit; a loader that is missing has no data.
SaveBootloader(cpu, w, l, limit) ==
  LET n == Save(l, w.bl[l], w.prev, cpu, w.bl["2BL"])
      p == n.part
  IN  IF ~ isValid(l, w.bl[l]) THEN [w EXCEPT !.ret = 1]
      ELSE [w EXCEPT !.bl[l] = n, !.prev = n.rc4, !.at = @ + p.len,
                     !.image.cells = Put(@, w.at, p, IF limit > 0 THEN limit ELSE p.len)]

\* Mutant: the digest is taken over the SMC before it is munged.
DigestPlain(w, l, prev, cpu) ==
  [w EXCEPT !.bl[l].part.digest = w.image.smc - 1,
            !.bl[l].rc4 = CryptKey(l, w.bl[l], prev, cpu, w.bl["2BL"])]

\* Crypt, Crypt, FixPerBoxDigest: the key for the digest over the SMC, which
\* SaveContinue has munged and written before.
Digest(w, l, prev, cpu) ==
  [w EXCEPT !.bl[l].part.digest = w.image.smc,
            !.bl[l].rc4 = CryptKey(l, w.bl[l], prev, cpu, w.bl["2BL"])]

\* The second 2BL is left out where none was given.
Kept(cpu, bl, l) ==
  CASE l = "1BL"   -> FALSE
    [] l = "2BL_B" -> /\ bl["2BL"].part.dual /\ isValid("2BL_B", bl["2BL_B"])
                      /\ cpu # "null" /\ bl["2BL"].part.build > 1888
    [] l = "3BL"   -> bl["2BL"].part.dev
    [] OTHER       -> TRUE

Digested(bl, l) == l = "2BL_B" \/ (l = "2BL" /\ ~ isValid("2BL_B", bl["2BL_B"]))

SaveStep(cpu, w, l) ==
  IF w.ret # 0 \/ ~ Kept(cpu, w.bl, l) THEN w
  ELSE SaveBootloader(cpu, IF Digested(w.bl, l) THEN Digest(w, l, w.prev, cpu) ELSE w, l, 0)

SaveChain(image, cpu, key, bl) ==
  SaveStep(cpu, SaveStep(cpu, SaveStep(cpu,
    SaveStep(cpu, SaveStep(cpu, SaveStep(cpu, Work(image, bl, Entry, key),
      "1BL"), "2BL"), "2BL_B"), "3BL"), "4BL"), "5BL")

\* Lines 1418 to 1470: the blocks of the system file go into the 6BL.  A file
\* that has to be added first ends SaveBootloaders, with the file there.
Save6BL(cpu, key, w, i) ==
  LET six   == w.bl[Six(i)]
      seven == w.bl[Seven(i)]
      set   == SetData(w.image.tails[i], Need(six.part.len, seven.part.len), "blank")
      named == [w EXCEPT !.image.tails[i] = set.tail, !.bl[Six(i)] = Uses(@, set.tail.blocks)]
      with7 == isValid(Seven(i), seven)
      here  == IF with7 THEN named ELSE w
  IN  CASE w.ret # 0 \/ ~ isValid(Six(i), six) -> w
        [] w.ret = 0 /\ isValid(Six(i), six) /\ with7 /\ ~ w.image.tails[i].there ->
             [w EXCEPT !.image.tails[i] = Added(@), !.ret = 6]
        [] OTHER -> SaveBootloader(cpu, [here EXCEPT !.at = Sys + (i - 1) * Slot, !.prev = key], Six(i), 0)

\* Lines 1472 to 1502: FileSetData is taken to have failed when it returns 0.
Save7BL(cpu, nonces, w, i) ==
  LET six  == w.bl[Six(i)].part
      room == Slot - six.len
      from == [w EXCEPT !.at = Sys + (i - 1) * Slot + six.len, !.prev = nonces[i]]
      done == SaveBootloader(cpu, from, Seven(i), room)
      set  == SetData(w.image.tails[i], Need(six.len, w.bl[Seven(i)].part.len), "rest")
  IN  IF w.ret # 0 \/ ~ isValid(Six(i), w.bl[Six(i)]) \/ ~ isValid(Seven(i), w.bl[Seven(i)]) THEN w
      ELSE [done EXCEPT !.image.tails[i] = set.tail, !.ret = IF set.code = 0 THEN 10 ELSE 0]

\* SaveBootloaders: [bl, image, ret].
SaveBootloaders(image, cpu, key, bl) ==
  LET chain  == SaveChain(image, cpu, key, bl)
      nonces == [i \in Slots |-> Inner(chain.bl[Six(i)], "7BL")]
      sixes  == Save6BL(cpu, key, Save6BL(cpu, key, chain, 1), 2)
  IN  Save7BL(cpu, nonces, Save7BL(cpu, nonces, sixes, 1), 2)
=============================================================================
