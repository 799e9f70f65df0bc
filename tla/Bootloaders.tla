---------------------------- MODULE Bootloaders ----------------------------
(***************************************************************************)
(* The boot loaders of an image, CXeBootloaders.cpp.  A loader is a header *)
(* and a body.  RC4 with a key is its own inverse, so a body is a text and *)
(* the set of keys it is encrypted under; a key is the sequence of secrets *)
(* and nonces it is derived from by HMAC.  In memory a loader also has the *)
(* flag bIsDecrypted, the key it was last used with, and what class it is. *)
(* Patches (PatchBootloader, Resize), versions and addresses inside a body *)
(* are abstract.                                                           *)
(***************************************************************************)
EXTENDS Integers, Sequences

Ids == {"1BL", "2BL", "2BL_B", "3BL", "4BL", "5BL", "6BL", "6BL_B", "7BL", "7BL_B"}

\* The magic a class expects; the second 2BL, 6BL and 7BL are of the same class.
Magic(l) ==
  CASE l = "2BL_B" -> "2BL" [] l = "6BL_B" -> "6BL" [] l = "7BL_B" -> "7BL" [] OTHER -> l

\* A loader as a file or in the image: the magic, length, build and flags of its
\* header (devkit magic, flag of a dual 2BL, build below 1746), its body, and
\* what the program writes into that: how often the SMC was munged that the
\* digest of a 2BL was made from (-1: not by this program), and how many blocks
\* a 6BL names for the rest of its 7BL.
Part(magic, text, len, build, dev, dual, old) ==
  [magic |-> magic, text |-> text, len |-> len, build |-> build, dev |-> dev,
   dual |-> dual, old |-> old, digest |-> -1, used |-> 0, under |-> {}]

\* Bytes that are no loader, with what they give for a length.
Nothing(len) == Part("none", "none", len, 0, FALSE, FALSE, FALSE)

\* The constructors.
Unset == [part |-> Nothing(0), plain |-> FALSE, rc4 |-> <<>>, byCpu |-> FALSE]

isValid(l, m) == m.part.magic = Magic(l)

NullKey == <<"null">>   \* no pointer to a key
Noise   == <<"noise">>  \* bytes of an encrypted body taken for a key

\* XeCryptRc4Ecb over the body.
Rc4(p, key) == [p EXCEPT !.under = (@ \ {key}) \cup ({key} \ @)]

\* The per-box data of a 6BL, which Save writes and Load reads: the blocks of its
\* 7BL.
Uses(m, blocks) == [m EXCEPT !.part.used = blocks]

\* A nonce one loader keeps in its body for another.
Inner(m, for) == IF m.part.under = {} THEN <<m.part.text, for>> ELSE Noise

-----------------------------------------------------------------------------
(* Keys *)

\* CXeBootloader2BL::Crypt: a dual or devkit 2BL is encrypted without the CPU
\* key, one of a beta kit (cpu is null) with the key of the loader before it.
Key2BL(p, prev, cpu) ==
  CASE prev # NullKey /\ cpu # "null" /\ (p.dual \/ p.dev) -> Append(prev, p.text)
    [] prev # NullKey /\ cpu = "null" -> prev
    [] OTHER -> prev \o <<p.text, cpu>>

\* CXeBootloader4BL::Crypt, with the 2BL whose per-box data early beta kits add.
Key4BL(m, prev, cpu, bl2) ==
  CASE cpu = "null" /\ bl2.part.old -> Append(prev, m.part.text) \o Inner(bl2, "box")
    [] ~ (cpu = "null" /\ bl2.part.old) /\ ~ m.byCpu -> Append(prev, m.part.text)
    [] OTHER -> <<cpu, m.part.text>>

\* Mutant: every loader is encrypted with the key of the loader before it.
KeyNotDerived(l, m, prev, cpu, bl2) ==
  CASE m.part.magic = "2BL" -> Key2BL(m.part, prev, cpu)
    [] m.part.magic = "4BL" -> Key4BL(m, prev, cpu, bl2)
    [] OTHER -> prev

\* The key Crypt of loader l derives and keeps in bRc4Key.
CryptKey(l, m, prev, cpu, bl2) ==
  CASE Magic(l) = "2BL" -> Key2BL(m.part, prev, cpu)
    [] l = "4BL" -> Key4BL(m, prev, cpu, bl2)
    [] OTHER -> IF prev = NullKey THEN m.rc4 ELSE Append(prev, m.part.text)

Crypt(l, m, prev, cpu, bl2) ==
  LET key == CryptKey(l, m, prev, cpu, bl2)
  IN  [m EXCEPT !.part = Rc4(@, key), !.rc4 = key]

-----------------------------------------------------------------------------
(* Load and Save *)

\* The 1BL, which is not encrypted, holds the key of the 2BL.
KeptKey(p) == <<p.text, "key">>

\* Load(false): what the files of an ini are taken for.  Neither the 1BL nor the
\* 3BL sets the flag.
Taken(l, m) ==
  [m EXCEPT !.plain = IF l \in {"1BL", "3BL"} THEN @ ELSE TRUE,
            !.rc4 = IF l = "1BL" THEN KeptKey(m.part) ELSE @]

\* Mutant: what the second try gives is not looked at.
SecondUnchecked(m, cpu) == cpu = "null" \/ m.byCpu \/ m.part.under = {}

\* The test of line 484 for the zeros of a decrypted 4BL.
Decrypted4BL(m, cpu) == cpu = "null" \/ m.part.under = {}

\* Load of an encrypted 4BL: the loader key first, then the CPU key, on what the
\* first try made of the body.
Load4BL(m, prev, cpu, bl2) ==
  LET first  == Crypt("4BL", m, prev, cpu, bl2)
      again  == [first EXCEPT !.byCpu = TRUE, !.plain = FALSE]
      second == Crypt("4BL", again, prev, cpu, bl2)
  IN  IF Decrypted4BL(first, cpu) THEN Taken("4BL", first)
      ELSE IF m.byCpu THEN [first EXCEPT !.plain = FALSE]
      ELSE IF Decrypted4BL(second, cpu) THEN Taken("4BL", second)
      ELSE second

\* Load(true).
Load(l, m, prev, cpu, bl2) ==
  CASE l = "1BL" -> Taken(l, m)
    [] l = "4BL" -> Load4BL(m, prev, cpu, bl2)
    [] OTHER -> Taken(l, Crypt(l, m, prev, cpu, bl2))

\* Save(true): what the flag says is plain is encrypted, and keeps the flag.
Save(l, m, prev, cpu, bl2) ==
  IF l # "1BL" /\ m.plain THEN Crypt(l, m, prev, cpu, bl2) ELSE m
=============================================================================
