------------------------------ MODULE SpareArea ------------------------------
(***************************************************************************)
(* The spare bytes of a page and how CXeFlashBlockDriver puts its fields   *)
(* into them.  The layout depends on the spare type: 0 small blocks, 1     *)
(* small blocks on a big block controller, 2 big blocks, 3 none (Corona).  *)
(* When an image is opened its type is guessed from two pages: the first   *)
(* of small block 1 and the first of big block 1, which is that of small   *)
(* block 8.  A third page stands for those the program saves files to.     *)
(***************************************************************************)
EXTENDS Integers, Sequences

CONSTANTS Versions,     \* sequence numbers of roots and of mobile files
          MobileTypes,  \* 0x31 to 0x39
          Counts,       \* pages of a mobile file
          Codes         \* what CalculateEDC computes: the two low bits, the rest

SpareTypes == 0..3
Pages      == {"small", "big", "file"}
Fields     == {"seq", "index", "type", "size", "pages", "bad"}
Byte       == 0..255
Bytes      == [0..15 -> Byte]

ASSUME SpareAssumption ==
  /\ Versions \subseteq Nat /\ \A v \in Versions : v \div 16777216 < 256   \* a DWORD
  /\ MobileTypes \subseteq 49..57 /\ Counts \subseteq 1..32
  /\ Codes \subseteq (0..3) \X Byte

VARIABLES
  spareType,   \* dwSpareType
  source,      \* where the image comes from: "created" or "dumped"
  spare        \* the spare bytes of the pages

vars == <<spareType, source, spare>>

-----------------------------------------------------------------------------
(* Fields *)

\* The bytes of each field, the low one first.
Places(t, f) ==
  CASE f = "seq"   -> (CASE t = 0 -> <<2, 3, 4, 6>> [] t = 1 -> <<0, 3, 4, 6>>
                         [] t = 2 -> <<5, 4, 3>>    [] OTHER -> <<>>)
    [] f = "index" -> (CASE t = 0 -> <<0, 1>> [] t \in {1, 2} -> <<1, 2>> [] OTHER -> <<>>)
    [] f = "size"  -> <<7, 8>>
    [] f = "pages" -> <<9>>
    [] f = "type"  -> <<12>>
    [] f = "bad"   -> IF t = 2 THEN <<0>> ELSE <<5>>

Power(i) == <<1, 256, 65536, 16777216>>[i]

\* Mutant: a byte of the value is not masked.
StoredUncut(s, at, v) ==
  [b \in 0..15 |-> IF \E i \in 1..Len(at) : at[i] = b
                   THEN v \div Power(CHOOSE i \in 1..Len(at) : at[i] = b)
                   ELSE s[b]]

\* The bytes s with v in the places at: every SetSpare routine.
Stored(s, at, v) ==
  [b \in 0..15 |-> IF \E i \in 1..Len(at) : at[i] = b
                   THEN (v \div Power(CHOOSE i \in 1..Len(at) : at[i] = b)) % 256
                   ELSE s[b]]

\* SetSpareBadBlock marks a good block 0xFF.
SetField(t, s, f, v) ==
  Stored(s, Places(t, f), IF f = "bad" THEN (IF v % 2 = 1 THEN 0 ELSE 255) ELSE v)

\* The number in places at: a sum of up to four bytes.
Number(s, at) ==
  LET byte(i) == IF i <= Len(at) THEN s[at[i]] * Power(i) ELSE 0
  IN  byte(1) + byte(2) + byte(3) + byte(4)

\* The GetSpare routines.  The index loses its upper four bits, and every caller
\* of GetSpareBlockTypeField drops the bits of the error code.
GetField(t, s, f) ==
  CASE f = "index" -> Number(s, Places(t, f)) % 4096
    [] f = "type"  -> Number(s, Places(t, f)) % 64
    [] f = "bad"   -> IF Number(s, Places(t, f)) = 255 THEN 0 ELSE 1
    [] OTHER       -> Number(s, Places(t, f))

\* Mutant: byte 0xC is taken for the code alone.
CodedWhole(s, code) ==
  [s EXCEPT ![12] = 64 * code[1], ![13] = code[2], ![14] = code[2], ![15] = code[2]]

\* CalculateEDC leaves the lower six bits of byte 0xC.
Coded(s, code) ==
  [s EXCEPT ![12] = 64 * code[1] + (@ % 64), ![13] = code[2], ![14] = code[2], ![15] = code[2]]

-----------------------------------------------------------------------------
(* Detection *)

\* Mutant: the bytes of the index in the wrong order.
LooksSwapped(s, at, mark) == (s[at[1]] % 16) * 256 + s[at[2]] = 1 /\ s[mark] = 255

\* Index 1 in the places at, and a good block's marker in the place mark.
Looks(s, at, mark) == (s[at[2]] % 16) * 256 + s[at[1]] = 1 /\ s[mark] = 255

\* DetectSpareType.
DetectSpareType(s) ==
  CASE Looks(s["small"], <<0, 1>>, 5) -> 0
    [] ~ Looks(s["small"], <<0, 1>>, 5) /\ Looks(s["small"], <<1, 2>>, 5) -> 1
    [] OTHER -> IF Looks(s["big"], <<1, 2>>, 0) THEN 2 ELSE 3

-----------------------------------------------------------------------------
(* Calls *)

Fresh(t, index) ==
  SetField(t, SetField(t, [b \in 0..15 |-> 0], "bad", 0), "index", index)

\* FlashFileSystem's Save, on the first page of its block.
SaveRoot(version) ==
  /\ spare' = [spare EXCEPT !["file"] =
       SetField(spareType, SetField(spareType, @, "seq", version), "type", 48)]
  /\ UNCHANGED <<spareType, source>>

\* SaveFileSystems, on each page of a mobile file.
SaveMobile(type, version, n) ==
  LET t == spareType
  IN  /\ spare' = [spare EXCEPT !["file"] =
           SetField(t, SetField(t, SetField(t, SetField(t, @, "type", type),
             "seq", version), "pages", 32 - n), "size", n * 512)]
      /\ UNCHANGED <<spareType, source>>

\* SaveImage gives every page its code.
SaveImage ==
  /\ \E code \in [Pages -> Codes] : spare' = [p \in Pages |-> Coded(spare[p], code[p])]
  /\ UNCHANGED <<spareType, source>>

\* The spare bytes of a new image of type t, its pages numbered by small block
\* (as CreateDefaults does on every image) or by big block (as on a console).
Laid(t, byBigBlock) ==
  [p \in Pages |-> Fresh(t, CASE p = "small" -> (IF byBigBlock THEN 0 ELSE 1)
                             [] p = "big"   -> (IF byBigBlock THEN 1 ELSE 8)
                             [] OTHER       -> 600)]

Init ==
  /\ spareType \in SpareTypes
  /\ source \in {"created", "dumped"}
  /\ source = "dumped" => spareType # 3
  /\ spare = Laid(spareType, source = "dumped" /\ spareType = 2)

Next ==
  \/ \E v \in Versions : SaveRoot(v)
  \/ \E type \in MobileTypes, v \in Versions, n \in Counts : SaveMobile(type, v, n)
  \/ SaveImage

Spec == Init /\ [][Next]_vars

-----------------------------------------------------------------------------
(* Properties *)

TypeOK ==
  /\ spareType \in SpareTypes
  /\ source \in {"created", "dumped"}
  /\ spare \in [Pages -> Bytes]

\* The layouts keep the fields apart: what one SetSpare routine, a save or an
\* error code stores disturbs no other field, and a getter returns what its
\* setter was given as far as the layout has room for it (GetSpareSeqField on
\* three bytes for big blocks, on none for Corona).
Room(f) ==
  CASE f = "seq"   -> (CASE spareType = 2 -> 16777216 [] spareType = 3 -> 1 [] OTHER -> 0)
    [] f = "index" -> IF spareType = 3 THEN 1 ELSE 4096
    [] f = "type"  -> 64
    [] f = "size"  -> 65536
    [] f = "pages" -> 256
    [] f = "bad"   -> 2

Capacity == [f \in Fields |-> Room(f)]

Updates ==
  {[seq |-> v, type |-> 48] : v \in Versions} \cup
  {[type |-> m, seq |-> v, pages |-> 32 - n, size |-> n * 512] :
     m \in MobileTypes, v \in Versions, n \in Counts}

Record == INSTANCE SpareRecord WITH
  fields   <- [f \in Fields |-> GetField(spareType, spare["file"], f)],
  capacity <- Capacity
FieldsApart == Record!RecordSpec

\* CXeFlashBlockDriver.cpp:458, "big block": DetectSpareType recognises an image of
\* big blocks, one that CreateDefaults made as well.
BigBlocksRecognised == spareType = 2 => DetectSpareType(spare) = 2
=============================================================================
