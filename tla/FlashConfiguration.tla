------------------------- MODULE FlashConfiguration -------------------------
(***************************************************************************)
(* How the layout of an image is decided when it is created, opened from a *)
(* file or read from a controller.  A configuration word has two decoders: *)
(* LoadFlashConfig for the driver and sfcx_init for the controller.  A     *)
(* file has no word: OpenContinue picks one by the length of the file and  *)
(* by the spare type it detects.  The calls of SpareArea go on in the      *)
(* layout decided last.  Lengths are the code's, in bytes.                 *)
(***************************************************************************)
EXTENDS SpareArea

CONSTANTS
  Descriptions,  \* images an ini file asks for: length, page length, word
  Dumps,         \* dumps of consoles: length of the file, spare type
  ChipWords,     \* configuration registers of controllers
  FileLimit,     \* the 0xb000000 of OpenImage
  DeviceLimit    \* the 69206016 of OpenDevice

VARIABLES
  length,        \* dwImageLengthReal
  pageLength,    \* dwPageLength
  word           \* dwFlashConfig

configuration == <<length, pageLength, word>>
allVars == <<vars, configuration>>

CoronaWord == 393216   \* 0x00060000

\* The bits of a word both decoders look at first: 17 and 18, 4 and 5.
Family(w) == (w \div 131072) % 4
Size(w)   == (w \div 16) % 4

Least(x, y) == IF x <= y THEN x ELSE y

-----------------------------------------------------------------------------
(* The driver's decoder *)

\* A layout: the block length and count, the first block of the reserve behind
\* the file system, and the spare type.
Layout(blockLength, count, reserve, t) ==
  [blockLength |-> blockLength, count |-> count, reserve |-> reserve, type |-> t]

\* LoadFlashConfig of word w for a driver of spare type t.  Words it does not
\* know leave the block length and count as the constructor set them.
LoadFlashConfig(w, len, page, t) ==
  LET family == Family(w)
      size   == Size(w)
  IN  CASE w = CoronaWord -> Layout(16384, 3072, 3072, 3)
        [] family = 0 /\ size = 1 -> Layout(16384, 1024, 992, 0)
        [] family = 0 /\ size = 3 -> Layout(16384, 4096, 3968, 0)
        [] family = 0 /\ size \in {0, 2} -> Layout(0, 0, 992, 0)
        [] family \in {1, 2} /\ size = 0 -> Layout(16384, 1024, 992, 1)
        [] family \in {1, 2} /\ size = 1 ->
             Layout(16384, IF len \in {16777216, 17301504} THEN 1024 ELSE 4096, 992, 1)
        [] family \in {1, 2} /\ size = 2 ->
             Layout(131072, len \div (256 * page), 480, 2)
        [] OTHER -> Layout(0, 0, 992, t)

PageCount(l) == ((l.count * l.blockLength) \div 16384) * 32
ConfigBlock(l) == l.reserve - 4

\* Mutant: the lengths are compared before they are rounded.
PickedExactly(reallen, t) ==
  CASE reallen = 16777216 -> (CASE t = 0 -> 18448400 [] t \in {1, 2} -> 143376
                                [] OTHER -> 0)
    [] reallen = 67108864 -> (CASE t = 0 -> 18448432 [] t = 1 -> 143376
                                [] t = 2 -> 11153440 [] OTHER -> 0)
    [] OTHER -> 18448400

\* OpenContinue's choice of a word for reallen bytes of data: 16MB and 64MB
\* images by their spare type, a file cut off at OpenImage's limit for a 4GB
\* Corona, larger ones for big blocks.
Picked(reallen, t) ==
  CASE reallen <= 16777216 -> (CASE t = 0 -> 18448400 [] t \in {1, 2} -> 143376
                                 [] OTHER -> 0)
    [] reallen = 178956800 -> CoronaWord
    [] reallen > 16777216 /\ reallen <= 67108864 ->
         (CASE t = 0 -> 18448432 [] t = 1 -> 143376 [] t = 2 -> 11153440 [] OTHER -> 0)
    [] reallen \in {268435456, 267911168} -> 9056288
    [] reallen \in {536870912, 536346624} -> 11153440
    [] OTHER -> 18448400

-----------------------------------------------------------------------------
(* The controller's decoder *)

\* The size of a chip of big blocks.
BigBytes(w) == 2^(((w \div 524288) % 4) + ((w \div 2097152) % 16) + 23)

\* Mutant: the small blocks of families 1 and 2 are swapped.
ChipSwapped(w) ==
  LET family == Family(w)
      size   == Size(w)
  IN  CASE family = 0 /\ size # 0 ->
             Layout(16384, <<1024, 2048, 4096>>[size], <<992, 1984, 3968>>[size], 0)
        [] (family = 2 /\ size = 1) \/ (family = 1 /\ size = 0) -> Layout(16384, 1024, 992, 1)
        [] family = 1 /\ size = 1 -> Layout(16384, 4096, 3968, 1)
        [] family \in {1, 2} /\ size = 2 -> Layout(131072, BigBytes(w) \div 131072, 480, 2)
        [] family \in {1, 2} /\ size = 3 -> Layout(262144, BigBytes(w) \div 262144, 240, 2)
        [] OTHER -> Layout(0, 0, 0, 0)

\* sfcx_init: the chip's blocks, those the file system may use, the meta type;
\* a block length of 0 stands for a type it does not support.
Chip(w) ==
  LET family == Family(w)
      size   == Size(w)
  IN  CASE family = 0 /\ size # 0 ->
             Layout(16384, <<1024, 2048, 4096>>[size], <<992, 1984, 3968>>[size], 0)
        [] (family = 1 /\ size = 1) \/ (family = 2 /\ size = 0) -> Layout(16384, 1024, 992, 1)
        [] family = 2 /\ size = 1 -> Layout(16384, 4096, 3968, 1)
        [] family \in {1, 2} /\ size = 2 -> Layout(131072, BigBytes(w) \div 131072, 480, 2)
        [] family \in {1, 2} /\ size = 3 -> Layout(262144, BigBytes(w) \div 262144, 240, 2)
        [] OTHER -> Layout(0, 0, 0, 0)

\* size_pages and size_bytes_phys.
ChipPages(c) == c.count * (c.blockLength \div 512)
ChipBytes(c) == ChipPages(c) * 528

\* The bytes of a page's spare data in which the routines of SFCX.cpp keep the
\* number of a block and its version, the low one first.
ChipPlaces(t, f) ==
  CASE f = "index" -> (IF t = 0 THEN <<0, 1>> ELSE <<1, 2>>)
    [] f = "seq"   -> (CASE t = 0 -> <<2, 3, 4, 6>> [] t = 1 -> <<0, 3, 4, 6>>
                         [] OTHER -> <<5, 3, 4, 6>>)
    [] f = "bad"   -> (IF t = 2 THEN <<0>> ELSE <<5>>)

\* An ini file may give any numbers, but for a page length of 0, by which an image of
\* big blocks would be divided.
ASSUME ConfigurationAssumption ==
  /\ Descriptions \subseteq [length : Nat, pageLength : Nat \ {0}, word : Nat]
  /\ Dumps \subseteq [length : Nat, type : SpareTypes]
  /\ ChipWords \subseteq Nat /\ \A w \in ChipWords : Chip(w).count \in Nat /\ ChipBytes(Chip(w)) \in Nat
  /\ FileLimit \in Nat /\ DeviceLimit \in Nat

-----------------------------------------------------------------------------
(* Openings *)

\* OpenContinue: len bytes with the spare bytes s, read by pages of page bytes,
\* with the word w of a controller or 0.
OpenContinue(s, len, page, w) ==
  LET t       == DetectSpareType(s)
      reallen == (len \div page) * 512
      chosen  == IF w # 0 THEN w ELSE Picked(reallen, t)
      paged   == IF w = 0 /\ reallen = 178956800 THEN 512 ELSE page
  IN  [length |-> len, pageLength |-> paged, word |-> chosen,
       type |-> LoadFlashConfig(chosen, len, paged, t).type]

\* OpenImage of a file of len bytes.
OpenImage(s, len) == OpenContinue(s, Least(len, FileLimit), 528, 0)

\* OpenDevice of a controller with the register w.
OpenDevice(s, w) == OpenContinue(s, Least(ChipBytes(Chip(w)), DeviceLimit), 528, w)

Configured(o) ==
  /\ length = o.length /\ pageLength = o.pageLength /\ word = o.word /\ spareType = o.type

\* CreateDefaults of an image an ini file describes.
Created ==
  \E d \in Descriptions :
    /\ Configured([length |-> d.length, pageLength |-> d.pageLength, word |-> d.word,
                   type |-> LoadFlashConfig(d.word, d.length, d.pageLength, 0).type])
    /\ source = "created" /\ spare = Laid(spareType, FALSE)

\* A dump of a console from a file.
Dumped ==
  \E d \in Dumps :
    /\ source = "dumped" /\ spare = Laid(d.type, d.type = 2)
    /\ Configured(OpenImage(spare, d.length))

\* The console's own flash.
Attached ==
  \E w \in ChipWords :
    /\ source = "dumped" /\ spare = Laid(Chip(w).type, Chip(w).type = 2)
    /\ Configured(OpenDevice(spare, w))

ConfigurationInit == Created \/ Dumped \/ Attached

\* SaveImage, and OpenImage of the file in the next run of the program.
Reopen ==
  /\ \E code \in [Pages -> Codes] : spare' = [p \in Pages |-> Coded(spare[p], code[p])]
  /\ LET o == OpenImage(spare', length)
     IN  /\ length' = o.length /\ pageLength' = o.pageLength
         /\ word' = o.word /\ spareType' = o.type
  /\ UNCHANGED source

ConfigurationNext == (Next /\ UNCHANGED configuration) \/ Reopen

ConfigurationSpec == ConfigurationInit /\ [][ConfigurationNext]_allVars

-----------------------------------------------------------------------------
(* Properties *)

\* The layout in use.
Current == LoadFlashConfig(word, length, pageLength, spareType)

ConfigurationTypeOK ==
  /\ TypeOK
  /\ length \in Nat /\ pageLength \in Nat \ {0} /\ word \in Nat
  /\ Current.count \in Nat /\ PageCount(Current) \in Nat

\* Images whose spare bytes tell their layout: all with spare bytes but the big
\* blocks CreateDefaults numbers by small block (BigBlocksRecognised), not cut
\* off at OpenImage's limit.
Telling ==
  /\ pageLength = 528 /\ length < FileLimit
  /\ spareType \in {0, 1} \/ (spareType = 2 /\ source = "dumped")

\* The words both decoders know: small blocks of 16MB and of 64MB, and big blocks
\* of 128KB.
BothDecode(w) ==
  /\ w # CoronaWord
  /\ <<Family(w), Size(w)>> \in {<<0, 1>>, <<0, 3>>, <<1, 1>>, <<2, 0>>, <<2, 1>>, <<1, 2>>, <<2, 2>>}

\* A flash of small blocks with the word w may have len bytes.
Fitting(w, len) ==
  LET reallen == (len \div 528) * 512
  IN  \/ <<Family(w), Size(w)>> = <<0, 1>> /\ reallen <= 16777216
      \/ <<Family(w), Size(w)>> = <<0, 3>> /\ reallen > 16777216 /\ reallen <= 67108864
      \/ Family(w) \in {1, 2} /\ Size(w) = 0 /\ len \in {16777216, 17301504}
      \/ Family(w) \in {1, 2} /\ Size(w) = 1 /\ reallen <= 67108864

\* What an image has to begin with to be reopened alike, as every console has it: an
\* ini file gives a length that fits its word, and chips are decoded by both and have
\* 32MB at least where blocks are big.
Consistent ==
  /\ \A d \in Descriptions :
       d.pageLength = 528 /\ LoadFlashConfig(d.word, d.length, 528, 0).type \in {0, 1} => Fitting(d.word, d.length)
  /\ \A w \in ChipWords : BothDecode(w) /\ (Size(w) = 2 => Chip(w).count >= 256)
  /\ DeviceLimit = 69206016

\* Neither DetectSpareType's guess nor the choice of a word by length puts an image
\* into another layout: what a run of the program saved, with whatever saves and error
\* codes in its spare bytes, the next run opens with the same block length, count,
\* reserve and spare type, though the file keeps none of them.
ReopensAlike ==
  Telling =>
    LET o == OpenImage(spare, length)
    IN  LoadFlashConfig(o.word, o.length, o.pageLength, o.type) = Current

\* SaveDevice hands the driver's pages to the controller: for the words both decode
\* they agree on block length, count (up to the 64MB read) and spare type, on the
\* place of the configuration blocks, and on the bytes that hold a block's number
\* and marker.  The 64MB new small block is left out: the driver has its
\* reserve at 0x3E0, the controller at 0xF80.
ControllerAgrees ==
  LET c == Chip(word)
  IN  word \in ChipWords /\ BothDecode(word) /\ Telling /\ length = Least(ChipBytes(c), DeviceLimit) =>
        /\ Current.blockLength = c.blockLength /\ Current.type = c.type
        /\ Current.count = Least(c.count, (DeviceLimit \div 528) \div (c.blockLength \div 512))
        /\ <<Family(word), Size(word)>> # <<2, 1>> => ConfigBlock(Current) = c.reserve - 4
        /\ \A f \in {"index", "bad"} : Places(spareType, f) = ChipPlaces(c.type, f)
        /\ spareType # 2 => Places(spareType, "seq") = ChipPlaces(c.type, "seq")

\* Between two openings the fields of a page keep apart (see FieldsApart).
FieldsApartWhileOpen ==
  /\ Record!RecordInit
  /\ [][Reopen \/ Record!RecordNext]_<<[f \in Fields |-> GetField(spareType, spare["file"], f)]>>
=============================================================================
