-------------------------- MODULE FlashBlockDriver --------------------------
(***************************************************************************)
(* CXeFlashBlockDriver: the image buffer of a NAND flash and the access to *)
(* it.  The buffer holds pages of PageLength bytes: PageData of data, then *)
(* the spare bytes, the last of which are an error code over the page.     *)
(* Read and Write take flat offsets into the data alone and copy piece by  *)
(* piece; the spare routines and SaveImage compute positions of their own. *)
(* Nothing but Read and Write checks that a position is in the buffer, and *)
(* these two compare the flat offset with the length of the buffer.        *)
(*                                                                         *)
(* The image of a 4GB Corona has pages without spare bytes (PageLength is  *)
(* then PageData), and every spare routine works on it all the same.       *)
(***************************************************************************)
EXTENDS Integers, Sequences

CONSTANTS
  PageData,      \* 512
  SpareLength,   \* 0x10
  PageLength,    \* dwPageLength
  PageCount,     \* dwPageCount
  ImageLength,   \* dwImageLengthReal
  Byte,          \* values of a byte
  Spares,        \* spare data the callers write
  NewSpare,      \* what CreateDefaults writes to every page's spare bytes
  EDC,           \* CalculateEDC: the code of a page's other bytes
  Strings,       \* data the callers write
  Files          \* image files OpenImage may be given

Cells   == 0..(ImageLength - 1)
Pages   == 0..(PageCount - 1)
InSpare == 0..(SpareLength - 1)
Stride  == PageData + SpareLength   \* the 0x210 of SaveImage

ASSUME PagingAssumption ==
  /\ PageData \in Nat \ {0} /\ SpareLength \in Nat \ {0}
  /\ PageLength \in {PageData, Stride}
  /\ PageCount \in Nat /\ ImageLength \in Nat

ASSUME ByteAssumption ==
  /\ 0 \in Byte
  /\ Spares \subseteq [InSpare -> Byte] /\ NewSpare \in [InSpare -> Byte]
  /\ EDC \in [[0..(Stride - 2) -> Byte] -> Byte]
  /\ Strings \subseteq Seq(Byte)
  /\ Files \subseteq [Cells -> Byte]

VARIABLES
  image,   \* pbImageData
  phase,   \* where the program is with this image
  reply,   \* what Write returned last
  fault    \* which routine left the buffer, if one did

vars == <<image, phase, reply, fault>>

Phases == {"new", "open", "saved"}
Faults == {"none", "create", "write", "spare", "save"}

-----------------------------------------------------------------------------
(* Where bytes go *)

\* Mutants: the first piece of a long transfer is a whole page; a transfer of
\* one page counts as short.
FirstWhole(off, len) == IF len < PageData THEN len ELSE PageData
FirstShort(off, len) == IF len <= PageData THEN len ELSE PageData - (off % PageData)

\* The loop's first piece ends with the page, or is the whole transfer if that is
\* shorter than a page.
First(off, len) == IF len < PageData THEN len ELSE PageData - (off % PageData)

\* Mutant: the piece counter runs ahead of the pieces.
TargetAhead(off, len, k) ==
  LET page == off \div PageData
      rest == k - First(off, len)
  IN  IF rest < 0 THEN page * PageLength + (off % PageData) + k
      ELSE (page + 2 + (rest \div PageData)) * PageLength + (rest % PageData)

\* The position of byte k of a transfer: pieces after the first start a page.
Target(off, len, k) ==
  LET page == off \div PageData
      rest == k - First(off, len)
  IN  IF rest < 0 THEN page * PageLength + (off % PageData) + k
      ELSE (page + 1 + (rest \div PageData)) * PageLength + (rest % PageData)

\* Where a transfer goes if pages are what matters.
Place(a) == (a \div PageData) * PageLength + (a % PageData)

\* A transfer that is short for the loop and runs into the next page.
Crosses(off, len) == len < PageData /\ (off % PageData) + len > PageData

\* The test at the head of Read and Write.
Accepts(off, len) == off < ImageLength /\ off + len <= ImageLength

\* Bytes of data the buffer has room for.
DataLength == (ImageLength \div PageLength) * PageData

\* Mutant: the loop goes by data pages, as if there were no spare bytes.
FetchedFlat(off, len) == [k \in 1..len |-> image[off + k - 1]]

\* What Read copies to the caller.
Fetched(off, len) == [k \in 1..len |-> image[Target(off, len, k - 1)]]

\* Mutant: the data of the page is not skipped.
SpareInFront(p) == p * PageLength

\* The first position of the spare bytes of page p.
SpareOf(p) == p * PageLength + PageData

-----------------------------------------------------------------------------
(* Calls *)

Running == phase = "open" /\ fault = "none"
Faulty(f) == fault' = f /\ UNCHANGED <<image, phase, reply>>

\* Write; WriteBlock and WriteLilBlock pass it the offset of a block.
Write(off, d) ==
  LET to == {Target(off, Len(d), k) : k \in 0..(Len(d) - 1)}
  IN  /\ Running
      /\ \/ /\ ~ Accepts(off, Len(d))
            /\ reply' = 0
            /\ UNCHANGED <<image, phase, fault>>
         \/ /\ Accepts(off, Len(d)) /\ to \subseteq Cells
            /\ image' = [x \in Cells |->
                 IF x \in to
                 THEN d[1 + CHOOSE k \in 0..(Len(d) - 1) : Target(off, Len(d), k) = x]
                 ELSE image[x]]
            /\ reply' = Len(d)
            /\ UNCHANGED <<phase, fault>>
         \/ /\ Accepts(off, Len(d)) /\ ~ (to \subseteq Cells)
            /\ Faulty("write")

\* WritePageSpare.  WriteBlockSpare and WriteLilBlockSpare do the same for the
\* first page of their block.
WriteSpare(p, s) ==
  /\ Running
  /\ IF SpareOf(p) + SpareLength <= ImageLength
     THEN /\ image' = [x \in Cells |-> IF x - SpareOf(p) \in InSpare
                                       THEN s[x - SpareOf(p)] ELSE image[x]]
          /\ UNCHANGED <<phase, reply, fault>>
     ELSE Faulty("spare")

\* CreateDefaults: a buffer of zeros, then the spare bytes of every page.
CreateDefaults ==
  /\ phase = "new" /\ fault = "none"
  /\ IF \A p \in Pages : SpareOf(p) + SpareLength <= ImageLength
     THEN /\ image' = [x \in Cells |->
                IF \E p \in Pages : x - SpareOf(p) \in InSpare
                THEN NewSpare[CHOOSE j \in InSpare : \E p \in Pages : x = SpareOf(p) + j]
                ELSE 0]
          /\ phase' = "open"
          /\ UNCHANGED <<reply, fault>>
     ELSE Faulty("create")

\* OpenImage takes a file as it is.
OpenImage ==
  /\ phase = "new" /\ fault = "none"
  /\ phase' = "open"
  /\ UNCHANGED <<image, reply, fault>>

\* Mutant: the pages are counted from 1.
RecodedFromOne(x) ==
  IF x % Stride = Stride - 1 /\ x \div Stride \in Pages \ {0}
  THEN EDC[[j \in 0..(Stride - 2) |-> image[x - (Stride - 1) + j]]]
  ELSE image[x]

\* Mutant: the code is shifted into its place and not cut to a byte.
RecodedWide(x) ==
  IF x % Stride = Stride - 1 /\ x \div Stride \in Pages
  THEN 2 * EDC[[j \in 0..(Stride - 2) |-> image[x - (Stride - 1) + j]]]
  ELSE image[x]

\* CalculateEDC on every page: a stride of 0x210 bytes, whatever the page length.
Recoded(x) ==
  IF x % Stride = Stride - 1 /\ x \div Stride \in Pages
  THEN EDC[[j \in 0..(Stride - 2) |-> image[x - (Stride - 1) + j]]]
  ELSE image[x]

\* SaveImage, after which the program ends.
SaveImage ==
  /\ Running
  /\ IF PageCount * Stride <= ImageLength
     THEN /\ image' = [x \in Cells |-> Recoded(x)]
          /\ phase' = "saved"
          /\ UNCHANGED <<reply, fault>>
     ELSE Faulty("save")

\* The image is what the file holds that OpenImage reads, if that is called.
Init ==
  /\ image \in Files
  /\ phase = "new"
  /\ reply = 0
  /\ fault = "none"

Next ==
  \/ CreateDefaults
  \/ OpenImage
  \/ \E off \in 0..ImageLength, d \in Strings : Write(off, d)
  \/ \E p \in Pages, s \in Spares : WriteSpare(p, s)
  \/ SaveImage

Spec == Init /\ [][Next]_vars

-----------------------------------------------------------------------------
(* Properties *)

TypeOK ==
  /\ image \in [Cells -> Byte]
  /\ phase \in Phases
  /\ reply \in 0..ImageLength
  /\ fault \in Faults

\* The block driver keeps what FlatStore promises: no call but CreateDefaults and
\* Write changes a byte of data, a Write none outside its range, and what it
\* stores is right however its range lies on the pages, but for the short range
\* over the end of a page (Write, SaveImage, the spare routines).
DataLies == [a \in 0..(DataLength - 1) |-> image[Place(a)]]
Flat == INSTANCE FlatStore WITH Size <- DataLength, bytes <- DataLies
DataFlat == Flat!FlatSpec

\* The spare bytes change only where the spare routines and SaveImage write them,
\* and under a short Write that runs over the end of its page.
SpareKept ==
  [][ \A off \in 0..ImageLength, d \in Strings :
        ~ Crosses(off, Len(d)) /\ Write(off, d) =>
          \A x \in Cells : x % PageLength >= PageData => image'[x] = image[x] ]_vars

\* What Write has stored, Read returns, however the range lies on the pages.
ReadsBack ==
  [][ \A off \in 0..ImageLength, d \in Strings :
        d # <<>> /\ reply' = Len(d) /\ Write(off, d) /\ fault' = "none" =>
          Fetched(off, Len(d))' = d ]_vars

\* A transfer that ends inside the data of the image never leaves the buffer.
DataNeverOverruns ==
  [][ \A off \in 0..ImageLength, d \in Strings :
        off + Len(d) <= DataLength /\ Write(off, d) => fault' = "none" ]_vars

\* A saved image has the right code in every page, whatever was written before.
CodesRight ==
  phase = "saved" =>
    \A p \in Pages :
      image[p * Stride + Stride - 1]
        = EDC[[j \in 0..(Stride - 2) |-> image[p * Stride + j]]]

\* CXeFlashBlockDriver.cpp:343, "lets do a quick recalc of the ecc": SaveImage
\* changes no data.
SaveKeepsData == [][SaveImage => DataLies' = DataLies]_vars
=============================================================================
