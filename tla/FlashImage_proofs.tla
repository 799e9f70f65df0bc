-------------------------- MODULE FlashImage_proofs --------------------------
(***************************************************************************)
(* Proofs about FlashImage.  The invariant of the file system does not     *)
(* hold here: a payload may be laid over the block of the root, whose word *)
(* then says that it is reserved.  What takes its place asks less of the   *)
(* root, and says of a block under a payload that its word is reserved, so *)
(* that no chain can lead to it.  In the second part, the three scans of   *)
(* LoadFileSystems, which are recursive functions, are first shown to be   *)
(* functions that satisfy their equations, and what they return is then    *)
(* followed from one place to the next, and the files of an image from the *)
(* ini that adds them to the directory that is read back: the list of what *)
(* SaveBootloaders has left to do tells which of them have data.           *)
(***************************************************************************)
EXTENDS FlashImage, FlashFileSystemRoot_proofs, WellFoundedInduction

\* The blocks chains start at.  The root counts only while it can be saved.
FileHeads  == {entries[i].blk : i \in SlotIds} \ {0}
LiveRoot   == IF blockMap[RootBlock] = End THEN {RootBlock} ELSE {}
ImageHeads == FileHeads \cup LiveRoot

\* Payloads are added before there is any file.
Filling == phase \in {"mobile", "payloads"}

\* The map, up to the load.
SoundMap ==
  /\ Tidy(blockMap, ImageHeads)
  /\ blockMap[0] = Reserved
  /\ RootBlock \notin FileHeads
  /\ blockMap[RootBlock] \in {End, Reserved}

\* ... and the payloads on it.
SoundPayloads ==
  /\ \A b \in BlockIds : LaidOver(b) => blockMap[b] = Reserved
  /\ blockMap[RootBlock] = Reserved => LaidOver(RootBlock)
  /\ Filling => /\ \A i \in SlotIds : entries[i].blk = 0
                /\ \A b \in BlockIds : blockMap[b] \notin BlockIds

\* The part of the types that the calls depend on.
Types ==
  /\ RootTypeOK
  /\ phase \in Phases
  /\ payloads \in Seq(Payload)
  /\ jobs \in Seq(Job)
  /\ tags \in [BlockIds -> Nat]
  /\ phase = "setting" => count > 0

ImageInv == Types /\ (phase # "loaded" => SoundMap /\ SoundPayloads)

-----------------------------------------------------------------------------
(* What the calls of the file system do to the map *)

LEMMA SoundWalkable ==
  TypeOK /\ SoundMap => Walkable(ImageHeads)
<1> SUFFICES ASSUME TypeOK, SoundMap
             PROVE  Walkable(ImageHeads)
  OBVIOUS
<1>1. FileHeads \in SUBSET BlockIds /\ LiveRoot \in SUBSET BlockIds
  BY GeometryAssumption DEF FileHeads, LiveRoot, TypeOK, Entry
<1>2. \A i \in SlotIds : entries[i].blk # 0 => entries[i].blk \in FileHeads
  BY DEF FileHeads
<1>3. QED
  BY <1>1, <1>2 DEF Walkable, SoundMap, ImageHeads

\* The root is in the chain of no file.
LEMMA RootNotInFiles ==
  ASSUME TypeOK, SoundMap, NEW h \in FileHeads
  PROVE  RootBlock \notin Chain(blockMap, h)
<1>1. /\ blockMap \in Maps /\ ImageHeads \in SUBSET BlockIds
      /\ Tidy(blockMap, ImageHeads) /\ h \in ImageHeads
  BY SoundWalkable DEF Walkable, TypeOK, Maps, ImageHeads
<1>2. CASE blockMap[RootBlock] = Reserved
  BY <1>1, <1>2, ChainEnds DEF Allocated
<1>3. CASE blockMap[RootBlock] = End
  <2>1. RootBlock \in ImageHeads /\ RootBlock # h
    BY <1>3 DEF ImageHeads, LiveRoot, SoundMap
  <2>2. Chain(blockMap, RootBlock) \cap Chain(blockMap, h) = {}
    BY <1>1, <2>1, ChainsApart
  <2>3. RootBlock \in Chain(blockMap, RootBlock)
    BY <1>1, GeometryAssumption, ChainClosed
  <2>4. QED
    BY <2>2, <2>3
<1>4. QED
  BY <1>2, <1>3 DEF SoundMap

\* A step keeps the words of reserved blocks and of the root.
KeepMarks ==
  /\ \A b \in BlockIds : blockMap[b] = Reserved => blockMap'[b] = Reserved
  /\ blockMap'[RootBlock] = blockMap[RootBlock]

\* What a step leaves that keeps the heads, or that makes the block it takes a head.
LEMMA SoundByHeads ==
  ASSUME TypeOK, SoundMap, KeepHeads, KeepMarks, Tidy(blockMap', ImageHeads)
  PROVE  SoundMap'
<1>1. FileHeads' = FileHeads
  BY DEF FileHeads, KeepHeads
<1>2. LiveRoot' = LiveRoot
  BY DEF LiveRoot, KeepMarks
<1>3. 0 \in BlockIds
  BY GeometryAssumption
<1>4. QED
  BY <1>1, <1>2, <1>3 DEF SoundMap, ImageHeads, KeepMarks

LEMMA SoundByNewHead ==
  ASSUME TypeOK, SoundMap, NEW i \in SlotIds, NEW b \in BlockIds, NewHead(i, b)
  PROVE  SoundMap' /\ KeepMarks
<1>1. /\ blockMap \in Maps /\ ImageHeads \in SUBSET BlockIds
      /\ Tidy(blockMap, ImageHeads)
      /\ blockMap[b] = Free /\ blockMap' = Taken(blockMap, b)
  BY SoundWalkable DEF Walkable, TypeOK, Maps, NewHead, AllocatesBlock, FreeBlocks
<1>2. KeepMarks /\ b # RootBlock /\ b # 0
  BY <1>1, MarksApart, GeometryAssumption DEF KeepMarks, SoundMap, Taken, Maps
<1>3. FileHeads' \in SUBSET (FileHeads \cup {b})
  BY DEF FileHeads, NewHead
<1>4. LiveRoot' = LiveRoot
  BY <1>2 DEF LiveRoot, KeepMarks
<1>5. ImageHeads' \in SUBSET (ImageHeads \cup {b})
  BY <1>3, <1>4 DEF ImageHeads
<1>6. Tidy(blockMap', ImageHeads')
  BY <1>1, <1>5, TakenTidy, FewerHeads
<1>7. RootBlock \notin FileHeads'
  BY <1>2, <1>3 DEF SoundMap
<1>8. 0 \in BlockIds
  BY GeometryAssumption
<1>9. QED
  BY <1>2, <1>6, <1>7, <1>8 DEF SoundMap, KeepMarks

LEMMA SoundByChainWork ==
  ASSUME TypeOK, SoundMap, NEW i \in SlotIds, entries[i].blk # 0, NEW d \in Data,
         Rewrite(i, d) \/ Extend(i, d) \/ Shrink(i, d)
  PROVE  SoundMap' /\ KeepMarks
<1> DEFINE h == entries[i].blk
           H == ImageHeads
<1>1. /\ Walkable(H) /\ blockMap \in Maps /\ H \in SUBSET BlockIds /\ Tidy(blockMap, H)
      /\ h \in H /\ h \in FileHeads
  BY SoundWalkable, FileWalkOf DEF FileHeads
<1>2. RootBlock \notin Chain(blockMap, h)
  BY <1>1, RootNotInFiles
<1>3. \A c \in Chain(blockMap, h) : c \in BlockIds /\ Allocated(blockMap, c)
  BY <1>1, ChainEnds
<1>4. KeepHeads
  BY <1>1, ChainWork
<1>5. CASE UNCHANGED blockMap
  BY <1>1, <1>4, <1>5, SoundByHeads DEF KeepMarks
<1>6. ASSUME NEW new \in BlockIds, NEW last \in Chain(blockMap, h),
             blockMap[new] = Free, blockMap[last] = End,
             blockMap' = LinkedTo(blockMap, last, new)
      PROVE  SoundMap' /\ KeepMarks
  <2>1. Tidy(blockMap', H)
    BY <1>1, <1>3, <1>6, LinkedTidy
  <2>2. KeepMarks
    <3>1. last # RootBlock /\ new # RootBlock
      BY <1>2, <1>6, MarksApart DEF SoundMap
    <3>2. \A b \in BlockIds \ {last, new} : blockMap'[b] = blockMap[b]
      BY <1>1, <1>6 DEF LinkedTo, Taken, Maps
    <3>3. QED
      BY <1>6, <3>1, <3>2, MarksApart, GeometryAssumption DEF KeepMarks
  <2>3. QED
    BY <1>4, <2>1, <2>2, SoundByHeads
<1>7. ASSUME NEW cut \in Chain(blockMap, h), blockMap' = CutAfter(blockMap, cut)
      PROVE  SoundMap' /\ KeepMarks
  <2>1. Tidy(blockMap', H)
    BY <1>1, <1>3, <1>7, CutTidy
  <2>2. Chain(blockMap, cut) \subseteq Chain(blockMap, h)
    BY <1>1, <1>3, ChainTail, ChainClosed
  <2>3. \A b \in BlockIds \ Chain(blockMap, h) : blockMap'[b] = blockMap[b]
    BY <1>7, <2>2 DEF CutAfter
  <2>4. KeepMarks
    BY <1>2, <1>3, <2>3, GeometryAssumption DEF KeepMarks, Allocated
  <2>5. QED
    BY <1>4, <2>1, <2>4, SoundByHeads
<1>8. QED
  BY <1>1, <1>5, <1>6, <1>7, ChainWork

LEMMA SoundFileAdd ==
  ASSUME TypeOK, SoundMap, NEW n \in Names, FileAdd(n)
  PROVE  TypeOK' /\ SoundMap' /\ KeepMarks
<1> SUFFICES SoundMap' /\ KeepMarks
  BY FileAddTypes
<1>1. CASE KeepHeads /\ UNCHANGED blockMap
  BY <1>1, SoundByHeads DEF SoundMap, KeepMarks
<1>2. CASE UNCHANGED <<blockMap, entries, count, disk>>
  BY <1>1, <1>2 DEF KeepHeads
<1>3. ASSUME count \in SlotIds, NEW b \in BlockIds, NewHead(count, b)
      PROVE  SoundMap' /\ KeepMarks
  BY <1>3, SoundByNewHead
<1>4. QED
  BY <1>1, <1>2, <1>3, FileAddEffect

LEMMA SoundFileSetData ==
  ASSUME TypeOK, SoundMap, NEW i \in SlotIds, NEW d \in Data, FileSetData(i, d)
  PROVE  TypeOK' /\ SoundMap' /\ KeepMarks
<1>1. Walkable(ImageHeads)
  BY SoundWalkable
<1> SUFFICES SoundMap' /\ KeepMarks
  BY <1>1, FileSetDataTypes
<1>2. CASE KeepHeads /\ UNCHANGED blockMap
  BY <1>2, SoundByHeads DEF SoundMap, KeepMarks
<1>3. CASE UNCHANGED <<blockMap, entries, count, disk>>
  BY <1>2, <1>3 DEF KeepHeads
<1>4. CASE SetLength(i, 0) /\ UNCHANGED blockMap
  BY <1>2, <1>4, SetLengthType
<1>5. QED
  BY <1>1, <1>3, <1>4, SoundByNewHead, SoundByChainWork, FileSetDataEffect

-----------------------------------------------------------------------------
(* The invariant is kept *)

LEMMA JobsTyped ==
  ASSUME NEW S \in SUBSET Slots, NEW needs \in [S -> Rests]
  PROVE  JobsOf(needs) \in Seq(Job)
<1> DEFINE turn(s, k) == IF s \in DOMAIN needs
                         THEN <<[slot |-> s, rest |-> needs[s], pass |-> k]>> ELSE <<>>
           all(k)     == turn(1, k) \o turn(2, k)
<1>1. ASSUME NEW s \in Slots, NEW k \in {6, 7}
      PROVE  turn(s, k) \in Seq(Job)
  <2>1. CASE s \in DOMAIN needs
    <3>1. [slot |-> s, rest |-> needs[s], pass |-> k] \in Job
      BY <2>1 DEF Job
    <3>2. QED
      BY <2>1, <3>1
  <2>2. CASE s \notin DOMAIN needs
    BY <2>2
  <2>3. QED
    BY <2>1, <2>2
<1>2. all(6) \in Seq(Job) /\ all(7) \in Seq(Job)
  <2>1. turn(1, 6) \in Seq(Job) /\ turn(2, 6) \in Seq(Job)
        /\ turn(1, 7) \in Seq(Job) /\ turn(2, 7) \in Seq(Job)
    BY <1>1 DEF Slots
  <2> HIDE DEF turn
  <2>2. QED
    BY <2>1
<1>3. all(6) \o all(7) \in Seq(Job)
  <2> HIDE DEF all
  <2>1. QED
    BY <1>2
<1>4. QED
  BY <1>3 DEF JobsOf

LEMMA InitSound == ImageInit => ImageInv
<1> SUFFICES ASSUME ImageInit
             PROVE  ImageInv
  OBVIOUS
<1>1. RInv
  BY RootInitInvariant DEF ImageInit
<1>2. RootTypeOK
  BY <1>1 DEF RInv, IInv, SavedStructure, Maps, RootTypeOK
<1>3. phase \in Phases /\ phase # "setting" /\ payloads = <<>> /\ jobs = <<>>
  BY DEF ImageInit, Phases
<1>4. tags \in [BlockIds -> Nat]
  BY ImageAssumption DEF ImageInit, NoTags
<1>5. Types
  BY <1>2, <1>3, <1>4 DEF Types
<1>6. /\ \A i \in SlotIds : entries[i].blk = 0
      /\ \A b \in BlockIds : blockMap[b] = IF b = RootBlock THEN End
                               ELSE IF b \in SystemBlocks THEN Reserved ELSE Free
  BY GeometryAssumption DEF ImageInit, RootInit, Init
<1>7. ImageHeads = {RootBlock} /\ RootBlock \notin FileHeads
  BY <1>6, GeometryAssumption DEF ImageHeads, FileHeads, LiveRoot
<1>8. SoundMap
  <2>1. blockMap[0] = Reserved /\ blockMap[RootBlock] = End
    BY <1>6, GeometryAssumption
  <2>2. Heads = {RootBlock}
    BY <1>6, GeometryAssumption DEF Heads, IsHead
  <2>3. Tidy(blockMap, ImageHeads)
    BY <1>1, <1>7, <2>2 DEF RInv, IInv, Structure
  <2>4. QED
    BY <1>7, <2>1, <2>3 DEF SoundMap
<1>9. SoundPayloads
  BY <1>3, <1>6, MarksApart, GeometryAssumption DEF SoundPayloads, LaidOver
<1>10. QED
  BY <1>5, <1>8, <1>9 DEF ImageInv

LEMMA PayloadNumbers ==
  ASSUME NEW p \in Payload
  PROVE  p.at \in Int /\ p.blocks \in Int
BY DEF Payload

LEMMA PayloadFits ==
  ASSUME NEW p \in PayloadFiles, PayloadAddFile(p)
  PROVE  /\ p \in Payload
         /\ fault = "none" /\ fault' \in {"none", "overrun"}
         /\ UNCHANGED <<entries, count, disk, reply, savedMap, savedDir, rootState,
                        waiting, jobs, tags>>
BY ImageAssumption DEF PayloadAddFile, Running

\* A payload is marked while there is no file.
LEMMA PayloadSound ==
  ASSUME ImageInv, NEW p \in PayloadFiles, PayloadAddFile(p)
  PROVE  ImageInv'
<1>0. p \in Payload /\ fault' \in Faults
  BY PayloadFits DEF Faults
<1>1. phase \in {"mobile", "payloads"} /\ phase' = "payloads" /\ phase # "loaded"
  BY DEF PayloadAddFile
<1>2. Types /\ SoundMap /\ SoundPayloads /\ Filling
  BY <1>1 DEF ImageInv, Filling
<1>3. CASE UNCHANGED <<payloads, blockMap>>
  <2>1. Types'
    BY <1>0, <1>1, <1>2, <1>3, PayloadFits DEF Types, Phases, RootTypeOK, TypeOK
  <2>2. SoundMap' /\ SoundPayloads'
    BY <1>1, <1>2, <1>3
       DEF SoundMap, SoundPayloads, ImageHeads, FileHeads, LiveRoot, LaidOver, PayloadAddFile
  <2>3. QED
    BY <2>1, <2>2 DEF ImageInv
<1>4. CASE payloads' = Append(payloads, p) /\ blockMap' = Marked(blockMap, p)
  <2>1. \A b \in BlockIds :
          blockMap'[b] = IF b \in Covered(p) THEN Reserved ELSE blockMap[b]
    BY <1>4 DEF Marked
  <2>2. blockMap' \in [BlockIds -> Words]
    <3>1. \A b \in BlockIds : blockMap[b] \in Words
      BY <1>2 DEF Types, RootTypeOK, TypeOK
    <3>2. QED
      BY <1>4, <3>1 DEF Marked, Words
  <2>3. payloads' \in Seq(Payload)
    BY <1>0, <1>2, <1>4 DEF Types
  <2>4. \A b \in BlockIds : LaidOver(b)' <=> LaidOver(b) \/ b \in Covered(p)
    <3>1. /\ DOMAIN payloads' = DOMAIN payloads \cup {Len(payloads) + 1}
          /\ Len(payloads) + 1 \notin DOMAIN payloads
          /\ \A k \in DOMAIN payloads : payloads'[k] = payloads[k]
          /\ payloads'[Len(payloads) + 1] = p
      BY <1>2, <1>4 DEF Types
    <3>2. p.at \in Int /\ p.blocks \in Int
      BY <1>0, PayloadNumbers
    <3>3. ASSUME NEW b \in BlockIds
          PROVE  b \in Covered(p) <=> p.at <= b /\ b < p.at + p.blocks
      <4>1. b \in Int
        BY MarksApart
      <4>2. b \in p.at .. (p.at + p.blocks - 1) <=> p.at <= b /\ b < p.at + p.blocks
        BY <3>2, <4>1
      <4>3. QED
        BY <4>2 DEF Covered
    <3>4. QED
      BY <3>1, <3>3 DEF LaidOver
  <2>5. Types'
    BY <1>0, <1>1, <1>2, <2>2, <2>3, PayloadFits DEF Types, Phases, RootTypeOK, TypeOK
  <2>6. FileHeads = {} /\ FileHeads' = {}
    BY <1>2 DEF SoundPayloads, FileHeads, PayloadAddFile
  <2>7. \A b \in BlockIds : blockMap'[b] \notin BlockIds
    BY <1>2, <2>1, MarksApart DEF SoundPayloads
  <2>8. SoundMap'
    <3>1. blockMap'[0] = Reserved /\ blockMap'[RootBlock] \in {End, Reserved}
      BY <1>2, <2>1, GeometryAssumption DEF SoundMap
    <3>2. ImageHeads' \in SUBSET {RootBlock}
          /\ (RootBlock \in ImageHeads' => blockMap'[RootBlock] = End)
      BY <2>6 DEF ImageHeads, LiveRoot
    <3>3. Tidy(blockMap', ImageHeads')
      BY <2>7, <3>2, MarksApart, GeometryAssumption DEF Tidy, Allocated
    <3>4. QED
      BY <2>6, <3>1, <3>3 DEF SoundMap
  <2>9. SoundPayloads'
    <3>1. \A b \in BlockIds : LaidOver(b)' => blockMap'[b] = Reserved
      BY <1>2, <2>1, <2>4 DEF SoundPayloads
    <3>2. blockMap'[RootBlock] = Reserved => LaidOver(RootBlock)'
      BY <1>2, <2>1, <2>4, GeometryAssumption DEF SoundPayloads
    <3>3. \A i \in SlotIds : entries'[i].blk = 0
      BY <1>2 DEF SoundPayloads, PayloadAddFile
    <3>4. QED
      BY <2>7, <3>1, <3>2, <3>3 DEF SoundPayloads
  <2>10. QED
    BY <2>5, <2>8, <2>9 DEF ImageInv
<1>5. QED
  BY <1>3, <1>4 DEF PayloadAddFile

\* Marking the blocks of the payloads once more changes nothing.
LEMMA MarkedAlready ==
  ASSUME ImageInv, phase # "loaded"
  PROVE  MarkedAll(blockMap, payloads) = blockMap
<1>1. blockMap \in [BlockIds -> Words] /\ payloads \in Seq(Payload) /\ SoundPayloads
  BY DEF ImageInv, Types, RootTypeOK, TypeOK
<1>2. ASSUME NEW b \in BlockIds, NEW k \in DOMAIN payloads, b \in Covered(payloads[k])
      PROVE  blockMap[b] = Reserved
  <2>1. payloads[k] \in Payload
    BY <1>1
  <2>2. payloads[k].at \in Int /\ payloads[k].blocks \in Int
    BY <2>1, PayloadNumbers
  <2>3. payloads[k].at <= b /\ b < payloads[k].at + payloads[k].blocks
    BY <1>2, <2>2, MarksApart DEF Covered
  <2>4. LaidOver(b)
    BY <2>3 DEF LaidOver
  <2>5. QED
    BY <1>1, <2>4 DEF SoundPayloads
<1>3. QED
  BY <1>1, <1>2 DEF MarkedAll

\* What a step of the file system leaves when it keeps the payloads.
LEMMA AfterCall ==
  ASSUME ImageInv, phase # "loaded", Types', SoundMap', KeepMarks,
         UNCHANGED payloads, ~ Filling'
  PROVE  ImageInv'
<1>1. SoundPayloads
  BY DEF ImageInv
<1>2. \A b \in BlockIds : LaidOver(b)' <=> LaidOver(b)
  BY DEF LaidOver
<1>3. SoundPayloads'
  BY <1>1, <1>2, GeometryAssumption DEF SoundPayloads, KeepMarks
<1>4. QED
  BY <1>3 DEF ImageInv

LEMMA CallSound ==
  ASSUME ImageInv, phase # "loaded", TypeOK', SoundMap', KeepMarks,
         RootWritten, UNCHANGED <<savedMap, savedDir, payloads, tags>>,
         ~ Filling', phase' \in Phases, jobs' \in Seq(Job),
         phase' = "setting" => count' > 0
  PROVE  ImageInv'
<1>1. RootTypeOK'
  BY CallTypes DEF ImageInv, Types
<1>2. Types'
  BY <1>1 DEF ImageInv, Types
<1>3. QED
  BY <1>2, AfterCall

\* A file that got no block is in the directory.
LEMMA AddedWithoutBlock ==
  ASSUME TypeOK, NEW n \in Names, FileAdd(n), fault' = "none", reply'.code = 0
  PROVE  count' > 0
<1>1. count \in Nat
  BY DEF TypeOK
<1>2. CASE count' = count + 1
  BY <1>1, <1>2
<1>3. CASE Returns(1)
  <2>1. reply'.code = 1
    BY <1>3 DEF Returns
  <2>2. QED
    BY <2>1
<1>4. CASE Fails("overflow")
  BY <1>4 DEF Fails
<1>5. QED
  BY <1>2, <1>3, <1>4 DEF FileAdd

LEMMA IniFileSound ==
  ASSUME ImageInv, NEW n \in Names, AddIniFile(n)
  PROVE  ImageInv'
<1>1. TypeOK /\ SoundMap /\ phase # "loaded" /\ jobs \in Seq(Job)
  BY DEF AddIniFile, ImageInv, Types, RootTypeOK
<1>2. TypeOK' /\ SoundMap' /\ KeepMarks
  BY <1>1, SoundFileAdd DEF AddIniFile, AddFile
<1>3. phase' = "setting" => count' > 0
  BY <1>1, AddedWithoutBlock DEF AddIniFile, AddFile
<1>4. phase' \in {"setting", "files"}
  BY DEF AddIniFile
<1>5. /\ RootWritten /\ UNCHANGED <<savedMap, savedDir, payloads, tags, jobs>>
      /\ ~ Filling' /\ phase' \in Phases
  BY <1>4 DEF AddIniFile, AddFile, Filling, Phases, ini
<1>6. QED
  BY <1>1, <1>2, <1>3, <1>5, CallSound

LEMMA IniDataSound ==
  ASSUME ImageInv, NEW d \in Data, SetIniFile(d)
  PROVE  ImageInv'
<1>1. TypeOK /\ SoundMap /\ phase # "loaded" /\ count > 0 /\ jobs \in Seq(Job)
  BY DEF SetIniFile, ImageInv, Types, RootTypeOK
<1>2. count - 1 \in SlotIds
  BY <1>1, GeometryAssumption DEF TypeOK, SlotIds
<1>3. TypeOK' /\ SoundMap' /\ KeepMarks
  BY <1>1, <1>2, SoundFileSetData DEF SetIniFile, SetFile
<1>4. /\ RootWritten /\ UNCHANGED <<savedMap, savedDir, payloads, tags, jobs>>
      /\ ~ Filling' /\ phase' \in Phases /\ phase' # "setting"
  BY DEF SetIniFile, SetFile, Filling, Phases, ini
<1>5. QED
  BY <1>1, <1>3, <1>4, CallSound

\* The slots of the directory that FindEntry finds.
LEMMA FoundSlots ==
  ASSUME TypeOK, NEW n, NEW i \in FindEntry(n)
  PROVE  i \in SlotIds
BY GeometryAssumption DEF TypeOK, FindEntry, SlotIds

LEMMA JobData ==
  ASSUME jobs \in Seq(Job), jobs # <<>>
  PROVE  /\ UpdateFile[Head(jobs).slot] \in Names
         /\ Head(jobs).rest \in Data /\ JunkOf[Head(jobs).rest] \in Data
         /\ Tail(jobs) \in Seq(Job)
<1>1. Head(jobs) \in Job /\ Tail(jobs) \in Seq(Job)
  OBVIOUS
<1>2. Head(jobs).slot \in Slots /\ Head(jobs).rest \in Rests
  BY <1>1 DEF Job
<1>3. /\ UpdateFile \in [Slots -> Names] /\ Rests \subseteq Data
      /\ JunkOf \in [Rests -> Data \ Rests]
  BY ImageAssumption
<1>4. QED
  BY <1>1, <1>2, <1>3

LEMMA Update6BLSound ==
  ASSUME ImageInv, SaveUpdate6BL
  PROVE  ImageInv'
<1>1. /\ TypeOK /\ SoundMap /\ phase = "saving" /\ jobs \in Seq(Job) /\ jobs # <<>>
      /\ phase' = phase /\ UNCHANGED <<payloads, tags>>
  BY DEF SaveUpdate6BL, ImageInv, Types, RootTypeOK, ini
<1>2. ~ Filling' /\ phase' \in Phases /\ phase' # "setting" /\ phase # "loaded"
  BY <1>1 DEF Filling, Phases
<1>3. ASSUME NEW i \in FindEntry(UpdateFile[Head(jobs).slot]),
             SetFile(i, JunkOf[Head(jobs).rest]), jobs' = Tail(jobs)
      PROVE  ImageInv'
  <2>0. i \in SlotIds /\ JunkOf[Head(jobs).rest] \in Data
    BY <1>1, FoundSlots, JobData
  <2>1. TypeOK' /\ SoundMap' /\ KeepMarks
    BY <1>1, <1>3, <2>0, SoundFileSetData DEF SetFile
  <2>2. jobs' \in Seq(Job)
    BY <1>1, <1>3, JobData
  <2>3. QED
    BY <1>1, <1>2, <1>3, <2>1, <2>2, CallSound DEF SetFile
<1>4. ASSUME AddFile(UpdateFile[Head(jobs).slot]), jobs' \in {jobs, <<>>}
      PROVE  ImageInv'
  <2>1. TypeOK' /\ SoundMap' /\ KeepMarks
    BY <1>1, <1>4, JobData, SoundFileAdd DEF AddFile
  <2>2. jobs' \in Seq(Job)
    <3>1. <<>> \in Seq(Job)
      OBVIOUS
    <3>2. CASE jobs' = <<>>
      BY <3>1, <3>2
    <3>3. CASE jobs' = jobs
      BY <1>1, <3>3
    <3>4. QED
      BY <1>4, <3>2, <3>3
  <2>3. QED
    BY <1>1, <1>2, <1>4, <2>1, <2>2, CallSound DEF AddFile
<1>5. QED
  BY <1>3, <1>4 DEF SaveUpdate6BL

LEMMA Update7BLSound ==
  ASSUME ImageInv, SaveUpdate7BL
  PROVE  ImageInv'
<1>1. /\ TypeOK /\ SoundMap /\ phase = "saving" /\ jobs \in Seq(Job) /\ jobs # <<>>
      /\ phase' = phase /\ UNCHANGED <<payloads, tags>>
  BY DEF SaveUpdate7BL, ImageInv, Types, RootTypeOK, ini
<1>2. ~ Filling' /\ phase' \in Phases /\ phase' # "setting" /\ phase # "loaded"
  BY <1>1 DEF Filling, Phases
<1>3. PICK i \in FindEntry(UpdateFile[Head(jobs).slot]) : SetFile(i, Head(jobs).rest)
  BY DEF SaveUpdate7BL
<1>4. TypeOK' /\ SoundMap' /\ KeepMarks
  BY <1>1, <1>3, FoundSlots, JobData, SoundFileSetData DEF SetFile
<1>5. jobs' \in Seq(Job)
  <2>1. jobs' = <<>> \/ jobs' = Tail(jobs)
    BY DEF SaveUpdate7BL
  <2>2. Tail(jobs) \in Seq(Job) /\ <<>> \in Seq(Job)
    BY <1>1, JobData
  <2>3. QED
    BY <2>1, <2>2
<1>6. QED
  BY <1>1, <1>2, <1>3, <1>4, <1>5, CallSound DEF SetFile

LEMMA SavingPayloads ==
  ASSUME SavePayloads
  PROVE  /\ fault = "none" /\ phase \in {"mobile", "payloads", "files"}
         /\ UNCHANGED <<payloads, waiting, tags, entries, count, disk, reply,
                        savedMap, savedDir, rootState>>
         /\ fault' = IF Overrun THEN "overrun" ELSE "none"
         /\ \/ /\ phase' = "saving"
               /\ \E S \in SUBSET Slots : \E needs \in [S -> Rests] : jobs' = JobsOf(needs)
            \/ phase' = "cut" /\ jobs' = <<>>
BY DEF SavePayloads, ini, Running

LEMMA PayloadsSaveSound ==
  ASSUME ImageInv, SavePayloads
  PROVE  ImageInv'
<1>1. /\ phase # "loaded" /\ phase' \in {"saving", "cut"} /\ fault' \in Faults
      /\ UNCHANGED <<payloads, tags, rootState, entries, count, disk, reply,
                     savedMap, savedDir>>
  BY SavingPayloads DEF Faults
<1>2. blockMap' = blockMap
  BY <1>1, MarkedAlready DEF SavePayloads
<1>3. jobs' \in Seq(Job)
  <2>1. <<>> \in Seq(Job)
    OBVIOUS
  <2>2. QED
    BY <2>1, JobsTyped, SavingPayloads
<1>4. ~ Filling' /\ phase' \in Phases /\ phase' # "setting"
  BY <1>1 DEF Filling, Phases
<1>5. Types'
  BY <1>1, <1>2, <1>3, <1>4 DEF ImageInv, Types, RootTypeOK, TypeOK
<1>6. SoundMap' /\ KeepMarks
  BY <1>1, <1>2 DEF ImageInv, SoundMap, ImageHeads, FileHeads, LiveRoot, KeepMarks
<1>7. QED
  BY <1>1, <1>4, <1>5, <1>6, AfterCall

LEMMA SaveKeepsMap ==
  ASSUME SoundMap, Save
  PROVE  UNCHANGED <<blockMap, entries, count>> /\ SoundMap' /\ KeepMarks
<1>1. UNCHANGED <<blockMap, entries, count>>
  BY DEF Save, Fails
<1>2. QED
  BY <1>1 DEF SoundMap, ImageHeads, FileHeads, LiveRoot, KeepMarks

LEMMA FileSystemsSaveSound ==
  ASSUME ImageInv, SaveFileSystems
  PROVE  ImageInv'
<1>1. /\ phase # "loaded" /\ UNCHANGED <<payloads, jobs>>
      /\ Types /\ RootTypeOK /\ TypeOK /\ SoundMap
  BY DEF SaveFileSystems, ini, ImageInv, Types, RootTypeOK
<1>2. phase' \in {"written", "headerless"}
  BY DEF SaveFileSystems
<1>3. ~ Filling' /\ phase' \in Phases /\ phase' # "setting"
  BY <1>2 DEF Filling, Phases
<1>4. CASE SaveRoots
  <2>1. RootTypeOK' /\ SoundMap' /\ KeepMarks
    BY <1>1, <1>4, SaveTypes, SaveKeepsMap DEF SaveRoots
  <2>2. tags' \in [BlockIds -> Nat]
    BY <1>1, <1>4 DEF SaveRoots, Types
  <2>3. Types'
    BY <1>1, <1>3, <2>1, <2>2 DEF Types
  <2>4. QED
    BY <1>1, <1>3, <2>1, <2>3, AfterCall
<1>5. ASSUME NEW b \in BlockIds, AllocatesBlock(blockMap, b), blockMap' = Taken(blockMap, b),
             UNCHANGED <<entries, count, disk, reply, fault,
                         savedMap, savedDir, rootState, tags>>
      PROVE  ImageInv'
  <2>1. /\ blockMap \in Maps /\ ImageHeads \in SUBSET BlockIds
        /\ Tidy(blockMap, ImageHeads) /\ blockMap[b] = Free
    BY <1>1, <1>5, SoundWalkable DEF Walkable, TypeOK, Maps, AllocatesBlock, FreeBlocks
  <2>2. blockMap' \in Maps /\ Tidy(blockMap', ImageHeads)
    <3>1. blockMap' \in Maps /\ Tidy(blockMap', ImageHeads \cup {b})
      BY <1>5, <2>1, TakenTidy
    <3>2. QED
      BY <3>1, FewerHeads
  <2>3. KeepMarks
    BY <1>1, <1>5, <2>1, MarksApart, GeometryAssumption DEF KeepMarks, SoundMap, Taken, Maps
  <2>4. KeepHeads
    BY <1>5 DEF KeepHeads
  <2>5. SoundMap'
    BY <1>1, <2>2, <2>3, <2>4, SoundByHeads
  <2>6. Types'
    BY <1>1, <1>3, <1>5, <2>2 DEF Types, RootTypeOK, TypeOK, Maps
  <2>7. QED
    BY <1>1, <1>3, <2>3, <2>5, <2>6, AfterCall
<1>6. CASE UNCHANGED <<rootVars, tags>>
  <2>1. Types'
    BY <1>1, <1>3, <1>6 DEF Types, RootTypeOK, TypeOK, rootVars, vars
  <2>2. SoundMap' /\ KeepMarks
    BY <1>1, <1>6 DEF SoundMap, ImageHeads, FileHeads, LiveRoot, KeepMarks, rootVars, vars
  <2>3. QED
    BY <1>1, <1>3, <2>1, <2>2, AfterCall
<1>7. QED
  BY <1>4, <1>5, <1>6 DEF SaveFileSystems

LEMMA LoadCases ==
  ASSUME LoadFileSystems
  PROVE  /\ Running /\ phase \in {"written", "opening"}
         /\ UNCHANGED <<waiting, payloads, jobs, tags>>
         /\ \/ /\ TooMany /\ Fails("overflow")
               /\ UNCHANGED <<savedMap, savedDir, rootState, phase, mobiles>>
            \/ phase' = "loaded" /\ (Load \/ UNCHANGED rootVars)
BY Zenon DEF LoadFileSystems, ini

LEMMA LoadSound ==
  ASSUME ImageInv, LoadFileSystems
  PROVE  ImageInv'
<1>1. /\ Types /\ phase # "loaded" /\ phase # "setting" /\ ~ Filling
      /\ UNCHANGED <<payloads, jobs, tags>>
  BY LoadCases DEF ImageInv, Filling
<1>2. CASE Fails("overflow") /\ UNCHANGED <<savedMap, savedDir, rootState, phase>>
  <2>1. Types'
    BY <1>1, <1>2 DEF Types, RootTypeOK, TypeOK, Fails, Faults
  <2>2. SoundMap' /\ KeepMarks
    BY <1>1, <1>2 DEF ImageInv, Fails, SoundMap, ImageHeads, FileHeads, LiveRoot, KeepMarks
  <2>3. ~ Filling'
    BY <1>1, <1>2 DEF Filling
  <2>4. QED
    BY <1>1, <2>1, <2>2, <2>3, AfterCall
<1>3. CASE phase' = "loaded" /\ (Load \/ UNCHANGED rootVars)
  <2>1. RootTypeOK'
    <3>1. CASE Load
      BY <1>1, <3>1, LoadTypes DEF Types
    <3>2. CASE UNCHANGED rootVars
      BY <1>1, <3>2 DEF Types, RootTypeOK, TypeOK, rootVars, vars
    <3>3. QED
      BY <1>3, <3>1, <3>2
  <2>2. Types'
    BY <1>1, <1>3, <2>1 DEF Types, Phases
  <2>3. QED
    BY <1>3, <2>2 DEF ImageInv
<1>4. QED
  BY <1>2, <1>3, LoadCases

LEMMA ImageInductive == ImageInv /\ [ImageNext]_imgVars => ImageInv'
<1> SUFFICES ASSUME ImageInv, [ImageNext]_imgVars
             PROVE  ImageInv'
  OBVIOUS
<1>1. ASSUME UNCHANGED <<rootVars, phase, payloads, jobs, tags>>
      PROVE  ImageInv'
  BY <1>1 DEF rootVars, vars, ImageInv, Types, RootTypeOK, TypeOK, SoundMap, ImageHeads,
              FileHeads, LiveRoot, SoundPayloads, LaidOver, Filling
<1>2. ASSUME NEW t \in MobileTypes, MobileAddFile(t)
      PROVE  ImageInv'
  BY <1>1, <1>2 DEF MobileAddFile
<1>3. CASE UNCHANGED imgVars
  BY <1>1, <1>3 DEF imgVars, ini
<1>4. QED
  BY <1>2, <1>3, PayloadSound, IniFileSound, IniDataSound, PayloadsSaveSound,
     Update6BLSound, Update7BLSound, FileSystemsSaveSound, LoadSound DEF ImageNext

LEMMA ImageInvHolds == ImageSpec => []ImageInv
BY InitSound, ImageInductive, PTL DEF ImageSpec

-----------------------------------------------------------------------------
(* Payloads and files *)

\* Until the image is loaded no file has a block a payload is laid over, although
\* PayloadAddFile compares the two nowhere: the marks in the block map keep them
\* apart, whatever the ini file adds and however the update files grow.
THEOREM PayloadsKeepApart == ImageSpec => []PayloadsApart
<1>1. ImageInv => PayloadsApart
  <2> SUFFICES ASSUME ImageInv, phase # "loaded", NEW i \in SlotIds, entries[i].blk # 0,
                      NEW b \in Chain(blockMap, entries[i].blk), LaidOver(b)
               PROVE  FALSE
    BY DEF PayloadsApart
  <2>1. TypeOK /\ SoundMap /\ SoundPayloads
    BY DEF ImageInv, Types, RootTypeOK
  <2>2. /\ blockMap \in Maps /\ ImageHeads \in SUBSET BlockIds
        /\ Tidy(blockMap, ImageHeads) /\ entries[i].blk \in ImageHeads
    BY <2>1, SoundWalkable, FileWalkOf
  <2>3. b \in BlockIds /\ Allocated(blockMap, b)
    BY <2>2, ChainEnds
  <2>4. QED
    BY <2>1, <2>3 DEF SoundPayloads, Allocated
<1>2. QED
  BY <1>1, ImageInvHolds, PTL

-----------------------------------------------------------------------------
(* What goes wrong, and why *)

\* Every file has data, and none needs a chain ChainGetChain gives up on.
Fitting == \A d \in Data : 0 < Blocks[d] /\ Blocks[d] < ChainLimit

\* The calls then make no such chain.
Short == Fitting => \A h \in FileHeads : Cardinality(Chain(blockMap, h)) < ChainLimit

\* No root is saved before the file systems are.
Unsaved ==
  phase \in {"mobile", "payloads", "files", "setting", "saving", "cut"} =>
    tags[RootBlock] = 0

\* The two parts of LossExplained.
Outcome ==
  /\ phase \in {"cut", "written"} /\ fault = "none" =>
       (tags[RootBlock] = 0 <=> waiting # {} \/ phase = "cut")
  /\ phase = "headerless" /\ fault = "none" => waiting # {} /\ FreeBlocks(blockMap) = {}

FaultCauses ==
  /\ fault = "wild" => LaidOver(RootBlock) \/ FreeBlocks(blockMap) = {}
  /\ fault = "recursion" => FreeBlocks(blockMap) = {}
  /\ fault = "overrun" => Overrun
  /\ fault = "overflow" => count = MaxEntries \/ TooMany
  /\ fault = "underflow" => ~ Fitting

LossInv ==
  /\ ImageInv
  /\ phase # "loaded" => Short
  /\ Unsaved /\ Outcome /\ FaultCauses

LEMMA FittingIs == ~ Fitting => \E d \in Data : Blocks[d] \notin 1..(ChainLimit - 1)
<1> SUFFICES ASSUME NEW d \in Data, ~ (0 < Blocks[d] /\ Blocks[d] < ChainLimit)
             PROVE  Blocks[d] \notin 1..(ChainLimit - 1)
  BY DEF Fitting
<1>1. Blocks[d] \in Nat /\ ChainLimit \in Nat
  BY DataAssumption, GeometryAssumption
<1>2. QED
  BY <1>1

\* A chain of one block is short.
LEMMA ShortTaken ==
  ASSUME ChainLimit > 1, TypeOK, SoundMap, Short, NEW b \in BlockIds,
         blockMap[b] = Free, blockMap' = Taken(blockMap, b),
         FileHeads' \in SUBSET (FileHeads \cup {b})
  PROVE  Short'
<1> SUFFICES ASSUME Fitting, NEW h \in FileHeads'
             PROVE  Cardinality(Chain(blockMap', h)) < ChainLimit
  BY DEF Short, Fitting
<1>1. /\ blockMap \in Maps /\ ImageHeads \in SUBSET BlockIds
      /\ Tidy(blockMap, ImageHeads) /\ FileHeads \subseteq ImageHeads
  BY SoundWalkable DEF Walkable, TypeOK, Maps, ImageHeads
<1>2. CASE h = b
  <2>1. Chain(blockMap', h) = {b}
    BY <1>1, <1>2, TakenChains
  <2>2. QED
    BY <2>1, FS_Singleton, GeometryAssumption
<1>3. CASE h \in FileHeads
  <2>1. h \in ImageHeads /\ h \in Chain(blockMap, h)
    BY <1>1, <1>3, ChainClosed
  <2>2. Chain(blockMap', h) = Chain(blockMap, h)
    BY <1>1, <2>1, TakenChains
  <2>3. QED
    BY <1>3, <2>2 DEF Short
<1>4. QED
  BY <1>2, <1>3

LEMMA ShortNewHead ==
  ASSUME ChainLimit > 1, TypeOK, SoundMap, Short,
         NEW i \in SlotIds, NEW b \in BlockIds, NewHead(i, b)
  PROVE  Short'
<1>1. FileHeads' \in SUBSET (FileHeads \cup {b})
  BY DEF FileHeads, NewHead
<1>2. QED
  BY <1>1, ShortTaken DEF NewHead, AllocatesBlock, FreeBlocks

LEMMA ShortKept ==
  ASSUME Short, KeepHeads, UNCHANGED blockMap
  PROVE  Short'
BY DEF Short, Fitting, FileHeads, KeepHeads

\* A chain grows and shrinks towards the length of its data.
LEMMA ShortExtend ==
  ASSUME TypeOK, SoundMap, Short, NEW i \in SlotIds, entries[i].blk # 0, NEW d \in Data,
         Extend(i, d)
  PROVE  Short'
<1> DEFINE h == entries[i].blk
<1> SUFFICES ASSUME Fitting, NEW g \in FileHeads'
             PROVE  Cardinality(Chain(blockMap', g)) < ChainLimit
  BY DEF Short, Fitting
<1>1. /\ blockMap \in Maps /\ ImageHeads \in SUBSET BlockIds
      /\ Tidy(blockMap, ImageHeads) /\ h \in ImageHeads /\ h \in BlockIds
      /\ FileHeads \subseteq ImageHeads
  BY SoundWalkable, FileWalkOf DEF ImageHeads
<1>2. g \in FileHeads
  BY DEF FileHeads, Extend
<1>3. PICK new \in BlockIds, last \in Chain(blockMap, h) :
        /\ blockMap[new] = Free /\ blockMap[last] = End
        /\ blockMap' = LinkedTo(blockMap, last, new)
  <2>1. \A c \in Chain(blockMap, h) : Stops(blockMap, c) => blockMap[c] = End
    BY <1>1, ChainEnds DEF Stops, Allocated
  <2>2. QED
    BY <2>1 DEF Extend, AllocatesBlock, FreeBlocks
<1>4. CASE g = h
  <2>1. /\ new \notin Chain(blockMap, h)
        /\ Chain(blockMap', h) = Chain(blockMap, h) \cup {new}
    BY <1>1, <1>3, LinkedChains, ChainClosed
  <2>2. /\ IsFiniteSet(Chain(blockMap, h)) /\ Cardinality(Chain(blockMap, h)) \in Nat
    BY <1>1, ChainFinite
  <2>3. Cardinality(Chain(blockMap', h)) = Cardinality(Chain(blockMap, h)) + 1
    <3> DEFINE S == Chain(blockMap, h)
    <3>1. IsFiniteSet(S) /\ new \notin S
      BY <2>1, <2>2
    <3>2. Cardinality(S \cup {new}) = Cardinality(S) + 1
      BY <3>1, FS_AddElement
    <3>3. QED
      BY <2>1, <3>2
  <2>4. /\ Cardinality(Chain(blockMap, h)) < Blocks[d] /\ Blocks[d] < ChainLimit
        /\ Blocks[d] \in Nat /\ ChainLimit \in Nat
    BY DataAssumption, GeometryAssumption DEF Extend, Fitting
  <2>5. QED
    BY <1>4, <2>2, <2>3, <2>4
<1>5. CASE g # h
  <2>1. g \in ImageHeads \ {h} /\ g \in Chain(blockMap, g)
    BY <1>1, <1>2, <1>5, ChainClosed
  <2>2. Chain(blockMap', g) = Chain(blockMap, g)
    BY <1>1, <1>3, <2>1, LinkedChains
  <2>3. QED
    BY <1>2, <2>2 DEF Short
<1>6. QED
  BY <1>4, <1>5

LEMMA ShortShrink ==
  ASSUME TypeOK, SoundMap, Short, NEW i \in SlotIds, entries[i].blk # 0, NEW d \in Data,
         Shrink(i, d)
  PROVE  Short'
<1> DEFINE h == entries[i].blk
<1> SUFFICES ASSUME Fitting, NEW g \in FileHeads'
             PROVE  Cardinality(Chain(blockMap', g)) < ChainLimit
  BY DEF Short, Fitting
<1>1. /\ Walkable(ImageHeads) /\ blockMap \in Maps /\ ImageHeads \in SUBSET BlockIds
      /\ Tidy(blockMap, ImageHeads) /\ h \in ImageHeads /\ h \in BlockIds
      /\ FileHeads \subseteq ImageHeads
  BY SoundWalkable, FileWalkOf DEF ImageHeads
<1>2. g \in FileHeads
  <2>1. KeepHeads
    BY <1>1, ChainWork
  <2>2. QED
    BY <2>1 DEF FileHeads, KeepHeads
<1>3. PICK cut \in Chain(blockMap, h) :
        /\ Place(blockMap, Chain(blockMap, h), cut) = Blocks[d]
        /\ blockMap' = CutAfter(blockMap, cut)
  BY DEF Shrink
<1>4. CASE g = h
  <2>1. Cardinality(Chain(blockMap', h)) = Blocks[d]
    BY <1>1, <1>3, CutChains
  <2>2. QED
    BY <1>4, <2>1 DEF Fitting
<1>5. CASE g # h
  <2>1. g \in ImageHeads \ {h} /\ g \in Chain(blockMap, g)
    BY <1>1, <1>2, <1>5, ChainClosed
  <2>2. Chain(blockMap', g) = Chain(blockMap, g)
    BY <1>1, <1>3, <2>1, CutChains
  <2>3. QED
    BY <1>2, <2>2 DEF Short
<1>6. QED
  BY <1>4, <1>5

LEMMA ShortFileAdd ==
  ASSUME ChainLimit > 1, TypeOK, SoundMap, Short, NEW n \in Names, FileAdd(n)
  PROVE  Short'
<1>1. CASE UNCHANGED <<blockMap, entries, count, disk>>
  BY <1>1, ShortKept DEF KeepHeads
<1>2. CASE KeepHeads /\ UNCHANGED blockMap
  BY <1>2, ShortKept
<1>3. ASSUME count \in SlotIds, NEW b \in BlockIds, NewHead(count, b)
      PROVE  Short'
  BY <1>3, ShortNewHead
<1>4. QED
  BY <1>1, <1>2, <1>3, FileAddEffect

LEMMA ShortFileSetData ==
  ASSUME ChainLimit > 1, TypeOK, SoundMap, Short, NEW i \in SlotIds, NEW d \in Data,
         FileSetData(i, d)
  PROVE  Short'
<1>1. Walkable(ImageHeads)
  BY SoundWalkable
<1>2. CASE UNCHANGED <<blockMap, entries, count, disk>>
  BY <1>2, ShortKept DEF KeepHeads
<1>3. ASSUME NEW b \in BlockIds, NewHead(i, b)
      PROVE  Short'
  BY <1>3, ShortNewHead
<1>4. ASSUME entries[i].blk # 0, Rewrite(i, d)
      PROVE  Short'
  <2>1. KeepHeads /\ UNCHANGED blockMap
    BY <1>1, <1>4, ChainWork DEF Rewrite
  <2>2. QED
    BY <2>1, ShortKept
<1>5. CASE SetLength(i, 0) /\ UNCHANGED <<blockMap, count, disk>>
  <2>1. KeepHeads
    BY <1>5, SetLengthType
  <2>2. QED
    BY <1>5, <2>1, ShortKept
<1>6. QED
  BY <1>1, <1>2, <1>3, <1>4, <1>5, ShortExtend, ShortShrink, FileSetDataEffect

\* The ways the calls fail.
LEMMA FileAddFaults ==
  ASSUME NEW n \in Names, FileAdd(n)
  PROVE  fault' = "none" \/ (fault' = "overflow" /\ count' = MaxEntries)
<1>1. fault = "none"
  BY DEF FileAdd, Running
<1>2. CASE UNCHANGED fault
  BY <1>1, <1>2
<1>3. CASE count = MaxEntries /\ Fails("overflow")
  BY <1>3 DEF Fails
<1>4. QED
  BY <1>2, <1>3 DEF FileAdd, Returns

LEMMA FileSetDataFaults ==
  ASSUME TypeOK, SoundMap, Short, NEW i \in SlotIds, NEW d \in Data, FileSetData(i, d)
  PROVE  \/ fault' = "none"
         \/ fault' \in {"wild", "recursion"} /\ FreeBlocks(blockMap') = {}
         \/ fault' = "underflow" /\ ~ Fitting
<1> DEFINE b == entries[i].blk
<1>1. Walkable(ImageHeads) /\ fault = "none"
  BY SoundWalkable DEF FileSetData, Running
<1>2. CASE UNCHANGED fault
  BY <1>1, <1>2
<1>3. CASE Exhaust(i, d)
  BY <1>3 DEF Exhaust, Fails
<1>4. CASE Wild(blockMap, b) /\ Fails("wild") /\ (b # 0 \/ FreeBlocks(blockMap) = {})
  <2>1. b = 0
    BY <1>1, <1>4, FileWalkOf
  <2>2. QED
    BY <1>4, <2>1 DEF Fails
<1>5. CASE /\ ~ Wild(blockMap, b) /\ Fails("underflow")
           /\ GivesUp(blockMap, b) <=> Blocks[d] > 0
  <2>1. b \in FileHeads /\ b \in BlockIds /\ blockMap \in Maps
        /\ (GivesUp(blockMap, b) <=> Cardinality(Chain(blockMap, b)) >= ChainLimit)
    BY <1>1, <1>5, FileWalkOf DEF FileHeads
  <2>2. Fitting => /\ Cardinality(Chain(blockMap, b)) < ChainLimit
                   /\ Blocks[d] > 0
    BY <2>1, DataAssumption DEF Short, Fitting
  <2>3. Cardinality(Chain(blockMap, b)) \in Nat /\ ChainLimit \in Nat
    BY <2>1, ChainFinite, GeometryAssumption
  <2>4. ~ Fitting
    BY <1>5, <2>1, <2>2, <2>3
  <2>5. fault' = "underflow"
    BY <1>5 DEF Fails
  <2>6. QED
    BY <2>4, <2>5
<1>6. QED
  BY <1>2, <1>3, <1>4, <1>5
     DEF FileSetData, ChainSetChainData, Rewrite, Extend, Shrink, ClearLength, Derail, Returns

\* A call of the file system, in the words of LossInv.
LEMMA LossAfterCall ==
  ASSUME LossInv, ImageInv', Short', UNCHANGED <<payloads, tags>>,
         phase \in {"mobile", "payloads", "files", "setting", "saving"},
         phase' \in {"files", "setting", "saving"},
         \/ fault' = "none"
         \/ fault' = "overflow" /\ count' = MaxEntries
         \/ fault' \in {"wild", "recursion"} /\ FreeBlocks(blockMap') = {}
         \/ fault' = "underflow" /\ ~ Fitting
  PROVE  LossInv'
<1>1. Unsaved' /\ Outcome'
  BY DEF LossInv, Unsaved, Outcome
<1>2. FaultCauses'
  BY DEF FaultCauses, Fitting
<1>3. QED
  BY <1>1, <1>2 DEF LossInv

LEMMA LossIniFile ==
  ASSUME ChainLimit > 1, LossInv, ImageInv', NEW n \in Names, AddIniFile(n)
  PROVE  LossInv'
<1>1. TypeOK /\ SoundMap /\ Short
  BY DEF AddIniFile, LossInv, ImageInv, Types, RootTypeOK
<1>2. Short' /\ (fault' = "none" \/ (fault' = "overflow" /\ count' = MaxEntries))
  BY <1>1, ShortFileAdd, FileAddFaults DEF AddIniFile, AddFile
<1>3. phase' \in {"files", "setting"} /\ UNCHANGED <<payloads, tags>>
  BY DEF AddIniFile, ini
<1>4. QED
  BY <1>2, <1>3, LossAfterCall DEF AddIniFile

LEMMA LossIniData ==
  ASSUME ChainLimit > 1, LossInv, ImageInv', NEW d \in Data, SetIniFile(d)
  PROVE  LossInv'
<1>1. TypeOK /\ SoundMap /\ Short /\ count > 0
  BY DEF SetIniFile, LossInv, ImageInv, Types, RootTypeOK
<1>2. count - 1 \in SlotIds
  BY <1>1, GeometryAssumption DEF TypeOK, SlotIds
<1>3. /\ Short'
      /\ \/ fault' = "none"
         \/ fault' \in {"wild", "recursion"} /\ FreeBlocks(blockMap') = {}
         \/ fault' = "underflow" /\ ~ Fitting
  BY <1>1, <1>2, ShortFileSetData, FileSetDataFaults DEF SetIniFile, SetFile
<1>4. phase' = "files" /\ UNCHANGED <<payloads, tags>>
  BY DEF SetIniFile, ini
<1>5. QED
  BY <1>3, <1>4, LossAfterCall DEF SetIniFile

LEMMA LossUpdates ==
  ASSUME ChainLimit > 1, LossInv, ImageInv', SaveUpdate6BL \/ SaveUpdate7BL
  PROVE  LossInv'
<1>1. /\ TypeOK /\ SoundMap /\ Short /\ phase = "saving"
      /\ jobs \in Seq(Job) /\ jobs # <<>> /\ phase' = phase /\ UNCHANGED <<payloads, tags>>
  BY DEF SaveUpdate6BL, SaveUpdate7BL, LossInv, ImageInv, Types, RootTypeOK, ini
<1>2. ASSUME NEW i \in FindEntry(UpdateFile[Head(jobs).slot]), NEW d \in Data, SetFile(i, d)
      PROVE  LossInv'
  <2>1. i \in SlotIds
    BY <1>1, FoundSlots
  <2>2. /\ Short'
        /\ \/ fault' = "none"
           \/ fault' \in {"wild", "recursion"} /\ FreeBlocks(blockMap') = {}
           \/ fault' = "underflow" /\ ~ Fitting
    BY <1>1, <1>2, <2>1, ShortFileSetData, FileSetDataFaults DEF SetFile
  <2>3. QED
    BY <1>1, <2>2, LossAfterCall
<1>3. CASE AddFile(UpdateFile[Head(jobs).slot])
  <2>1. Short' /\ (fault' = "none" \/ (fault' = "overflow" /\ count' = MaxEntries))
    BY <1>1, <1>3, JobData, ShortFileAdd, FileAddFaults DEF AddFile
  <2>2. QED
    BY <1>1, <2>1, LossAfterCall
<1>4. Head(jobs).rest \in Data /\ JunkOf[Head(jobs).rest] \in Data
  BY <1>1, JobData
<1>5. QED
  BY <1>2, <1>3, <1>4 DEF SaveUpdate6BL, SaveUpdate7BL

\* Save finds the root alone, unless a payload is laid over it.
LEMMA RootSavedUnlessLaidOver ==
  ASSUME ChainLimit > 1, ImageInv, phase # "loaded", Save
  PROVE  \/ fault' = "none" /\ rootState' = "saved"
         \/ fault' = "wild" /\ LaidOver(RootBlock)
<1>1. /\ TypeOK /\ SoundMap /\ SoundPayloads /\ RootBlock \in BlockIds
      /\ blockMap \in Maps /\ ImageHeads \in SUBSET BlockIds /\ fault = "none"
  BY GeometryAssumption, SoundWalkable
     DEF ImageInv, Types, RootTypeOK, Walkable, TypeOK, Maps, Save, Running
<1>2. CASE blockMap[RootBlock] = End
  <2>1. Chain(blockMap, RootBlock) = {RootBlock}
    BY <1>1, <1>2, ChainStep, MarksApart
  <2>2. ~ GivesUp(blockMap, RootBlock)
    <3>1. Cardinality(Chain(blockMap, RootBlock)) = 1
      BY <2>1, FS_Singleton
    <3>2. Stops(blockMap, RootBlock)
      BY <1>2 DEF Stops
    <3>3. QED
      BY <2>1, <3>1, <3>2, GeometryAssumption DEF GivesUp
  <2>3. RootAlone(blockMap)
    <3>1. RootBlock \in ImageHeads
      BY <1>2 DEF ImageHeads, LiveRoot
    <3>2. QED
      BY <1>1, <1>2, <3>1 DEF RootAlone, Previous, SoundMap, Tidy
  <2>4. rootState' = "saved" /\ Returns(0)
    BY <2>2, <2>3 DEF Save
  <2>5. QED
    BY <1>1, <2>4 DEF Returns
<1>3. CASE blockMap[RootBlock] = Reserved
  <2>1. ~ RootAlone(blockMap)
    BY <1>3 DEF RootAlone, Reserved, End
  <2>2. LaidOver(RootBlock)
    BY <1>1, <1>3 DEF SoundPayloads
  <2>3. QED
    BY <2>1, <2>2 DEF Save, Fails
<1>4. QED
  BY <1>1, <1>2, <1>3 DEF SoundMap

LEMMA LossFileSystems ==
  ASSUME ChainLimit > 1, LossInv, ImageInv', SaveFileSystems
  PROVE  LossInv'
<1>1. /\ TypeOK /\ SoundMap /\ Short /\ ImageInv /\ phase = "saving" /\ fault = "none"
      /\ tags[RootBlock] = 0 /\ tags \in [BlockIds -> Nat] /\ RootBlock \in BlockIds
      /\ UNCHANGED <<waiting, payloads>>
  BY GeometryAssumption
     DEF SaveFileSystems, Running, LossInv, ImageInv, Types, RootTypeOK, Unsaved, ini
<1>2. phase' \in {"written", "headerless"}
  BY DEF SaveFileSystems
<1>3. Unsaved'
  BY <1>2 DEF Unsaved
<1>4. ASSUME SaveRoots,
             \/ waiting = {} /\ phase' = "written"
             \/ waiting # {} /\ FreeBlocks(blockMap) = {} /\ phase' = "headerless"
      PROVE  LossInv'
  <2>1. UNCHANGED <<blockMap, entries, count>>
    BY <1>1, <1>4, SaveKeepsMap DEF SaveRoots
  <2>2. \/ fault' = "none" /\ rootState' = "saved"
        \/ fault' = "wild" /\ LaidOver(RootBlock)
    BY <1>1, <1>4, RootSavedUnlessLaidOver DEF SaveRoots
  <2>3. LaidOver(RootBlock)' <=> LaidOver(RootBlock)
    BY <1>1 DEF LaidOver
  <2>4. FaultCauses'
    BY <2>2, <2>3 DEF FaultCauses
  <2>5. fault' = "none" => tags'[RootBlock] # 0
    BY <1>1, <1>4, <2>2 DEF SaveRoots
  <2>6. CASE waiting = {} /\ phase' = "written"
    <3>1. Outcome'
      BY <1>1, <2>5, <2>6 DEF Outcome
    <3>2. QED
      BY <1>3, <2>1, <2>4, <3>1, <1>1, ShortKept DEF LossInv, KeepHeads
  <2>7. CASE waiting # {} /\ FreeBlocks(blockMap) = {} /\ phase' = "headerless"
    <3>1. Outcome'
      BY <1>1, <2>1, <2>7 DEF Outcome
    <3>2. QED
      BY <1>3, <2>1, <2>4, <3>1, <1>1, ShortKept DEF LossInv, KeepHeads
  <2>8. QED
    BY <1>4, <2>6, <2>7
<1>5. ASSUME waiting # {}, NEW b \in BlockIds, AllocatesBlock(blockMap, b),
             blockMap' = Taken(blockMap, b), phase' = "written",
             UNCHANGED <<entries, fault, tags>>
      PROVE  LossInv'
  <2>1. Short'
    <3>1. FileHeads' \in SUBSET (FileHeads \cup {b})
      BY <1>5 DEF FileHeads
    <3>2. QED
      BY <1>1, <1>5, <3>1, ShortTaken DEF AllocatesBlock, FreeBlocks
  <2>2. Outcome' /\ FaultCauses'
    BY <1>1, <1>5 DEF Outcome, FaultCauses
  <2>3. QED
    BY <1>3, <2>1, <2>2 DEF LossInv
<1>6. ASSUME waiting # {}, phase' = "written", UNCHANGED <<rootVars, tags>>
      PROVE  LossInv'
  <2>1. UNCHANGED <<blockMap, entries, count, fault>>
    BY <1>6 DEF rootVars, vars
  <2>2. Outcome' /\ FaultCauses'
    BY <1>1, <1>6, <2>1 DEF Outcome, FaultCauses
  <2>3. QED
    BY <1>1, <1>3, <2>1, <2>2, ShortKept DEF LossInv, KeepHeads
<1>7. QED
  BY <1>4, <1>5, <1>6 DEF SaveFileSystems

\* What the scans count is in the image, whatever else changes.
LEMMA SameCounts ==
  ASSUME UNCHANGED <<tags, mobiles>>
  PROVE  TooMany' <=> TooMany
<1>1. Roots' = Roots
  BY DEF Roots
<1>2. MobileFound' = MobileFound
  BY DEF MobileFound
<1>3. QED
  BY <1>1, <1>2 DEF TooMany

LEMMA LossLoad ==
  ASSUME LossInv, ImageInv', LoadFileSystems
  PROVE  LossInv'
<1>1. /\ phase \in {"written", "opening"} /\ fault = "none" /\ Short
      /\ UNCHANGED <<waiting, payloads, tags>>
  BY LoadCases DEF LossInv, Running
<1>2. CASE TooMany /\ Fails("overflow") /\ UNCHANGED <<phase, mobiles>>
  <2>1. UNCHANGED <<blockMap, entries>> /\ fault' = "overflow"
    BY <1>2 DEF Fails
  <2>2. TooMany'
    BY <1>1, <1>2, SameCounts
  <2>3. Short' /\ Unsaved' /\ Outcome' /\ FaultCauses'
    BY <1>1, <1>2, <2>1, <2>2, ShortKept DEF KeepHeads, Unsaved, Outcome, FaultCauses
  <2>4. QED
    BY <2>3 DEF LossInv
<1>3. CASE phase' = "loaded" /\ (Load \/ UNCHANGED rootVars)
  <2>1. fault' = "none"
    BY <1>1, <1>3 DEF Load, Returns, rootVars, vars
  <2>2. Unsaved' /\ Outcome' /\ FaultCauses'
    BY <1>3, <2>1 DEF Unsaved, Outcome, FaultCauses
  <2>3. QED
    BY <1>3, <2>2 DEF LossInv
<1>4. QED
  BY <1>2, <1>3, LoadCases

\* Steps that keep the files keep what explains the faults.
LEMMA LossKept ==
  ASSUME LossInv, ImageInv', UNCHANGED <<entries, count, tags, mobiles, fault>>,
         \/ fault = "none"
         \/ UNCHANGED <<blockMap, payloads>>,
         Short', Unsaved', Outcome'
  PROVE  LossInv'
<1>1. CASE fault = "none"
  BY <1>1 DEF LossInv, FaultCauses
<1>2. CASE UNCHANGED <<blockMap, payloads>>
  <2>1. LaidOver(RootBlock)' <=> LaidOver(RootBlock)
    BY <1>2 DEF LaidOver
  <2>2. (TooMany' <=> TooMany) /\ (Overrun' <=> Overrun)
    BY <1>2, SameCounts DEF Overrun, Descriptors
  <2>3. FaultCauses'
    BY <1>2, <2>1, <2>2 DEF LossInv, FaultCauses, Fitting
  <2>4. QED
    BY <2>3 DEF LossInv
<1>3. QED
  BY <1>1, <1>2

LEMMA LossInit == ASSUME ImageInit PROVE LossInv
<1>1. ImageInv /\ fault = "none"
  BY InitSound DEF ImageInit, RootInit, Init
<1>2. FileHeads = {}
  BY DEF FileHeads, ImageInit, RootInit, Init
<1>3. Short
  BY <1>2 DEF Short
<1>4. Unsaved
  BY GeometryAssumption DEF ImageInit, Unsaved, NoTags
<1>5. Outcome /\ FaultCauses
  BY <1>1 DEF ImageInit, Outcome, FaultCauses
<1>6. QED
  BY <1>1, <1>3, <1>4, <1>5 DEF LossInv

\* A payload whose marks run behind the map is one of the payloads from then on.
LEMMA PayloadOverruns ==
  ASSUME payloads \in Seq(Payload), NEW p \in PayloadFiles, PayloadAddFile(p)
  PROVE  fault' \in {"none", "overrun"} /\ (fault' = "overrun" => Overrun')
<1>1. p \in Payload /\ fault = "none" /\ fault' \in {"none", "overrun"}
  BY PayloadFits
<1>2. ASSUME fault' = "overrun"
      PROVE  Overrun'
  <2>1. payloads' = Append(payloads, p) /\ PastMap(p)
    BY <1>1, <1>2 DEF PayloadAddFile
  <2>2. Len(payloads) + 1 \in DOMAIN payloads' /\ payloads'[Len(payloads) + 1] = p
    BY <1>1, <2>1
  <2>3. QED
    BY <2>1, <2>2 DEF Overrun
<1>3. QED
  BY <1>1, <1>2

LEMMA LossInductive ==
  ASSUME ChainLimit > 1, LossInv, [ImageNext]_imgVars
  PROVE  LossInv'
<1>1. ImageInv /\ ImageInv'
  BY ImageInductive DEF LossInv
<1>2. ASSUME NEW t \in MobileTypes, MobileAddFile(t)
      PROVE  LossInv'
  <2>1. phase = "mobile" /\ phase' = "mobile"
        /\ UNCHANGED <<blockMap, entries, count, fault, tags, mobiles, payloads>>
    BY <1>2 DEF MobileAddFile, rootVars, vars
  <2>2. Short' /\ Unsaved' /\ Outcome'
    BY <2>1, ShortKept DEF LossInv, KeepHeads, Unsaved, Outcome
  <2>3. QED
    BY <1>1, <2>1, <2>2, LossKept
<1>3. ASSUME NEW p \in PayloadFiles, PayloadAddFile(p)
      PROVE  LossInv'
  <2>1. /\ phase \in {"mobile", "payloads"} /\ phase' = "payloads"
        /\ UNCHANGED <<entries, count, tags>>
    BY <1>3, PayloadFits DEF PayloadAddFile
  <2>2. FileHeads' = {}
    BY <1>1, <2>1 DEF ImageInv, SoundPayloads, Filling, FileHeads
  <2>3. Short'
    BY <2>2 DEF Short
  <2>4. Unsaved' /\ Outcome'
    BY <2>1 DEF LossInv, Unsaved, Outcome
  <2>5. fault' \in {"none", "overrun"} /\ (fault' = "overrun" => Overrun')
    BY <1>1, <1>3, PayloadOverruns DEF ImageInv, Types
  <2>6. FaultCauses'
    BY <2>5 DEF FaultCauses
  <2>7. QED
    BY <1>1, <2>3, <2>4, <2>6 DEF LossInv
<1>4. CASE SavePayloads
  <2>1. /\ phase \in {"mobile", "payloads", "files"} /\ phase' \in {"saving", "cut"}
        /\ fault' = (IF Overrun THEN "overrun" ELSE "none")
        /\ UNCHANGED <<entries, count, tags, payloads>>
    BY <1>4, SavingPayloads
  <2>2. blockMap' = blockMap
    BY <1>1, <1>4, <2>1, MarkedAlready DEF SavePayloads
  <2>3. Short' /\ Unsaved' /\ Outcome'
    BY <2>1, <2>2, ShortKept DEF LossInv, KeepHeads, Unsaved, Outcome
  <2>4. Overrun' <=> Overrun
    BY <2>1 DEF Overrun, Descriptors
  <2>5. FaultCauses'
    BY <2>1, <2>4 DEF FaultCauses
  <2>6. QED
    BY <1>1, <2>3, <2>5 DEF LossInv
<1>5. CASE UNCHANGED imgVars
  <2>1. UNCHANGED <<blockMap, entries, count, fault, tags, mobiles, payloads, phase, waiting>>
    BY <1>5 DEF imgVars, rootVars, vars, ini
  <2>2. Unsaved' /\ Outcome'
    BY <2>1 DEF LossInv, Unsaved, Outcome
  <2>3. phase' # "loaded" => Short'
    BY <2>1, ShortKept DEF LossInv, KeepHeads
  <2>4. CASE phase = "loaded"
    <3>1. (TooMany' <=> TooMany) /\ (Overrun' <=> Overrun) /\ (LaidOver(RootBlock)' <=> LaidOver(RootBlock))
      BY <2>1, SameCounts DEF Overrun, Descriptors, LaidOver
    <3>2. FaultCauses'
      BY <2>1, <3>1 DEF LossInv, FaultCauses, Fitting
    <3>3. QED
      BY <1>1, <2>2, <2>3, <3>2 DEF LossInv
  <2>5. QED
    BY <1>1, <2>1, <2>2, <2>3, <2>4, LossKept
<1>6. QED
  BY <1>1, <1>2, <1>3, <1>4, <1>5, LossIniFile, LossIniData, LossUpdates,
     LossFileSystems, LossLoad DEF ImageNext

\* An image that was created comes back without its file system only when it has a
\* mobile file or was too short for header or SMC, without its header only when it has
\* a mobile file and no block was left for one.  The program leaves defined behaviour
\* only for the reasons listed: wherever the payloads of the ini file lie, however
\* long they and their names are, in whatever order files are added, and however many
\* loaders, file systems and mobile pages there are.
THEOREM LossOnlyAsExplained ==
  ASSUME ChainLimit > 1
  PROVE  ImageSpec => []LossExplained
<1>1. LossInv => LossExplained
  BY FittingIs DEF LossInv, Outcome, FaultCauses, LossExplained
<1>2. LossInv /\ [ImageNext]_imgVars => LossInv'
  BY LossInductive
<1>3. QED
  BY <1>1, <1>2, LossInit, PTL DEF ImageSpec

-----------------------------------------------------------------------------
(* Counting *)

\* A set of numbers that is not empty has a least one.
LEMMA NatMin ==
  ASSUME NEW T \in SUBSET Nat, T # {}
  PROVE  \E m \in T : \A k \in T : ~ (k < m)
<1>1. PICK m \in T : \A k \in T : <<k, m>> \notin OpToRel(<, Nat)
  BY WFMin, NatLessThanWellFounded, Zenon
<1>2. \A k \in T : ~ (k < m)
  BY <1>1, Zenon DEF OpToRel
<1>3. QED
  BY <1>2

\* What holds at 0 and is passed on holds up to n.
LEMMA CountUp ==
  ASSUME NEW n \in Nat, NEW S, 0 \in S, \A k \in 1..n : k - 1 \in S => k \in S
  PROVE  \A k \in 0..n : k \in S
<1> DEFINE T == {k \in 0..n : k \notin S}
<1>1. T \in SUBSET Nat
  OBVIOUS
<1>2. ASSUME NEW m \in T, \A k \in T : ~ (k < m)
      PROVE  FALSE
  <2>1. m \in 1..n /\ m - 1 \in 0..n /\ m - 1 < m
    OBVIOUS
  <2>2. m - 1 \in S
    BY <1>2, <2>1
  <2>3. QED
    BY <2>1, <2>2
<1>3. T = {}
  <2> HIDE DEF T
  <2>1. QED
    BY <1>1, <1>2, NatMin
<1>4. QED
  BY <1>3

\* A value that is carried along, changed by g at every place.
IsScan(f, n, v0, g) ==
  \A k \in 0..n : f[k] = IF k = 0 THEN v0 ELSE g[<<k, f[k - 1]>>]

\* There is such a scan, so that a function defined by one is what it says.
LEMMA ScanExists ==
  ASSUME NEW n \in Nat, NEW V, NEW v0 \in V, NEW g \in [(1..n) \X V -> V]
  PROVE  \E f \in [0..n -> V] : IsScan(f, n, v0, g)
<1> DEFINE Built(m) == \E f \in [0..m -> V] : IsScan(f, m, v0, g)
           S == {m \in 0..n : Built(m)}
<1>1. 0 \in S
  <2>1. [k \in 0..0 |-> v0] \in [0..0 -> V]
    OBVIOUS
  <2>2. IsScan([k \in 0..0 |-> v0], 0, v0, g)
    BY DEF IsScan
  <2>3. QED
    BY <2>1, <2>2
<1>2. ASSUME NEW m \in 1..n, m - 1 \in S
      PROVE  m \in S
  <2>1. PICK f \in [0..(m - 1) -> V] : IsScan(f, m - 1, v0, g)
    BY <1>2
  <2> DEFINE h == [k \in 0..m |-> IF k = m THEN g[<<m, f[m - 1]>>] ELSE f[k]]
  <2>2. h \in [0..m -> V]
    <3>1. m - 1 \in 0..(m - 1) /\ \A k \in 0..m : k # m => k \in 0..(m - 1)
      OBVIOUS
    <3>2. <<m, f[m - 1]>> \in (1..n) \X V
      BY <3>1
    <3>3. g[<<m, f[m - 1]>>] \in V
      BY <3>2
    <3>4. \A k \in 0..m : h[k] \in V
      BY <3>1, <3>3
    <3>5. QED
      BY <3>4
  <2>3. IsScan(h, m, v0, g)
    <3>1. ASSUME NEW k \in 0..m
          PROVE  h[k] = IF k = 0 THEN v0 ELSE g[<<k, h[k - 1]>>]
      <4>1. CASE k = m
        <5>1. k # 0 /\ k - 1 \in 0..m /\ k - 1 # m
          BY <4>1
        <5>2. h[k - 1] = f[m - 1]
          BY <4>1, <5>1
        <5>3. QED
          BY <4>1, <5>1, <5>2
      <4>2. CASE k # m
        <5>1. k \in 0..(m - 1) /\ h[k] = f[k]
          BY <4>2
        <5>2. k # 0 => k - 1 \in 0..m /\ k - 1 # m /\ h[k - 1] = f[k - 1]
          BY <5>1
        <5>3. QED
          BY <2>1, <5>1, <5>2 DEF IsScan
      <4>3. QED
        BY <4>1, <4>2
    <3>2. QED
      BY <3>1 DEF IsScan
  <2>4. QED
    BY <2>2, <2>3
<1>3. n \in S
  <2>1. \A m \in 0..n : m \in S
    <3> HIDE DEF S
    <3>1. QED
      BY <1>1, <1>2, CountUp
  <2>2. QED
    BY <2>1
<1>4. QED
  BY <1>3

-----------------------------------------------------------------------------
(* The scans of LoadFileSystems *)

\* The scan for the latest file system, place by place.
LEMMA LatestBelowScans ==
  ASSUME tags \in [BlockIds -> Nat]
  PROVE  /\ \A k \in 0..LilBlockCount : LatestBelow[k] \in BlockIds
         /\ LatestBelow[0] = 0
         /\ \A k \in 1..LilBlockCount :
              LET best == LatestBelow[k - 1]
              IN  LatestBelow[k] = IF k - 1 \in Roots /\ (best = 0 \/ tags[k - 1] > tags[best])
                                   THEN k - 1 ELSE best
<1> DEFINE Better(k, best) == k - 1 \in Roots /\ (best = 0 \/ tags[k - 1] > tags[best])
           g == [x \in (1..LilBlockCount) \X BlockIds |->
                   IF Better(x[1], x[2]) THEN x[1] - 1 ELSE x[2]]
<1>1. LilBlockCount \in Nat /\ 0 \in BlockIds
  BY GeometryAssumption
<1>2. g \in [(1..LilBlockCount) \X BlockIds -> BlockIds]
  <2>1. \A k \in 1..LilBlockCount : k - 1 \in BlockIds
    BY <1>1 DEF BlockIds
  <2>2. \A x \in (1..LilBlockCount) \X BlockIds : g[x] \in BlockIds
    BY <2>1
  <2>3. QED
    BY <2>2
<1>3. PICK f \in [0..LilBlockCount -> BlockIds] : IsScan(f, LilBlockCount, 0, g)
  BY <1>1, <1>2, ScanExists
<1>4. ASSUME NEW k \in 1..LilBlockCount
      PROVE  f[k] = IF Better(k, f[k - 1]) THEN k - 1 ELSE f[k - 1]
  <2>1. k \in 0..LilBlockCount /\ k # 0 /\ k - 1 \in 0..LilBlockCount
    BY <1>1
  <2>2. f[k - 1] \in BlockIds
    BY <1>3, <2>1
  <2>3. f[k] = g[<<k, f[k - 1]>>]
    BY <1>3, <2>1 DEF IsScan
  <2>4. \A best \in BlockIds : g[<<k, best>>] = IF Better(k, best) THEN k - 1 ELSE best
    OBVIOUS
  <2> HIDE DEF g, Better
  <2>5. QED
    BY <2>2, <2>3, <2>4
<1>5. f[0] = 0
  <2>1. 0 \in 0..LilBlockCount
    BY <1>1
  <2> HIDE DEF g
  <2>2. QED
    BY <1>3, <2>1 DEF IsScan
<1>6. f = [k \in 0..LilBlockCount |->
             IF k = 0 THEN 0
             ELSE LET best == f[k - 1]
                  IN  IF k - 1 \in Roots /\ (best = 0 \/ tags[k - 1] > tags[best])
                      THEN k - 1 ELSE best]
  <2>1. \A k \in 0..LilBlockCount : k # 0 => k \in 1..LilBlockCount
    BY <1>1
  <2>2. \A k \in 0..LilBlockCount :
          f[k] = IF k = 0 THEN 0 ELSE IF Better(k, f[k - 1]) THEN k - 1 ELSE f[k - 1]
    <3> HIDE DEF Better
    <3>1. QED
      BY <1>4, <1>5, <2>1
  <2>3. f = [k \in 0..LilBlockCount |-> f[k]]
    BY <1>3
  <2> HIDE DEF g
  <2>4. QED
    BY <2>2, <2>3
<1>7. LatestBelow = [k \in 0..LilBlockCount |->
             IF k = 0 THEN 0
             ELSE LET best == LatestBelow[k - 1]
                  IN  IF k - 1 \in Roots /\ (best = 0 \/ tags[k - 1] > tags[best])
                      THEN k - 1 ELSE best]
  BY <1>6, Zenon DEF LatestBelow
<1>8. /\ LatestBelow[0] = 0
      /\ \A k \in 1..LilBlockCount :
           LatestBelow[k] = IF Better(k, LatestBelow[k - 1]) THEN k - 1 ELSE LatestBelow[k - 1]
  <2>1. 0 \in 0..LilBlockCount /\ \A k \in 1..LilBlockCount : k \in 0..LilBlockCount /\ k # 0
    BY <1>1
  <2>2. QED
    BY <1>7, <2>1
<1>9. \A k \in 0..LilBlockCount : LatestBelow[k] \in BlockIds
  <2> DEFINE S == {k \in 0..LilBlockCount : LatestBelow[k] \in BlockIds}
  <2>1. 0 \in S
    BY <1>1, <1>8
  <2>2. ASSUME NEW k \in 1..LilBlockCount, k - 1 \in S
        PROVE  k \in S
    <3>1. k - 1 \in BlockIds /\ k \in 0..LilBlockCount
      BY <1>1 DEF BlockIds
    <3> HIDE DEF Better
    <3>2. QED
      BY <1>8, <2>2, <3>1
  <2>3. \A k \in 0..LilBlockCount : k \in S
    <3> HIDE DEF S
    <3>1. QED
      BY <1>1, <2>1, <2>2, CountUp
  <2>4. QED
    BY <2>3
<1>10. QED
  BY <1>8, <1>9

\* Of the file systems found none is newer than the latest.
LEMMA LatestRootIs ==
  ASSUME tags \in [BlockIds -> Nat], tags[0] = 0
  PROVE  /\ LatestRoot \in BlockIds
         /\ \A b \in Roots : LatestRoot # 0 /\ tags[b] <= tags[LatestRoot]
<1> DEFINE Best(k) == \A b \in Roots : b < k => LatestBelow[k] # 0 /\ tags[b] <= tags[LatestBelow[k]]
           S == {k \in 0..LilBlockCount : Best(k)}
<1>1. LilBlockCount \in Nat /\ Roots \subseteq BlockIds \ {0}
      /\ \A b \in BlockIds : b \in Nat /\ b < LilBlockCount /\ tags[b] \in Nat
  BY GeometryAssumption DEF Roots, BlockIds
<1>2. 0 \in S
  BY <1>1
<1>3. ASSUME NEW k \in 1..LilBlockCount, k - 1 \in S
      PROVE  k \in S
  <2> DEFINE old == LatestBelow[k - 1]
             new == LatestBelow[k]
  <2>1. old \in BlockIds /\ new \in BlockIds /\ k \in Int /\ k \in 0..LilBlockCount
    BY <1>1, <1>3, LatestBelowScans
  <2>2. new = IF k - 1 \in Roots /\ (old = 0 \/ tags[k - 1] > tags[old]) THEN k - 1 ELSE old
    BY LatestBelowScans
  <2>3. \A b \in Roots : b < k => b = k - 1 \/ (old # 0 /\ tags[b] <= tags[old])
    BY <1>1, <1>3, <2>1
  <2> HIDE DEF old, new
  <2>4. \A b \in Roots : b < k => new # 0 /\ tags[b] <= tags[new]
    <3>1. CASE k - 1 \in Roots /\ (old = 0 \/ tags[k - 1] > tags[old])
      BY <1>1, <2>1, <2>2, <2>3, <3>1
    <3>2. CASE ~ (k - 1 \in Roots /\ (old = 0 \/ tags[k - 1] > tags[old]))
      BY <1>1, <2>1, <2>2, <2>3, <3>2
    <3>3. QED
      BY <3>1, <3>2
  <2>5. QED
    BY <2>1, <2>4 DEF new
<1>4. \A k \in 0..LilBlockCount : k \in S
  <2> HIDE DEF S
  <2>1. QED
    BY <1>1, <1>2, <1>3, CountUp
<1>5. Best(LilBlockCount)
  BY <1>1, <1>4
<1>6. LatestBelow[LilBlockCount] \in BlockIds
  BY <1>1, LatestBelowScans
<1>7. QED
  BY <1>1, <1>5, <1>6 DEF LatestRoot

\* The mobile files that are found are files of the image.
LEMMA MobileFoundTyped ==
  ASSUME mobiles \in Seq(Mobile)
  PROVE  MobileFound \in Seq(Mobile)
<1> DEFINE n == Len(mobiles)
           upTo[i \in 0..Len(mobiles)] ==
             IF i = 0 THEN <<>>
             ELSE IF mobiles[i].pages = BlockPages THEN upTo[i - 1]
             ELSE Append(upTo[i - 1], mobiles[i])
           Keep(i, s) == IF mobiles[i].pages = BlockPages THEN s ELSE Append(s, mobiles[i])
           g == [x \in (1..n) \X Seq(Mobile) |-> Keep(x[1], x[2])]
<1>1. n \in Nat /\ <<>> \in Seq(Mobile)
  OBVIOUS
<1>2. \A i \in 1..n, s \in Seq(Mobile) :
        /\ Keep(i, s) \in Seq(Mobile)
        /\ g[<<i, s>>] = Keep(i, s)
  OBVIOUS
<1>3. g \in [(1..n) \X Seq(Mobile) -> Seq(Mobile)]
  <2> HIDE DEF Keep, n
  <2>1. \A x \in (1..n) \X Seq(Mobile) : Keep(x[1], x[2]) \in Seq(Mobile)
    BY <1>2
  <2>2. QED
    BY <2>1
<1> HIDE DEF n, g
<1>4. PICK f \in [0..n -> Seq(Mobile)] : IsScan(f, n, <<>>, g)
  BY <1>1, <1>3, ScanExists
<1> HIDE DEF upTo
<1>5. \A i \in 0..n : f[i] = IF i = 0 THEN <<>> ELSE Keep(i, f[i - 1])
  <2> HIDE DEF Keep
  <2>1. \A i \in 0..n : i # 0 => i \in 1..n /\ i - 1 \in 0..n
    BY <1>1
  <2>2. QED
    BY <1>2, <1>4, <2>1 DEF IsScan
<1>6. f = [i \in 0..n |-> IF i = 0 THEN <<>> ELSE Keep(i, f[i - 1])]
  <2>1. f = [i \in 0..n |-> f[i]]
    BY <1>4
  <2> HIDE DEF Keep
  <2>2. QED
    BY <1>5, <2>1
<1>7. upTo = [i \in 0..n |-> IF i = 0 THEN <<>> ELSE Keep(i, upTo[i - 1])]
  BY <1>6, Zenon DEF upTo, n
<1> HIDE DEF Keep
<1> DEFINE S == {i \in 0..n : upTo[i] \in Seq(Mobile)}
<1>8. 0 \in S
  <2>1. 0 \in 0..n
    BY <1>1
  <2>2. upTo[0] = <<>>
    BY <1>7, <2>1
  <2>3. QED
    BY <1>1, <2>1, <2>2
<1>9. ASSUME NEW i \in 1..n, i - 1 \in S
      PROVE  i \in S
  <2>1. i \in 0..n /\ i # 0
    BY <1>1
  <2>2. upTo[i] = Keep(i, upTo[i - 1])
    BY <1>7, <2>1
  <2>3. QED
    BY <1>2, <1>9, <2>1, <2>2
<1>10. \A i \in 0..n : i \in S
  <2> HIDE DEF S
  <2>1. QED
    BY <1>1, <1>8, <1>9, CountUp
<1>11. upTo[n] \in Seq(Mobile)
  BY <1>1, <1>10
<1>12. QED
  BY <1>11, Zenon DEF MobileFound, n, upTo

\* Of the mobile files of a type in a list none is newer than the latest.
LEMMA LatestMobileIs ==
  ASSUME NEW list \in Seq(Mobile), NEW t
  PROVE  /\ LatestMobile(list, t) \in 0..Len(list)
         /\ \A i \in DOMAIN list : list[i].type = t =>
              IF LatestMobile(list, t) = 0 THEN list[i].seq = 0
              ELSE /\ list[LatestMobile(list, t)].type = t
                   /\ list[i].seq <= list[LatestMobile(list, t)].seq
<1> DEFINE n == Len(list)
           best[i \in 0..Len(list)] ==
             IF i = 0 THEN 0
             ELSE LET b == best[i - 1]
                  IN  IF list[i].type = t /\ list[i].seq > (IF b = 0 THEN 0 ELSE list[b].seq)
                      THEN i ELSE b
           Keep(i, b) ==
             IF list[i].type = t /\ list[i].seq > (IF b = 0 THEN 0 ELSE list[b].seq)
             THEN i ELSE b
           g == [x \in (1..n) \X (0..n) |-> Keep(x[1], x[2])]
<1> HIDE DEF best, g, Keep
<1>1. n \in Nat /\ DOMAIN list = 1..n /\ \A i \in 1..n : list[i].seq \in Nat
  <2>1. n \in Nat /\ DOMAIN list = 1..n
    OBVIOUS
  <2>2. \A i \in 1..n : list[i] \in Mobile
    OBVIOUS
  <2>3. \A m \in Mobile : m.seq \in Nat
    BY DEF Mobile
  <2> HIDE DEF n
  <2>4. QED
    BY <2>1, <2>2, <2>3
<1> USE DEF g, Keep
<1>2. \A i \in 1..n, b \in 0..n : Keep(i, b) \in 0..n /\ g[<<i, b>>] = Keep(i, b)
  <2>1. \A i \in 1..n : i \in 0..n
    BY <1>1
  <2>2. \A i \in 1..n, b \in 0..n : g[<<i, b>>] = Keep(i, b)
    <3> HIDE DEF Keep, n
    <3>1. QED
      OBVIOUS
  <2>3. \A i \in 1..n, b \in 0..n : Keep(i, b) \in 0..n
    <3> HIDE DEF n, g
    <3>1. QED
      BY <2>1
  <2>4. QED
    BY <2>2, <2>3
<1>3. g \in [(1..n) \X (0..n) -> 0..n]
  <2> HIDE DEF Keep, n
  <2>1. \A x \in (1..n) \X (0..n) : Keep(x[1], x[2]) \in 0..n
    BY <1>2
  <2>2. QED
    BY <2>1
<1> HIDE DEF n, g
<1>4. PICK f \in [0..n -> 0..n] : IsScan(f, n, 0, g)
  <2>1. 0 \in 0..n
    BY <1>1
  <2>2. QED
    BY <1>1, <1>3, <2>1, ScanExists
<1>5. \A i \in 0..n : f[i] = IF i = 0 THEN 0 ELSE Keep(i, f[i - 1])
  <2> HIDE DEF Keep
  <2>1. \A i \in 0..n : i # 0 => i \in 1..n /\ i - 1 \in 0..n
    BY <1>1
  <2>2. QED
    BY <1>2, <1>4, <2>1 DEF IsScan
<1>6. f = [i \in 0..n |-> IF i = 0 THEN 0 ELSE Keep(i, f[i - 1])]
  <2>1. f = [i \in 0..n |-> f[i]]
    BY <1>4
  <2> HIDE DEF Keep
  <2>2. QED
    BY <1>5, <2>1
<1>7. best = [i \in 0..n |-> IF i = 0 THEN 0 ELSE Keep(i, best[i - 1])]
  BY <1>6, Zenon DEF best, n
<1> DEFINE Good(b, i) ==
             /\ b \in 0..n
             /\ \A j \in 1..i : list[j].type = t =>
                  IF b = 0 THEN list[j].seq = 0
                  ELSE list[b].type = t /\ list[j].seq <= list[b].seq
             /\ b # 0 => list[b].type = t
           S == {i \in 0..n : Good(best[i], i)}
<1>8. 0 \in S
  <2>1. 0 \in 0..n /\ best[0] = 0
    BY <1>1, <1>7
  <2>2. QED
    BY <2>1
<1>9. ASSUME NEW i \in 1..n, i - 1 \in S
      PROVE  i \in S
  <2>1. i \in 0..n /\ i # 0 /\ \A j \in 1..i : j \in 1..n /\ (j = i \/ j \in 1..(i - 1))
    BY <1>1
  <2>2. best[i] = Keep(i, best[i - 1])
    <3> HIDE DEF Keep
    <3>1. QED
      BY <1>7, <2>1
  <2>3. Good(best[i - 1], i - 1)
    BY <1>9
  <2>4. ASSUME NEW b, NEW c, Good(b, i - 1), c = Keep(i, b)
        PROVE  Good(c, i)
    <3>1. list[i].seq \in Nat /\ (b # 0 => list[b].seq \in Nat)
          /\ \A j \in 1..i : list[j].seq \in Nat
      BY <1>1, <2>1, <2>4
    <3>2. CASE list[i].type = t /\ list[i].seq > (IF b = 0 THEN 0 ELSE list[b].seq)
      BY <2>1, <2>4, <3>1, <3>2
    <3>3. CASE ~ (list[i].type = t /\ list[i].seq > (IF b = 0 THEN 0 ELSE list[b].seq))
      BY <2>1, <2>4, <3>1, <3>3
    <3>4. QED
      BY <3>2, <3>3
  <2> HIDE DEF Good, Keep
  <2>5. QED
    BY <2>1, <2>2, <2>3, <2>4
<1>10. \A i \in 0..n : i \in S
  <2> HIDE DEF S
  <2>1. QED
    BY <1>1, <1>8, <1>9, CountUp
<1>11. Good(best[n], n)
  <2> HIDE DEF Good
  <2>1. QED
    BY <1>1, <1>10
<1>12. LatestMobile(list, t) = best[n]
  BY Zenon DEF LatestMobile, n, best
<1>13. QED
  BY <1>1, <1>11, <1>12 DEF n

-----------------------------------------------------------------------------
(* What the load leaves *)

\* The types that no call depends on.
Lists ==
  /\ waiting \subseteq MobileTypes
  /\ Len(payloads) <= PayloadLimit
  /\ mobiles \in Seq(Mobile)
  /\ latest \in BlockIds
  /\ latestMobile \in [MobileTypes -> 0..Len(mobiles)]

LoadInv == ImageInv /\ Lists /\ tags[0] = 0 /\ NewestChosen

LEMMA LoadInit == ImageInit => LoadInv
<1> SUFFICES ASSUME ImageInit
             PROVE  LoadInv
  OBVIOUS
<1>1. ImageInv
  BY InitSound
<1>2. mobiles \in Seq(Mobile) /\ tags[0] = 0
  <2>1. CASE tags = NoTags /\ mobiles = <<>>
    BY <2>1, GeometryAssumption DEF NoTags
  <2>2. ASSUME NEW c \in Consoles, tags = c.tags, mobiles = c.mobiles
        PROVE  mobiles \in Seq(Mobile) /\ tags[0] = 0
    BY <2>2, ImageAssumption
  <2>3. QED
    BY <2>1, <2>2 DEF ImageInit
<1>3. latest \in BlockIds /\ latestMobile \in [MobileTypes -> 0..Len(mobiles)]
  <2>1. 0 \in BlockIds /\ 0 \in 0..Len(mobiles)
    BY <1>2, GeometryAssumption
  <2>2. QED
    BY <2>1 DEF ImageInit, NoMobile
<1>4. waiting \subseteq MobileTypes /\ Len(payloads) <= PayloadLimit
  BY ImageAssumption DEF ImageInit
<1>5. NewestChosen
  BY DEF ImageInit, NewestChosen
<1>6. QED
  BY <1>1, <1>2, <1>3, <1>4, <1>5 DEF LoadInv, Lists

LEMMA LoadKeeps ==
  ASSUME LoadInv, ImageInv', LoadFileSystems
  PROVE  LoadInv'
<1>1. tags \in [BlockIds -> Nat] /\ tags' = tags /\ UNCHANGED <<waiting, payloads>>
  BY Zenon DEF LoadInv, ImageInv, Types, LoadFileSystems, ini
<1>2. CASE phase \in {"written", "opening"} /\ UNCHANGED <<phase, mobiles, found>>
  BY <1>1, <1>2 DEF LoadInv, Lists, NewestChosen, found
<1>3. CASE /\ latest' = LatestRoot /\ mobiles' = MobileFound
           /\ latestMobile' = [t \in MobileTypes |-> LatestMobile(MobileFound, t)]
  <2>1. mobiles' \in Seq(Mobile)
    BY <1>3, MobileFoundTyped DEF LoadInv, Lists
  <2>2. /\ latest' \in BlockIds
        /\ \A b \in Roots : latest' # 0 /\ tags[b] <= tags[latest']
    BY <1>1, <1>3, LatestRootIs DEF LoadInv
  <2>3. \A t \in MobileTypes :
          /\ latestMobile'[t] \in 0..Len(mobiles')
          /\ \A i \in DOMAIN mobiles' : mobiles'[i].type = t =>
               IF latestMobile'[t] = 0 THEN mobiles'[i].seq = 0
               ELSE /\ mobiles'[latestMobile'[t]].type = t
                    /\ mobiles'[i].seq <= mobiles'[latestMobile'[t]].seq
    <3>1. \A t \in MobileTypes : latestMobile'[t] = LatestMobile(mobiles', t)
      BY <1>3
    <3>2. QED
      BY <2>1, <3>1, LatestMobileIs
  <2>4. latestMobile' \in [MobileTypes -> 0..Len(mobiles')]
    BY <1>3, <2>3
  <2>5. \A i \in DOMAIN mobiles' : mobiles'[i].type \in MobileTypes
    <3>1. \A i \in DOMAIN mobiles' : mobiles'[i] \in Mobile
      BY <2>1
    <3>2. \A m \in Mobile : m.type \in MobileTypes
      BY DEF Mobile
    <3>3. QED
      BY <3>1, <3>2
  <2>6. Roots' = Roots
    BY <1>1 DEF Roots
  <2>7. NewestChosen'
    BY <1>1, <2>2, <2>3, <2>5, <2>6 DEF NewestChosen
  <2>8. QED
    BY <1>1, <2>1, <2>2, <2>4, <2>7 DEF LoadInv, Lists
<1>4. QED
  BY <1>2, <1>3, Zenon DEF LoadFileSystems

\* Every other step leaves what was found alone, and happens before the load.
LEMMA OtherStepsKeep ==
  ASSUME LoadInv, ImageInv', phase # "loaded", phase' # "loaded",
         UNCHANGED <<mobiles, found>>, waiting' \subseteq MobileTypes,
         Len(payloads') <= PayloadLimit, tags'[0] = 0
  PROVE  LoadInv'
  BY DEF LoadInv, Lists, NewestChosen, found

LEMMA LoadInductive ==
  ASSUME LoadInv, [ImageNext]_imgVars
  PROVE  LoadInv'
<1>1. ImageInv /\ ImageInv' /\ Lists /\ tags[0] = 0 /\ payloads \in Seq(Payload)
  BY ImageInductive DEF LoadInv, ImageInv, Types
<1>2. ASSUME NEW t \in MobileTypes, MobileAddFile(t)
      PROVE  LoadInv'
  BY <1>1, <1>2, OtherStepsKeep DEF MobileAddFile, Lists
<1>3. ASSUME NEW p \in PayloadFiles, PayloadAddFile(p)
      PROVE  LoadInv'
  <2>1. Len(payloads') <= PayloadLimit
    BY <1>1, <1>3, PayloadFits, ImageAssumption DEF PayloadAddFile, Lists
  <2>2. QED
    BY <1>1, <1>3, <2>1, OtherStepsKeep DEF PayloadAddFile, Lists
<1>4. ASSUME NEW n \in Names, AddIniFile(n)
      PROVE  LoadInv'
  BY <1>1, <1>4, OtherStepsKeep DEF AddIniFile, Lists, ini
<1>5. ASSUME NEW d \in Data, SetIniFile(d)
      PROVE  LoadInv'
  BY <1>1, <1>5, OtherStepsKeep DEF SetIniFile, Lists, ini
<1>6. CASE SavePayloads
  BY <1>1, <1>6, OtherStepsKeep DEF SavePayloads, Lists, ini
<1>7. CASE SaveUpdate6BL \/ SaveUpdate7BL
  BY <1>1, <1>7, OtherStepsKeep DEF SaveUpdate6BL, SaveUpdate7BL, Lists, ini
<1>8. CASE SaveFileSystems
  <2>1. tags' = tags \/ tags' = [tags EXCEPT ![RootBlock] = 3]
    BY <1>8 DEF SaveFileSystems, SaveRoots
  <2>2. tags'[0] = 0
    <3>1. tags \in [BlockIds -> Nat] /\ 0 \in BlockIds /\ RootBlock # 0
      BY GeometryAssumption DEF LoadInv, ImageInv, Types
    <3>2. QED
      BY <1>1, <2>1, <3>1
  <2>3. phase = "saving" /\ phase' \in {"written", "headerless"}
        /\ UNCHANGED <<waiting, payloads, mobiles, found>>
    BY <1>8 DEF SaveFileSystems, ini
  <2>4. QED
    BY <1>1, <2>2, <2>3, OtherStepsKeep DEF Lists
<1>9. CASE UNCHANGED imgVars
  BY <1>1, <1>9 DEF LoadInv, imgVars, Lists, ini, found, NewestChosen, Roots
<1>10. QED
  BY <1>1, <1>2, <1>3, <1>4, <1>5, <1>6, <1>7, <1>8, <1>9, LoadKeeps DEF ImageNext

LEMMA LoadAlways == ImageSpec => []LoadInv
<1>1. LoadInv /\ [ImageNext]_imgVars => LoadInv'
  BY LoadInductive
<1>2. QED
  BY <1>1, LoadInit, PTL DEF ImageSpec

\* Of the file systems of an image none is newer than the one that is used, and of
\* its mobile files of a type none is newer than the one that is dumped, whatever
\* the number of blocks, of versions and of mobile files.
THEOREM TheNewestIsChosen == ImageSpec => []NewestChosen
<1>1. LoadInv => NewestChosen
  BY DEF LoadInv
<1>2. QED
  BY <1>1, LoadAlways, PTL

\* The lists hold what the program reads and finds, within their limits.
THEOREM ImageTypeCorrect == ImageSpec => []ImageTypeOK
<1>1. LoadInv => ImageTypeOK
  BY DEF LoadInv, ImageInv, Types, Lists, ImageTypeOK
<1>2. QED
  BY <1>1, LoadAlways, PTL

-----------------------------------------------------------------------------
(* The files of an image that is being built *)

Updates == {UpdateFile[s] : s \in Slots}

\* What file i reads as, if no two files share a chain.
FileData(i) ==
  IF entries[i].len = 0 THEN Empty
  ELSE Reading(Content(blockMap, entries[i].blk, entries[i].len, disk))

\* No two files start at the same block, and each is no longer than its chain.
Filing ==
  /\ \A i, j \in SlotIds : entries[i].blk # 0 /\ entries[j].blk = entries[i].blk => i = j
  /\ \A i \in SlotIds : FitsAt(i)

LEMMA FilingFiled ==
  ASSUME TypeOK, SoundMap, Filing
  PROVE  Filed(ImageHeads)
BY SoundWalkable DEF Filing, Filed

LEMMA HeldIsFileData ==
  ASSUME Roomy, TypeOK, SoundMap, Filing, NEW i \in SlotIds
  PROVE  Held(i) = FileData(i)
BY FilingFiled, HeldIs DEF FileData

\* A file has one block, if it has any.
Single(i) ==
  entries[i].blk # 0 => Cardinality(Chain(blockMap, entries[i].blk)) = 1

Blank(i) == entries[i].len = 0 /\ Single(i)

\* A step keeps file j: its entry, its content, and the length of its chain if that
\* is 1.
Lasting(j) ==
  /\ Kept(j)
  /\ entries'[j].name = entries[j].name /\ entries'[j].blk = entries[j].blk
  /\ Single(j) => Single(j)'

LEMMA LastingKeeps ==
  ASSUME NEW j \in SlotIds, Lasting(j)
  PROVE  /\ entries'[j].len = entries[j].len /\ FileData(j)' = FileData(j)
         /\ Blank(j) => Blank(j)'
BY DEF Lasting, Kept, FileData, Blank

\* What a chain that a step leaves alone says about its file.
LEMMA LastingChain ==
  ASSUME NEW j \in SlotIds, Kept(j),
         entries'[j].name = entries[j].name, entries'[j].blk = entries[j].blk,
         entries[j].blk # 0 => Chain(blockMap', entries[j].blk) = Chain(blockMap, entries[j].blk)
  PROVE  Lasting(j)
BY DEF Lasting, Single

\* Where a first block comes from, no file starts at it.
LEMMA NewHeadFiling ==
  ASSUME Roomy, TypeOK, SoundMap, Filing, NEW i \in SlotIds, entries[i].blk = 0,
         NEW b \in BlockIds, NewHead(i, b), KeepLengths, UNCHANGED disk
  PROVE  /\ Filing' /\ Single(i)' /\ Kept(i)
         /\ \A j \in SlotIds \ {i} :
              Kept(j) /\ (entries[j].blk # 0 =>
                Chain(blockMap', entries[j].blk) = Chain(blockMap, entries[j].blk))
<1>1. /\ blockMap \in Maps /\ ImageHeads \in SUBSET BlockIds /\ Tidy(blockMap, ImageHeads)
      /\ blockMap[b] = Free /\ blockMap' = Taken(blockMap, b)
      /\ \A j \in SlotIds : entries[j].blk # 0 => entries[j].blk \in ImageHeads
  BY SoundWalkable DEF Walkable, TypeOK, Maps, NewHead, AllocatesBlock, FreeBlocks
<1>2. \A j \in SlotIds : Kept(j)
  BY FilingFiled, KeptByNewHead
<1>3. /\ Chain(blockMap', b) = {b}
      /\ \A h \in ImageHeads : b \notin Chain(blockMap, h)
           /\ \A c \in Chain(blockMap, h) : Chain(blockMap', c) = Chain(blockMap, c)
  BY <1>1, TakenChains
<1>4. ASSUME NEW h \in ImageHeads
      PROVE  b # h /\ Chain(blockMap', h) = Chain(blockMap, h)
  <2>1. h \in Chain(blockMap, h)
    BY <1>1, ChainClosed
  <2>2. QED
    BY <1>3, <2>1
<1>5. Single(i)'
  <2>1. Cardinality(Chain(blockMap', b)) = 1
    BY <1>3, FS_Singleton
  <2>2. QED
    BY <2>1 DEF Single, NewHead
<1>6. Filing'
  <2>1. \A j \in SlotIds : FitsAt(j)'
    BY <1>2 DEF Kept
  <2>2. \A j \in SlotIds \ {i} : entries'[j].blk = entries[j].blk /\ entries[j].blk # b
    <3>1. b # 0
      BY <1>1, MarksApart DEF SoundMap
    <3>2. QED
      BY <1>1, <1>4, <3>1 DEF NewHead
  <2>3. entries'[i].blk = b
    BY DEF NewHead
  <2>4. \A j, k \in SlotIds : entries'[j].blk # 0 /\ entries'[k].blk = entries'[j].blk => j = k
    BY <2>2, <2>3 DEF Filing
  <2>5. QED
    BY <2>1, <2>4 DEF Filing
<1>7. QED
  BY <1>1, <1>2, <1>4, <1>5, <1>6

\* A step that gives no file another first block.
LEMMA KeepHeadsFiling ==
  ASSUME Filing, KeepHeads, \A j \in SlotIds : FitsAt(j)'
  PROVE  Filing'
BY DEF Filing, KeepHeads

\* A step that changes nothing in the file system.
LEMMA NothingChanged ==
  ASSUME TypeOK, SoundMap, Filing, UNCHANGED <<blockMap, entries, disk>>
  PROVE  Filing' /\ \A j \in SlotIds : Lasting(j)
<1>1. \A j \in SlotIds : Kept(j)
  BY FilingFiled, KeptUnchanged DEF AllKept
<1>2. \A j \in SlotIds : FitsAt(j)'
  BY <1>1 DEF Kept
<1>3. QED
  BY <1>1, <1>2, LastingChain, KeepHeadsFiling DEF KeepHeads

\* FileAdd changes nothing, or enters a file without data in slot c.
Entered(c, n) ==
  /\ c = count /\ count' = c + 1
  /\ entries'[c].name = Stored[n] /\ Blank(c)'
  /\ reply'.code = 0 => entries'[c].blk = 0
  /\ \A j \in SlotIds \ {c} : Lasting(j)

LEMMA AddResult ==
  ASSUME Roomy, TypeOK, SoundMap, Filing, Fresh, NEW n \in Names, FileAdd(n)
  PROVE  /\ Filing' /\ Fresh'
         /\ \/ /\ UNCHANGED <<blockMap, entries, count, disk>>
               /\ fault' # "none" \/ (FindEntry(n) # {} /\ reply'.code # 0)
               /\ \A j \in SlotIds : Lasting(j)
            \/ FindEntry(n) = {} /\ \E c \in SlotIds : Entered(c, n)
<1>1. ASSUME UNCHANGED <<blockMap, entries, count, disk>>
      PROVE  Filing' /\ Fresh' /\ \A j \in SlotIds : Lasting(j)
  BY <1>1, NothingChanged DEF Fresh
<1>2. CASE FindEntry(n) # {} /\ Returns(1) /\ UNCHANGED <<blockMap, entries, count, disk>>
  BY <1>1, <1>2 DEF Returns
<1>3. CASE FindEntry(n) = {} /\ count = MaxEntries /\ Fails("overflow")
  BY <1>1, <1>3 DEF Fails
<1>4. ASSUME count < MaxEntries, count' = count + 1
      PROVE  \E c \in SlotIds : /\ c = count /\ entries[c].blk = 0 /\ entries[c].len = 0
                                /\ \A j \in SlotIds : j >= count' => j >= count /\ j # c
  BY <1>4, GeometryAssumption DEF TypeOK, SlotIds, Fresh, Filing, FitsAt
<1>5. ASSUME count < MaxEntries, count' = count + 1, UNCHANGED disk,
             NEW b \in BlockIds, AllocatesBlock(blockMap, b), blockMap' = Taken(blockMap, b),
             entries' = [entries EXCEPT ![count].name = Stored[n], ![count].blk = b],
             Returns(2)
      PROVE  Filing' /\ Fresh' /\ \E c \in SlotIds : Entered(c, n)
  <2>1. PICK c \in SlotIds : /\ c = count /\ entries[c].blk = 0 /\ entries[c].len = 0
                             /\ \A j \in SlotIds : j >= count' => j >= count /\ j # c
    BY <1>4, <1>5
  <2>2. /\ NewHead(c, b) /\ KeepLengths
        /\ entries'[c].name = Stored[n] /\ entries'[c].len = 0
        /\ \A j \in SlotIds \ {c} : entries'[j] = entries[j]
    BY <1>5, <2>1 DEF NewHead, KeepLengths, TypeOK, Entry
  <2>3. /\ Filing' /\ Single(c)'
        /\ \A j \in SlotIds \ {c} :
             Kept(j) /\ (entries[j].blk # 0 =>
               Chain(blockMap', entries[j].blk) = Chain(blockMap, entries[j].blk))
    BY <1>5, <2>1, <2>2, NewHeadFiling
  <2>4. \A j \in SlotIds \ {c} : Lasting(j)
    BY <2>2, <2>3, LastingChain
  <2>5. Fresh'
    BY <2>1, <2>2 DEF Fresh
  <2>6. Blank(c)' /\ reply'.code # 0
    BY <1>5, <2>2, <2>3 DEF Blank, Returns
  <2>7. Entered(c, n)
    BY <1>5, <2>1, <2>2, <2>4, <2>6 DEF Entered
  <2>8. QED
    BY <2>3, <2>5, <2>7
<1>6. ASSUME count < MaxEntries, count' = count + 1, UNCHANGED disk,
             entries' = [entries EXCEPT ![count].name = Stored[n]], UNCHANGED blockMap
      PROVE  Filing' /\ Fresh' /\ \E c \in SlotIds : Entered(c, n)
  <2>1. PICK c \in SlotIds : /\ c = count /\ entries[c].blk = 0 /\ entries[c].len = 0
                             /\ \A j \in SlotIds : j >= count' => j >= count /\ j # c
    BY <1>4, <1>6
  <2>2. /\ entries'[c].name = Stored[n] /\ entries'[c].len = 0 /\ entries'[c].blk = 0
        /\ \A j \in SlotIds \ {c} : entries'[j] = entries[j]
    BY <1>6, <2>1 DEF TypeOK, Entry
  <2>3. KeepHeads /\ KeepLengths
    BY <2>1, <2>2 DEF KeepHeads, KeepLengths
  <2>4. \A j \in SlotIds : Kept(j)
    BY <1>6, <2>3, FilingFiled, KeptByKeepHeads DEF AllKept
  <2>5. \A j \in SlotIds \ {c} : Lasting(j)
    BY <1>6, <2>2, <2>4, LastingChain
  <2>6. Filing'
    BY <2>3, <2>4, KeepHeadsFiling DEF Kept
  <2>7. Fresh' /\ Blank(c)'
    BY <2>1, <2>2 DEF Fresh, Blank, Single
  <2>8. Entered(c, n)
    BY <1>6, <2>1, <2>2, <2>5, <2>7 DEF Entered
  <2>9. QED
    BY <2>6, <2>7, <2>8
<1>7. QED
  BY <1>2, <1>3, <1>5, <1>6 DEF FileAdd

\* The three ways FileSetData goes on, where every payload has a length.
LEMMA SetCases ==
  ASSUME Roomy, NEW H, Walkable(H), NEW i \in SlotIds, NEW d \in Data, FileSetData(i, d)
  PROVE  /\ i < count
         /\ \/ fault' # "none" /\ UNCHANGED <<blockMap, entries, count, disk>>
            \/ /\ entries[i].blk = 0 /\ UNCHANGED <<count, disk, fault>> /\ KeepLengths
               /\ \A j \in SlotIds : entries'[j].name = entries[j].name
               /\ reply'.code = 1
               /\ \E b \in BlockIds : NewHead(i, b)
            \/ /\ entries[i].blk # 0
               /\ Rewrite(i, d) \/ Extend(i, d) \/ Shrink(i, d)
<1>1. Blocks[d] > 0 /\ Blocks[d] # 0
  BY DataAssumption DEF Roomy
<1>2. ASSUME entries[i].blk = 0, NEW b \in BlockIds, AllocatesBlock(blockMap, b),
             blockMap' = Taken(blockMap, b), entries' = [entries EXCEPT ![i].blk = b],
             Returns(1), UNCHANGED <<count, disk>>
      PROVE  /\ NewHead(i, b) /\ KeepLengths /\ UNCHANGED <<count, disk, fault>>
             /\ \A j \in SlotIds : entries'[j].name = entries[j].name
             /\ reply'.code = 1
  BY <1>2 DEF NewHead, KeepLengths, Walkable, TypeOK, Entry, Returns
<1>3. ASSUME Derail(i, d) \/ Exhaust(i, d)
      PROVE  fault' # "none" /\ UNCHANGED <<blockMap, entries, count, disk>>
  BY <1>3 DEF Derail, Exhaust, Fails
<1>4. ~ ClearLength(i, d)
  BY <1>1 DEF ClearLength
<1>5. CASE ChainSetChainData(i, d)
  <2>1. entries[i].blk = 0 => Derail(i, d)
    BY <1>5, FileWalkOf DEF ChainSetChainData
  <2>2. QED
    BY <1>3, <1>4, <1>5, <2>1 DEF ChainSetChainData, FileSetData
<1>6. i < count
  BY DEF FileSetData
<1>7. QED
  BY <1>2, <1>5, <1>6 DEF FileSetData

\* FileSetData fails, or gives its file nothing but a first or one more block, or
\* replaces its content.
LEMMA SetResult ==
  ASSUME Roomy, TypeOK, SoundMap, Filing, Fresh,
         NEW i \in SlotIds, NEW d \in Data, FileSetData(i, d)
  PROVE  /\ i < count /\ count' = count /\ Filing' /\ Fresh'
         /\ \A j \in SlotIds \ {i} : Lasting(j)
         /\ entries'[i].name = entries[i].name
         /\ \/ fault' # "none" /\ Lasting(i)
            \/ /\ reply'.code # 0 /\ entries'[i].len = entries[i].len
               /\ FileData(i)' = FileData(i)
               /\ IF entries[i].blk = 0 THEN Single(i)'
                  ELSE Cardinality(Chain(blockMap, entries[i].blk)) < Blocks[d]
            \/ /\ reply'.code = 0 /\ entries'[i].len # 0 /\ FileData(i)' = d
               /\ entries[i].blk # 0
               /\ Single(i) => Single(i)' /\ Blocks[d] = 1
<1> DEFINE h == entries[i].blk
           H == ImageHeads
<1>1. Filed(H) /\ Walkable(H) /\ blockMap \in Maps /\ H \in SUBSET BlockIds
      /\ Tidy(blockMap, H) /\ \A j \in SlotIds : entries[j].blk # 0 => entries[j].blk \in H
  BY FilingFiled DEF Filed, Walkable, TypeOK, Maps
<1>2. i < count
  BY <1>1, SetCases
<1>3. CASE fault' # "none" /\ UNCHANGED <<blockMap, entries, count, disk>>
  BY <1>2, <1>3, NothingChanged DEF Fresh, Lasting
<1>4. ASSUME entries[i].blk = 0, UNCHANGED <<count, disk, fault>>, KeepLengths,
             \A j \in SlotIds : entries'[j].name = entries[j].name,
             reply'.code = 1, NEW b \in BlockIds, NewHead(i, b)
      PROVE  /\ count' = count /\ Filing' /\ Fresh'
             /\ \A j \in SlotIds \ {i} : Lasting(j)
             /\ entries'[i].name = entries[i].name /\ entries'[i].len = entries[i].len
             /\ FileData(i)' = FileData(i) /\ reply'.code # 0 /\ Single(i)'
  <2>1. /\ Filing' /\ Single(i)' /\ Kept(i)
        /\ \A j \in SlotIds \ {i} :
             Kept(j) /\ (entries[j].blk # 0 =>
               Chain(blockMap', entries[j].blk) = Chain(blockMap, entries[j].blk))
    BY <1>4, NewHeadFiling
  <2>2. \A j \in SlotIds \ {i} : entries'[j].blk = entries[j].blk
    BY <1>4 DEF NewHead
  <2>3. \A j \in SlotIds \ {i} : Lasting(j)
    BY <1>4, <2>1, <2>2, LastingChain
  <2>4. Fresh'
    BY <1>2, <1>4, <2>2, GeometryAssumption DEF Fresh, SlotIds, TypeOK
  <2>5. FileData(i)' = FileData(i) /\ entries'[i].len = entries[i].len
    BY <2>1 DEF Kept, FileData
  <2>6. QED
    BY <1>4, <2>1, <2>3, <2>4, <2>5
<1>5. ASSUME h # 0, Rewrite(i, d) \/ Extend(i, d) \/ Shrink(i, d)
      PROVE  /\ count' = count /\ KeepHeads /\ Fresh'
             /\ \A j \in SlotIds : entries'[j].name = entries[j].name
             /\ \A j \in SlotIds \ {i} : entries[j].blk # 0 =>
                  Chain(blockMap', entries[j].blk) = Chain(blockMap, entries[j].blk)
  <2>1. KeepHeads /\ count' = count
    BY <1>1, <1>5, ChainWork
  <2>2. \A j \in SlotIds : entries'[j].name = entries[j].name
    BY <1>5 DEF Rewrite, Extend, Shrink, SetLength, TypeOK, Entry
  <2>3. \A j \in SlotIds \ {i} : entries[j].blk # 0 =>
          entries[j].blk \in H \ {h} /\ entries[j].blk \in Chain(blockMap, entries[j].blk)
    BY <1>1, ChainClosed DEF Filing
  <2>4. CASE UNCHANGED blockMap
    BY <2>1, <2>2, <2>4 DEF Fresh, KeepHeads
  <2>5. ASSUME NEW g \in H \ {h}
        PROVE  \A c \in Chain(blockMap, g) : Chain(blockMap', c) = Chain(blockMap, c)
               \/ UNCHANGED blockMap
    BY <1>1, <1>5, LinkedChains, CutChains, ChainWork
  <2>6. QED
    BY <2>1, <2>2, <2>3, <2>4, <2>5 DEF Fresh, KeepHeads
<1>6. ASSUME h # 0, Extend(i, d)
      PROVE  /\ Filing' /\ \A j \in SlotIds \ {i} : Lasting(j)
             /\ reply'.code # 0 /\ entries'[i].len = entries[i].len
             /\ FileData(i)' = FileData(i) /\ Cardinality(Chain(blockMap, h)) < Blocks[d]
  <2>1. \A j \in SlotIds : Kept(j)
    BY <1>1, <1>6, KeptByExtend
  <2>2. Filing' /\ \A j \in SlotIds \ {i} : Lasting(j)
    BY <1>5, <1>6, <2>1, LastingChain, KeepHeadsFiling DEF Kept, KeepHeads
  <2>3. FileData(i)' = FileData(i) /\ entries'[i].len = entries[i].len
    BY <2>1 DEF Kept, FileData
  <2>4. reply'.code = 2 /\ Cardinality(Chain(blockMap, h)) < Blocks[d]
    BY <1>6 DEF Extend
  <2>5. QED
    BY <2>2, <2>3, <2>4
<1>7. ASSUME h # 0, Rewrite(i, d) \/ Shrink(i, d)
      PROVE  /\ Filing' /\ \A j \in SlotIds \ {i} : Lasting(j)
             /\ reply'.code = 0 /\ entries'[i].len # 0 /\ FileData(i)' = d
             /\ Single(i) => Single(i)' /\ Blocks[d] = 1
  <2>1. /\ \A j \in SlotIds \ {i} : Kept(j)
        /\ FitsAt(i)' /\ entries'[i].len # 0
        /\ Reading(Content(blockMap', entries'[i].blk, entries'[i].len, disk')) = d
    BY <1>1, <1>7, WriteReplaces
  <2>2. Filing' /\ \A j \in SlotIds \ {i} : Lasting(j)
    BY <1>5, <1>7, <2>1, LastingChain, KeepHeadsFiling DEF Kept, KeepHeads
  <2>3. FileData(i)' = d
    BY <2>1 DEF FileData
  <2>4. reply'.code = 0
    BY <1>7 DEF Rewrite, Shrink, Returns
  <2>5. ASSUME Single(i)
        PROVE  Single(i)' /\ Blocks[d] = 1
    <3>1. Cardinality(Chain(blockMap, h)) = 1 /\ Blocks[d] \in Nat
      BY <1>7, <2>5, DataAssumption DEF Single
    <3>2. Rewrite(i, d)
      BY <1>7, <3>1 DEF Shrink
    <3>3. blockMap' = blockMap /\ entries'[i].blk = h /\ Blocks[d] = 1
      BY <1>5, <1>7, <3>1, <3>2 DEF Rewrite, KeepHeads
    <3>4. QED
      BY <3>1, <3>3 DEF Single
  <2>6. QED
    BY <2>1, <2>2, <2>3, <2>4, <2>5
<1>8. QED
  BY <1>1, <1>2, <1>3, <1>4, <1>5, <1>6, <1>7, SetCases

-----------------------------------------------------------------------------
(* What is left to do for the update slots *)

\* The list of SaveBootloaders: a slot's 6BL has its 7BL behind it, and no 6BL comes
\* after a 7BL.
InTurn(list) ==
  \A k, l \in DOMAIN list :
    /\ list[k].slot = list[l].slot /\ list[k].pass = list[l].pass => k = l
    /\ list[k].pass = 6 /\ list[l].pass = 7 => k < l
    /\ list[k].pass = 6 => \E j \in DOMAIN list :
                             /\ list[j].pass = 7 /\ list[j].slot = list[k].slot
                             /\ list[j].rest = list[k].rest

LEMMA Concatenated ==
  ASSUME NEW T, NEW a \in Seq(T), NEW b \in Seq(T)
  PROVE  /\ Len(a \o b) = Len(a) + Len(b) /\ DOMAIN (a \o b) = 1..(Len(a) + Len(b))
         /\ \A i \in 1..Len(a) : (a \o b)[i] = a[i]
         /\ \A i \in 1..Len(b) : (a \o b)[Len(a) + i] = b[i]
  OBVIOUS

\* A list of 6BL and the list of their 7BL.
LEMMA TwoPasses ==
  ASSUME NEW a \in Seq(Job), NEW b \in Seq(Job), DOMAIN b = DOMAIN a,
         \A i \in DOMAIN a : /\ a[i].pass = 6 /\ b[i].pass = 7
                             /\ b[i].slot = a[i].slot /\ b[i].rest = a[i].rest,
         \A i, j \in DOMAIN a : a[i].slot = a[j].slot => i = j
  PROVE  InTurn(a \o b)
<1> DEFINE n == Len(a)
           list == a \o b
<1>1. n \in Nat /\ DOMAIN a = 1..n /\ Len(b) = n
  OBVIOUS
<1>2. /\ DOMAIN list = 1..(Len(a) + Len(b))
      /\ \A i \in 1..Len(a) : list[i] = a[i]
      /\ \A i \in 1..Len(b) : list[Len(a) + i] = b[i]
  BY Concatenated
<1>3. /\ DOMAIN list = 1..(n + n)
      /\ \A i \in 1..n : list[i] = a[i] /\ list[n + i] = b[i]
  <2> HIDE DEF list
  <2>1. QED
    BY <1>1, <1>2
<1> HIDE DEF list, n
<1>4. ASSUME NEW k \in DOMAIN list
      PROVE  \/ k \in 1..n /\ list[k] = a[k]
             \/ \E i \in 1..n : k = n + i /\ list[k] = b[i]
  <2>1. CASE k <= n
    BY <1>1, <1>3, <2>1
  <2>2. CASE ~ (k <= n)
    <3>1. k - n \in 1..n /\ k = n + (k - n)
      BY <1>1, <1>3, <2>2
    <3>2. QED
      BY <1>3, <3>1
  <2>3. QED
    BY <2>1, <2>2
<1>5. ASSUME NEW k \in DOMAIN list, NEW l \in DOMAIN list
      PROVE  /\ list[k].slot = list[l].slot /\ list[k].pass = list[l].pass => k = l
             /\ list[k].pass = 6 /\ list[l].pass = 7 => k < l
  <2>1. CASE k \in 1..n /\ list[k] = a[k] /\ l \in 1..n /\ list[l] = a[l]
    BY <1>1, <2>1
  <2>2. ASSUME k \in 1..n, list[k] = a[k], NEW i \in 1..n, l = n + i, list[l] = b[i]
        PROVE  k < l /\ list[k].pass = 6 /\ list[l].pass = 7
    BY <1>1, <2>2
  <2>3. ASSUME l \in 1..n, list[l] = a[l], NEW i \in 1..n, k = n + i, list[k] = b[i]
        PROVE  list[l].pass = 6 /\ list[k].pass = 7
    BY <1>1, <2>3
  <2>4. ASSUME NEW i \in 1..n, k = n + i, list[k] = b[i],
               NEW j \in 1..n, l = n + j, list[l] = b[j]
        PROVE  /\ list[k].pass = 7 /\ list[l].pass = 7
               /\ list[k].slot = list[l].slot => k = l
    BY <1>1, <2>4
  <2>5. QED
    BY <1>4, <2>1, <2>2, <2>3, <2>4
<1>6. ASSUME NEW k \in DOMAIN list, list[k].pass = 6
      PROVE  \E j \in DOMAIN list :
               /\ list[j].pass = 7 /\ list[j].slot = list[k].slot
               /\ list[j].rest = list[k].rest
  <2>1. k \in 1..n /\ list[k] = a[k]
    BY <1>1, <1>4, <1>6
  <2>2. n + k \in DOMAIN list /\ list[n + k] = b[k]
    BY <1>1, <1>3, <2>1
  <2>3. QED
    BY <1>1, <2>1, <2>2
<1>7. QED
  BY <1>5, <1>6 DEF InTurn, list

LEMMA Alone ==
  ASSUME NEW T, NEW x \in T, NEW s, s = <<x>>
  PROVE  /\ s \in Seq(T) /\ DOMAIN s = 1..1 /\ s[1] = x
         /\ s \o <<>> = s /\ <<>> \o s = s
  OBVIOUS

LEMMA Pair ==
  ASSUME NEW T, NEW x \in T, NEW y \in T
  PROVE  LET s == <<x>> \o <<y>>
         IN  s \in Seq(T) /\ DOMAIN s = 1..2 /\ s[1] = x /\ s[2] = y
<1>1. <<x>> \in Seq(T) /\ <<y>> \in Seq(T)
  OBVIOUS
<1>2. QED
  BY <1>1

LEMMA JobsInTurn ==
  ASSUME NEW S \in SUBSET Slots, NEW needs \in [S -> Rests]
  PROVE  InTurn(JobsOf(needs))
<1> DEFINE job(s, k)  == [slot |-> s, rest |-> needs[s], pass |-> k]
           turn(s, k) == IF s \in DOMAIN needs THEN <<job(s, k)>> ELSE <<>>
           all(k)     == turn(1, k) \o turn(2, k)
<1>1. DOMAIN needs = S
  OBVIOUS
<1>2. ASSUME NEW s \in S, NEW k \in {6, 7}
      PROVE  job(s, k) \in Job
  BY <1>2 DEF Job
<1>3. ASSUME NEW k \in {6, 7}
      PROVE  /\ all(k) \in Seq(Job)
             /\ DOMAIN all(k) = IF 1 \in S THEN IF 2 \in S THEN 1..2 ELSE 1..1
                                ELSE IF 2 \in S THEN 1..1 ELSE 1..0
             /\ 1 \in S => all(k)[1] = job(1, k)
             /\ 1 \notin S /\ 2 \in S => all(k)[1] = job(2, k)
             /\ 1 \in S /\ 2 \in S => all(k)[2] = job(2, k)
  <2>1. CASE 1 \in S /\ 2 \in S
    <3>1. all(k) = <<job(1, k)>> \o <<job(2, k)>>
      BY <1>1, <2>1
    <3>2. job(1, k) \in Job /\ job(2, k) \in Job
      BY <1>2, <2>1
    <3> HIDE DEF all, job
    <3>3. QED
      BY <2>1, <3>1, <3>2, Pair
  <2>2. CASE 1 \in S /\ 2 \notin S
    <3>1. all(k) = <<job(1, k)>> \o <<>>
      BY <1>1, <2>2
    <3>2. job(1, k) \in Job
      BY <1>2, <2>2
    <3> HIDE DEF all, job
    <3>3. all(k) \in Seq(Job) /\ DOMAIN all(k) = 1..1 /\ all(k)[1] = job(1, k)
      BY <3>1, <3>2, Alone
    <3>4. QED
      BY <2>2, <3>3
  <2>3. CASE 1 \notin S /\ 2 \in S
    <3>1. all(k) = <<>> \o <<job(2, k)>>
      BY <1>1, <2>3
    <3>2. job(2, k) \in Job
      BY <1>2, <2>3
    <3> HIDE DEF all, job
    <3>3. all(k) \in Seq(Job) /\ DOMAIN all(k) = 1..1 /\ all(k)[1] = job(2, k)
      BY <3>1, <3>2, Alone
    <3>4. QED
      BY <2>3, <3>3
  <2>4. CASE 1 \notin S /\ 2 \notin S
    <3>1. all(k) = <<>>
      BY <1>1, <2>4
    <3> HIDE DEF all, job
    <3>2. QED
      BY <2>4, <3>1
  <2>5. QED
    BY <2>1, <2>2, <2>3, <2>4
<1>4. /\ \A s, k : job(s, k).slot = s /\ job(s, k).pass = k /\ job(s, k).rest = needs[s]
      /\ JobsOf(needs) = all(6) \o all(7)
  BY DEF JobsOf
<1> HIDE DEF all, job
<1>5. /\ all(6) \in Seq(Job) /\ all(7) \in Seq(Job) /\ DOMAIN all(7) = DOMAIN all(6)
      /\ DOMAIN all(6) \subseteq {1, 2}
  BY <1>3
<1>6. \A i \in DOMAIN all(6) :
        /\ all(6)[i].pass = 6 /\ all(7)[i].pass = 7
        /\ all(7)[i].slot = all(6)[i].slot /\ all(7)[i].rest = all(6)[i].rest
  BY <1>3, <1>4, <1>5
<1>7. \A i, j \in DOMAIN all(6) : all(6)[i].slot = all(6)[j].slot => i = j
  BY <1>3, <1>4, <1>5
<1>8. QED
  BY <1>4, <1>5, <1>6, <1>7, TwoPasses

LEMMA TailPlaces ==
  ASSUME NEW list \in Seq(Job), list # <<>>
  PROVE  /\ 1 \in DOMAIN list /\ Head(list) = list[1]
         /\ \A k \in DOMAIN Tail(list) : k + 1 \in DOMAIN list /\ Tail(list)[k] = list[k + 1]
         /\ \A k \in DOMAIN list : k # 1 => k - 1 \in DOMAIN Tail(list)
                                            /\ Tail(list)[k - 1] = list[k]
  OBVIOUS

LEMMA TailInTurn ==
  ASSUME NEW list \in Seq(Job), list # <<>>, InTurn(list)
  PROVE  InTurn(Tail(list))
<1>1. /\ \A k \in DOMAIN Tail(list) : k + 1 \in DOMAIN list /\ Tail(list)[k] = list[k + 1]
      /\ \A k \in DOMAIN list : k # 1 => k - 1 \in DOMAIN Tail(list)
                                         /\ Tail(list)[k - 1] = list[k]
      /\ DOMAIN list \subseteq Nat \ {0} /\ DOMAIN Tail(list) \subseteq Nat \ {0}
  BY TailPlaces
<1>2. ASSUME NEW k \in DOMAIN Tail(list), NEW l \in DOMAIN Tail(list)
      PROVE  /\ Tail(list)[k].slot = Tail(list)[l].slot
                  /\ Tail(list)[k].pass = Tail(list)[l].pass => k = l
             /\ Tail(list)[k].pass = 6 /\ Tail(list)[l].pass = 7 => k < l
  <2>1. k + 1 = l + 1 => k = l
    BY <1>1
  <2>2. k + 1 < l + 1 => k < l
    BY <1>1
  <2>3. QED
    BY <1>1, <2>1, <2>2 DEF InTurn
<1>3. ASSUME NEW k \in DOMAIN Tail(list), Tail(list)[k].pass = 6
      PROVE  \E j \in DOMAIN Tail(list) :
               /\ Tail(list)[j].pass = 7 /\ Tail(list)[j].slot = Tail(list)[k].slot
               /\ Tail(list)[j].rest = Tail(list)[k].rest
  <2>1. PICK j \in DOMAIN list :
          list[j].pass = 7 /\ list[j].slot = list[k + 1].slot /\ list[j].rest = list[k + 1].rest
    BY <1>1, <1>3 DEF InTurn
  <2>2. k + 1 < j
    BY <1>1, <1>3, <2>1 DEF InTurn
  <2>3. j # 1
    BY <1>1, <2>2
  <2>4. j - 1 \in DOMAIN Tail(list) /\ Tail(list)[j - 1] = list[j]
    BY <1>1, <2>3
  <2>5. QED
    BY <1>1, <2>1, <2>4
<1>4. QED
  BY <1>2, <1>3 DEF InTurn

-----------------------------------------------------------------------------
(* What is visible in the image that is read back *)

\* FileAdd keeps the names of the update files, of 15 characters, and makes no other
\* name one of them, as it would of one of 38 that begins with it (strlen % 23).
UpdateNamesKept ==
  /\ \A s \in Slots : Stored[UpdateFile[s]] = UpdateFile[s]
  /\ \A n \in Names : Stored[n] \in Updates => Stored[n] = n

\* No update file is in the directory twice.
Named ==
  \A i, j \in 0..(count - 1) :
    entries[i].name \in Updates /\ entries[i].name = entries[j].name => i = j

\* The 6BL of slot s is still to be written.
Pending(s) == \E k \in DOMAIN jobs : jobs[k].slot = s /\ jobs[k].pass = 6

\* File i is what VisibleWhole asks for.
Complete(i) ==
  /\ entries[i].name \in Updates
  /\ \/ FileData(i) \in Rests
     \/ /\ \E r \in Rests : FileData(i) = JunkOf[r] /\ Blocks[r] = 1
        /\ Updates \subseteq {entries[j].name : j \in SlotIds}

\* File i, of one block, was made by writing a 6BL and waits for the rest of its 7BL.
Awaiting(i) ==
  /\ Single(i)
  /\ \E k \in DOMAIN jobs :
       /\ jobs[k].pass = 7 /\ entries[i].name = UpdateFile[jobs[k].slot]
       /\ Blocks[jobs[k].rest] = 1 /\ FileData(i) = JunkOf[jobs[k].rest]

\* While the loaders are saved a file has no data, or waits for it, or the saving is
\* over; a file whose 6BL is still to be written is as FileAdd and the ini left it.
Progress ==
  /\ InTurn(jobs)
  /\ \A i \in SlotIds : entries[i].len # 0 => IF jobs = <<>> THEN Complete(i) ELSE Awaiting(i)
  /\ \A i \in SlotIds :
       Blank(i) \/ \E s \in Slots : entries[i].name = UpdateFile[s] /\ ~ Pending(s)

Building == phase \in {"mobile", "payloads", "files", "setting", "saving"}

\* What holds after the root is saved, and after it is loaded.
Finished ==
  /\ savedMap = blockMap /\ savedDir = entries /\ Filing
  /\ \A i \in SlotIds : entries[i].len # 0 => Complete(i)

Shown ==
  /\ SoundMap /\ Filing /\ savedDir = entries
  /\ \A i \in 0..(count - 1) : i \in SlotIds /\ Complete(i)

VisibleInv ==
  /\ ImageInv
  /\ Building => rootState = "blank" /\ Filing /\ Fresh /\ Named
  /\ Building /\ phase # "saving" => \A i \in SlotIds : Blank(i)
  /\ phase = "setting" => entries[count - 1].blk = 0
  /\ phase = "opening" => rootState = "blank"
  /\ phase = "saving" /\ Running => Progress
  /\ phase = "written" /\ Running /\ rootState = "saved" => Finished
  /\ phase = "loaded" /\ rootState = "saved" => Shown

LEMMA BothListed ==
  ASSUME NEW N, NEW s \in Slots, NEW t \in Slots, s # t,
         UpdateFile[s] \in N, UpdateFile[t] \in N
  PROVE  Updates \subseteq N
BY DEF Updates, Slots

LEMMA SlotsDiffer ==
  ASSUME NEW s \in Slots, NEW t \in Slots, UpdateFile[s] = UpdateFile[t]
  PROVE  s = t
BY ImageAssumption DEF Slots

LEMMA HasSlot ==
  ASSUME TypeOK, Filing, Fresh, NEW i \in SlotIds, entries[i].len # 0
  PROVE  i \in 0..(count - 1)
BY GeometryAssumption DEF TypeOK, SlotIds, Fresh, Filing, FitsAt

LEMMA JobFields ==
  ASSUME jobs \in Seq(Job), NEW k \in DOMAIN jobs
  PROVE  /\ jobs[k].slot \in Slots /\ jobs[k].rest \in Rests /\ jobs[k].rest \in Data
         /\ JunkOf[jobs[k].rest] \in Data /\ Blocks[JunkOf[jobs[k].rest]] = Blocks[jobs[k].rest]
         /\ UpdateFile[jobs[k].slot] \in Names /\ UpdateFile[jobs[k].slot] \in Updates
<1>1. jobs[k] \in Job
  OBVIOUS
<1>2. jobs[k].slot \in Slots /\ jobs[k].rest \in Rests
  BY <1>1 DEF Job
<1>3. QED
  BY <1>2, ImageAssumption DEF Updates

\* A file that is entered leaves the names of the update files apart.
LEMMA NamedEntered ==
  ASSUME UpdateNamesKept, TypeOK, Named, NEW n \in Names, FindEntry(n) = {},
         NEW c \in SlotIds, Entered(c, n)
  PROVE  Named'
<1>1. count \in Nat /\ c = count /\ count' = count + 1 /\ entries'[c].name = Stored[n]
  BY DEF TypeOK, Entered
<1>2. \A i \in 0..(count - 1) : i \in SlotIds \ {c} /\ entries'[i].name = entries[i].name
  BY <1>1, GeometryAssumption DEF Entered, Lasting, SlotIds, TypeOK
<1>3. \A i \in 0..(count - 1) : entries[i].name # n
  BY DEF FindEntry
<1>4. ASSUME NEW i \in 0..(count' - 1), NEW j \in 0..(count' - 1),
             entries'[i].name \in Updates, entries'[i].name = entries'[j].name
      PROVE  i = j
  <2>1. \A x \in 0..(count' - 1) : x = c \/ x \in 0..(count - 1)
    BY <1>1
  <2>2. Stored[n] \in Updates => Stored[n] = n
    BY DEF UpdateNamesKept
  <2>3. CASE i \in 0..(count - 1) /\ j \in 0..(count - 1)
    BY <1>2, <1>4, <2>3 DEF Named
  <2>4. CASE i = c /\ j \in 0..(count - 1)
    BY <1>1, <1>2, <1>3, <1>4, <2>2, <2>4
  <2>5. CASE i \in 0..(count - 1) /\ j = c
    BY <1>1, <1>2, <1>3, <1>4, <2>2, <2>5
  <2>6. QED
    BY <2>1, <2>3, <2>4, <2>5
<1>5. QED
  BY <1>4 DEF Named

\* So does a step that renames nothing.
LEMMA NamedKept ==
  ASSUME TypeOK, Named, count' = count, \A j \in SlotIds : entries'[j].name = entries[j].name
  PROVE  Named'
<1>1. \A i \in 0..(count - 1) : i \in SlotIds
  BY GeometryAssumption DEF TypeOK, SlotIds
<1>2. QED
  BY <1>1 DEF Named

\* What is left of the jobs behind the first.
LEMMA Remaining ==
  ASSUME jobs \in Seq(Job), jobs # <<>>, InTurn(jobs), jobs' = Tail(jobs)
  PROVE  /\ 1 \in DOMAIN jobs /\ Head(jobs) = jobs[1] /\ InTurn(jobs')
         /\ \A s : Pending(s)' => Pending(s)
         /\ \A s : Head(jobs).pass = 6 /\ Head(jobs).slot = s => ~ Pending(s)'
         /\ Head(jobs).pass = 7 => \A s : ~ Pending(s)
         /\ \A k \in DOMAIN jobs : k # 1 => jobs' # <<>> /\ k - 1 \in DOMAIN jobs'
                                            /\ jobs'[k - 1] = jobs[k]
<1>1. /\ 1 \in DOMAIN jobs /\ Head(jobs) = jobs[1] /\ DOMAIN jobs \subseteq Nat \ {0}
      /\ \A k \in DOMAIN jobs' : k \in Nat \ {0} /\ k + 1 \in DOMAIN jobs /\ jobs'[k] = jobs[k + 1]
      /\ \A k \in DOMAIN jobs : k # 1 => k - 1 \in DOMAIN jobs' /\ jobs'[k - 1] = jobs[k]
  BY TailPlaces
<1>2. InTurn(jobs')
  BY TailInTurn
<1>3. \A s : Pending(s)' => Pending(s)
  BY <1>1 DEF Pending
<1>4. ASSUME NEW s, Head(jobs).pass = 6, Head(jobs).slot = s, Pending(s)'
      PROVE  FALSE
  <2>1. PICK k \in DOMAIN jobs' : jobs'[k].slot = s /\ jobs'[k].pass = 6
    BY <1>4 DEF Pending
  <2>2. k + 1 = 1
    BY <1>1, <1>4, <2>1 DEF InTurn
  <2>3. QED
    BY <1>1, <2>1, <2>2
<1>5. ASSUME Head(jobs).pass = 7, NEW s, Pending(s)
      PROVE  FALSE
  <2>1. PICK k \in DOMAIN jobs : jobs[k].pass = 6
    BY <1>5 DEF Pending
  <2>2. k < 1 /\ k \in Nat \ {0}
    BY <1>1, <1>5, <2>1 DEF InTurn
  <2>3. QED
    BY <2>2
<1>6. \A k \in DOMAIN jobs : k # 1 => jobs' # <<>>
  BY <1>1
<1>7. QED
  BY <1>1, <1>2, <1>3, <1>4, <1>5, <1>6

\* A file that waits still does when a job that is not its own is done.
LEMMA StillAwaiting ==
  ASSUME jobs \in Seq(Job), NEW j \in SlotIds, Lasting(j), NEW k \in DOMAIN jobs,
         Single(j), jobs[k].pass = 7, entries[j].name = UpdateFile[jobs[k].slot],
         Blocks[jobs[k].rest] = 1, FileData(j) = JunkOf[jobs[k].rest],
         NEW l \in DOMAIN jobs', jobs'[l] = jobs[k]
  PROVE  Awaiting(j)'
<1>1. FileData(j)' = FileData(j) /\ Single(j)' /\ entries'[j].name = entries[j].name
  BY LastingKeeps DEF Lasting
<1>2. QED
  BY <1>1 DEF Awaiting

\* The 6BL of a slot makes its file long enough, by a block at a time.
LEMMA LengthenedByUpdate6BL ==
  ASSUME Roomy, VisibleInv, phase = "saving", Running, jobs # <<>>, Head(jobs).pass = 6,
         NEW i \in FindEntry(UpdateFile[Head(jobs).slot]),
         FileSetData(i, JunkOf[Head(jobs).rest]), jobs' = Tail(jobs), fault' = "none"
  PROVE  Progress'
<1> DEFINE s == jobs[1].slot
           r == jobs[1].rest
<1>1. /\ TypeOK /\ SoundMap /\ jobs \in Seq(Job) /\ Filing /\ Fresh /\ Named /\ Progress
  BY DEF VisibleInv, ImageInv, Types, RootTypeOK, Building
<1>2. /\ 1 \in DOMAIN jobs /\ Head(jobs) = jobs[1] /\ InTurn(jobs')
      /\ \A t : Pending(t)' => Pending(t)
      /\ \A t : t = s => ~ Pending(t)'
      /\ \A k \in DOMAIN jobs : k # 1 => jobs' # <<>> /\ k - 1 \in DOMAIN jobs'
                                         /\ jobs'[k - 1] = jobs[k]
  BY <1>1, Remaining DEF Progress
<1>3. s \in Slots /\ r \in Rests /\ JunkOf[r] \in Data /\ Blocks[JunkOf[r]] = Blocks[r]
  BY <1>1, <1>2, JobFields
<1>4. i \in SlotIds /\ entries[i].name = UpdateFile[s]
  BY <1>1, <1>2, FoundSlots DEF FindEntry
<1>5. /\ \A j \in SlotIds \ {i} : Lasting(j)
      /\ entries'[i].name = entries[i].name
      /\ \/ Lasting(i)
         \/ entries'[i].len = entries[i].len /\ (entries[i].blk = 0 => Single(i)')
            /\ (entries[i].blk # 0 => Cardinality(Chain(blockMap, entries[i].blk)) < Blocks[r])
         \/ FileData(i)' = JunkOf[r] /\ (Single(i) => Single(i)' /\ Blocks[r] = 1)
  BY <1>1, <1>2, <1>3, <1>4, SetResult
<1>6. Pending(s)
  BY <1>2 DEF Pending
<1>7. Blank(i)
  BY <1>1, <1>3, <1>4, <1>6, SlotsDiffer DEF Progress
<1>8. PICK k \in DOMAIN jobs : k # 1 /\ jobs[k].pass = 7 /\ jobs[k].slot = s /\ jobs[k].rest = r
  BY <1>1, <1>2 DEF Progress, InTurn
<1>9. jobs' # <<>>
  BY <1>2, <1>8
<1>10. ASSUME NEW j \in SlotIds, entries'[j].len # 0
       PROVE  Awaiting(j)'
  <2>1. CASE Lasting(j)
    <3>1. entries[j].len # 0
      BY <1>10, <2>1, LastingKeeps
    <3>2. PICK l \in DOMAIN jobs :
            /\ jobs[l].pass = 7 /\ entries[j].name = UpdateFile[jobs[l].slot]
            /\ Blocks[jobs[l].rest] = 1 /\ FileData(j) = JunkOf[jobs[l].rest] /\ Single(j)
      BY <1>1, <3>1 DEF Progress, Awaiting
    <3>3. l # 1
      BY <1>2, <3>2
    <3>4. QED
      BY <1>1, <1>2, <2>1, <3>2, <3>3, StillAwaiting
  <2>2. CASE j = i /\ ~ Lasting(i)
    <3>1. FileData(i)' = JunkOf[r] /\ Single(i)' /\ Blocks[r] = 1
      BY <1>5, <1>7, <1>10, <2>2 DEF Blank
    <3>2. entries'[i].name = UpdateFile[s] /\ k - 1 \in DOMAIN jobs' /\ jobs'[k - 1] = jobs[k]
      BY <1>2, <1>4, <1>5, <1>8
    <3>3. QED
      BY <1>8, <2>2, <3>1, <3>2 DEF Awaiting
  <2>3. QED
    BY <1>5, <2>1, <2>2
<1>11. ASSUME NEW j \in SlotIds
       PROVE  Blank(j)' \/ \E t \in Slots : entries'[j].name = UpdateFile[t] /\ ~ Pending(t)'
  <2>1. CASE j = i
    BY <1>2, <1>3, <1>4, <1>5, <2>1
  <2>2. CASE j # i
    BY <1>1, <1>2, <1>5, <2>2, LastingKeeps DEF Progress, Lasting
  <2>3. QED
    BY <2>1, <2>2
<1>12. QED
  BY <1>2, <1>9, <1>10, <1>11 DEF Progress

\* Memory nothing was written to stays in one file when both are in the directory.
LEMMA CompleteWithJunk ==
  ASSUME NEW j \in SlotIds, entries'[j].name \in Updates,
         NEW q \in Rests, FileData(j)' = JunkOf[q], Blocks[q] = 1,
         Updates \subseteq {entries'[x].name : x \in SlotIds}
  PROVE  Complete(j)'
<1>1. \E p \in Rests : FileData(j)' = JunkOf[p] /\ Blocks[p] = 1
  OBVIOUS
<1>2. (Updates \subseteq {entries[x].name : x \in SlotIds})'
  BY DEF Updates
<1>3. QED
  BY <1>1, <1>2, Zenon DEF Complete, Updates

\* When nothing is left to do, only what has data counts.
LEMMA GivenUp ==
  ASSUME jobs' = <<>>,
         \A j \in SlotIds : /\ entries'[j].len # 0 => Complete(j)'
                            /\ Blank(j)' \/ \E s \in Slots : entries'[j].name = UpdateFile[s]
  PROVE  Progress'
BY DEF Progress, InTurn, Pending

\* The file of a slot is entered without data.  SaveBootloaders then gives up, and
\* what waits for its 7BL, of the other slot, will not get it.
LEMMA EnteredByUpdate6BL ==
  ASSUME Roomy, UpdateNamesKept, VisibleInv, phase = "saving", Running, jobs # <<>>,
         FindEntry(UpdateFile[Head(jobs).slot]) = {},
         FileAdd(UpdateFile[Head(jobs).slot]), fault' = "none",
         jobs' = IF reply'.code = 0 THEN jobs ELSE <<>>
  PROVE  Progress'
<1> DEFINE s == jobs[1].slot
           n == UpdateFile[s]
           N == {entries'[x].name : x \in SlotIds}
<1>1. /\ TypeOK /\ SoundMap /\ jobs \in Seq(Job) /\ Filing /\ Fresh /\ Named /\ Progress
  BY DEF VisibleInv, ImageInv, Types, RootTypeOK, Building
<1>2. 1 \in DOMAIN jobs /\ Head(jobs) = jobs[1]
  BY <1>1, TailPlaces
<1>3. s \in Slots /\ n \in Names
  BY <1>1, <1>2, JobFields
<1>4. PICK c \in SlotIds : Entered(c, n)
  BY <1>1, <1>2, <1>3, AddResult
<1>5. /\ entries'[c].name = n /\ Blank(c)'
      /\ \A j \in SlotIds \ {c} : Lasting(j)
  BY <1>3, <1>4 DEF Entered, UpdateNamesKept
<1>6. ASSUME NEW j \in SlotIds, entries'[j].len # 0
      PROVE  \E l \in DOMAIN jobs :
               /\ j # c /\ Single(j) /\ entries[j].len # 0
               /\ jobs[l].pass = 7 /\ entries[j].name = UpdateFile[jobs[l].slot]
               /\ Blocks[jobs[l].rest] = 1 /\ FileData(j) = JunkOf[jobs[l].rest]
  <2>1. j # c
    BY <1>5, <1>6 DEF Blank
  <2>2. entries[j].len # 0
    BY <1>5, <1>6, <2>1, LastingKeeps
  <2>3. QED
    BY <1>1, <2>1, <2>2 DEF Progress, Awaiting
<1>7. ASSUME NEW j \in SlotIds
      PROVE  Blank(j)' \/ \E t \in Slots : entries'[j].name = UpdateFile[t] /\ ~ Pending(t)
  BY <1>1, <1>5, LastingKeeps DEF Progress, Lasting
<1>8. CASE reply'.code = 0
  <2>1. jobs' = jobs
    BY <1>8
  <2>2. \A t : Pending(t)' => Pending(t)
    BY <2>1 DEF Pending
  <2>3. InTurn(jobs') /\ jobs' # <<>>
    BY <1>1, <2>1 DEF Progress
  <2>4. ASSUME NEW j \in SlotIds, entries'[j].len # 0
        PROVE  Awaiting(j)'
    <3>1. PICK l \in DOMAIN jobs :
            /\ j # c /\ Single(j)
            /\ jobs[l].pass = 7 /\ entries[j].name = UpdateFile[jobs[l].slot]
            /\ Blocks[jobs[l].rest] = 1 /\ FileData(j) = JunkOf[jobs[l].rest]
      BY <1>6, <2>4
    <3>2. l \in DOMAIN jobs' /\ jobs'[l] = jobs[l] /\ Lasting(j)
      BY <1>5, <2>1, <3>1
    <3>3. QED
      BY <1>1, <3>1, <3>2, StillAwaiting
  <2>5. QED
    BY <1>7, <2>2, <2>3, <2>4 DEF Progress
<1>9. CASE reply'.code # 0
  <2>1. ASSUME NEW j \in SlotIds, entries'[j].len # 0
        PROVE  Complete(j)'
    <3>1. PICK l \in DOMAIN jobs :
            /\ j # c /\ entries[j].len # 0
            /\ jobs[l].pass = 7 /\ entries[j].name = UpdateFile[jobs[l].slot]
            /\ Blocks[jobs[l].rest] = 1 /\ FileData(j) = JunkOf[jobs[l].rest]
      BY <1>6, <2>1
    <3>2. FileData(j)' = FileData(j) /\ entries'[j].name = entries[j].name
      BY <1>5, <3>1, LastingKeeps DEF Lasting
    <3>3. jobs[l].slot \in Slots /\ jobs[l].rest \in Rests /\ UpdateFile[jobs[l].slot] \in Updates
      BY <1>1, JobFields
    <3>4. entries[j].name # n
      BY <1>1, <1>2, <3>1, HasSlot DEF FindEntry
    <3>5. n \in N /\ UpdateFile[jobs[l].slot] \in N
      BY <1>5, <3>1, <3>2
    <3>6. Updates \subseteq N
      <4> HIDE DEF N
      <4>1. QED
        BY <1>3, <3>1, <3>3, <3>4, <3>5, BothListed
    <3>7. QED
      BY <3>1, <3>2, <3>3, <3>6, CompleteWithJunk
  <2>2. QED
    BY <1>7, <1>9, <2>1, GivenUp
<1>10. QED
  BY <1>8, <1>9

\* The rest of the 7BL goes to the file of its slot, if that is long enough, and the
\* saving is over.  A file made by writing the 6BL always is.
LEMMA FilledByUpdate7BL ==
  ASSUME Roomy, VisibleInv, phase = "saving", Running, jobs # <<>>, Head(jobs).pass = 7,
         NEW i \in FindEntry(UpdateFile[Head(jobs).slot]),
         FileSetData(i, Head(jobs).rest), fault' = "none",
         jobs' = IF reply'.code = 0 THEN <<>> ELSE Tail(jobs)
  PROVE  Progress'
<1> DEFINE s == jobs[1].slot
           r == jobs[1].rest
           N == {entries'[x].name : x \in SlotIds}
<1>1. /\ TypeOK /\ SoundMap /\ jobs \in Seq(Job) /\ Filing /\ Fresh /\ Named /\ Progress
  BY DEF VisibleInv, ImageInv, Types, RootTypeOK, Building
<1>2. 1 \in DOMAIN jobs /\ Head(jobs) = jobs[1]
  BY <1>1, TailPlaces
<1>3. s \in Slots /\ r \in Rests /\ r \in Data /\ UpdateFile[s] \in Updates
  BY <1>1, <1>2, JobFields
<1>4. i \in SlotIds /\ i \in 0..(count - 1) /\ entries[i].name = UpdateFile[s]
  BY <1>1, <1>2, FoundSlots DEF FindEntry
<1>5. /\ \A j \in SlotIds \ {i} : Lasting(j)
      /\ entries'[i].name = entries[i].name
      /\ \/ /\ reply'.code # 0 /\ entries'[i].len = entries[i].len
            /\ entries[i].blk # 0 => Cardinality(Chain(blockMap, entries[i].blk)) < Blocks[r]
         \/ reply'.code = 0 /\ FileData(i)' = r
  BY <1>1, <1>2, <1>3, <1>4, SetResult
<1>6. ASSUME NEW j \in SlotIds, entries[j].len # 0
      PROVE  \E l \in DOMAIN jobs :
               /\ Single(j) /\ jobs[l].pass = 7 /\ entries[j].name = UpdateFile[jobs[l].slot]
               /\ Blocks[jobs[l].rest] = 1 /\ FileData(j) = JunkOf[jobs[l].rest]
               /\ j # i => l # 1 /\ jobs[l].slot # s
               /\ j = i => l = 1
  <2>1. PICK l \in DOMAIN jobs :
          /\ Single(j) /\ jobs[l].pass = 7 /\ entries[j].name = UpdateFile[jobs[l].slot]
          /\ Blocks[jobs[l].rest] = 1 /\ FileData(j) = JunkOf[jobs[l].rest]
    BY <1>1, <1>6 DEF Progress, Awaiting
  <2>2. jobs[l].slot \in Slots
    BY <1>1, JobFields
  <2>3. j # i => jobs[l].slot # s
    BY <1>1, <1>3, <1>4, <1>6, <2>1, HasSlot DEF Named
  <2>4. j = i => jobs[l].slot = s
    BY <1>3, <1>4, <2>1, <2>2, SlotsDiffer
  <2>5. j = i => l = 1
    BY <1>1, <1>2, <2>1, <2>4 DEF Progress, InTurn
  <2>6. QED
    BY <2>1, <2>3, <2>5
<1>7. ASSUME NEW j \in SlotIds
      PROVE  Blank(j)' \/ \E t \in Slots : entries'[j].name = UpdateFile[t]
  BY <1>1, <1>3, <1>4, <1>5, LastingKeeps DEF Progress, Lasting
<1>8. CASE reply'.code = 0
  <2>1. FileData(i)' = r
    BY <1>5, <1>8
  <2>2. ASSUME NEW j \in SlotIds, entries'[j].len # 0
        PROVE  Complete(j)'
    <3>1. CASE j = i
      BY <1>3, <1>4, <1>5, <2>1, <3>1 DEF Complete
    <3>2. CASE j # i
      <4>1. entries[j].len # 0 /\ FileData(j)' = FileData(j) /\ entries'[j].name = entries[j].name
        BY <1>5, <2>2, <3>2, LastingKeeps DEF Lasting
      <4>2. PICK l \in DOMAIN jobs :
              /\ entries[j].name = UpdateFile[jobs[l].slot] /\ jobs[l].slot # s
              /\ Blocks[jobs[l].rest] = 1 /\ FileData(j) = JunkOf[jobs[l].rest]
        BY <1>6, <3>2, <4>1
      <4>3. jobs[l].slot \in Slots /\ jobs[l].rest \in Rests
            /\ UpdateFile[jobs[l].slot] \in Updates
        BY <1>1, JobFields
      <4>4. UpdateFile[s] \in N /\ UpdateFile[jobs[l].slot] \in N
        BY <1>4, <1>5, <4>1, <4>2
      <4>5. Updates \subseteq N
        <5> HIDE DEF N
        <5>1. QED
          BY <1>3, <4>2, <4>3, <4>4, BothListed
      <4>6. QED
        BY <4>1, <4>2, <4>3, <4>5, CompleteWithJunk
    <3>3. QED
      BY <3>1, <3>2
  <2>3. QED
    BY <1>7, <1>8, <2>2, GivenUp
<1>9. CASE reply'.code # 0
  <2>1. /\ InTurn(jobs') /\ \A t : ~ Pending(t)'
        /\ \A k \in DOMAIN jobs : k # 1 => jobs' # <<>> /\ k - 1 \in DOMAIN jobs'
                                           /\ jobs'[k - 1] = jobs[k]
    BY <1>1, <1>9, Remaining DEF Progress
  <2>2. entries[i].len = 0
    <3>1. ASSUME entries[i].len # 0
          PROVE  FALSE
      <4>1. Single(i) /\ Blocks[r] = 1
        BY <1>4, <1>6, <3>1
      <4>2. entries[i].blk # 0
        BY <1>1, <1>4, <3>1 DEF Filing, FitsAt
      <4>3. QED
        BY <1>5, <1>9, <4>1, <4>2 DEF Single
    <3>2. QED
      BY <3>1
  <2>3. ASSUME NEW j \in SlotIds, entries'[j].len # 0
        PROVE  jobs' # <<>> /\ Awaiting(j)'
    <3>1. j # i
      BY <1>5, <1>9, <2>2, <2>3
    <3>2. Lasting(j) /\ entries[j].len # 0
      BY <1>5, <2>3, <3>1, LastingKeeps
    <3>3. PICK l \in DOMAIN jobs :
            /\ Single(j) /\ jobs[l].pass = 7 /\ entries[j].name = UpdateFile[jobs[l].slot]
            /\ Blocks[jobs[l].rest] = 1 /\ FileData(j) = JunkOf[jobs[l].rest] /\ l # 1
      BY <1>6, <3>1, <3>2
    <3>4. QED
      BY <1>1, <2>1, <3>2, <3>3, StillAwaiting
  <2>4. QED
    BY <1>7, <2>1, <2>3 DEF Progress
<1>10. QED
  BY <1>8, <1>9

\* A step of the image that is being built, in the words of VisibleInv.
LEMMA StillBuilding ==
  ASSUME VisibleInv, ImageInv', phase' \in {"mobile", "payloads", "files", "setting", "saving"},
         rootState' = "blank", Filing', Fresh', Named',
         phase' # "saving" => \A i \in SlotIds : Blank(i)',
         phase' = "setting" => entries'[count' - 1].blk = 0,
         phase' = "saving" /\ fault' = "none" => Progress'
  PROVE  VisibleInv'
BY DEF VisibleInv, Building, Running

LEMMA BuildingHas ==
  ASSUME VisibleInv, phase \in {"mobile", "payloads", "files", "setting", "saving"}
  PROVE  /\ TypeOK /\ SoundMap /\ jobs \in Seq(Job) /\ count \in Nat
         /\ rootState = "blank" /\ Filing /\ Fresh /\ Named
         /\ phase # "saving" => \A i \in SlotIds : Blank(i)
         /\ phase = "setting" => count > 0 /\ entries[count - 1].blk = 0
BY DEF VisibleInv, ImageInv, Types, RootTypeOK, Building, TypeOK

LEMMA VisibleInit == ASSUME ImageInit PROVE VisibleInv
<1>1. ImageInv /\ TypeOK
  BY InitSound DEF ImageInv, Types, RootTypeOK
<1>2. /\ \A i \in SlotIds : entries[i].blk = 0 /\ entries[i].len = 0
      /\ count = 0 /\ rootState = "blank" /\ phase \in {"mobile", "opening"}
  BY DEF ImageInit, RootInit, Init
<1>3. Filing /\ Fresh /\ \A i \in SlotIds : Blank(i)
  BY <1>2 DEF Filing, FitsAt, Fresh, Blank, Single
<1>4. Named
  BY <1>2 DEF Named
<1>5. QED
  BY <1>1, <1>2, <1>3, <1>4 DEF VisibleInv

\* A step that keeps the map and the directory.
LEMMA FilesStay ==
  ASSUME TypeOK, SoundMap, Filing, Fresh, Named,
         UNCHANGED <<blockMap, entries, count, disk>>
  PROVE  /\ Filing' /\ Fresh' /\ Named' /\ \A j \in SlotIds : Lasting(j)
BY NothingChanged, NamedKept DEF Fresh

LEMMA VisibleMobile ==
  ASSUME VisibleInv, ImageInv', NEW t \in MobileTypes, MobileAddFile(t)
  PROVE  VisibleInv'
<1>1. /\ phase = "mobile" /\ phase' = "mobile" /\ rootState' = rootState
      /\ UNCHANGED <<blockMap, entries, count, disk>>
  BY DEF MobileAddFile, rootVars, vars
<1>2. Filing' /\ Fresh' /\ Named' /\ \A j \in SlotIds : Blank(j)'
  BY <1>1, BuildingHas, FilesStay, LastingKeeps
<1>3. QED
  BY <1>1, <1>2, BuildingHas, StillBuilding

LEMMA VisiblePayload ==
  ASSUME VisibleInv, ImageInv', NEW p \in PayloadFiles, PayloadAddFile(p)
  PROVE  VisibleInv'
<1>1. /\ phase \in {"mobile", "payloads"} /\ phase' = "payloads" /\ rootState' = rootState
      /\ UNCHANGED <<entries, count, disk>>
  BY DEF PayloadAddFile
<1>2. \A i \in SlotIds : entries[i].blk = 0 /\ entries[i].len = 0
  BY <1>1, BuildingHas DEF VisibleInv, ImageInv, SoundPayloads, Filling, Blank
<1>3. Filing' /\ Fresh' /\ \A i \in SlotIds : Blank(i)'
  BY <1>1, <1>2 DEF Filing, FitsAt, Fresh, Blank, Single
<1>4. Named'
  BY <1>1, BuildingHas, NamedKept
<1>5. QED
  BY <1>1, <1>3, <1>4, BuildingHas, StillBuilding

LEMMA VisibleIniFile ==
  ASSUME Roomy, UpdateNamesKept, VisibleInv, ImageInv', NEW n \in Names, AddIniFile(n)
  PROVE  VisibleInv'
<1>1. /\ phase \in {"mobile", "payloads", "files"} /\ FileAdd(n) /\ RootWritten
      /\ phase' = IF fault' = "none" /\ reply'.code = 0 THEN "setting" ELSE "files"
  BY DEF AddIniFile, AddFile
<1>2. /\ TypeOK /\ SoundMap /\ count \in Nat /\ rootState = "blank"
      /\ Filing /\ Fresh /\ Named /\ \A i \in SlotIds : Blank(i)
  BY <1>1, BuildingHas
<1>3. Filing' /\ Fresh' /\ rootState' = "blank" /\ phase' \in {"setting", "files"}
  BY <1>1, <1>2, AddResult DEF RootWritten
<1>4. CASE /\ UNCHANGED <<blockMap, entries, count, disk>>
           /\ fault' # "none" \/ reply'.code # 0
           /\ \A j \in SlotIds : Lasting(j)
  <2>1. Named' /\ \A j \in SlotIds : Blank(j)'
    BY <1>2, <1>4, FilesStay, LastingKeeps
  <2>2. phase' = "files"
    BY <1>1, <1>4
  <2>3. QED
    BY <1>3, <2>1, <2>2, StillBuilding
<1>5. ASSUME FindEntry(n) = {}, NEW c \in SlotIds, Entered(c, n)
      PROVE  VisibleInv'
  <2>1. Named'
    BY <1>2, <1>5, NamedEntered
  <2>2. \A j \in SlotIds : Blank(j)'
    BY <1>2, <1>5, LastingKeeps DEF Entered
  <2>3. count' - 1 = c
    BY <1>2, <1>5 DEF Entered
  <2>4. phase' = "setting" => entries'[count' - 1].blk = 0
    BY <1>1, <1>5, <2>3 DEF Entered
  <2>5. QED
    BY <1>3, <2>1, <2>2, <2>4, StillBuilding
<1>6. QED
  BY <1>1, <1>2, <1>4, <1>5, AddResult

LEMMA VisibleIniData ==
  ASSUME Roomy, VisibleInv, ImageInv', NEW d \in Data, SetIniFile(d)
  PROVE  VisibleInv'
<1>1. /\ phase = "setting" /\ FileSetData(count - 1, d) /\ RootWritten /\ phase' = "files"
  BY DEF SetIniFile, SetFile
<1>2. /\ TypeOK /\ SoundMap /\ count \in Nat /\ rootState = "blank" /\ count > 0
      /\ Filing /\ Fresh /\ Named /\ entries[count - 1].blk = 0
      /\ \A i \in SlotIds : Blank(i)
  BY <1>1, BuildingHas
<1>3. PICK i \in SlotIds : i = count - 1
  BY <1>2, GeometryAssumption DEF TypeOK, SlotIds
<1>4. /\ count' = count /\ Filing' /\ Fresh'
      /\ \A j \in SlotIds \ {i} : Lasting(j)
      /\ entries'[i].name = entries[i].name
      /\ Lasting(i) \/ (entries'[i].len = entries[i].len /\ Single(i)')
  BY <1>1, <1>2, <1>3, SetResult
<1>5. \A j \in SlotIds : Blank(j)'
  BY <1>2, <1>4, LastingKeeps DEF Blank
<1>6. Named'
  BY <1>2, <1>4, NamedKept DEF Lasting
<1>7. rootState' = "blank"
  BY <1>1, <1>2 DEF RootWritten
<1>8. QED
  BY <1>1, <1>4, <1>5, <1>6, <1>7, StillBuilding

LEMMA VisiblePayloadsSaved ==
  ASSUME VisibleInv, ImageInv', SavePayloads
  PROVE  VisibleInv'
<1>1. /\ phase \in {"mobile", "payloads", "files"} /\ phase' \in {"saving", "cut"}
      /\ rootState' = rootState /\ UNCHANGED <<entries, count, disk>>
  BY SavingPayloads
<1>2. blockMap' = blockMap
  BY <1>1, MarkedAlready DEF SavePayloads, VisibleInv
<1>3. /\ TypeOK /\ SoundMap /\ rootState = "blank"
      /\ Filing /\ Fresh /\ Named /\ \A i \in SlotIds : Blank(i)
  BY <1>1, BuildingHas
<1>4. CASE phase' = "cut"
  BY <1>4 DEF VisibleInv, Building
<1>5. CASE phase' = "saving"
  <2>1. Filing' /\ Fresh' /\ Named' /\ \A j \in SlotIds : Blank(j)'
    BY <1>1, <1>2, <1>3, FilesStay, LastingKeeps
  <2>2. InTurn(jobs')
    BY <1>5, JobsInTurn, SavingPayloads
  <2>3. Progress'
    BY <2>1, <2>2 DEF Progress, Blank
  <2>4. QED
    BY <1>1, <1>3, <1>5, <2>1, <2>3, StillBuilding
<1>6. QED
  BY <1>1, <1>4, <1>5

\* Writing the loaders, whatever comes of it.
LEMMA VisibleUpdate6BL ==
  ASSUME Roomy, UpdateNamesKept, VisibleInv, ImageInv', SaveUpdate6BL
  PROVE  VisibleInv'
<1>1. /\ phase = "saving" /\ phase' = "saving" /\ jobs # <<>> /\ Head(jobs).pass = 6
      /\ TypeOK /\ SoundMap /\ jobs \in Seq(Job) /\ rootState = "blank"
      /\ Filing /\ Fresh /\ Named
  BY BuildingHas DEF SaveUpdate6BL
<1>2. UpdateFile[Head(jobs).slot] \in Names /\ JunkOf[Head(jobs).rest] \in Data
  BY <1>1, JobData
<1>3. ASSUME NEW i \in FindEntry(UpdateFile[Head(jobs).slot]),
             SetFile(i, JunkOf[Head(jobs).rest]), jobs' = Tail(jobs)
      PROVE  VisibleInv'
  <2>1. i \in SlotIds /\ FileSetData(i, JunkOf[Head(jobs).rest]) /\ Running
    BY <1>1, <1>3, FoundSlots DEF SetFile, FileSetData
  <2>2. /\ count' = count /\ Filing' /\ Fresh'
        /\ \A j \in SlotIds : entries'[j].name = entries[j].name
    BY <1>1, <1>2, <2>1, SetResult DEF Lasting
  <2>3. Named'
    BY <1>1, <2>2, NamedKept
  <2>4. fault' = "none" => Progress'
    BY <1>1, <1>3, <2>1, LengthenedByUpdate6BL
  <2>5. rootState' = "blank"
    BY <1>1, <1>3 DEF SetFile, RootWritten
  <2>6. QED
    BY <1>1, <2>2, <2>3, <2>4, <2>5, StillBuilding
<1>4. ASSUME FindEntry(UpdateFile[Head(jobs).slot]) = {},
             AddFile(UpdateFile[Head(jobs).slot]),
             jobs' = IF fault' = "none" /\ reply'.code = 0 THEN jobs ELSE <<>>
      PROVE  VisibleInv'
  <2> DEFINE n == UpdateFile[Head(jobs).slot]
  <2>1. FileAdd(n) /\ Running
    BY <1>4 DEF AddFile, FileAdd
  <2>2. /\ Filing' /\ Fresh'
        /\ \/ UNCHANGED <<blockMap, entries, count, disk>>
           \/ FindEntry(n) = {} /\ \E c \in SlotIds : Entered(c, n)
    BY <1>1, <1>2, <2>1, AddResult
  <2>3. Named'
    BY <1>1, <1>2, <2>2, FilesStay, NamedEntered
  <2>4. ASSUME fault' = "none" PROVE Progress'
    <3>1. jobs' = IF reply'.code = 0 THEN jobs ELSE <<>>
      BY <1>4, <2>4
    <3>2. QED
      BY <1>1, <1>4, <2>1, <2>4, <3>1, EnteredByUpdate6BL
  <2>5. rootState' = "blank"
    BY <1>1, <1>4 DEF AddFile, RootWritten
  <2>6. QED
    BY <1>1, <2>2, <2>3, <2>4, <2>5, StillBuilding
<1>5. QED
  BY <1>3, <1>4 DEF SaveUpdate6BL

LEMMA VisibleUpdate7BL ==
  ASSUME Roomy, VisibleInv, ImageInv', SaveUpdate7BL
  PROVE  VisibleInv'
<1>1. /\ phase = "saving" /\ phase' = "saving" /\ jobs # <<>> /\ Head(jobs).pass = 7
      /\ TypeOK /\ SoundMap /\ jobs \in Seq(Job) /\ rootState = "blank"
      /\ Filing /\ Fresh /\ Named
  BY BuildingHas DEF SaveUpdate7BL
<1>2. PICK i \in FindEntry(UpdateFile[Head(jobs).slot]) : SetFile(i, Head(jobs).rest)
  BY DEF SaveUpdate7BL
<1>3. /\ i \in SlotIds /\ FileSetData(i, Head(jobs).rest) /\ Running
      /\ Head(jobs).rest \in Data
  BY <1>1, <1>2, FoundSlots, JobData DEF SetFile, FileSetData
<1>4. /\ count' = count /\ Filing' /\ Fresh'
      /\ \A j \in SlotIds : entries'[j].name = entries[j].name
  BY <1>1, <1>3, SetResult DEF Lasting
<1>5. Named'
  BY <1>1, <1>4, NamedKept
<1>6. ASSUME fault' = "none" PROVE Progress'
  <2>1. jobs' = IF reply'.code = 0 THEN <<>> ELSE Tail(jobs)
    BY <1>6 DEF SaveUpdate7BL
  <2>2. QED
    BY <1>1, <1>2, <1>3, <1>6, <2>1, FilledByUpdate7BL
<1>7. rootState' = "blank"
  BY <1>1, <1>2 DEF SetFile, RootWritten
<1>8. QED
  BY <1>1, <1>4, <1>5, <1>6, <1>7, StillBuilding

\* Save erases the cell of the root alone, which no file has.
LEMMA KeptBySave ==
  ASSUME Roomy, OffsetClear, TypeOK, SoundMap, Filing, UNCHANGED <<blockMap, entries>>,
         disk' = [disk EXCEPT ![RootBlock] = Erased]
  PROVE  Filing' /\ \A j \in SlotIds : Lasting(j)
<1>1. Filed(ImageHeads) /\ blockMap \in Maps /\ ImageHeads \in SUBSET BlockIds
      /\ Tidy(blockMap, ImageHeads)
  BY FilingFiled DEF Filed, Walkable, TypeOK, Maps
<1>2. ASSUME NEW j \in SlotIds, entries[j].blk # 0, NEW c \in Chain(blockMap, entries[j].blk)
      PROVE  disk'[c + FSOffset] = disk[c + FSOffset]
  <2>1. entries[j].blk \in FileHeads /\ entries[j].blk \in ImageHeads
    BY <1>2 DEF FileHeads, ImageHeads
  <2>2. RootBlock \notin Chain(blockMap, entries[j].blk)
    BY <2>1, RootNotInFiles
  <2>3. c \in BlockIds /\ c # RootBlock
    BY <1>1, <1>2, <2>1, <2>2, ChainEnds
  <2>4. c + FSOffset \in Cells /\ c + FSOffset # RootBlock
    BY <2>3, GeometryAssumption DEF OffsetClear, Roomy, Cells, BlockIds
  <2>5. QED
    BY <2>4 DEF TypeOK
<1>3. \A j \in SlotIds : Kept(j)
  BY <1>1, <1>2, KeptUntouched
<1>4. QED
  BY <1>3, LastingChain, KeepHeadsFiling DEF KeepHeads, Kept

\* A file that lasts is as complete as it was when no file is renamed.
LEMMA CompleteKept ==
  ASSUME NEW j \in SlotIds, Complete(j), Lasting(j), UNCHANGED entries
  PROVE  Complete(j)'
<1>1. FileData(j)' = FileData(j)
  BY LastingKeeps
<1>2. QED
  BY <1>1 DEF Complete

LEMMA VisibleFileSystemsSaved ==
  ASSUME Roomy, OffsetClear, VisibleInv, ImageInv', SaveFileSystems
  PROVE  VisibleInv'
<1>1. /\ phase = "saving" /\ jobs = <<>> /\ Running /\ phase' \in {"written", "headerless"}
      /\ TypeOK /\ SoundMap /\ rootState = "blank" /\ Filing
  BY BuildingHas DEF SaveFileSystems
<1>2. \A i \in SlotIds : entries[i].len # 0 => Complete(i)
  BY <1>1 DEF VisibleInv, Progress
<1>3. ASSUME phase' = "written" /\ fault' = "none" /\ rootState' = "saved"
      PROVE  Finished'
  <2>1. Save
    BY <1>1, <1>3 DEF SaveFileSystems, SaveRoots, rootVars
  <2>2. /\ savedMap' = blockMap /\ savedDir' = entries /\ UNCHANGED <<blockMap, entries>>
        /\ disk' = [disk EXCEPT ![RootBlock] = Erased]
    BY <1>1, <1>3, <2>1 DEF Save, Fails
  <2>3. Filing' /\ \A j \in SlotIds : Lasting(j)
    BY <1>1, <2>2, KeptBySave
  <2>4. \A j \in SlotIds : entries'[j].len # 0 => Complete(j)'
    BY <1>2, <2>2, <2>3, CompleteKept
  <2>5. QED
    BY <2>2, <2>3, <2>4 DEF Finished
<1>4. QED
  BY <1>1, <1>3 DEF VisibleInv, Building, Running

\* The files Load shows are in use.
LEMMA ShownAreUsed ==
  ASSUME NEW dir, NEW i \in 0..(Visible(dir) - 1)
  PROVE  i \in SlotIds /\ Used(dir[i])
<1> DEFINE S == {k \in SlotIds : \A j \in 0..k : Used(dir[j])}
<1>1. Visible(dir) \in 0..MaxEntries /\ MaxEntries \in Nat
  BY VisibleBounds, GeometryAssumption
<1>2. i \in SlotIds /\ i \in Nat /\ i < Visible(dir)
  BY <1>1 DEF SlotIds
<1>3. ASSUME i \notin S
      PROVE  FALSE
  <2>1. S \subseteq 0..(i - 1)
    <3>1. ASSUME NEW k \in S, k >= i
          PROVE  FALSE
      <4>1. k \in Nat /\ 0..i \subseteq 0..k
        BY <1>1, <1>2, <3>1 DEF SlotIds
      <4>2. QED
        BY <1>2, <1>3, <4>1
    <3>2. \A k \in S : k \in Nat
      BY <1>1 DEF SlotIds
    <3>3. \A k \in S : k \in 0..(i - 1)
      BY <1>2, <3>1, <3>2
    <3>4. QED
      BY <3>3
  <2>2. IsFiniteSet(0..(i - 1)) /\ Cardinality(0..(i - 1)) = i
    <3>1. i - 1 \in Int /\ 0 \in Int /\ (0 > i - 1 <=> i = 0) /\ (i - 1) - 0 + 1 = i
      BY <1>2
    <3>2. QED
      BY <3>1, FS_Interval, Zenon
  <2>3. Cardinality(S) <= i
    <3> HIDE DEF S
    <3>1. QED
      BY <2>1, <2>2, FS_Subset
  <2>4. Visible(dir) = Cardinality(S)
    BY DEF Visible
  <2>5. QED
    BY <1>1, <1>2, <2>3, <2>4
<1>4. Used(dir[i])
  BY <1>2, <1>3
<1>5. QED
  BY <1>2, <1>4

LEMMA VisibleLoaded ==
  ASSUME VisibleInv, ImageInv', LoadFileSystems
  PROVE  VisibleInv'
<1>1. /\ Running /\ phase \in {"written", "opening"}
      /\ \/ fault' # "none" /\ phase' = phase /\ rootState' = rootState
         \/ phase' = "loaded" /\ (rootState' = "saved" => Load)
  BY Zenon DEF LoadFileSystems, Fails, rootVars
<1>2. ASSUME phase' = "loaded", rootState' = "saved"
      PROVE  Shown'
  <2>1. Load /\ rootState = "saved"
    BY <1>1, <1>2 DEF Load
  <2>2. phase = "written" /\ Finished
    BY <1>1, <2>1 DEF VisibleInv
  <2>3. /\ UNCHANGED <<blockMap, entries, disk>> /\ savedDir' = entries'
        /\ count' = Visible(entries)
    BY <2>1, <2>2 DEF Load, Finished
  <2>4. TypeOK /\ SoundMap /\ Filing
    BY <2>2 DEF VisibleInv, ImageInv, Types, RootTypeOK, Finished
  <2>5. Filing' /\ \A j \in SlotIds : Lasting(j)
    BY <2>3, <2>4, NothingChanged
  <2>6. SoundMap'
    BY <2>3, <2>4 DEF SoundMap, ImageHeads, FileHeads, LiveRoot
  <2>7. \A i \in 0..(count' - 1) : i \in SlotIds /\ Complete(i)'
    <3>1. \A i \in 0..(count' - 1) : i \in SlotIds /\ entries[i].len # 0
      BY <2>3, ShownAreUsed DEF Used
    <3>2. QED
      BY <2>2, <2>3, <2>5, <3>1, CompleteKept DEF Finished
  <2>8. QED
    BY <2>3, <2>5, <2>6, <2>7 DEF Shown
<1>3. CASE phase' = "loaded"
  BY <1>2, <1>3 DEF VisibleInv, Building
<1>4. CASE fault' # "none" /\ phase' = phase /\ rootState' = rootState
  BY <1>1, <1>4 DEF VisibleInv, Building, Running
<1>5. QED
  BY <1>1, <1>3, <1>4

LEMMA VisibleStutter ==
  ASSUME VisibleInv, ImageInv', UNCHANGED imgVars
  PROVE  VisibleInv'
<1>1. UNCHANGED <<blockMap, entries, count, disk, fault, savedMap, savedDir, rootState,
                  phase, jobs>>
  BY DEF imgVars, rootVars, vars
<1>2. /\ Filing' <=> Filing
      /\ \A i : (Complete(i)' <=> Complete(i)) /\ (Blank(i)' <=> Blank(i))
                /\ (Awaiting(i)' <=> Awaiting(i))
      /\ \A s : Pending(s)' <=> Pending(s)
  BY <1>1 DEF Filing, FitsAt, Complete, FileData, Blank, Single, Awaiting, Pending
<1>3. /\ Fresh' <=> Fresh
      /\ Named' <=> Named
      /\ SoundMap' <=> SoundMap
      /\ Progress' <=> Progress
  BY <1>1, <1>2 DEF Fresh, Named, SoundMap, ImageHeads, FileHeads, LiveRoot, Progress
<1>4. (Finished' <=> Finished) /\ (Shown' <=> Shown)
  BY <1>1, <1>2, <1>3 DEF Finished, Shown
<1>5. QED
  BY <1>1, <1>2, <1>3, <1>4 DEF VisibleInv, Building, Running

LEMMA VisibleInductive ==
  ASSUME Roomy, OffsetClear, UpdateNamesKept, VisibleInv, [ImageNext]_imgVars
  PROVE  VisibleInv'
<1>1. ImageInv'
  BY ImageInductive DEF VisibleInv
<1>2. QED
  BY <1>1, VisibleMobile, VisiblePayload, VisibleIniFile, VisibleIniData,
     VisiblePayloadsSaved, VisibleUpdate6BL, VisibleUpdate7BL, VisibleFileSystemsSaved,
     VisibleLoaded, VisibleStutter DEF ImageNext

\* Whatever the ini file adds and however many loaders are saved, the files that are
\* visible in the image that is read back are update files, and each holds the rest of
\* its 7BL, or memory nothing was written to in the one case VisibleWhole allows:
\* SaveUpdate6BL and SaveUpdate7BL leave no other file with data.
THEOREM VisibleFilesWhole ==
  ASSUME Roomy, OffsetClear, UpdateNamesKept
  PROVE  ImageSpec => []VisibleWhole
<1>1. VisibleInv => VisibleWhole
  <2> SUFFICES ASSUME VisibleInv, phase = "loaded", rootState = "saved",
                      NEW i \in 0..(count - 1)
               PROVE  /\ entries[i].name \in Updates
                      /\ \/ Held(i) \in Rests
                         \/ /\ \E r \in Rests : Held(i) = JunkOf[r] /\ Blocks[r] = 1
                            /\ Updates \subseteq {savedDir[j].name : j \in SlotIds}
    BY Zenon DEF VisibleWhole, Updates
  <2>1. TypeOK /\ SoundMap /\ Filing /\ savedDir = entries /\ i \in SlotIds /\ Complete(i)
    BY DEF VisibleInv, ImageInv, Types, RootTypeOK, Shown
  <2>2. Held(i) = FileData(i)
    BY <2>1, HeldIsFileData
  <2>3. QED
    BY <2>1, <2>2 DEF Complete
<1>2. VisibleInv /\ [ImageNext]_imgVars => VisibleInv'
  BY VisibleInductive
<1>3. ImageInit => VisibleInv
  BY VisibleInit
<1>4. QED
  BY <1>1, <1>2, <1>3, PTL DEF ImageSpec
=============================================================================
