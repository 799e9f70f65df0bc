----------------------------- MODULE FlashImage -----------------------------
(***************************************************************************)
(* CXeFlashImage around its file system: an ini file adds mobile files,    *)
(* payloads and files to a new image, SaveContinue writes them, and        *)
(* LoadFileSystems finds what there is to find in it.  Payloads have no    *)
(* block of their own: they are laid where the ini says and their blocks   *)
(* are marked in the map.  FileAdd and ChainAllocBlock report the wrong    *)
(* way round here too, so that few of the files ever get their data.       *)
(*                                                                         *)
(* A console's image may hold several file systems and several versions of *)
(* a mobile file; of such an image the choice is modelled, not the         *)
(* contents.                                                               *)
(***************************************************************************)
EXTENDS FlashFileSystemRoot, Integers, Sequences

CONSTANTS
  PayloadLimit,    \* MAX_RGB_PAYLOADS
  PayloadFiles,    \* payloads of ini files: [at, blocks, desc]
  MapWords,        \* words of the buffer CreateFileSystem allocates for the map
  HeaderRoom,      \* bytes of the header buffer behind 0x84, 0x17C
  MobileTypes,     \* B to J
  RootPlaces,      \* places for file systems in LoadFileSystems (0x77)
  PagePlaces,      \* places for pages of mobile files in LoadFileSystems (4096)
  BlockPages,      \* pages of a lil block, 0x20
  UpdateFile,      \* update slot -> name of its file
  Rests,           \* payloads: what is left of a 7BL behind its slot
  JunkOf,          \* memory as long as a rest that nothing was written to
  Consoles         \* what the spare bytes of a console's image tell

VARIABLES
  phase,
  waiting,         \* mobile files that were added; they have no page yet
  payloads,        \* xePayloads, in blocks
  jobs,            \* what SaveBootloaders has left to do for the update slots
  tags,            \* the file system version in a block's spare bytes, 0 for none
  mobiles,         \* mobile files in the image, in the order of their pages
  latest,          \* block of xedwLatestFileSystem; 0 without a file system
  latestMobile     \* xedwLatestMobileData, from 1; 0 without one

ini      == <<waiting, payloads>>
found    == <<latest, latestMobile>>
imgVars  == <<rootVars, phase, ini, jobs, tags, mobiles, found>>

Slots    == {1, 2}
Phases   == {"mobile", "payloads", "files", "setting", "saving", "cut", "written",
             "headerless", "opening", "loaded"}
Payload  == [at : Nat, blocks : Nat, desc : Nat]  \* desc: bytes of its name
Mobile   == [type : MobileTypes, seq : Nat, pages : 1..BlockPages]
NoTags   == [b \in BlockIds |-> 0]
NoMobile == [t \in MobileTypes |-> 0]
Job      == [slot : Slots, rest : Rests, pass : {6, 7}]

ASSUME ImageAssumption ==
  /\ PayloadLimit \in Nat /\ RootPlaces \in Nat /\ PagePlaces \in Nat
  /\ PayloadFiles \subseteq Payload
  /\ MapWords \in Nat /\ LilBlockCount <= MapWords /\ HeaderRoom \in Nat
  /\ BlockPages \in Nat \ {0}
  /\ UpdateFile \in [Slots -> Names] /\ UpdateFile[1] # UpdateFile[2]
  /\ Rests \subseteq Data /\ JunkOf \in [Rests -> Data \ Rests]
  /\ \A r \in Rests : Blocks[JunkOf[r]] = Blocks[r]
  /\ Consoles \subseteq [tags : [BlockIds -> Nat], mobiles : Seq(Mobile)]
  /\ \A c \in Consoles : c.tags[0] = 0

-----------------------------------------------------------------------------
(* Reading the ini *)

\* MobileAddFile, for one of the keys MobileB to MobileJ.
MobileAddFile(t) ==
  /\ phase = "mobile" /\ t \notin waiting
  /\ waiting' = waiting \cup {t}
  /\ UNCHANGED <<rootVars, phase, payloads, jobs, tags, mobiles, found>>

\* Mutant: a block too many.
CoveredOneMore(p) == p.at .. (p.at + p.blocks)

Covered(p) == p.at .. (p.at + p.blocks - 1)

\* Mutant: nothing is marked.
Unmarked(m, p) == m

Marked(m, p) == [b \in BlockIds |-> IF b \in Covered(p) THEN Reserved ELSE m[b]]

\* The same for all payloads of a list.
MarkedAll(m, list) ==
  [b \in BlockIds |-> IF \E k \in DOMAIN list : b \in Covered(list[k])
                      THEN Reserved ELSE m[b]]

\* Its marks run behind the buffer of the map.  Words of that buffer behind the last
\* block are nobody's.
PastMap(p) == p.blocks > 0 /\ p.at + p.blocks > MapWords

\* PayloadAddFile; the payload is refused at the limit, and looked at in no other
\* way.
PayloadAddFile(p) ==
  /\ Running /\ phase \in {"mobile", "payloads"}
  /\ phase' = "payloads"
  /\ \/ /\ Len(payloads) = PayloadLimit
        /\ UNCHANGED <<payloads, blockMap, fault>>
     \/ /\ Len(payloads) < PayloadLimit
        /\ payloads' = Append(payloads, p)
        /\ blockMap' = Marked(blockMap, p)
        /\ fault' = IF PastMap(p) THEN "overrun" ELSE fault
  /\ UNCHANGED <<entries, count, disk, reply, savedMap, savedDir, rootState,
                 waiting, jobs, tags, mobiles, found>>

\* A file of the ini: only a 0 of FileAdd, which says that it got no block, lets
\* ReadImageIni go on to set its data.
AddIniFile(n) ==
  /\ phase \in {"mobile", "payloads", "files"}
  /\ AddFile(n)
  /\ phase' = IF fault' = "none" /\ reply'.code = 0 THEN "setting" ELSE "files"
  /\ UNCHANGED <<ini, jobs, tags, mobiles, found>>

SetIniFile(d) ==
  /\ phase = "setting"
  /\ SetFile(count - 1, d)
  /\ phase' = "files"
  /\ UNCHANGED <<ini, jobs, tags, mobiles, found>>

-----------------------------------------------------------------------------
(* SaveContinue *)

\* The 6BL of every update slot comes before the 7BL of any.
JobsOf(needs) ==
  LET turn(s, k) == IF s \in DOMAIN needs
                    THEN <<[slot |-> s, rest |-> needs[s], pass |-> k]>> ELSE <<>>
      all(k)     == turn(1, k) \o turn(2, k)
  IN  all(6) \o all(7)

\* Bytes SaveContinue puts behind 0x84 of the header: 9 and a name for each payload,
\* and 4 to end the list.
Descriptors(list) ==
  LET upTo[k \in 0..Len(list)] == IF k = 0 THEN 0 ELSE upTo[k - 1] + 9 + list[k].desc
  IN  IF list = <<>> THEN 0 ELSE upTo[Len(list)] + 4

Overrun == Descriptors(payloads) > HeaderRoom \/ \E k \in DOMAIN payloads : PastMap(payloads[k])

\* The payloads, whose blocks are marked again, the header and the SMC.  An image too
\* short for one of these two ends SaveContinue, with 1, before it comes to vaults,
\* loaders and file systems, and the LoadContinue that follows before it comes to any.
SavePayloads ==
  /\ Running /\ phase \in {"mobile", "payloads", "files"}
  /\ blockMap' = MarkedAll(blockMap, payloads)
  /\ fault' = IF Overrun THEN "overrun" ELSE fault
  /\ \/ /\ phase' = "saving"
        /\ \E S \in SUBSET Slots : \E needs \in [S -> Rests] : jobs' = JobsOf(needs)
     \/ phase' = "cut" /\ jobs' = <<>>
  /\ UNCHANGED <<entries, count, disk, reply, savedMap, savedDir, rootState,
                 ini, tags, mobiles, found>>

\* SaveBootloaders makes the file of an update slot longer while it writes the 6BL,
\* which then lists its blocks: a few, as a call of FileSetData adds one.  It gives
\* up when the file is added, and goes on when FileAdd had no block for it.
SaveUpdate6BL ==
  /\ phase = "saving" /\ jobs # <<>> /\ Head(jobs).pass = 6
  /\ LET file == FindEntry(UpdateFile[Head(jobs).slot])
     IN  \/ /\ \E i \in file : SetFile(i, JunkOf[Head(jobs).rest])
            /\ jobs' = Tail(jobs)
         \/ /\ file = {}
            /\ AddFile(UpdateFile[Head(jobs).slot])
            /\ jobs' = IF fault' = "none" /\ reply'.code = 0 THEN jobs ELSE <<>>
  /\ UNCHANGED <<phase, ini, tags, mobiles, found>>

\* ... fills it in while it writes the 7BL, and gives up when that succeeds.
SaveUpdate7BL ==
  /\ phase = "saving" /\ jobs # <<>> /\ Head(jobs).pass = 7
  /\ \E i \in FindEntry(UpdateFile[Head(jobs).slot]) : SetFile(i, Head(jobs).rest)
  /\ jobs' = IF fault' = "none" /\ reply'.code = 0 THEN <<>> ELSE Tail(jobs)
  /\ UNCHANGED <<phase, ini, tags, mobiles, found>>

\* SaveFileSystems without a mobile file: the root, with its version.
SaveRoots ==
  /\ Save
  /\ tags' = IF rootState' = "saved" THEN [tags EXCEPT ![RootBlock] = 3] ELSE tags

\* With one: the block ChainAllocBlock takes for it is thought to be missing, and
\* no root is saved; when it takes none, the file goes over the header, or, longer
\* than the image, nowhere.
SaveFileSystems ==
  /\ Running /\ phase = "saving" /\ jobs = <<>>
  /\ \/ waiting = {} /\ SaveRoots /\ phase' = "written"
     \/ /\ waiting # {}
        /\ \E b \in BlockIds : AllocatesBlock(blockMap, b) /\ blockMap' = Taken(blockMap, b)
        /\ phase' = "written"
        /\ UNCHANGED <<entries, count, disk, reply, fault, savedMap, savedDir, rootState, tags>>
     \/ waiting # {} /\ FreeBlocks(blockMap) = {} /\ SaveRoots /\ phase' = "headerless"
     \/ /\ waiting # {} /\ FreeBlocks(blockMap) = {} /\ phase' = "written"
        /\ UNCHANGED <<rootVars, tags>>
  /\ UNCHANGED <<ini, jobs, mobiles, found>>

-----------------------------------------------------------------------------
(* LoadFileSystems *)

Roots == {b \in BlockIds : tags[b] # 0}

\* Mutant: the last file system found is taken for the latest.
LastRoot == IF Roots = {} THEN 0 ELSE CHOOSE b \in Roots : \A c \in Roots : c <= b

\* The scan of the blocks below k: of the file systems of the highest version the
\* first one found is taken for the latest.
LatestBelow[k \in 0..LilBlockCount] ==
  IF k = 0 THEN 0
  ELSE LET best == LatestBelow[k - 1]
       IN  IF k - 1 \in Roots /\ (best = 0 \/ tags[k - 1] > tags[best])
           THEN k - 1 ELSE best

LatestRoot == LatestBelow[LilBlockCount]

\* The spare bytes hold BlockPages less the number of pages, and a page where
\* that is 0 is passed over.
MobileFound ==
  LET upTo[i \in 0..Len(mobiles)] ==
        IF i = 0 THEN <<>>
        ELSE IF mobiles[i].pages = BlockPages THEN upTo[i - 1]
        ELSE Append(upTo[i - 1], mobiles[i])
  IN  upTo[Len(mobiles)]

\* A sequence number of 0 is never the latest.
LatestMobile(list, t) ==
  LET best[i \in 0..Len(list)] ==
        IF i = 0 THEN 0
        ELSE LET b == best[i - 1]
             IN  IF list[i].type = t /\ list[i].seq > (IF b = 0 THEN 0 ELSE list[b].seq)
                 THEN i ELSE b
  IN  best[Len(list)]

\* Pages of the mobile files of a list.
Pages(list) ==
  LET upTo[i \in 0..Len(list)] == IF i = 0 THEN 0 ELSE upTo[i - 1] + list[i].pages
  IN  upTo[Len(list)]

\* More than the arrays of LoadFileSystems have places for.
TooMany == Cardinality(Roots) > RootPlaces \/ Pages(MobileFound) > PagePlaces

LoadFileSystems ==
  /\ Running /\ phase \in {"written", "opening"}
  /\ \/ /\ TooMany
        /\ Fails("overflow")
        /\ UNCHANGED <<savedMap, savedDir, rootState, phase, mobiles, found>>
     \/ /\ ~ TooMany
        /\ latest' = LatestRoot
        /\ mobiles' = MobileFound
        /\ latestMobile' = [t \in MobileTypes |-> LatestMobile(MobileFound, t)]
        /\ phase' = "loaded"
        /\ \/ Load
           \/ rootState # "saved" /\ UNCHANGED rootVars
  /\ UNCHANGED <<ini, jobs, tags>>

-----------------------------------------------------------------------------

\* A new image, or one of a console that is opened.
ImageInit ==
  /\ RootInit
  /\ waiting = {} /\ payloads = <<>> /\ jobs = <<>>
  /\ latest = 0 /\ latestMobile = NoMobile
  /\ \/ phase = "mobile" /\ tags = NoTags /\ mobiles = <<>>
     \/ phase = "opening" /\ \E c \in Consoles : tags = c.tags /\ mobiles = c.mobiles

ImageNext ==
  \/ \E t \in MobileTypes : MobileAddFile(t)
  \/ \E p \in PayloadFiles : PayloadAddFile(p)
  \/ \E n \in Names : AddIniFile(n)
  \/ \E d \in Data : SetIniFile(d)
  \/ SavePayloads
  \/ SaveUpdate6BL
  \/ SaveUpdate7BL
  \/ SaveFileSystems
  \/ LoadFileSystems

ImageSpec == ImageInit /\ [][ImageNext]_imgVars

-----------------------------------------------------------------------------
(* Properties *)

\* The lists hold what the program reads and finds, within their limits.
ImageTypeOK ==
  /\ RootTypeOK
  /\ phase \in Phases
  /\ waiting \subseteq MobileTypes
  /\ payloads \in Seq(Payload) /\ Len(payloads) <= PayloadLimit
  /\ jobs \in Seq(Job)
  /\ tags \in [BlockIds -> Nat] /\ mobiles \in Seq(Mobile)
  /\ latest \in BlockIds
  /\ latestMobile \in [MobileTypes -> 0..Len(mobiles)]

LaidOver(b) ==
  \E k \in DOMAIN payloads :
    payloads[k].at <= b /\ b < payloads[k].at + payloads[k].blocks

\* No file ever has a block a payload is laid over, although nothing compares the
\* two ("ideally you should add payloads before any files", CXeFlashImage.cpp:776):
\* neither the first block FileAdd takes, nor those the update files grow by while
\* the loaders are saved.
PayloadsApart ==
  phase # "loaded" =>
    \A i \in SlotIds : entries[i].blk # 0 =>
      \A b \in Chain(blockMap, entries[i].blk) : ~ LaidOver(b)

\* A created image comes back without its file system only when it has a mobile
\* file or is too short for its header or its SMC, and without its header only when
\* it has a mobile file and no block was left for one.
\* The program leaves defined behaviour only for a payload on the block of the root
\* or behind the map, for names of payloads the header has no room for, for a full
\* map, a full directory, more file systems or mobile pages than there are places
\* for, or a file that is empty or too long for ChainGetChain.
LossExplained ==
  /\ phase \in {"cut", "written"} /\ fault = "none" =>
       (tags[RootBlock] = 0 <=> waiting # {} \/ phase = "cut")
  /\ phase = "headerless" /\ fault = "none" => waiting # {} /\ FreeBlocks(blockMap) = {}
  /\ fault = "wild" => LaidOver(RootBlock) \/ FreeBlocks(blockMap) = {}
  /\ fault = "recursion" => FreeBlocks(blockMap) = {}
  /\ fault = "overrun" => Overrun
  /\ fault = "overflow" => count = MaxEntries \/ TooMany
  /\ fault = "underflow" => \E d \in Data : Blocks[d] \notin 1..(ChainLimit - 1)

\* Of several file systems none found is newer than the one chosen, and of the
\* mobile files found of a type none is newer than the one that is dumped; a type
\* goes without only when no file of it has a sequence number.
NewestChosen ==
  phase = "loaded" =>
    /\ \A b \in Roots : latest # 0 /\ tags[b] <= tags[latest]
    /\ \A i \in DOMAIN mobiles :
         LET chosen == latestMobile[mobiles[i].type]
         IN  IF chosen = 0 THEN mobiles[i].seq = 0
             ELSE mobiles[chosen].type = mobiles[i].type /\ mobiles[i].seq <= mobiles[chosen].seq

\* Every file that is visible in the image read back is an update file and holds
\* the rest of a 7BL whole, or else memory nothing was written to: a rest of one
\* block, whose 7BL SaveBootloaders never came to because of the other slot, which
\* is then in the directory too.
VisibleWhole ==
  LET updates == {UpdateFile[s] : s \in Slots}
      listed  == {savedDir[j].name : j \in SlotIds}
  IN  phase = "loaded" /\ rootState = "saved" =>
        \A i \in 0..(count - 1) :
          /\ entries[i].name \in updates
          /\ \/ Held(i) \in Rests
             \/ /\ \E r \in Rests : Held(i) = JunkOf[r] /\ Blocks[r] = 1
                /\ updates \subseteq listed
=============================================================================
