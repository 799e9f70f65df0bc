-------------------------- MODULE FlashFileSystem --------------------------
(***************************************************************************)
(* CXeFlashFileSystemRoot: the file system of an Xbox 360 flash image, as  *)
(* CXeFlashFileSystem.cpp keeps it in memory.  A block map gives each      *)
(* "lil" block its successor in a chain or a mark (free, end of chain,     *)
(* reserved); a directory of fixed size gives each file the head of its    *)
(* chain and its length.  File data goes straight to the image buffer.     *)
(*                                                                         *)
(* One action is one call of FileAdd or FileSetData.  FileGetData, which   *)
(* changes nothing, is an operator.  ChainAllocBlock returns 0 on success  *)
(* and every caller in this file tests it the other way round; the actions *)
(* below follow the code.                                                  *)
(***************************************************************************)
EXTENDS Naturals, FiniteSets

CONSTANTS
  LilBlockCount,   \* xepBlkDriver->dwLilBlockCount
  RootBlock,       \* wBlkIdx, the block of the file system root
  SystemBlocks,    \* blocks CreateFileSystem reserves
  ChainLimit,      \* the 0x600 of ChainGetChain
  MaxEntries,      \* directory slots in the buffer CreateFileSystem allocates
  FSOffset,        \* xepBlkDriver->dwFSOffset
  DeviceBlocks,    \* blocks the image buffer holds
  Names,           \* file names
  NoName,          \* what a cleared directory slot has for a name
  Stored,          \* what FileAdd keeps of a name (strlen % 23 characters)
  Data,            \* payloads
  Blocks,          \* blocks a payload needs
  Erased,          \* content of a cell no file wrote
  Empty, Torn      \* a file's content: nothing; pieces of several payloads

\* The marks of the block map.  Any other word is the number of a block.
Reserved == 8187   \* 0x1ffb
Free     == 8190   \* 0x1ffe
End      == 8191   \* 0x1fff

BlockIds == 0..(LilBlockCount - 1)
SlotIds  == 0..(MaxEntries - 1)
Cells    == 0..(DeviceBlocks - 1)
Words    == BlockIds \cup {Reserved, Free, End}
Pieces   == {<<d, k>> : d \in Data, k \in 1..LilBlockCount}

\* Block 0 holds the flash header, so 0 can stand for "no block yet".
ASSUME GeometryAssumption ==
  /\ LilBlockCount \in Nat /\ LilBlockCount <= Reserved
  /\ RootBlock \in BlockIds \ {0}
  /\ SystemBlocks \subseteq BlockIds \ {RootBlock} /\ 0 \in SystemBlocks
  /\ ChainLimit \in Nat /\ MaxEntries \in Nat
  /\ FSOffset \in Nat /\ DeviceBlocks \in Nat

ASSUME DataAssumption ==
  /\ Stored \in [Names -> Names \cup {NoName}]
  /\ Blocks \in [Data -> Nat]
  /\ Empty \notin Data /\ Torn \notin Data

VARIABLES
  blockMap,        \* pwBlockMap
  entries,         \* pfsEntries: name, wBlockNumber, dwLength in blocks
  count,           \* cfsEntries
  disk,            \* the image buffer, a cell per lil block
  reply,           \* what the last call returned
  fault            \* how the program left defined behaviour, if it did;
                   \* "overrun" is left to modules that extend this one

vars == <<blockMap, entries, count, disk, reply, fault>>

Entry  == [name : Names \cup {NoName}, blk : BlockIds, len : Nat]
Faults == {"none", "wild", "underflow", "recursion", "overflow", "overrun"}

-----------------------------------------------------------------------------
(* Chains *)

\* Blocks some map word leads to.
Targets(m) == {m[p] : p \in BlockIds} \cap BlockIds

Closed(m, S) == \A c \in S : m[c] \in BlockIds => m[c] \in S

\* The blocks ChainGetChain visits from b: the least set that holds b and the
\* successor of each of its members.
Chain(m, b) ==
  LET near == {b} \cup Targets(m)
  IN  {c \in near : \A S \in SUBSET near : b \in S /\ Closed(m, S) => c \in S}

\* The mask test of line 73 stops the walk at a free word and at an end word.
Stops(m, c) == m[c] \in {Free, End}

\* A reserved word is taken for a block number, far behind the end of the map.
Wild(m, b) == \E c \in Chain(m, b) : m[c] = Reserved

\* Mutant: the walk gives up one block too late.
GivesUpLate(m, b) ==
  LET ch == Chain(m, b)
  IN  Cardinality(ch) > ChainLimit \/ \A c \in ch : ~ Stops(m, c)

\* ChainGetChain gives up (NULL) on a cycle and on ChainLimit blocks or more.
GivesUp(m, b) ==
  LET ch == Chain(m, b)
  IN  Cardinality(ch) >= ChainLimit \/ \A c \in ch : ~ Stops(m, c)

\* The place, from 1, of block c in chain ch, of which it starts a tail.
Place(m, ch, c) == Cardinality(ch) + 1 - Cardinality(Chain(m, c))

\* Mutant: the mask test 0x1ffe applied to the whole word also takes an end.
FreeOrEnd(m) == {b \in BlockIds : m[b] \in {Free, End}}

\* Mutant: every mark counts as free.
FreeOrMarked(m) == {b \in BlockIds : m[b] \notin BlockIds}

FreeBlocks(m) == {b \in BlockIds : m[b] = Free}

\* ChainAllocBlock takes the first free block ...
AllocatesBlock(m, b) ==
  /\ b \in FreeBlocks(m)
  /\ \A c \in FreeBlocks(m) : b <= c

\* Mutant: the block taken gets the mark of a reserved block.
TakenReserved(m, b) == [m EXCEPT ![b] = Reserved]

\* ... marks it as the end of a chain, and the caller's word then receives it.
Taken(m, b) == [m EXCEPT ![b] = End]

\* Mutant: the link skips a block.
LinkedToNext(m, last, b) == [Taken(m, b) EXCEPT ![last] = b + 1]

LinkedTo(m, last, b) == [Taken(m, b) EXCEPT ![last] = b]

\* Mutants: the rest of the chain is freed with its first block, which stays
\* linked; it is not freed at all.
CutBefore(m, cut) ==
  [c \in BlockIds |-> IF c \in Chain(m, cut) THEN Free ELSE m[c]]
CutOnly(m, cut) == [m EXCEPT ![cut] = End]

\* Everything behind block cut is freed and cut becomes the end of its chain.
CutAfter(m, cut) ==
  [c \in BlockIds |-> CASE c = cut -> End
                        [] c \in Chain(m, cut) \ {cut} -> Free
                        [] OTHER -> m[c]]

-----------------------------------------------------------------------------
(* Reading *)

\* The part of the chain of slot i that FileGetData reads, each block with its
\* place.
Extent(i) ==
  LET ch == Chain(blockMap, entries[i].blk)
  IN  {p \in {<<c, Place(blockMap, ch, c)>> : c \in ch} : p[2] <= entries[i].len}

\* ReadLilBlockChain stays inside the chain it was given and inside the image:
\* it runs off the chain when the length asks for more blocks, and a block
\* outside the image reads as 0 bytes, which the loop waits on for ever.
Readable(i) ==
  LET b == entries[i].blk
      extent == Extent(i)
  IN  /\ ~ Wild(blockMap, b) /\ ~ GivesUp(blockMap, b)
      /\ Cardinality(extent) = entries[i].len
      /\ \A p \in extent : p[1] + FSOffset \in Cells

\* The pieces FileGetData collects, each with its place in the buffer.
FileGetData(i) == {<<p[2], disk[p[1] + FSOffset]>> : p \in Extent(i)}

\* What a reader of slot i gets: nothing, a payload, or pieces of several.
Whole(d) == {<<k, <<d, k>>>> : k \in 1..Blocks[d]}

Held(i) ==
  IF entries[i].len = 0 THEN Empty
  ELSE IF ~ Readable(i) THEN Torn
  ELSE LET got == FileGetData(i)
       IN  IF \E d \in Data : got = Whole(d)
           THEN CHOOSE d \in Data : got = Whole(d)
           ELSE Torn

-----------------------------------------------------------------------------
(* Calls *)

Running == fault = "none"

Returns(code)  == reply' = [code |-> code, denied |-> FALSE] /\ UNCHANGED fault
Fails(f)       == fault' = f /\ UNCHANGED <<blockMap, entries, count, disk, reply>>

\* Mutant: the last file is not compared.
FindAllButLast(n) == {i \in 0..(count - 1) : i < count - 1 /\ entries[i].name = n}

\* FindEntry and FileSearch, which compare whole names.
FindEntry(n) == {i \in 0..(count - 1) : entries[i].name = n}

\* FileAdd.  The slot behind the last file is filled in whatever the outcome;
\* nothing checks that there is one.
FileAdd(n) ==
  /\ Running
  /\ \/ /\ FindEntry(n) # {}
        /\ Returns(1)
        /\ UNCHANGED <<blockMap, entries, count, disk>>
     \/ /\ FindEntry(n) = {} /\ count = MaxEntries
        /\ Fails("overflow")
     \/ /\ FindEntry(n) = {} /\ count < MaxEntries
        /\ count' = count + 1
        /\ \/ \E b \in BlockIds :
                /\ AllocatesBlock(blockMap, b)
                /\ blockMap' = Taken(blockMap, b)
                /\ entries' = [entries EXCEPT ![count].name = Stored[n],
                                              ![count].blk = b]
                /\ Returns(2)
           \/ /\ FreeBlocks(blockMap) = {}
              /\ entries' = [entries EXCEPT ![count].name = Stored[n]]
              /\ Returns(0)
              /\ UNCHANGED blockMap
        /\ UNCHANGED disk

\* Mutant: the last block of the chain is not written.
WrittenButLast(m, b, d) ==
  LET ch == Chain(m, b)
  IN  [x \in Cells |-> IF /\ x >= FSOffset /\ x - FSOffset \in ch
                          /\ Place(m, ch, x - FSOffset) < Cardinality(ch)
                       THEN <<d, Place(m, ch, x - FSOffset)>>
                       ELSE disk[x]]

\* The image buffer after WriteLilBlock on every block of the chain from b.
\* A write outside the image returns 0, which ChainSetChainData ignores.
Written(m, b, d) ==
  LET ch == Chain(m, b)
  IN  [x \in Cells |-> IF x >= FSOffset /\ x - FSOffset \in ch
                       THEN <<d, Place(m, ch, x - FSOffset)>>
                       ELSE disk[x]]

SetLength(i, n) == entries' = [entries EXCEPT ![i].len = n]

\* ChainSetChainData, and what FileSetData makes of its result.
\* The chain has the right length.
Rewrite(i, d) ==
  LET b == entries[i].blk
  IN  /\ Cardinality(Chain(blockMap, b)) = Blocks[d]
      /\ disk' = Written(blockMap, b, d)
      /\ SetLength(i, Blocks[d])
      /\ Returns(0)
      /\ UNCHANGED <<blockMap, count>>

\* It is too short: the first block allocated for it is reported as a failure.
Extend(i, d) ==
  LET b == entries[i].blk
  IN  /\ Cardinality(Chain(blockMap, b)) < Blocks[d]
      /\ \E new \in BlockIds, last \in Chain(blockMap, b) :
           /\ AllocatesBlock(blockMap, new)
           /\ Stops(blockMap, last)
           /\ blockMap' = LinkedTo(blockMap, last, new)
      /\ reply' = [code |-> 2, denied |-> TRUE]
      /\ UNCHANGED <<entries, count, disk, fault>>

\* ... and with no block left the function calls itself again unchanged.
Exhaust(i, d) ==
  /\ Cardinality(Chain(blockMap, entries[i].blk)) < Blocks[d]
  /\ FreeBlocks(blockMap) = {}
  /\ Fails("recursion")

\* It is too long: the rest is freed, then the call starts again.
Shrink(i, d) ==
  LET b == entries[i].blk
  IN  /\ 0 < Blocks[d] /\ Blocks[d] < Cardinality(Chain(blockMap, b))
      /\ \E cut \in Chain(blockMap, b) :
           /\ Place(blockMap, Chain(blockMap, b), cut) = Blocks[d]
           /\ blockMap' = CutAfter(blockMap, cut)
      /\ disk' = Written(blockMap', b, d)
      /\ SetLength(i, Blocks[d])
      /\ Returns(0)
      /\ UNCHANGED count

\* No payload and no chain: the lengths 0 agree and nothing is written.
ClearLength(i, d) ==
  /\ Blocks[d] = 0 /\ GivesUp(blockMap, entries[i].blk)
  /\ SetLength(i, 0)
  /\ Returns(0)
  /\ UNCHANGED <<blockMap, count, disk>>

\* A walk off the map, and chain[-1] for an empty payload or of no chain.
Derail(i, d) ==
  LET b == entries[i].blk
  IN  \/ Wild(blockMap, b) /\ Fails("wild")
      \/ /\ ~ Wild(blockMap, b)
         /\ GivesUp(blockMap, b) <=> Blocks[d] > 0
         /\ Fails("underflow")

ChainSetChainData(i, d) ==
  \/ /\ ~ Wild(blockMap, entries[i].blk) /\ ~ GivesUp(blockMap, entries[i].blk)
     /\ Rewrite(i, d) \/ Extend(i, d) \/ Exhaust(i, d) \/ Shrink(i, d)
  \/ ~ Wild(blockMap, entries[i].blk) /\ ClearLength(i, d)
  \/ Derail(i, d)

\* FileSetData.  A file without a block gets one and the call returns 1; only
\* when that fails does it go on, with block 0 for the head of the chain.
FileSetData(i, d) ==
  /\ Running
  /\ i < count
  /\ \/ /\ entries[i].blk = 0
        /\ \E b \in BlockIds :
             /\ AllocatesBlock(blockMap, b)
             /\ blockMap' = Taken(blockMap, b)
             /\ entries' = [entries EXCEPT ![i].blk = b]
        /\ Returns(1)
        /\ UNCHANGED <<count, disk>>
     \/ /\ entries[i].blk # 0 \/ FreeBlocks(blockMap) = {}
        /\ ChainSetChainData(i, d)

-----------------------------------------------------------------------------

\* CreateFileSystem on an image without one.
Init ==
  /\ blockMap = [b \in BlockIds |-> CASE b = RootBlock -> End
                                      [] b \in SystemBlocks -> Reserved
                                      [] OTHER -> Free]
  /\ entries = [i \in SlotIds |-> [name |-> NoName, blk |-> 0, len |-> 0]]
  /\ count = 0
  /\ disk = [x \in Cells |-> Erased]
  /\ reply = [code |-> 0, denied |-> FALSE]
  /\ fault = "none"

Next ==
  \/ \E n \in Names : FileAdd(n)
  \/ \E i \in SlotIds, d \in Data : FileSetData(i, d)

Spec == Init /\ [][Next]_vars

-----------------------------------------------------------------------------
(* Properties *)

\* The words of the map are block numbers and marks, the directory holds block
\* numbers, and the counters stay within the buffers.
TypeOK ==
  /\ blockMap \in [BlockIds -> Words]
  /\ entries \in [SlotIds -> Entry]
  /\ count \in 0..MaxEntries
  /\ disk \in [Cells -> Pieces \cup {Erased}]
  /\ reply \in [code : 0..2, denied : BOOLEAN]
  /\ fault \in Faults

Allocated(m, b) == m[b] \notin {Free, Reserved}
IsHead(b) == b = RootBlock \/ \E i \in SlotIds : entries[i].blk = b /\ b # 0

\* No two words of the map lead to the same block.
LinksDisjoint ==
  \A p, q \in BlockIds :
    blockMap[p] \in BlockIds /\ blockMap[p] = blockMap[q] => p = q

\* No word of the map leads to the first block of a file or to the root.
HeadsUnlinked == \A p \in BlockIds : ~ IsHead(blockMap[p])

\* No two files start at the same block, and none starts at the root.
HeadsDistinct ==
  \A i \in SlotIds :
    entries[i].blk # 0 =>
      /\ entries[i].blk # RootBlock
      /\ \A j \in SlotIds : entries[j].blk = entries[i].blk => i = j

\* Files are never cross-linked: whatever the order of additions, growths that
\* stop half way and shrinkings, no block belongs to two chains of the map
\* (ChainAllocBlocks, ChainSetChainData).
NoCrossLink == LinksDisjoint /\ HeadsUnlinked /\ HeadsDistinct

\* A chain never runs into a block that is free or reserved, and no file starts
\* at one: ChainFreeChain frees nothing that is still linked to.
LinksLive ==
  /\ \A p \in BlockIds : blockMap[p] \in BlockIds => Allocated(blockMap, blockMap[p])
  /\ \A b \in BlockIds : IsHead(b) => Allocated(blockMap, b)

\* No block is lost: one that is taken belongs to the root or to the chain of a
\* file, also after a call that reported a failure.
NoLeak ==
  LET heads == {RootBlock} \cup ({entries[i].blk : i \in SlotIds} \ {0})
  IN  {b \in BlockIds : Allocated(blockMap, b)}
        \subseteq UNION {Chain(blockMap, h) : h \in heads}

\* What CreateFileSystem reserves stays reserved: no allocation and no freeing
\* of a chain reaches the header, the loaders or the config blocks.
SystemBlocksKept == \A b \in SystemBlocks : blockMap[b] = Reserved

\* A call leaves defined behaviour only at a limit: a full directory, a full
\* map, an empty payload or a chain as long as ChainGetChain's limit.  A walk
\* leaves the map only from a file that could get no block.
FaultsExplained ==
  /\ fault = "overflow" => count = MaxEntries
  /\ fault = "recursion" => FreeBlocks(blockMap) = {}
  /\ fault = "wild" =>
       FreeBlocks(blockMap) = {} /\ \E i \in 0..(count - 1) : entries[i].blk = 0
  /\ fault = "underflow" =>
       \/ \E d \in Data : Blocks[d] = 0
       \/ \E i \in SlotIds : Cardinality(Chain(blockMap, entries[i].blk)) >= ChainLimit

AtLimit(i) ==
  entries[i].blk # 0 /\ Cardinality(Chain(blockMap, entries[i].blk)) >= ChainLimit

OffImage(i) == \E c \in Chain(blockMap, entries[i].blk) : c + FSOffset \notin Cells

\* A growth may stop with the chain of a file at the limit of ChainGetChain, never
\* with a longer one.  Of files that hold something just these can no longer be
\* read, besides files with a block behind the image.
WalkLimit ==
  \A i \in 0..(count - 1) : entries[i].blk # 0 =>
    /\ Cardinality(Chain(blockMap, entries[i].blk)) <= ChainLimit
    /\ Held(i) = Torn => AtLimit(i) \/ OffImage(i)
    /\ AtLimit(i) => Held(i) \in {Empty, Torn}

\* The limit of the walk costs the files that reach it, and no others: they are lost
\* for good, as no call shortens such a chain or stores anything in such a file, and
\* only they can be emptied (ChainGetChain's NULL, taken for a chain of no blocks).
LimitsExplained ==
  [][/\ WalkLimit'
     /\ \A i \in SlotIds :
          /\ AtLimit(i) => AtLimit(i)' /\ entries'[i].len \in {0, entries[i].len}
          /\ entries[i].len > 0 /\ entries'[i].len = 0 => AtLimit(i)]_vars

\* FileAdd never enters a name twice, except a name it could not keep.
NamesUnique ==
  \A i, j \in 0..(count - 1) :
    i # j /\ entries[i].name = entries[j].name =>
      \E n \in Names : Stored[n] = entries[i].name /\ Stored[n] # n

\* The file system keeps what FileStore promises: a call replaces the payload of
\* its file whole or not at all, and every other file reads as before.
Store == INSTANCE FileStore WITH size <- count,
                                 content <- [i \in SlotIds |-> Held(i)]
FilesIntact == Store!StoreSpec

\* CXeFlashFileSystem.cpp:125 logs "failed to allocate block!": that is so when
\* no block was free.
DeniedOnlyWhenFull == [][reply'.denied => FreeBlocks(blockMap) = {}]_vars

=============================================================================
