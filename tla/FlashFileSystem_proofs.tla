---------------------- MODULE FlashFileSystem_proofs ----------------------
(***************************************************************************)
(* Proofs about FlashFileSystem, for every size of the block map and of    *)
(* the directory, every set of payloads and every chain limit.             *)
(*                                                                         *)
(* First come facts about chains: the chain of a block is the least set of *)
(* blocks closed under the map.  Then Tidy, what makes a block map sound   *)
(* for a set of heads, is shown to survive the three ways the code edits   *)
(* the map: taking a block, linking one behind a chain, cutting a chain.   *)
(* The invariant of the specification follows.                             *)
(*                                                                         *)
(* Then what the calls do to files: that no block is lost, that a fault is *)
(* the sign of a limit, and that the files implement FileStore.  Here a    *)
(* chain is a walk: that of a head has no cycle, its blocks are ordered,   *)
(* and Place numbers them from 1 to its length.  None of this needs        *)
(* induction along a chain: what holds at its head and passes from a block *)
(* to the next holds in all of it (ChainLeast).                            *)
(***************************************************************************)
EXTENDS FlashFileSystem, FiniteSetTheorems, TLAPS

Maps == [BlockIds -> Words]

-----------------------------------------------------------------------------
(* Chains *)

\* A chain starts at its block, stays in the map, and is closed under it.
LEMMA ChainClosed ==
  ASSUME NEW m \in Maps, NEW b \in BlockIds
  PROVE  /\ b \in Chain(m, b)
         /\ Chain(m, b) \subseteq BlockIds
         /\ Closed(m, Chain(m, b))
<1> DEFINE near == {b} \cup Targets(m)
<1>1. b \in Chain(m, b) /\ Chain(m, b) \subseteq near
  BY DEF Chain
<1>2. near \subseteq BlockIds
  BY DEF Targets
<1>3. ASSUME NEW c \in Chain(m, b), m[c] \in BlockIds
      PROVE  m[c] \in Chain(m, b)
  <2>1. c \in BlockIds
    BY <1>1, <1>2
  <2>2. m[c] \in near
    BY <1>3, <2>1 DEF Targets
  <2>3. ASSUME NEW S \in SUBSET near, b \in S, Closed(m, S)
        PROVE  m[c] \in S
    <3>1. c \in S
      BY <2>3 DEF Chain
    <3>2. QED
      BY <3>1, <2>3, <1>3 DEF Closed
  <2>4. QED
    BY <2>2, <2>3 DEF Chain
<1>4. QED
  BY <1>1, <1>2, <1>3 DEF Closed

\* It is the least such set.
LEMMA ChainLeast ==
  ASSUME NEW m \in Maps, NEW b \in BlockIds,
         NEW S, b \in S, Closed(m, S)
  PROVE  Chain(m, b) \subseteq S
<1> DEFINE near == {b} \cup Targets(m)
           T == S \cap near
<1>1. near \subseteq BlockIds
  BY DEF Targets
<1>2. Closed(m, T)
  <2> SUFFICES ASSUME NEW c \in T, m[c] \in BlockIds
               PROVE  m[c] \in T
    BY DEF Closed
  <2>1. m[c] \in S
    BY DEF Closed
  <2>2. m[c] \in Targets(m)
    BY <1>1 DEF Targets
  <2>3. QED
    BY <2>1, <2>2
<1>3. T \in SUBSET near /\ b \in T
  OBVIOUS
<1>4. QED
  BY <1>2, <1>3 DEF Chain

\* The chain from a block of a chain is its tail.
LEMMA ChainTail ==
  ASSUME NEW m \in Maps, NEW b \in BlockIds, NEW c \in Chain(m, b)
  PROVE  c \in BlockIds /\ Chain(m, c) \subseteq Chain(m, b)
BY ChainClosed, ChainLeast

\* Every block of a chain but the first has a predecessor in it.
LEMMA ChainPredecessor ==
  ASSUME NEW m \in Maps, NEW b \in BlockIds, NEW c \in Chain(m, b), c # b
  PROVE  \E p \in Chain(m, b) : m[p] = c
<1> DEFINE S == Chain(m, b) \ {c}
<1> SUFFICES ASSUME \A p \in Chain(m, b) : m[p] # c
             PROVE  FALSE
  OBVIOUS
<1>1. b \in S
  BY ChainClosed
<1>2. Closed(m, S)
  BY ChainClosed DEF Closed
<1>3. Chain(m, b) \subseteq S
  BY <1>1, <1>2, ChainLeast
<1>4. QED
  BY <1>3

\* Places in a chain are numbers from 1 to the length of the map.
LEMMA PlaceBounds ==
  ASSUME NEW m \in Maps, NEW b \in BlockIds, NEW c \in Chain(m, b)
  PROVE  Place(m, Chain(m, b), c) \in 1..LilBlockCount
<1> DEFINE ch == Chain(m, b)
<1>2. c \in BlockIds /\ c \in Chain(m, c) /\ Chain(m, c) \subseteq ch /\ ch \subseteq BlockIds
  BY ChainClosed, ChainTail
<1>3. IsFiniteSet(BlockIds) /\ Cardinality(BlockIds) = LilBlockCount
  <2>1. LilBlockCount \in Nat /\ LilBlockCount # 0
    BY GeometryAssumption DEF BlockIds
  <2>2. QED
    BY <2>1, FS_Interval, 0 \in Int, LilBlockCount - 1 \in Int DEF BlockIds
<1>4. IsFiniteSet(ch) /\ Cardinality(ch) \in Nat /\ Cardinality(ch) <= LilBlockCount
  BY <1>2, <1>3, FS_Subset, FS_CardinalityType
<1>5. /\ IsFiniteSet(Chain(m, c)) /\ Cardinality(Chain(m, c)) \in Nat
      /\ Cardinality(Chain(m, c)) <= Cardinality(ch)
  BY <1>2, <1>4, FS_Subset, FS_CardinalityType
<1>6. Cardinality(Chain(m, c)) # 0
  BY <1>2, <1>5, FS_EmptySet
<1>7. QED
  BY <1>4, <1>5, <1>6, GeometryAssumption DEF Place

-----------------------------------------------------------------------------
(* Sound block maps *)

\* A map is tidy for a set H of heads: links are disjoint, none leads to a head,
\* and links and heads are allocated.
Tidy(m, H) ==
  /\ \A p, q \in BlockIds : m[p] \in BlockIds /\ m[p] = m[q] => p = q
  /\ \A p \in BlockIds : m[p] \notin H
  /\ \A p \in BlockIds : m[p] \in BlockIds => Allocated(m, m[p])
  /\ \A h \in H : Allocated(m, h)

\* Marks are not block numbers.
LEMMA MarksApart ==
  /\ Reserved \notin BlockIds /\ Free \notin BlockIds /\ End \notin BlockIds
  /\ BlockIds \subseteq Nat
  /\ Reserved # Free /\ Reserved # End /\ Free # End
BY GeometryAssumption DEF BlockIds, Reserved, Free, End

\* Every block of a chain that starts at an allocated block is allocated.
LEMMA ChainAllocated ==
  ASSUME NEW m \in Maps, NEW H \in SUBSET BlockIds, Tidy(m, H),
         NEW b \in BlockIds, Allocated(m, b)
  PROVE  \A c \in Chain(m, b) : Allocated(m, c)
<1> DEFINE S == {c \in BlockIds : Allocated(m, c)}
<1>1. Closed(m, S)
  BY DEF Closed, Tidy
<1>2. QED
  BY <1>1, ChainLeast

\* ChainAllocBlock: the block it takes can become a head.
LEMMA TakenTidy ==
  ASSUME NEW m \in Maps, NEW H \in SUBSET BlockIds, Tidy(m, H),
         NEW b \in BlockIds, m[b] = Free
  PROVE  Taken(m, b) \in Maps /\ Tidy(Taken(m, b), H \cup {b})
<1> DEFINE t == Taken(m, b)
<1>1. t \in Maps
  BY DEF Taken, Maps, Words
<1>2. \A p \in BlockIds : t[p] = IF p = b THEN End ELSE m[p]
  BY DEF Taken, Maps
<1>3. \A p \in BlockIds : m[p] # b
  BY DEF Tidy, Allocated
<1>4. \A p, q \in BlockIds : t[p] \in BlockIds /\ t[p] = t[q] => p = q
  BY <1>2, MarksApart DEF Tidy
<1>5. \A p \in BlockIds : t[p] \notin H \cup {b}
  BY <1>2, <1>3, MarksApart DEF Tidy
<1>6. \A c \in BlockIds : Allocated(m, c) => Allocated(t, c)
  BY <1>2, MarksApart DEF Allocated
<1>7. \A p \in BlockIds : t[p] \in BlockIds => Allocated(t, t[p])
  BY <1>2, <1>6, MarksApart DEF Tidy
<1>8. \A h \in H \cup {b} : Allocated(t, h)
  BY <1>2, <1>6, MarksApart DEF Tidy, Allocated
<1>9. QED
  BY <1>1, <1>4, <1>5, <1>7, <1>8 DEF Tidy

\* Growth: the block it takes can be linked behind the end of a chain.
LEMMA LinkedTidy ==
  ASSUME NEW m \in Maps, NEW H \in SUBSET BlockIds, Tidy(m, H),
         NEW b \in BlockIds, m[b] = Free,
         NEW last \in BlockIds, m[last] = End
  PROVE  LinkedTo(m, last, b) \in Maps /\ Tidy(LinkedTo(m, last, b), H)
<1> DEFINE t == LinkedTo(m, last, b)
<1>1. t \in Maps
  BY DEF LinkedTo, Taken, Maps, Words
<1>2. \A p \in BlockIds :
        t[p] = IF p = last THEN b ELSE IF p = b THEN End ELSE m[p]
  BY DEF LinkedTo, Taken, Maps
<1>3. b # last /\ b \notin H /\ \A p \in BlockIds : m[p] # b
  BY MarksApart DEF Tidy, Allocated
<1>4. \A p, q \in BlockIds : t[p] \in BlockIds /\ t[p] = t[q] => p = q
  BY <1>2, <1>3, MarksApart DEF Tidy
<1>5. \A p \in BlockIds : t[p] \notin H
  BY <1>2, <1>3, MarksApart DEF Tidy
<1>6. \A c \in BlockIds : Allocated(m, c) \/ c = b => Allocated(t, c)
  BY <1>2, MarksApart DEF Allocated
<1>7. \A p \in BlockIds : t[p] \in BlockIds => Allocated(t, t[p])
  BY <1>2, <1>6, MarksApart DEF Tidy
<1>8. \A h \in H : Allocated(t, h)
  BY <1>6 DEF Tidy
<1>9. QED
  BY <1>1, <1>4, <1>5, <1>7, <1>8 DEF Tidy

\* Shrinking: what is cut off is exactly what was linked to only from there.
LEMMA CutTidy ==
  ASSUME NEW m \in Maps, NEW H \in SUBSET BlockIds, Tidy(m, H),
         NEW cut \in BlockIds, Allocated(m, cut)
  PROVE  CutAfter(m, cut) \in Maps /\ Tidy(CutAfter(m, cut), H)
<1> DEFINE t == CutAfter(m, cut)
           gone == Chain(m, cut) \ {cut}
<1>1. \A p \in BlockIds :
        t[p] = IF p = cut THEN End ELSE IF p \in gone THEN Free ELSE m[p]
  BY DEF CutAfter
<1>2. t \in Maps
  <2>1. t = [p \in BlockIds |-> t[p]]
    BY DEF CutAfter
  <2>2. \A p \in BlockIds : t[p] \in Words
    BY <1>1 DEF Words, Maps
  <2>3. QED
    BY <2>1, <2>2 DEF Maps
<1>3. ASSUME NEW p \in BlockIds, m[p] \in gone
      PROVE  p \in Chain(m, cut)
  <2>1. PICK q \in Chain(m, cut) : m[q] = m[p]
    BY <1>3, ChainPredecessor
  <2>2. q \in BlockIds /\ m[p] \in BlockIds
    BY <1>3, ChainClosed
  <2>3. QED
    BY <2>1, <2>2 DEF Tidy
<1>4. \A p \in BlockIds :
        t[p] \in BlockIds => t[p] = m[p] /\ m[p] \notin gone /\ p # cut
  BY <1>1, <1>3, MarksApart
<1>5. \A c \in BlockIds : Allocated(m, c) /\ c \notin gone => Allocated(t, c)
  BY <1>1, MarksApart DEF Allocated
<1>6. ASSUME NEW h \in H
      PROVE  h \notin gone
  <2>1. \A p \in BlockIds : m[p] # h
    BY DEF Tidy
  <2>2. Chain(m, cut) \subseteq BlockIds
    BY ChainClosed
  <2>3. QED
    BY <2>1, <2>2, ChainPredecessor
<1>7. \A p, q \in BlockIds : t[p] \in BlockIds /\ t[p] = t[q] => p = q
  BY <1>4 DEF Tidy
<1>8. \A p \in BlockIds : t[p] \notin H
  BY <1>4 DEF Tidy
<1>9. \A p \in BlockIds : t[p] \in BlockIds => Allocated(t, t[p])
  BY <1>4, <1>5 DEF Tidy
<1>10. \A h \in H : Allocated(t, h)
  BY <1>5, <1>6 DEF Tidy
<1>11. QED
  BY <1>2, <1>7, <1>8, <1>9, <1>10 DEF Tidy

\* Fewer heads keep a map tidy.
LEMMA FewerHeads ==
  ASSUME NEW m, NEW H, NEW G \in SUBSET H, Tidy(m, H)
  PROVE  Tidy(m, G)
BY DEF Tidy

-----------------------------------------------------------------------------
(* The types are kept *)

\* All a call needs to stay inside the block map: a map that is tidy for heads H,
\* the heads of the files among them, and a block 0 that no file can start at.
Walkable(H) ==
  /\ TypeOK
  /\ H \in SUBSET BlockIds /\ Tidy(blockMap, H)
  /\ blockMap[0] = Reserved
  /\ \A i \in SlotIds : entries[i].blk # 0 => entries[i].blk \in H

\* Writing a chain puts pieces of the payload into cells.
LEMMA WrittenType ==
  ASSUME TypeOK, NEW m \in Maps, NEW b \in BlockIds, NEW d \in Data
  PROVE  Written(m, b, d) \in [Cells -> Pieces \cup {Erased}]
<1> SUFFICES ASSUME NEW x \in Cells
             PROVE  Written(m, b, d)[x] \in Pieces \cup {Erased}
  BY DEF Written
<1> DEFINE ch == Chain(m, b)
<1>1. CASE x >= FSOffset /\ x - FSOffset \in ch
  <2>1. Place(m, ch, x - FSOffset) \in 1..LilBlockCount
    BY <1>1, PlaceBounds
  <2>2. Written(m, b, d)[x] = <<d, Place(m, ch, x - FSOffset)>>
    BY <1>1 DEF Written
  <2>3. QED
    BY <2>1, <2>2 DEF Pieces
<1>2. CASE ~ (x >= FSOffset /\ x - FSOffset \in ch)
  BY <1>2 DEF Written, TypeOK
<1>3. QED
  BY <1>1, <1>2

\* A chain that can be walked starts at a block of its own, and its blocks are
\* allocated: block 0 is reserved, so a file without a block has no such chain.
LEMMA WalkableChainOf ==
  ASSUME NEW H, Walkable(H), NEW i \in SlotIds, ~ Wild(blockMap, entries[i].blk)
  PROVE  /\ blockMap \in Maps /\ entries[i].blk \in BlockIds
         /\ \A c \in Chain(blockMap, entries[i].blk) :
              c \in BlockIds /\ Allocated(blockMap, c)
<1> DEFINE b == entries[i].blk
<1>1. blockMap \in Maps /\ b \in BlockIds
  BY DEF Walkable, TypeOK, Maps, Entry
<1>2. b # 0
  <2>1. b \in Chain(blockMap, b)
    BY <1>1, ChainClosed
  <2>2. QED
    BY <2>1 DEF Wild, Walkable
<1>3. Allocated(blockMap, b)
  BY <1>2 DEF Walkable, Tidy
<1>4. QED
  BY <1>1, <1>3, ChainClosed, ChainAllocated DEF Walkable

\* What a step that changes no head does to the directory.
KeepHeads == \A j \in SlotIds : entries'[j].blk = entries[j].blk

\* Setting a length changes no head.
LEMMA SetLengthType ==
  ASSUME TypeOK, NEW i \in SlotIds, NEW n \in Nat, SetLength(i, n)
  PROVE  entries' \in [SlotIds -> Entry] /\ KeepHeads
BY DEF TypeOK, SetLength, Entry, KeepHeads

LEMMA FileAddTypes ==
  ASSUME TypeOK, NEW n \in Names, FileAdd(n)
  PROVE  TypeOK'
<1>1. CASE UNCHANGED <<blockMap, entries, count, disk>> /\ Returns(1)
  BY <1>1 DEF TypeOK, Returns, Faults
<1>2. CASE Fails("overflow")
  BY <1>2 DEF TypeOK, Fails, Faults
<1>3. ASSUME count < MaxEntries, count' = count + 1, UNCHANGED disk
      PROVE  /\ count \in SlotIds /\ count' \in 0..MaxEntries
             /\ Stored[n] \in Names \cup {NoName}
  BY <1>3, GeometryAssumption, DataAssumption DEF TypeOK, SlotIds
<1>4. ASSUME count < MaxEntries, count' = count + 1, UNCHANGED disk,
             NEW b \in BlockIds, blockMap' = Taken(blockMap, b),
             entries' = [entries EXCEPT ![count].name = Stored[n], ![count].blk = b],
             Returns(2)
      PROVE  TypeOK'
  <2>1. entries' \in [SlotIds -> Entry]
    BY <1>3, <1>4 DEF TypeOK, Entry
  <2>2. blockMap' \in [BlockIds -> Words]
    BY <1>4 DEF TypeOK, Taken, Words
  <2>3. QED
    BY <1>3, <1>4, <2>1, <2>2 DEF TypeOK, Returns
<1>5. ASSUME count < MaxEntries, count' = count + 1, UNCHANGED <<blockMap, disk>>,
             entries' = [entries EXCEPT ![count].name = Stored[n]], Returns(0)
      PROVE  TypeOK'
  <2>1. entries' \in [SlotIds -> Entry]
    BY <1>3, <1>5 DEF TypeOK, Entry
  <2>2. QED
    BY <1>3, <1>5, <2>1 DEF TypeOK, Returns
<1>6. QED
  BY <1>1, <1>2, <1>4, <1>5 DEF FileAdd

LEMMA FileSetDataTypes ==
  ASSUME NEW H, Walkable(H), NEW i \in SlotIds, NEW d \in Data, FileSetData(i, d)
  PROVE  TypeOK'
<1> DEFINE b == entries[i].blk
<1>0. TypeOK /\ Blocks[d] \in Nat
  BY DataAssumption DEF Walkable
<1>1. ASSUME NEW c \in BlockIds, blockMap' = Taken(blockMap, c),
             entries' = [entries EXCEPT ![i].blk = c],
             Returns(1), UNCHANGED <<count, disk>>
      PROVE  TypeOK'
  <2>1. entries' \in [SlotIds -> Entry]
    BY <1>0, <1>1 DEF TypeOK, Entry
  <2>2. blockMap' \in [BlockIds -> Words]
    BY <1>0, <1>1 DEF TypeOK, Taken, Words
  <2>3. QED
    BY <1>0, <1>1, <2>1, <2>2 DEF TypeOK, Returns
<1>2. CASE ~ Wild(blockMap, b) /\ Rewrite(i, d)
  <2>1. entries' \in [SlotIds -> Entry]
    BY <1>0, <1>2, SetLengthType DEF Rewrite
  <2>2. disk' \in [Cells -> Pieces \cup {Erased}]
    BY <1>0, <1>2, WalkableChainOf, WrittenType DEF Rewrite
  <2>3. QED
    BY <1>0, <1>2, <2>1, <2>2 DEF TypeOK, Rewrite, Returns
<1>3. CASE ~ Wild(blockMap, b) /\ Extend(i, d)
  <2>1. PICK new \in BlockIds, last \in Chain(blockMap, b) :
          blockMap' = LinkedTo(blockMap, last, new)
    BY <1>3 DEF Extend
  <2>2. blockMap' \in [BlockIds -> Words]
    BY <1>0, <2>1 DEF TypeOK, LinkedTo, Taken, Words
  <2>3. QED
    BY <1>0, <1>3, <2>2 DEF TypeOK, Extend
<1>4. CASE ~ Wild(blockMap, b) /\ Shrink(i, d)
  <2>1. PICK cut \in Chain(blockMap, b) : blockMap' = CutAfter(blockMap, cut)
    BY <1>4 DEF Shrink
  <2>2. blockMap \in Maps /\ b \in BlockIds /\ cut \in BlockIds /\ Allocated(blockMap, cut)
    BY <1>4, WalkableChainOf
  <2>3. blockMap' \in Maps
    BY <2>1, <2>2, CutTidy DEF Walkable
  <2>4. entries' \in [SlotIds -> Entry]
    BY <1>0, <1>4, SetLengthType DEF Shrink
  <2>5. disk' \in [Cells -> Pieces \cup {Erased}]
    BY <1>0, <1>4, <2>2, <2>3, WrittenType DEF Shrink
  <2>6. QED
    BY <1>0, <1>4, <2>3, <2>4, <2>5 DEF TypeOK, Maps, Shrink, Returns
<1>5. CASE ClearLength(i, d)
  <2>1. entries' \in [SlotIds -> Entry]
    BY <1>0, <1>5, SetLengthType DEF ClearLength
  <2>2. QED
    BY <1>0, <1>5, <2>1 DEF TypeOK, ClearLength, Returns
<1>6. CASE Exhaust(i, d) \/ Derail(i, d)
  BY <1>0, <1>6 DEF Exhaust, Derail, Fails, Faults, TypeOK
<1>7. QED
  BY <1>1, <1>2, <1>3, <1>4, <1>5, <1>6 DEF FileSetData, ChainSetChainData

-----------------------------------------------------------------------------
(* The invariant *)

Heads == {b \in BlockIds : IsHead(b)}

\* The part of the invariant about blocks.
Structure == Tidy(blockMap, Heads) /\ HeadsDistinct /\ SystemBlocksKept

IInv == TypeOK /\ Structure

LEMMA WalkableHeads == IInv => Walkable(Heads)
<1> SUFFICES ASSUME IInv
             PROVE  Walkable(Heads)
  OBVIOUS
<1>1. blockMap[0] = Reserved
  BY GeometryAssumption DEF IInv, Structure, SystemBlocksKept
<1>2. \A i \in SlotIds : entries[i].blk # 0 => entries[i].blk \in Heads
  BY DEF IInv, TypeOK, Entry, Heads, IsHead
<1>3. QED
  BY <1>1, <1>2 DEF Walkable, IInv, Structure, Heads

LEMMA WalkableChain ==
  ASSUME IInv, NEW i \in SlotIds, ~ Wild(blockMap, entries[i].blk)
  PROVE  /\ blockMap \in Maps /\ entries[i].blk \in BlockIds
         /\ \A c \in Chain(blockMap, entries[i].blk) :
              c \in BlockIds /\ Allocated(blockMap, c)
BY WalkableHeads, WalkableChainOf

\* The steps of this specification keep the heads, or give slot i, which may have
\* had one, the block they take.
NewHead(i, b) ==
  /\ AllocatesBlock(blockMap, b)
  /\ blockMap' = Taken(blockMap, b)
  /\ entries'[i].blk = b
  /\ \A j \in SlotIds \ {i} : entries'[j].blk = entries[j].blk

\* A step that keeps the heads only has to leave a tidy map.
LEMMA KeepHeadsStructure ==
  ASSUME Structure, KeepHeads, Tidy(blockMap', Heads), SystemBlocksKept'
  PROVE  Structure'
<1>1. Heads' = Heads
  BY DEF Heads, IsHead, KeepHeads
<1>2. HeadsDistinct'
  BY DEF Structure, HeadsDistinct, KeepHeads
<1>3. QED
  BY <1>1, <1>2 DEF Structure

\* A free block is neither a head nor a system block.
LEMMA FreeBlockFresh ==
  ASSUME TypeOK, Structure, NEW b \in BlockIds, blockMap[b] = Free
  PROVE  /\ b \notin Heads /\ b # RootBlock /\ b # 0
         /\ \A j \in SlotIds : entries[j].blk # b
         /\ b \notin SystemBlocks
<1>1. b \notin SystemBlocks /\ b # 0
  BY GeometryAssumption, MarksApart DEF Structure, SystemBlocksKept
<1>2. b \notin Heads
  BY DEF Structure, Tidy, Allocated
<1>3. QED
  BY <1>1, <1>2 DEF Heads, IsHead

\* A step that takes a block for slot i keeps the structure.
LEMMA NewHeadStructure ==
  ASSUME TypeOK, Structure, NEW i \in SlotIds, NEW b \in BlockIds, NewHead(i, b)
  PROVE  Structure' /\ blockMap' \in Maps
<1>1. blockMap \in Maps /\ Heads \subseteq BlockIds /\ blockMap[b] = Free
  BY DEF TypeOK, Maps, Heads, NewHead, AllocatesBlock, FreeBlocks
<1>2. Tidy(blockMap', Heads \cup {b}) /\ blockMap' \in Maps
  BY <1>1, TakenTidy DEF Structure, NewHead
<1>3. Heads' \subseteq Heads \cup {b}
  BY DEF Heads, IsHead, NewHead
<1>4. Tidy(blockMap', Heads')
  BY <1>2, <1>3, FewerHeads
<1>5. HeadsDistinct'
  BY <1>1, FreeBlockFresh DEF HeadsDistinct, Structure, NewHead
<1>6. SystemBlocksKept'
  BY <1>1, FreeBlockFresh, GeometryAssumption
     DEF SystemBlocksKept, Structure, NewHead, Taken, Maps
<1>7. QED
  BY <1>2, <1>4, <1>5, <1>6 DEF Structure

LEMMA InitInvariant == Init => IInv
<1> SUFFICES ASSUME Init PROVE IInv
  OBVIOUS
<1>1. \A c \in BlockIds : blockMap[c] = IF c = RootBlock THEN End
                                        ELSE IF c \in SystemBlocks THEN Reserved ELSE Free
  BY GeometryAssumption DEF Init
<1>2. blockMap \in Maps
  BY DEF Init, Maps, Words
<1>3. 0 \in BlockIds
  BY GeometryAssumption
<1>4. TypeOK
  BY <1>2, <1>3, GeometryAssumption DEF Init, TypeOK, Maps, Entry, Faults
<1>5. Heads = {RootBlock}
  BY GeometryAssumption DEF Heads, IsHead, Init
<1>6. Tidy(blockMap, Heads)
  BY <1>1, <1>5, MarksApart, GeometryAssumption DEF Tidy, Allocated
<1>7. HeadsDistinct /\ SystemBlocksKept
  BY <1>1, GeometryAssumption DEF HeadsDistinct, SystemBlocksKept, Init
<1>8. QED
  BY <1>4, <1>6, <1>7 DEF IInv, Structure

\* What changes neither the map nor a head keeps the structure.
LEMMA StillStructure ==
  ASSUME Structure, KeepHeads, UNCHANGED blockMap
  PROVE  Structure'
BY KeepHeadsStructure DEF Structure, SystemBlocksKept

LEMMA FileAddInvariant ==
  ASSUME IInv, NEW n \in Names, FileAdd(n)
  PROVE  IInv'
<1> USE DEF IInv
<1>1. TypeOK'
  BY FileAddTypes
<1>2. CASE UNCHANGED <<blockMap, entries>>
  BY <1>1, <1>2, StillStructure DEF KeepHeads
<1>3. ASSUME count < MaxEntries
      PROVE  count \in SlotIds
  BY <1>3, GeometryAssumption DEF TypeOK, SlotIds
<1>4. ASSUME count < MaxEntries, NEW b \in BlockIds, AllocatesBlock(blockMap, b),
             blockMap' = Taken(blockMap, b),
             entries' = [entries EXCEPT ![count].name = Stored[n], ![count].blk = b]
      PROVE  Structure'
  <2>1. NewHead(count, b)
    BY <1>3, <1>4 DEF NewHead, TypeOK, Entry
  <2>2. QED
    BY <1>3, <1>4, <2>1, NewHeadStructure
<1>5. ASSUME count < MaxEntries, UNCHANGED blockMap,
             entries' = [entries EXCEPT ![count].name = Stored[n]]
      PROVE  Structure'
  <2>1. KeepHeads
    BY <1>3, <1>5 DEF KeepHeads, TypeOK, Entry
  <2>2. QED
    BY <1>5, <2>1, StillStructure
<1>6. QED
  BY <1>1, <1>2, <1>4, <1>5 DEF FileAdd, Fails

LEMMA SetChainStructure ==
  ASSUME IInv, NEW i \in SlotIds, NEW d \in Data, ChainSetChainData(i, d)
  PROVE  Structure'
<1> DEFINE b == entries[i].blk
<1>0. Blocks[d] \in Nat /\ TypeOK /\ Structure
  BY DataAssumption DEF IInv
<1>1. ASSUME NEW n \in Nat, SetLength(i, n)
      PROVE  KeepHeads
  BY <1>0, <1>1, SetLengthType
<1>2. CASE Rewrite(i, d) \/ ClearLength(i, d)
  BY <1>0, <1>1, <1>2, StillStructure DEF Rewrite, ClearLength
<1>3. CASE ~ Wild(blockMap, b) /\ Extend(i, d)
  <2>1. PICK new \in BlockIds, last \in Chain(blockMap, b) :
          /\ AllocatesBlock(blockMap, new)
          /\ Stops(blockMap, last)
          /\ blockMap' = LinkedTo(blockMap, last, new)
    BY <1>3 DEF Extend
  <2>2. blockMap[new] = Free /\ last \in BlockIds /\ blockMap[last] = End
    BY <1>3, <2>1, WalkableChain DEF AllocatesBlock, FreeBlocks, Stops, Allocated
  <2>3. Tidy(blockMap', Heads)
    BY <1>3, <2>1, <2>2, WalkableChain, LinkedTidy DEF IInv, Structure, Heads
  <2>4. KeepHeads
    BY <1>3 DEF KeepHeads, Extend
  <2>5. \A c \in SystemBlocks : blockMap'[c] = blockMap[c]
    <3>1. new \notin SystemBlocks /\ last \notin SystemBlocks
      BY <2>2, MarksApart DEF IInv, Structure, SystemBlocksKept
    <3>2. QED
      BY <1>3, <2>1, <3>1, WalkableChain, GeometryAssumption DEF LinkedTo, Taken, Maps
  <2>6. QED
    BY <2>3, <2>4, <2>5, KeepHeadsStructure DEF IInv, Structure, SystemBlocksKept
<1>4. CASE ~ Wild(blockMap, b) /\ Shrink(i, d)
  <2>1. PICK cut \in Chain(blockMap, b) : blockMap' = CutAfter(blockMap, cut)
    BY <1>4 DEF Shrink
  <2>2. blockMap \in Maps /\ b \in BlockIds /\ cut \in BlockIds /\ Allocated(blockMap, cut)
    BY <1>4, WalkableChain
  <2>3. Tidy(blockMap', Heads)
    BY <2>1, <2>2, CutTidy DEF IInv, Structure, Heads
  <2>4. KeepHeads
    BY <1>0, <1>1, <1>4 DEF Shrink
  <2>5. \A c \in SystemBlocks : blockMap'[c] = blockMap[c]
    <3>1. \A c \in Chain(blockMap, b) : c \notin SystemBlocks
      BY <1>4, WalkableChain DEF IInv, Structure, SystemBlocksKept, Allocated
    <3>2. Chain(blockMap, cut) \subseteq Chain(blockMap, b)
      BY <2>2, ChainTail
    <3>3. QED
      BY <2>1, <3>1, <3>2, GeometryAssumption DEF CutAfter
  <2>6. QED
    BY <2>3, <2>4, <2>5, KeepHeadsStructure DEF IInv, Structure, SystemBlocksKept
<1>5. CASE Exhaust(i, d) \/ Derail(i, d)
  BY <1>0, <1>5, StillStructure DEF Exhaust, Derail, Fails, KeepHeads
<1>6. QED
  BY <1>2, <1>3, <1>4, <1>5 DEF ChainSetChainData

LEMMA FileSetDataInvariant ==
  ASSUME IInv, NEW i \in SlotIds, NEW d \in Data, FileSetData(i, d)
  PROVE  IInv'
<1>1. TypeOK'
  BY WalkableHeads, FileSetDataTypes
<1>2. ASSUME NEW b \in BlockIds, AllocatesBlock(blockMap, b),
             blockMap' = Taken(blockMap, b),
             entries' = [entries EXCEPT ![i].blk = b]
      PROVE  Structure'
  <2>1. NewHead(i, b)
    BY <1>2 DEF IInv, TypeOK, Entry, NewHead
  <2>2. QED
    BY <2>1, NewHeadStructure DEF IInv
<1>3. QED
  BY <1>1, <1>2, SetChainStructure DEF FileSetData, IInv

LEMMA InvariantInductive == IInv /\ [Next]_vars => IInv'
<1> SUFFICES ASSUME IInv, [Next]_vars
             PROVE  IInv'
  OBVIOUS
<1>1. ASSUME NEW n \in Names, FileAdd(n)
      PROVE  IInv'
  BY <1>1, FileAddInvariant
<1>2. ASSUME NEW i \in SlotIds, NEW d \in Data, FileSetData(i, d)
      PROVE  IInv'
  BY <1>2, FileSetDataInvariant
<1>3. CASE UNCHANGED vars
  <2>1. TypeOK'
    BY <1>3 DEF IInv, TypeOK, vars
  <2>2. Structure'
    BY <1>3 DEF IInv, Structure, Heads, IsHead, HeadsDistinct, SystemBlocksKept, vars
  <2>3. QED
    BY <2>1, <2>2 DEF IInv
<1>4. QED
  BY <1>1, <1>2, <1>3 DEF Next

LEMMA InvariantHolds == Spec => []IInv
BY InitInvariant, InvariantInductive, PTL DEF Spec

-----------------------------------------------------------------------------
(* Theorems *)

\* The state always has its type: no word written to the block map and no entry
\* of the directory leaves the range the code's buffers have for it.
THEOREM TypeCorrect == Spec => []TypeOK
<1>1. IInv => TypeOK
  BY DEF IInv
<1>2. QED
  BY <1>1, InvariantHolds, PTL

\* Files are never cross-linked, with each other or with the root.
THEOREM NeverCrossLinked == Spec => []NoCrossLink
<1>1. IInv => NoCrossLink
  <2> SUFFICES ASSUME IInv PROVE NoCrossLink
    OBVIOUS
  <2>1. LinksDisjoint /\ HeadsDistinct
    BY DEF IInv, Structure, Tidy, LinksDisjoint
  <2>2. ASSUME NEW p \in BlockIds, IsHead(blockMap[p])
        PROVE  FALSE
    <3>1. blockMap[p] \in BlockIds
      BY <2>2, GeometryAssumption DEF IsHead, IInv, TypeOK, Entry
    <3>2. QED
      BY <2>2, <3>1 DEF IInv, Structure, Tidy, Heads
  <2>3. QED
    BY <2>1, <2>2 DEF NoCrossLink, HeadsUnlinked
<1>2. QED
  BY <1>1, InvariantHolds, PTL

\* No chain runs into a free or a reserved block.
THEOREM LinksStayLive == Spec => []LinksLive
<1>1. IInv => LinksLive
  BY DEF IInv, Structure, Tidy, LinksLive, Heads
<1>2. QED
  BY <1>1, InvariantHolds, PTL

\* What CreateFileSystem reserves stays reserved.
THEOREM SystemBlocksStay == Spec => []SystemBlocksKept
<1>1. IInv => SystemBlocksKept
  BY DEF IInv, Structure
<1>2. QED
  BY <1>1, InvariantHolds, PTL

-----------------------------------------------------------------------------
(* Chains as walks *)

\* A chain is its first block and the chain of the next.
LEMMA ChainStep ==
  ASSUME NEW m \in Maps, NEW b \in BlockIds
  PROVE  /\ m[b] \in BlockIds => Chain(m, b) = {b} \cup Chain(m, m[b])
         /\ m[b] \notin BlockIds => Chain(m, b) = {b}
<1>1. CASE m[b] \in BlockIds
  <2> DEFINE S == {b} \cup Chain(m, m[b])
  <2>1. b \in S /\ Closed(m, S)
    BY <1>1, ChainClosed DEF Closed
  <2>2. Chain(m, b) \subseteq S
    BY <2>1, ChainLeast
  <2>3. b \in Chain(m, b) /\ m[b] \in Chain(m, b)
    BY <1>1, ChainClosed DEF Closed
  <2>4. S \subseteq Chain(m, b)
    BY <2>3, ChainTail
  <2>5. QED
    BY <1>1, <2>2, <2>4
<1>2. CASE m[b] \notin BlockIds
  <2>1. b \in {b} /\ Closed(m, {b})
    BY <1>2 DEF Closed
  <2>2. Chain(m, b) \subseteq {b}
    BY <2>1, ChainLeast
  <2>3. QED
    BY <1>2, <2>2, ChainClosed
<1>3. QED
  BY <1>1, <1>2

\* A chain is finite and not empty.
LEMMA ChainFinite ==
  ASSUME NEW m \in Maps, NEW b \in BlockIds
  PROVE  /\ IsFiniteSet(Chain(m, b))
         /\ Cardinality(Chain(m, b)) \in Nat \ {0}
<1>1. IsFiniteSet(BlockIds)
  BY GeometryAssumption, FS_Interval, 0 \in Int, LilBlockCount - 1 \in Int DEF BlockIds
<1>2. b \in Chain(m, b) /\ Chain(m, b) \subseteq BlockIds
  BY ChainClosed
<1>3. IsFiniteSet(Chain(m, b))
  BY <1>1, <1>2, FS_Subset
<1>4. QED
  BY <1>2, <1>3, FS_EmptySet, FS_CardinalityType

\* Of two blocks of a chain one comes after the other.
LEMMA ChainOrdered ==
  ASSUME NEW m \in Maps, NEW b \in BlockIds,
         NEW x \in Chain(m, b), NEW y \in Chain(m, b)
  PROVE  y \in Chain(m, x) \/ x \in Chain(m, y)
<1> DEFINE S == {c \in Chain(m, b) : c \in Chain(m, x) \/ x \in Chain(m, c)}
<1>1. x \in BlockIds /\ Chain(m, b) \subseteq BlockIds
  BY ChainClosed
<1>2. b \in S
  BY ChainClosed
<1>3. ASSUME NEW c \in S, m[c] \in BlockIds
      PROVE  m[c] \in S
  <2>1. c \in BlockIds /\ m[c] \in Chain(m, b)
    BY <1>1, <1>3, ChainClosed DEF Closed
  <2>2. CASE c \in Chain(m, x)
    BY <1>1, <1>3, <2>1, <2>2, ChainClosed DEF Closed
  <2>3. CASE c # x /\ x \in Chain(m, c)
    BY <1>3, <2>1, <2>3, ChainStep
  <2>4. CASE c = x
    BY <1>1, <1>3, <2>1, <2>4, ChainClosed DEF Closed
  <2>5. QED
    BY <2>2, <2>3, <2>4
<1>4. Chain(m, b) \subseteq S
  BY <1>2, <1>3, ChainLeast DEF Closed
<1>5. QED
  BY <1>4

\* The chain of a head never comes back to a block.
LEMMA ChainAcyclic ==
  ASSUME NEW m \in Maps, NEW H \in SUBSET BlockIds, Tidy(m, H), NEW h \in H
  PROVE  \A c \in Chain(m, h) : m[c] \in BlockIds => c \notin Chain(m, m[c])
<1> DEFINE S == {c \in Chain(m, h) : m[c] \in BlockIds => c \notin Chain(m, m[c])}
<1>1. Chain(m, h) \subseteq BlockIds
  BY ChainClosed
<1>2. h \in S
  <2>1. \A p \in BlockIds : m[p] # h
    BY DEF Tidy
  <2>2. ASSUME m[h] \in BlockIds, h \in Chain(m, m[h])
        PROVE  FALSE
    BY <2>1, <2>2, ChainPredecessor, ChainClosed
  <2>3. QED
    BY <2>2, ChainClosed
<1>3. ASSUME NEW x \in S, m[x] \in BlockIds
      PROVE  m[x] \in S
  <2> DEFINE y == m[x]
  <2>1. x \in BlockIds /\ y \in Chain(m, h) /\ x \notin Chain(m, y)
    BY <1>1, <1>3, ChainClosed DEF Closed
  <2>2. ASSUME m[y] \in BlockIds, y \in Chain(m, m[y])
        PROVE  FALSE
    <3>1. y # m[y]
      BY <1>3, <2>1, ChainClosed DEF Tidy
    <3>2. PICK q \in Chain(m, m[y]) : m[q] = y
      BY <2>2, <3>1, ChainPredecessor
    <3>3. q \in BlockIds
      BY <2>2, ChainClosed
    <3>4. q = x
      BY <1>3, <2>1, <3>2, <3>3 DEF Tidy
    <3>5. Chain(m, m[y]) \subseteq Chain(m, y)
      BY <1>3, <2>2, ChainStep
    <3>6. QED
      BY <2>1, <3>2, <3>4, <3>5
  <2>3. QED
    BY <2>1, <2>2
<1>4. Chain(m, h) \subseteq S
  BY <1>2, <1>3, ChainLeast DEF Closed
<1>5. QED
  BY <1>4

\* The tails of a chain get shorter.
LEMMA TailsShrink ==
  ASSUME NEW m \in Maps, NEW H \in SUBSET BlockIds, Tidy(m, H), NEW h \in H,
         NEW x \in Chain(m, h), NEW y \in Chain(m, x), x # y
  PROVE  Cardinality(Chain(m, y)) < Cardinality(Chain(m, x))
<1>1. x \in BlockIds /\ y \in BlockIds /\ Chain(m, y) \subseteq Chain(m, x)
  BY ChainTail
<1>2. m[x] \in BlockIds /\ y \in Chain(m, m[x])
  BY <1>1, ChainStep
<1>3. Chain(m, y) \subseteq Chain(m, m[x])
  BY <1>2, ChainTail
<1>4. x \notin Chain(m, y) /\ x \in Chain(m, x)
  BY <1>1, <1>2, <1>3, ChainAcyclic, ChainClosed
<1>5. /\ IsFiniteSet(Chain(m, x))
      /\ Cardinality(Chain(m, x)) \in Nat /\ Cardinality(Chain(m, y)) \in Nat
  BY <1>1, ChainFinite
<1>6. /\ Cardinality(Chain(m, y)) <= Cardinality(Chain(m, x))
      /\ Cardinality(Chain(m, y)) # Cardinality(Chain(m, x))
  BY <1>1, <1>4, <1>5, FS_Subset
<1>7. QED
  BY <1>5, <1>6

\* Place numbers the blocks of a chain from 1 to its length.
LEMMA PlaceNumbers ==
  ASSUME NEW m \in Maps, NEW H \in SUBSET BlockIds, Tidy(m, H), NEW h \in H
  PROVE  LET ch == Chain(m, h)
         IN  /\ \A x \in ch : Place(m, ch, x) \in 1..Cardinality(ch)
             /\ \A x, y \in ch : Place(m, ch, x) = Place(m, ch, y) => x = y
             /\ \A k \in 1..Cardinality(ch) : \E x \in ch : Place(m, ch, x) = k
<1> DEFINE ch == Chain(m, h)
           n == Cardinality(ch)
           f == [x \in ch |-> Place(m, ch, x)]
<1>1. IsFiniteSet(ch) /\ n \in Nat \ {0}
  BY ChainFinite
<1>2. ASSUME NEW x \in ch
      PROVE  Place(m, ch, x) \in 1..n /\ Cardinality(Chain(m, x)) \in Nat
  <2>1. x \in BlockIds /\ Chain(m, x) \subseteq ch
    BY ChainTail
  <2>2. Cardinality(Chain(m, x)) \in Nat \ {0} /\ Cardinality(Chain(m, x)) <= n
    BY <1>1, <2>1, ChainFinite, FS_Subset
  <2>3. QED
    BY <1>1, <2>2 DEF Place
<1>3. ASSUME NEW x \in ch, NEW y \in ch, Place(m, ch, x) = Place(m, ch, y)
      PROVE  x = y
  <2>1. Cardinality(Chain(m, x)) = Cardinality(Chain(m, y))
    BY <1>1, <1>2, <1>3 DEF Place
  <2>2. y \in Chain(m, x) \/ x \in Chain(m, y)
    BY ChainOrdered
  <2>3. QED
    BY <1>2, <2>1, <2>2, TailsShrink
<1>4. f \in Injection(ch, 1..n)
  BY <1>2, <1>3 DEF Injection, IsInjective
<1>5. IsFiniteSet(1..n) /\ Cardinality(1..n) = n
  BY <1>1, FS_Interval
<1>6. f \in Surjection(ch, 1..n)
  BY <1>4, <1>5, FS_Injection
<1>7. \A k \in 1..n : \E x \in ch : Place(m, ch, x) = k
  BY <1>6 DEF Surjection
<1>8. QED
  BY <1>2, <1>3, <1>7

\* The chain of a head ends.
LEMMA ChainEnds ==
  ASSUME NEW m \in Maps, NEW H \in SUBSET BlockIds, Tidy(m, H), NEW h \in H
  PROVE  /\ \A c \in Chain(m, h) : c \in BlockIds /\ Allocated(m, c)
         /\ \E c \in Chain(m, h) : m[c] = End
<1> DEFINE ch == Chain(m, h)
           f == [c \in ch |-> m[c]]
<1>1. ch \subseteq BlockIds /\ h \in ch /\ Closed(m, ch)
  BY ChainClosed
<1>2. \A c \in ch : Allocated(m, c)
  BY ChainAllocated DEF Tidy
<1>3. ASSUME \A c \in ch : m[c] # End
      PROVE  FALSE
  <2>1. \A c \in ch : m[c] \in BlockIds /\ m[c] \in ch \ {h}
    BY <1>1, <1>2, <1>3 DEF Maps, Words, Allocated, Closed, Tidy
  <2>2. f \in Injection(ch, ch \ {h})
    BY <1>1, <2>1 DEF Injection, IsInjective, Tidy
  <2>3. IsFiniteSet(ch) /\ Cardinality(ch) \in Nat
    BY ChainFinite
  <2>4. IsFiniteSet(ch \ {h}) /\ Cardinality(ch \ {h}) = Cardinality(ch) - 1
    BY <1>1, <2>3, FS_RemoveElement
  <2>5. Cardinality(ch) <= Cardinality(ch \ {h})
    BY <2>2, <2>4, FS_Injection
  <2>6. QED
    BY <2>3, <2>4, <2>5
<1>4. QED
  BY <1>1, <1>2, <1>3

\* Chains of different heads have no block in common.
LEMMA ChainsApart ==
  ASSUME NEW m \in Maps, NEW H \in SUBSET BlockIds, Tidy(m, H),
         NEW g \in H, NEW h \in H, g # h
  PROVE  Chain(m, g) \cap Chain(m, h) = {}
<1> DEFINE S == Chain(m, g) \ Chain(m, h)
<1>1. \A p \in BlockIds : m[p] # g /\ m[p] # h
  BY DEF Tidy
<1>2. g \in S
  BY <1>1, ChainClosed, ChainPredecessor
<1>3. ASSUME NEW c \in S, m[c] \in BlockIds
      PROVE  m[c] \in S
  <2>1. c \in BlockIds /\ m[c] \in Chain(m, g)
    BY <1>3, ChainClosed DEF Closed
  <2>2. ASSUME m[c] \in Chain(m, h)
        PROVE  FALSE
    <3>1. PICK q \in Chain(m, h) : m[q] = m[c]
      BY <1>1, <2>1, <2>2, ChainPredecessor
    <3>2. q = c
      BY <1>3, <2>1, <3>1, ChainClosed DEF Tidy
    <3>3. QED
      BY <3>1, <3>2
  <2>3. QED
    BY <2>1, <2>2
<1>4. Chain(m, g) \subseteq S
  BY <1>2, <1>3, ChainLeast DEF Closed
<1>5. QED
  BY <1>4

-----------------------------------------------------------------------------
(* What the three edits of a map do to its chains *)

\* A chain depends on the words of its blocks only.
LEMMA ChainFrame ==
  ASSUME NEW m \in Maps, NEW t \in Maps, NEW b \in BlockIds,
         \A c \in Chain(m, b) : t[c] = m[c]
  PROVE  /\ Chain(t, b) = Chain(m, b)
         /\ \A c \in Chain(m, b) : Chain(t, c) = Chain(m, c)
<1>1. ASSUME NEW c \in Chain(m, b)
      PROVE  Chain(t, c) = Chain(m, c)
  <2>1. c \in BlockIds /\ Chain(m, c) \subseteq Chain(m, b)
    BY ChainTail
  <2>2. c \in Chain(m, c) /\ Closed(t, Chain(m, c))
    BY <2>1, ChainClosed DEF Closed
  <2>3. Chain(t, c) \subseteq Chain(m, c)
    BY <2>1, <2>2, ChainLeast
  <2>4. c \in Chain(t, c) /\ Closed(m, Chain(t, c))
    BY <2>1, <2>3, ChainClosed DEF Closed
  <2>5. Chain(m, c) \subseteq Chain(t, c)
    BY <2>1, <2>4, ChainLeast
  <2>6. QED
    BY <2>3, <2>5
<1>2. QED
  BY <1>1, ChainClosed

\* A block that is taken is a chain by itself; all others stay as they are.
LEMMA TakenChains ==
  ASSUME NEW m \in Maps, NEW H \in SUBSET BlockIds, Tidy(m, H),
         NEW b \in BlockIds, m[b] = Free
  PROVE  /\ Chain(Taken(m, b), b) = {b}
         /\ \A h \in H : \A c \in Chain(m, h) : Chain(Taken(m, b), c) = Chain(m, c)
         /\ \A h \in H : b \notin Chain(m, h)
<1> DEFINE t == Taken(m, b)
<1>1. t \in Maps
  BY TakenTidy
<1>2. \A p \in BlockIds : t[p] = IF p = b THEN End ELSE m[p]
  BY DEF Taken, Maps
<1>3. Chain(t, b) = {b}
  BY <1>1, <1>2, ChainStep, MarksApart
<1>4. ASSUME NEW h \in H
      PROVE  b \notin Chain(m, h) /\ \A c \in Chain(m, h) : Chain(t, c) = Chain(m, c)
  <2>1. \A c \in Chain(m, h) : c \in BlockIds /\ Allocated(m, c)
    BY ChainEnds
  <2>2. b \notin Chain(m, h)
    BY <2>1 DEF Allocated
  <2>3. \A c \in Chain(m, h) : t[c] = m[c]
    BY <1>2, <2>1, <2>2
  <2>4. QED
    BY <1>1, <2>2, <2>3, ChainFrame
<1>5. QED
  BY <1>3, <1>4

\* A link adds its block to the tails of one chain.
LEMMA LinkedChains ==
  ASSUME NEW m \in Maps, NEW H \in SUBSET BlockIds, Tidy(m, H),
         NEW new \in BlockIds, m[new] = Free,
         NEW h \in H, NEW last \in Chain(m, h), m[last] = End
  PROVE  LET t == LinkedTo(m, last, new)
         IN  /\ new \notin Chain(m, h)
             /\ \A c \in Chain(m, h) : Chain(t, c) = Chain(m, c) \cup {new}
             /\ Chain(t, new) = {new}
             /\ \A g \in H \ {h} : \A c \in Chain(m, g) : Chain(t, c) = Chain(m, c)
<1> DEFINE t == LinkedTo(m, last, new)
<1>0. last \in BlockIds /\ Chain(m, h) \subseteq BlockIds
  BY ChainClosed
<1>1. t \in Maps
  BY <1>0, LinkedTidy
<1>2. last # new /\ t[last] = new /\ t[new] = End
  BY <1>0, MarksApart DEF LinkedTo, Taken, Maps
<1>3. \A p \in BlockIds \ {last, new} : t[p] = m[p]
  BY <1>0 DEF LinkedTo, Taken, Maps
<1>4. \A g \in H : new \notin Chain(m, g)
  BY TakenChains
<1>5. Chain(t, new) = {new}
  BY <1>1, <1>2, ChainStep, MarksApart
<1>6. ASSUME NEW c \in Chain(m, h)
      PROVE  Chain(t, c) = Chain(m, c) \cup {new}
  <2>1. c \in BlockIds /\ Chain(m, c) \subseteq Chain(m, h)
    BY ChainTail
  <2>2. last \in Chain(m, c)
    <3>1. Chain(m, last) = {last}
      BY <1>0, ChainStep, MarksApart
    <3>2. last \in Chain(m, c) \/ c \in Chain(m, last)
      BY <1>0, ChainOrdered
    <3>3. QED
      BY <2>1, <3>1, <3>2, ChainClosed
  <2>3. Chain(t, c) \subseteq Chain(m, c) \cup {new}
    <3> DEFINE S == Chain(m, c) \cup {new}
    <3>1. c \in S
      BY <2>1, ChainClosed
    <3>2. ASSUME NEW x \in S, t[x] \in BlockIds
          PROVE  t[x] \in S
      <4>1. x = new \/ x = last \/ x \in Chain(m, c) \ {last, new}
        OBVIOUS
      <4>2. x \in BlockIds
        BY <1>0, <2>1
      <4>3. QED
        BY <1>2, <1>3, <2>1, <3>2, <4>1, <4>2, ChainClosed, MarksApart DEF Closed
    <3>3. Closed(t, S)
      BY <3>2 DEF Closed
    <3>4. QED
      BY <1>1, <2>1, <3>1, <3>3, ChainLeast
  <2>4. Chain(m, c) \subseteq Chain(t, c)
    <3> DEFINE S == Chain(t, c)
    <3>1. c \in S
      BY <1>1, <2>1, ChainClosed
    <3>2. ASSUME NEW x \in S, m[x] \in BlockIds
          PROVE  m[x] \in S
      <4>1. x \in BlockIds /\ x # last /\ x # new
        BY <1>1, <2>1, <3>2, ChainClosed, MarksApart
      <4>2. QED
        BY <1>1, <1>3, <2>1, <3>2, <4>1, ChainClosed DEF Closed
    <3>3. QED
      BY <2>1, <3>1, <3>2, ChainLeast DEF Closed
  <2>5. new \in Chain(t, c)
    BY <1>1, <1>2, <2>1, <2>2, <2>4, ChainClosed DEF Closed
  <2>6. QED
    BY <2>3, <2>4, <2>5
<1>7. ASSUME NEW g \in H \ {h}
      PROVE  \A c \in Chain(m, g) : Chain(t, c) = Chain(m, c)
  <2>1. last \notin Chain(m, g) /\ new \notin Chain(m, g) /\ Chain(m, g) \subseteq BlockIds
    BY <1>4, ChainsApart, ChainClosed
  <2>2. \A c \in Chain(m, g) : t[c] = m[c]
    BY <1>3, <2>1
  <2>3. QED
    BY <1>1, <2>2, ChainFrame
<1>8. QED
  BY <1>4, <1>5, <1>6, <1>7

\* A cut leaves what is before it, and of the block it is made at the first.
LEMMA CutChains ==
  ASSUME NEW m \in Maps, NEW H \in SUBSET BlockIds, Tidy(m, H),
         NEW h \in H, NEW cut \in Chain(m, h)
  PROVE  LET t == CutAfter(m, cut)
         IN  /\ Chain(t, h) = (Chain(m, h) \ Chain(m, cut)) \cup {cut}
             /\ Cardinality(Chain(t, h)) = Place(m, Chain(m, h), cut)
             /\ \A g \in H \ {h} : \A c \in Chain(m, g) : Chain(t, c) = Chain(m, c)
<1> DEFINE t == CutAfter(m, cut)
           kept == (Chain(m, h) \ Chain(m, cut)) \cup {cut}
<1>0. cut \in BlockIds /\ Chain(m, h) \subseteq BlockIds /\ Chain(m, cut) \subseteq Chain(m, h)
      /\ cut \in Chain(m, cut)
  BY ChainTail, ChainClosed
<1>1. t \in Maps
  BY <1>0, ChainEnds, CutTidy
<1>2. \A p \in BlockIds :
        t[p] = IF p = cut THEN End ELSE IF p \in Chain(m, cut) THEN Free ELSE m[p]
  BY DEF CutAfter
<1>3. ASSUME NEW p \in BlockIds, m[p] \in Chain(m, cut) \ {cut}
      PROVE  p \in Chain(m, cut)
  <2>1. PICK q \in Chain(m, cut) : m[q] = m[p]
    BY <1>0, <1>3, ChainPredecessor
  <2>2. q \in BlockIds /\ m[p] \in BlockIds
    BY <1>0, <1>3
  <2>3. QED
    BY <2>1, <2>2 DEF Tidy
<1>4. Chain(t, h) \subseteq kept
  <2>1. h \in kept
    <3>1. \A p \in BlockIds : m[p] # h
      BY DEF Tidy
    <3>2. h \in Chain(m, cut) => h = cut
      BY <1>0, <3>1, ChainPredecessor
    <3>3. QED
      BY <3>2, ChainClosed
  <2>2. ASSUME NEW c \in kept, t[c] \in BlockIds
        PROVE  t[c] \in kept
    <3>1. c \in BlockIds /\ c # cut /\ c \notin Chain(m, cut) /\ t[c] = m[c]
      BY <1>0, <1>2, <2>2, MarksApart
    <3>2. m[c] \in Chain(m, h)
      BY <2>2, <3>1, ChainClosed DEF Closed
    <3>3. QED
      BY <1>3, <3>1, <3>2
  <2>3. Closed(t, kept)
    BY <2>2 DEF Closed
  <2>4. QED
    BY <1>1, <2>1, <2>3, ChainLeast
<1>5. ASSUME NEW c \in Chain(t, h), c # cut
      PROVE  c \in BlockIds /\ t[c] = m[c]
  BY <1>0, <1>2, <1>4, <1>5
<1>6. cut \in Chain(t, h)
  <2>1. ASSUME cut \notin Chain(t, h)
        PROVE  FALSE
    <3>1. h \in Chain(t, h) /\ Closed(m, Chain(t, h))
      BY <1>1, <1>5, <2>1, ChainClosed DEF Closed
    <3>2. Chain(m, h) \subseteq Chain(t, h)
      BY <3>1, ChainLeast
    <3>3. QED
      BY <2>1, <3>2
  <2>2. QED
    BY <2>1
<1>7. Chain(m, h) \subseteq Chain(t, h) \cup Chain(m, cut)
  <2> DEFINE S == Chain(t, h) \cup Chain(m, cut)
  <2>1. h \in S
    BY <1>1, ChainClosed
  <2>2. ASSUME NEW c \in S, m[c] \in BlockIds
        PROVE  m[c] \in S
    <3>1. CASE c \in Chain(m, cut)
      BY <1>0, <2>2, <3>1, ChainClosed DEF Closed
    <3>2. CASE c \in Chain(t, h) /\ c # cut
      BY <1>1, <1>5, <2>2, <3>2, ChainClosed DEF Closed
    <3>3. QED
      BY <1>0, <2>2, <3>1, <3>2
  <2>3. QED
    BY <2>1, <2>2, ChainLeast DEF Closed
<1>8. Chain(t, h) = kept
  BY <1>4, <1>6, <1>7
<1>9. Cardinality(kept) = Place(m, Chain(m, h), cut)
  <2> DEFINE ch == Chain(m, h)
             tail == Chain(m, cut)
  <2>1. /\ IsFiniteSet(ch) /\ IsFiniteSet(tail)
        /\ Cardinality(ch) \in Nat /\ Cardinality(tail) \in Nat
    BY <1>0, ChainFinite
  <2>2. ch \cap tail = tail
    BY <1>0
  <2>3. IsFiniteSet(ch \ tail) /\ Cardinality(ch \ tail) = Cardinality(ch) - Cardinality(tail)
    <3> HIDE DEF ch, tail
    <3>1. /\ IsFiniteSet(ch \ tail)
          /\ Cardinality(ch \ tail) = Cardinality(ch) - Cardinality(ch \cap tail)
      BY <2>1, FS_Difference
    <3> QED
      BY <2>2, <3>1
  <2>4. cut \in tail
    BY <1>0
  <2>5. Cardinality((ch \ tail) \cup {cut}) = Cardinality(ch \ tail) + 1
    <3>1. cut \notin ch \ tail
      BY <2>4
    <3> QED
      BY <2>3, <3>1, FS_AddElement
  <2>6. QED
    BY <2>1, <2>3, <2>5 DEF Place
<1>10. ASSUME NEW g \in H \ {h}
       PROVE  \A c \in Chain(m, g) : Chain(t, c) = Chain(m, c)
  <2>1. Chain(m, g) \subseteq BlockIds /\ Chain(m, g) \cap Chain(m, cut) = {}
    BY <1>0, ChainsApart, ChainClosed
  <2>2. \A c \in Chain(m, g) : t[c] = m[c]
    BY <1>0, <1>2, <2>1
  <2>3. QED
    BY <1>1, <2>2, ChainFrame
<1>11. QED
  BY <1>8, <1>9, <1>10

-----------------------------------------------------------------------------
(* Blocks no head leads to *)

Lost(m, H) == {b \in BlockIds : Allocated(m, b)} \ UNION {Chain(m, h) : h \in H}

\* A block that is taken for a head is not lost, and no other block is.
LEMMA TakenLost ==
  ASSUME NEW m \in Maps, NEW H \in SUBSET BlockIds, Tidy(m, H),
         NEW b \in BlockIds, m[b] = Free
  PROVE  Lost(Taken(m, b), H \cup {b}) = Lost(m, H)
<1> DEFINE t == Taken(m, b)
<1>1. \A c \in BlockIds \ {b} : Allocated(t, c) <=> Allocated(m, c)
  BY DEF Taken, Maps, Allocated
<1>2. ~ Allocated(m, b)
  BY DEF Allocated
<1>3. /\ b \in Chain(t, b) /\ \A h \in H : b \notin Chain(m, h)
      /\ Chain(t, b) = {b} /\ \A h \in H : Chain(t, h) = Chain(m, h)
  BY TakenChains, ChainClosed
<1>4. ASSUME NEW c \in BlockIds, c # b
      PROVE  (\E h \in H \cup {b} : c \in Chain(t, h)) <=> (\E h \in H : c \in Chain(m, h))
  BY <1>3, <1>4
<1>5. QED
  BY <1>1, <1>2, <1>3, <1>4 DEF Lost

\* Neither is one that is linked to the end of a chain.
LEMMA LinkedLost ==
  ASSUME NEW m \in Maps, NEW H \in SUBSET BlockIds, Tidy(m, H),
         NEW new \in BlockIds, m[new] = Free,
         NEW h \in H, NEW last \in Chain(m, h), m[last] = End
  PROVE  Lost(LinkedTo(m, last, new), H) = Lost(m, H)
<1> DEFINE t == LinkedTo(m, last, new)
<1>0. last \in BlockIds /\ h \in Chain(m, h)
  BY ChainClosed
<1>1. \A c \in BlockIds \ {new} : Allocated(t, c) <=> Allocated(m, c)
  BY <1>0, MarksApart DEF LinkedTo, Taken, Maps, Allocated
<1>2. ~ Allocated(m, new)
  BY DEF Allocated
<1>3. /\ Chain(t, h) = Chain(m, h) \cup {new}
      /\ \A g \in H \ {h} : Chain(t, g) = Chain(m, g)
  BY <1>0, LinkedChains, ChainClosed
<1>4. ASSUME NEW c \in BlockIds, c # new
      PROVE  (\E g \in H : c \in Chain(t, g)) <=> (\E g \in H : c \in Chain(m, g))
  BY <1>3, <1>4
<1>5. QED
  BY <1>1, <1>2, <1>3, <1>4 DEF Lost

\* What a cut leaves allocated and unreached was so before.
LEMMA CutLost ==
  ASSUME NEW m \in Maps, NEW H \in SUBSET BlockIds, Tidy(m, H),
         NEW h \in H, NEW cut \in Chain(m, h)
  PROVE  Lost(CutAfter(m, cut), H) \subseteq Lost(m, H)
<1> DEFINE t == CutAfter(m, cut)
<1>0. cut \in BlockIds /\ Allocated(m, cut)
  BY ChainEnds
<1>1. ASSUME NEW c \in BlockIds, Allocated(t, c)
      PROVE  Allocated(m, c) /\ (c = cut \/ c \notin Chain(m, cut))
  BY <1>0, <1>1 DEF CutAfter, Allocated
<1>2. /\ Chain(t, h) = (Chain(m, h) \ Chain(m, cut)) \cup {cut}
      /\ \A g \in H \ {h} : Chain(t, g) = Chain(m, g)
  BY CutChains, ChainClosed
<1>3. ASSUME NEW c \in Lost(t, H)
      PROVE  c \in Lost(m, H)
  <2>1. c \in BlockIds /\ Allocated(t, c) /\ \A g \in H : c \notin Chain(t, g)
    BY <1>3 DEF Lost
  <2>2. \A g \in H : c \notin Chain(m, g)
    BY <1>1, <1>2, <2>1
  <2>3. QED
    BY <1>1, <2>1, <2>2 DEF Lost
<1>4. QED
  BY <1>3

-----------------------------------------------------------------------------
(* What the calls do *)

\* A file that has a block has a chain that can be walked to its end; one without
\* would walk from block 0, which is reserved.
LEMMA FileWalkOf ==
  ASSUME NEW H, Walkable(H), NEW i \in SlotIds
  PROVE  LET b == entries[i].blk
         IN  /\ blockMap \in Maps /\ H \in SUBSET BlockIds /\ Tidy(blockMap, H)
             /\ b \in BlockIds
             /\ Wild(blockMap, b) <=> b = 0
             /\ b # 0 => /\ b \in H
                         /\ GivesUp(blockMap, b)
                              <=> Cardinality(Chain(blockMap, b)) >= ChainLimit
<1> DEFINE b == entries[i].blk
<1>1. /\ blockMap \in Maps /\ b \in BlockIds /\ H \in SUBSET BlockIds
      /\ Tidy(blockMap, H)
  BY DEF Walkable, TypeOK, Maps, Entry
<1>2. CASE b = 0
  <2>1. Wild(blockMap, b)
    BY <1>1, <1>2, ChainClosed DEF Wild, Walkable
  <2>2. QED
    BY <1>1, <1>2, <2>1
<1>3. CASE b # 0
  <2>1. b \in H
    BY <1>3 DEF Walkable
  <2>2. \A c \in Chain(blockMap, b) : blockMap[c] # Reserved
    BY <1>1, <2>1, ChainEnds DEF Allocated
  <2>3. \E c \in Chain(blockMap, b) : Stops(blockMap, c)
    BY <1>1, <2>1, ChainEnds DEF Stops
  <2>4. QED
    BY <1>1, <1>3, <2>1, <2>2, <2>3 DEF Wild, GivesUp
<1>4. QED
  BY <1>2, <1>3

LEMMA FileWalk ==
  ASSUME IInv, NEW i \in SlotIds
  PROVE  LET b == entries[i].blk
         IN  /\ blockMap \in Maps /\ Heads \in SUBSET BlockIds /\ Tidy(blockMap, Heads)
             /\ b \in BlockIds
             /\ Wild(blockMap, b) <=> b = 0
             /\ b # 0 => /\ b \in Heads
                         /\ GivesUp(blockMap, b)
                              <=> Cardinality(Chain(blockMap, b)) >= ChainLimit
BY WalkableHeads, FileWalkOf

KeepLengths == \A j \in SlotIds : entries'[j].len = entries[j].len

\* FileAdd finds the name, or shows a slot that may have got a block.
LEMMA FileAddEffect ==
  ASSUME TypeOK, NEW n \in Names, FileAdd(n)
  PROVE  \/ UNCHANGED <<blockMap, entries, count, disk>>
         \/ /\ count \in SlotIds /\ count' = count + 1 /\ UNCHANGED disk /\ KeepLengths
            /\ \/ \E b \in BlockIds : NewHead(count, b)
               \/ KeepHeads /\ UNCHANGED blockMap
<1>1. ASSUME count < MaxEntries
      PROVE  count \in SlotIds
  BY <1>1, GeometryAssumption DEF TypeOK, SlotIds
<1>2. ASSUME count < MaxEntries, NEW b \in BlockIds, AllocatesBlock(blockMap, b),
             blockMap' = Taken(blockMap, b),
             entries' = [entries EXCEPT ![count].name = Stored[n], ![count].blk = b]
      PROVE  NewHead(count, b) /\ KeepLengths
  BY <1>1, <1>2 DEF NewHead, KeepLengths, TypeOK, Entry
<1>3. ASSUME count < MaxEntries,
             entries' = [entries EXCEPT ![count].name = Stored[n]]
      PROVE  KeepHeads /\ KeepLengths
  BY <1>1, <1>3 DEF KeepHeads, KeepLengths, TypeOK, Entry
<1>4. QED
  BY <1>1, <1>2, <1>3 DEF FileAdd, Fails

\* FileSetData gives its file a first block, or works on the chain of one that has
\* a block; whatever else happens changes nothing.
LEMMA FileSetDataEffect ==
  ASSUME NEW H, Walkable(H), NEW i \in SlotIds, NEW d \in Data, FileSetData(i, d)
  PROVE  \/ UNCHANGED <<blockMap, entries, count, disk>>
         \/ /\ entries[i].blk = 0 /\ UNCHANGED <<count, disk>> /\ KeepLengths
            /\ \E b \in BlockIds : NewHead(i, b)
         \/ /\ entries[i].blk # 0 /\ i < count
            /\ \/ Rewrite(i, d) \/ Extend(i, d) \/ Shrink(i, d)
               \/ /\ Blocks[d] = 0 /\ SetLength(i, 0) /\ UNCHANGED <<blockMap, count, disk>>
<1>1. ASSUME entries[i].blk = 0, NEW b \in BlockIds, AllocatesBlock(blockMap, b),
             blockMap' = Taken(blockMap, b), entries' = [entries EXCEPT ![i].blk = b]
      PROVE  NewHead(i, b) /\ KeepLengths
  BY <1>1 DEF NewHead, KeepLengths, Walkable, TypeOK, Entry
<1>2. CASE ChainSetChainData(i, d)
  <2>1. entries[i].blk = 0 => Derail(i, d)
    BY <1>2, FileWalkOf DEF ChainSetChainData
  <2>2. i < count
    BY DEF FileSetData
  <2>3. QED
    BY <1>2, <2>1, <2>2 DEF ChainSetChainData, Derail, Exhaust, Fails, ClearLength
<1>3. QED
  BY <1>1, <1>2 DEF FileSetData

\* What the three ways of setting the data of a file with a block have in common.
LEMMA ChainWork ==
  ASSUME NEW H, Walkable(H), NEW i \in SlotIds, entries[i].blk # 0, NEW d \in Data,
         Rewrite(i, d) \/ Extend(i, d) \/ Shrink(i, d)
  PROVE  /\ KeepHeads /\ UNCHANGED count
         /\ \/ UNCHANGED blockMap
            \/ \E new \in BlockIds, last \in Chain(blockMap, entries[i].blk) :
                 /\ blockMap[new] = Free /\ blockMap[last] = End
                 /\ blockMap' = LinkedTo(blockMap, last, new)
            \/ \E cut \in Chain(blockMap, entries[i].blk) :
                 blockMap' = CutAfter(blockMap, cut)
<1> DEFINE h == entries[i].blk
<1>1. TypeOK /\ blockMap \in Maps /\ H \in SUBSET BlockIds /\ Tidy(blockMap, H) /\ h \in H
  BY FileWalkOf DEF Walkable
<1>2. \A c \in Chain(blockMap, h) : Stops(blockMap, c) => blockMap[c] = End
  BY <1>1, ChainEnds DEF Stops, Allocated
<1>3. Blocks[d] \in Nat
  BY DataAssumption
<1>4. CASE Rewrite(i, d)
  BY <1>1, <1>3, <1>4, SetLengthType DEF Rewrite
<1>5. CASE Extend(i, d)
  <2>1. KeepHeads
    BY <1>5 DEF Extend, KeepHeads
  <2>2. QED
    BY <1>2, <1>5, <2>1 DEF Extend, AllocatesBlock, FreeBlocks
<1>6. CASE Shrink(i, d)
  BY <1>1, <1>3, <1>6, SetLengthType DEF Shrink
<1>7. QED
  BY <1>4, <1>5, <1>6

-----------------------------------------------------------------------------
(* No block is lost *)

\* Slots behind the last file have no block.
Fresh == \A i \in SlotIds : i >= count => entries[i].blk = 0

FInv == IInv /\ Fresh /\ Lost(blockMap, Heads) = {}

LEMMA HeadsAre ==
  ASSUME TypeOK
  PROVE  Heads = {RootBlock} \cup ({entries[i].blk : i \in SlotIds} \ {0})
BY GeometryAssumption DEF Heads, IsHead, TypeOK, Entry

\* A slot that had no block adds its new one to the heads.
LEMMA NewHeadHeads ==
  ASSUME TypeOK, NEW i \in SlotIds, entries[i].blk = 0,
         NEW b \in BlockIds, b # 0, NewHead(i, b)
  PROVE  Heads' = Heads \cup {b}
BY DEF Heads, IsHead, NewHead

\* Calls of FileAdd and FileSetData lose no block.
LEMMA NewHeadLost ==
  ASSUME IInv, NEW i \in SlotIds, entries[i].blk = 0, NEW b \in BlockIds, NewHead(i, b)
  PROVE  Lost(blockMap, Heads)' = Lost(blockMap, Heads)
<1>1. blockMap[b] = Free /\ blockMap' = Taken(blockMap, b)
  BY DEF NewHead, AllocatesBlock, FreeBlocks
<1>2. b # 0
  BY <1>1, FreeBlockFresh DEF IInv
<1>3. Heads' = Heads \cup {b}
  BY <1>2, NewHeadHeads DEF IInv
<1>4. blockMap \in Maps /\ Heads \in SUBSET BlockIds /\ Tidy(blockMap, Heads)
  BY FileWalk
<1>5. Lost(Taken(blockMap, b), Heads \cup {b}) = Lost(blockMap, Heads)
  BY <1>1, <1>4, TakenLost
<1>6. QED
  BY <1>1, <1>3, <1>5

LEMMA KeepHeadsHeads ==
  ASSUME KeepHeads
  PROVE  Heads' = Heads
BY DEF Heads, IsHead, KeepHeads

LEMMA ChainWorkLost ==
  ASSUME IInv, NEW i \in SlotIds, entries[i].blk # 0, NEW d \in Data,
         Rewrite(i, d) \/ Extend(i, d) \/ Shrink(i, d)
  PROVE  Lost(blockMap, Heads)' \subseteq Lost(blockMap, Heads)
<1> DEFINE h == entries[i].blk
<1>1. blockMap \in Maps /\ Heads \in SUBSET BlockIds /\ Tidy(blockMap, Heads) /\ h \in Heads
  BY FileWalk
<1>2. Heads' = Heads
  BY WalkableHeads, ChainWork, KeepHeadsHeads
<1>3. CASE UNCHANGED blockMap
  BY <1>2, <1>3
<1>4. ASSUME NEW new \in BlockIds, NEW last \in Chain(blockMap, h),
             blockMap[new] = Free, blockMap[last] = End,
             blockMap' = LinkedTo(blockMap, last, new)
      PROVE  Lost(blockMap', Heads) \subseteq Lost(blockMap, Heads)
  BY <1>1, <1>4, LinkedLost
<1>5. ASSUME NEW cut \in Chain(blockMap, h), blockMap' = CutAfter(blockMap, cut)
      PROVE  Lost(blockMap', Heads) \subseteq Lost(blockMap, Heads)
  BY <1>1, <1>5, CutLost
<1>6. Lost(blockMap', Heads) \subseteq Lost(blockMap, Heads)
  BY <1>2, <1>3, <1>4, <1>5, ChainWork, WalkableHeads
<1>7. QED
  BY <1>2, <1>6

LEMMA FInvInit == Init => FInv
<1> SUFFICES ASSUME Init PROVE FInv
  OBVIOUS
<1>1. IInv
  BY InitInvariant
<1>2. Heads = {RootBlock}
  BY GeometryAssumption DEF Heads, IsHead, Init
<1>3. \A b \in BlockIds : Allocated(blockMap, b) => b = RootBlock
  BY DEF Init, Allocated
<1>4. RootBlock \in Chain(blockMap, RootBlock)
  BY <1>1, GeometryAssumption, ChainClosed DEF IInv, TypeOK, Maps
<1>5. QED
  BY <1>1, <1>2, <1>3, <1>4 DEF FInv, Fresh, Init, Lost

LEMMA FInvFileAdd ==
  ASSUME FInv, NEW n \in Names, FileAdd(n)
  PROVE  FInv'
<1> USE DEF FInv
<1>1. IInv'
  BY FileAddInvariant
<1>2. CASE UNCHANGED <<blockMap, entries, count, disk>>
  BY <1>1, <1>2 DEF Fresh, Lost, Heads, IsHead
<1>3. ASSUME count \in SlotIds, count' = count + 1, NEW b \in BlockIds, NewHead(count, b)
      PROVE  Fresh' /\ Lost(blockMap, Heads)' = {}
  <2>1. Lost(blockMap, Heads)' = {}
    BY <1>3, NewHeadLost DEF Fresh, SlotIds
  <2>2. Fresh'
    BY <1>3 DEF Fresh, NewHead, SlotIds
  <2>3. QED
    BY <2>1, <2>2
<1>4. ASSUME count \in SlotIds, count' = count + 1, KeepHeads, UNCHANGED blockMap
      PROVE  Fresh' /\ Lost(blockMap, Heads)' = {}
  BY <1>4, KeepHeadsHeads DEF Fresh, KeepHeads, SlotIds
<1>5. QED
  BY <1>1, <1>2, <1>3, <1>4, FileAddEffect DEF IInv

LEMMA FInvFileSetData ==
  ASSUME FInv, NEW i \in SlotIds, NEW d \in Data, FileSetData(i, d)
  PROVE  FInv'
<1> USE DEF FInv
<1>1. IInv' /\ i < count
  BY FileSetDataInvariant DEF FileSetData
<1>2. CASE UNCHANGED <<blockMap, entries, count, disk>>
  BY <1>1, <1>2 DEF Fresh, Lost, Heads, IsHead
<1>3. ASSUME entries[i].blk = 0, UNCHANGED count, NEW b \in BlockIds, NewHead(i, b)
      PROVE  Fresh' /\ Lost(blockMap, Heads)' = {}
  BY <1>1, <1>3, NewHeadLost DEF Fresh, NewHead, SlotIds, IInv, TypeOK
<1>4. ASSUME KeepHeads, UNCHANGED count
      PROVE  Fresh'
  BY <1>4 DEF Fresh, KeepHeads
<1>5. ASSUME entries[i].blk # 0, Rewrite(i, d) \/ Extend(i, d) \/ Shrink(i, d)
      PROVE  Fresh' /\ Lost(blockMap, Heads)' = {}
  BY <1>4, <1>5, WalkableHeads, ChainWork, ChainWorkLost
<1>6. ASSUME SetLength(i, 0), UNCHANGED <<blockMap, count>>
      PROVE  Fresh' /\ Lost(blockMap, Heads)' = {}
  BY <1>4, <1>6, SetLengthType, KeepHeadsHeads DEF IInv
<1>7. QED
  BY <1>1, <1>2, <1>3, <1>5, <1>6, FileSetDataEffect, WalkableHeads

LEMMA FInvHolds == Spec => []FInv
<1>1. FInv /\ [Next]_vars => FInv'
  <2> SUFFICES ASSUME FInv, [Next]_vars
               PROVE  FInv'
    OBVIOUS
  <2>1. CASE UNCHANGED vars
    <3>1. IInv'
      BY <2>1, InvariantInductive DEF FInv
    <3>2. QED
      BY <2>1, <3>1 DEF FInv, vars, Fresh, Lost, Heads, IsHead
  <2>2. QED
    BY <2>1, FInvFileAdd, FInvFileSetData DEF Next
<1>2. QED
  BY <1>1, FInvInit, PTL DEF Spec

\* No block is lost: whatever sequence of calls, growths that stop half way among
\* them, a block that is taken belongs to the root or to the chain of a file.
THEOREM NothingLeaks == Spec => []NoLeak
<1>1. FInv => NoLeak
  BY HeadsAre DEF FInv, IInv, Lost, NoLeak
<1>2. QED
  BY <1>1, FInvHolds, PTL

-----------------------------------------------------------------------------
(* Faults *)

LEMMA FaultsStep ==
  ASSUME IInv, FaultsExplained, [Next]_vars
  PROVE  FaultsExplained'
<1>1. ASSUME fault' = "none"
      PROVE  FaultsExplained'
  BY <1>1 DEF FaultsExplained
<1>2. ASSUME NEW n \in Names, FileAdd(n)
      PROVE  FaultsExplained'
  <2>1. CASE count = MaxEntries /\ Fails("overflow")
    BY <2>1 DEF FaultsExplained, Fails
  <2>2. CASE UNCHANGED fault
    BY <1>1, <1>2, <2>2 DEF FileAdd, Running
  <2>3. QED
    BY <1>2, <2>1, <2>2 DEF FileAdd, Returns
<1>3. ASSUME NEW i \in SlotIds, NEW d \in Data, FileSetData(i, d)
      PROVE  FaultsExplained'
  <2> DEFINE b == entries[i].blk
  <2>1. CASE Exhaust(i, d)
    BY <2>1 DEF FaultsExplained, Exhaust, Fails
  <2>2. CASE Wild(blockMap, b) /\ Fails("wild") /\ (b # 0 \/ FreeBlocks(blockMap) = {})
    <3>1. b = 0 /\ FreeBlocks(blockMap) = {}
      BY <2>2, FileWalk
    <3>2. i \in 0..(count - 1)
      BY <1>3 DEF FileSetData, SlotIds, IInv, TypeOK
    <3>3. QED
      BY <2>2, <3>1, <3>2 DEF FaultsExplained, Fails
  <2>3. CASE /\ ~ Wild(blockMap, b) /\ Fails("underflow")
             /\ GivesUp(blockMap, b) <=> Blocks[d] > 0
    <3>1. Cardinality(Chain(blockMap, b)) >= ChainLimit \/ ~ (Blocks[d] > 0)
      BY <2>3, FileWalk
    <3>2. Blocks[d] \in Nat
      BY DataAssumption
    <3>3. Blocks[d] = 0 \/ Cardinality(Chain(blockMap, b)) >= ChainLimit
      BY <3>1, <3>2
    <3>4. QED
      BY <2>3, <3>3 DEF FaultsExplained, Fails
  <2>4. CASE UNCHANGED fault
    BY <1>1, <1>3, <2>4 DEF FileSetData, Running
  <2>5. QED
    BY <1>3, <2>1, <2>2, <2>3, <2>4
       DEF FileSetData, ChainSetChainData, Rewrite, Extend, Shrink, ClearLength, Derail, Returns
<1>4. CASE UNCHANGED vars
  BY <1>4 DEF vars, FaultsExplained
<1>5. QED
  BY <1>2, <1>3, <1>4 DEF Next

\* A call leaves defined behaviour only at a limit.
THEOREM FaultsOnlyAtLimits == Spec => []FaultsExplained
<1>1. Init => FaultsExplained
  BY DEF Init, FaultsExplained
<1>2. QED
  BY <1>1, FaultsStep, InvariantHolds, PTL DEF Spec

-----------------------------------------------------------------------------
(* Names *)

\* FileSetData renames nothing.
LEMMA FileSetDataNames ==
  ASSUME IInv, NEW i \in SlotIds, NEW d \in Data, FileSetData(i, d)
  PROVE  UNCHANGED count /\ \A j \in SlotIds : entries'[j].name = entries[j].name
<1>1. ASSUME NEW b \in BlockIds, entries' = [entries EXCEPT ![i].blk = b]
      PROVE  \A j \in SlotIds : entries'[j].name = entries[j].name
  BY <1>1 DEF IInv, TypeOK, Entry
<1>2. ASSUME NEW n, SetLength(i, n)
      PROVE  \A j \in SlotIds : entries'[j].name = entries[j].name
  BY <1>2 DEF IInv, TypeOK, Entry, SetLength
<1>3. QED
  BY <1>1, <1>2
     DEF FileSetData, ChainSetChainData, Rewrite, Extend, Exhaust, Shrink, ClearLength,
         Derail, Fails

LEMMA NamesStep ==
  ASSUME IInv, NamesUnique, [Next]_vars
  PROVE  NamesUnique'
<1>0. count \in 0..MaxEntries /\ MaxEntries \in Nat
  BY GeometryAssumption DEF IInv, TypeOK
<1>1. ASSUME NEW n \in Names, FileAdd(n)
      PROVE  NamesUnique'
  <2>1. CASE UNCHANGED <<entries, count>>
    BY <2>1 DEF NamesUnique
  <2>2. CASE /\ FindEntry(n) = {} /\ count \in SlotIds /\ count' = count + 1
             /\ entries'[count].name = Stored[n]
             /\ \A j \in SlotIds \ {count} : entries'[j].name = entries[j].name
    <3> SUFFICES ASSUME NEW i \in 0..(count' - 1), NEW j \in 0..(count' - 1),
                        i # j, entries'[i].name = entries'[j].name
                 PROVE  \E k \in Names : Stored[k] = entries'[i].name /\ Stored[k] # k
      BY DEF NamesUnique
    <3>1. /\ i \in SlotIds /\ j \in SlotIds
          /\ i # count => i \in 0..(count - 1)
          /\ j # count => j \in 0..(count - 1)
      BY <1>0, <2>2 DEF SlotIds
    <3>2. \A k \in 0..(count - 1) : entries[k].name # n
      BY <2>2 DEF FindEntry
    <3>3. CASE i = count \/ j = count
      <4>1. Stored[n] # n /\ Stored[n] = entries'[i].name
        BY <2>2, <3>1, <3>2, <3>3
      <4>2. QED
        BY <1>1, <4>1
    <3>4. CASE i # count /\ j # count
      BY <2>2, <3>1, <3>4 DEF NamesUnique
    <3>5. QED
      BY <3>3, <3>4
  <2>3. ASSUME count < MaxEntries, NEW b \in BlockIds,
               entries' = [entries EXCEPT ![count].name = Stored[n], ![count].blk = b]
        PROVE  /\ entries'[count].name = Stored[n]
               /\ \A j \in SlotIds \ {count} : entries'[j].name = entries[j].name
    BY <1>0, <2>3 DEF IInv, TypeOK, Entry, SlotIds
  <2>4. ASSUME count < MaxEntries,
               entries' = [entries EXCEPT ![count].name = Stored[n]]
        PROVE  /\ entries'[count].name = Stored[n]
               /\ \A j \in SlotIds \ {count} : entries'[j].name = entries[j].name
    BY <1>0, <2>4 DEF IInv, TypeOK, Entry, SlotIds
  <2>5. count < MaxEntries => count \in SlotIds
    BY <1>0 DEF SlotIds
  <2>6. QED
    BY <1>1, <2>1, <2>2, <2>3, <2>4, <2>5 DEF FileAdd, Fails
<1>2. ASSUME NEW i \in SlotIds, NEW d \in Data, FileSetData(i, d)
      PROVE  NamesUnique'
  <2>1. \A j \in 0..(count - 1) : j \in SlotIds
    BY <1>0 DEF SlotIds
  <2>2. QED
    BY <1>2, <2>1, FileSetDataNames DEF NamesUnique
<1>3. CASE UNCHANGED vars
  BY <1>3 DEF vars, NamesUnique
<1>4. QED
  BY <1>1, <1>2, <1>3 DEF Next

\* No name is entered twice but one that FileAdd could not keep.
THEOREM NamesStayUnique == Spec => []NamesUnique
<1>1. Init => NamesUnique
  BY DEF Init, NamesUnique
<1>2. QED
  BY <1>1, NamesStep, InvariantHolds, PTL DEF Spec

-----------------------------------------------------------------------------
(* What a file holds *)

\* Extent, FileGetData and Held of a file whose chain starts at b, which is n
\* blocks long and lies on disk D under map m.
ExtentOf(m, b, n) ==
  {p \in {<<c, Place(m, Chain(m, b), c)>> : c \in Chain(m, b)} : p[2] <= n}

Content(m, b, n, D) == {<<p[2], D[p[1] + FSOffset]>> : p \in ExtentOf(m, b, n)}

Reading(got) ==
  IF \E d \in Data : got = Whole(d) THEN CHOOSE d \in Data : got = Whole(d) ELSE Torn

\* The extent has as many blocks as the length says.
LEMMA ExtentLength ==
  ASSUME NEW m \in Maps, NEW H \in SUBSET BlockIds, Tidy(m, H), NEW h \in H,
         NEW n \in Nat, n <= Cardinality(Chain(m, h))
  PROVE  Cardinality(ExtentOf(m, h, n)) = n
<1> DEFINE ch == Chain(m, h)
           ex == ExtentOf(m, h, n)
           f == [p \in ex |-> p[2]]
<1>1. /\ \A x \in ch : Place(m, ch, x) \in 1..Cardinality(ch)
      /\ \A x, y \in ch : Place(m, ch, x) = Place(m, ch, y) => x = y
      /\ \A k \in 1..Cardinality(ch) : \E x \in ch : Place(m, ch, x) = k
      /\ Cardinality(ch) \in Nat
  BY PlaceNumbers, ChainFinite
<1>2. \A p \in ex : \E c \in ch : p = <<c, Place(m, ch, c)>> /\ Place(m, ch, c) <= n
  BY DEF ExtentOf
<1>3. \A c \in ch : Place(m, ch, c) <= n => <<c, Place(m, ch, c)>> \in ex
  BY DEF ExtentOf
<1>4. f \in Injection(ex, 1..n)
  <2>1. \A p \in ex : p[2] \in 1..n
    BY <1>1, <1>2
  <2>2. \A p, q \in ex : p[2] = q[2] => p = q
    BY <1>1, <1>2
  <2>3. QED
    BY <2>1, <2>2 DEF Injection, IsInjective
<1>5. f \in Surjection(ex, 1..n)
  <2>1. ASSUME NEW k \in 1..n
        PROVE  \E p \in ex : f[p] = k
    <3>1. PICK x \in ch : Place(m, ch, x) = k
      BY <1>1
    <3>2. <<x, k>> \in ex
      BY <1>3, <3>1
    <3>3. QED
      BY <3>2
  <2>2. QED
    BY <1>4, <2>1 DEF Injection, Surjection
<1>6. IsFiniteSet(1..n) /\ Cardinality(1..n) = n
  BY FS_Interval
<1>7. QED
  BY <1>4, <1>5, <1>6, FS_Injection

\* A content depends on the chain and on the cells it leads to.
LEMMA ContentFrame ==
  ASSUME NEW m \in Maps, NEW t \in Maps, NEW b \in BlockIds, NEW n, NEW D, NEW E,
         \A c \in Chain(m, b) : Chain(t, c) = Chain(m, c),
         \A c \in Chain(m, b) : E[c + FSOffset] = D[c + FSOffset]
  PROVE  Content(t, b, n, E) = Content(m, b, n, D)
<1>1. Chain(t, b) = Chain(m, b)
  BY ChainClosed
<1>2. \A c \in Chain(m, b) : Place(t, Chain(t, b), c) = Place(m, Chain(m, b), c)
  BY <1>1 DEF Place
<1>3. ExtentOf(t, b, n) = ExtentOf(m, b, n)
  BY <1>1, <1>2 DEF ExtentOf
<1>4. \A p \in ExtentOf(m, b, n) : p[1] \in Chain(m, b)
  BY DEF ExtentOf
<1>5. QED
  BY <1>3, <1>4 DEF Content

\* A longer chain reads as before up to the length of the file.
LEMMA ContentLinked ==
  ASSUME NEW m \in Maps, NEW H \in SUBSET BlockIds, Tidy(m, H),
         NEW new \in BlockIds, m[new] = Free,
         NEW h \in H, NEW last \in Chain(m, h), m[last] = End,
         NEW n \in Nat, n <= Cardinality(Chain(m, h)), NEW D
  PROVE  LET t == LinkedTo(m, last, new)
         IN  /\ Cardinality(Chain(t, h)) = Cardinality(Chain(m, h)) + 1
             /\ Content(t, h, n, D) = Content(m, h, n, D)
<1> DEFINE t == LinkedTo(m, last, new)
           ch == Chain(m, h)
<1>1. /\ new \notin ch /\ h \in ch /\ Chain(t, new) = {new}
      /\ \A c \in ch : Chain(t, c) = Chain(m, c) \cup {new}
  BY LinkedChains, ChainClosed
<1>2. ASSUME NEW c \in ch
      PROVE  /\ Cardinality(Chain(t, c)) = Cardinality(Chain(m, c)) + 1
             /\ Cardinality(Chain(m, c)) \in Nat
  <2>1. c \in BlockIds /\ Chain(m, c) \subseteq ch
    BY ChainTail
  <2>2. IsFiniteSet(Chain(m, c)) /\ Cardinality(Chain(m, c)) \in Nat /\ new \notin Chain(m, c)
    BY <1>1, <2>1, ChainFinite
  <2>3. QED
    BY <1>1, <2>2, FS_AddElement
<1>3. Chain(t, h) = ch \cup {new} /\ Cardinality(Chain(t, h)) = Cardinality(ch) + 1
      /\ Cardinality(ch) \in Nat
  BY <1>1, <1>2
<1>4. \A c \in ch : Place(t, Chain(t, h), c) = Place(m, ch, c)
  BY <1>2, <1>3 DEF Place
<1>5. Place(t, Chain(t, h), new) = Cardinality(ch) + 1
  <2>1. Cardinality({new}) = 1
    BY FS_Singleton
  <2>2. QED
    BY <1>1, <1>3, <2>1 DEF Place
<1>6. \A c : c \in Chain(t, h) /\ Place(t, Chain(t, h), c) <= n
               <=> c \in ch /\ Place(m, ch, c) <= n
  <2>1. ~ (Place(t, Chain(t, h), new) <= n)
    BY <1>3, <1>5
  <2>2. QED
    BY <1>3, <1>4, <2>1
<1>7. ExtentOf(t, h, n) = ExtentOf(m, h, n)
  BY <1>4, <1>6 DEF ExtentOf
<1>8. QED
  BY <1>3, <1>7 DEF Content

\* After a payload is written along a chain as long as it is, it is there.
LEMMA ContentWritten ==
  ASSUME NEW m \in Maps, NEW H \in SUBSET BlockIds, Tidy(m, H), NEW h \in H,
         NEW d \in Data, Blocks[d] = Cardinality(Chain(m, h)), NEW D,
         \A c \in Chain(m, h) : D[c + FSOffset] = <<d, Place(m, Chain(m, h), c)>>
  PROVE  Reading(Content(m, h, Blocks[d], D)) = d
<1> DEFINE ch == Chain(m, h)
           n == Blocks[d]
           got == Content(m, h, n, D)
<1>1. /\ \A x \in ch : Place(m, ch, x) \in 1..n
      /\ \A k \in 1..n : \E x \in ch : Place(m, ch, x) = k
      /\ n \in Nat \ {0}
  BY PlaceNumbers, ChainFinite
<1>2. ExtentOf(m, h, n) = {<<c, Place(m, ch, c)>> : c \in ch}
  BY <1>1 DEF ExtentOf
<1>3. got = {<<Place(m, ch, c), <<d, Place(m, ch, c)>>>> : c \in ch}
  <2>1. got = {<<p[2], D[p[1] + FSOffset]>> : p \in {<<c, Place(m, ch, c)>> : c \in ch}}
    BY <1>2 DEF Content
  <2>2. \A c \in ch : D[c + FSOffset] = <<d, Place(m, ch, c)>>
    OBVIOUS
  <2>3. ASSUME NEW x \in got
        PROVE  \E c \in ch : x = <<Place(m, ch, c), <<d, Place(m, ch, c)>>>>
    <3>1. PICK c \in ch : x = <<Place(m, ch, c), D[c + FSOffset]>>
      BY <2>1, <2>3
    <3>2. QED
      BY <2>2, <3>1
  <2>4. ASSUME NEW c \in ch
        PROVE  <<Place(m, ch, c), <<d, Place(m, ch, c)>>>> \in got
    <3> DEFINE p == <<c, Place(m, ch, c)>>
    <3>1. p \in {<<x, Place(m, ch, x)>> : x \in ch}
      OBVIOUS
    <3>2. <<p[2], D[p[1] + FSOffset]>> \in got
      BY <2>1, <3>1
    <3>3. p[1] = c /\ p[2] = Place(m, ch, c)
      OBVIOUS
    <3>4. QED
      BY <2>2, <3>2, <3>3
  <2>5. QED
    BY <2>3, <2>4
<1>4. got = Whole(d)
  <2>1. ASSUME NEW k \in 1..n
        PROVE  <<k, <<d, k>>>> \in got
    BY <1>1, <1>3
  <2>2. QED
    BY <1>1, <1>3, <2>1 DEF Whole
<1>5. ASSUME NEW e \in Data, got = Whole(e)
      PROVE  e = d
  <2>1. <<1, <<d, 1>>>> \in Whole(e)
    <3>1. 1 \in 1..n
      BY <1>1
    <3>2. <<1, <<d, 1>>>> \in Whole(d)
      BY <3>1 DEF Whole
    <3>3. QED
      BY <1>4, <1>5, <3>2
  <2>2. QED
    BY <2>1 DEF Whole
<1>6. QED
  BY <1>4, <1>5 DEF Reading

-----------------------------------------------------------------------------
(* The files implement FileStore *)

\* What the promise of FileStore needs: the image holds every block of the map where
\* files are written, and every payload has a block and is shorter than the longest
\* chain ChainGetChain walks.
Roomy ==
  /\ LilBlockCount + FSOffset <= DeviceBlocks
  /\ ChainLimit > 1
  /\ \A d \in Data : 0 < Blocks[d] /\ Blocks[d] < ChainLimit

\* A file is no longer than its chain, and its chain can be walked.
FitsAt(i) ==
  LET n == Cardinality(Chain(blockMap, entries[i].blk))
  IN  /\ entries[i].blk = 0 => entries[i].len = 0
      /\ entries[i].blk # 0 => entries[i].len <= n /\ n < ChainLimit

SInv == FInv /\ \A i \in SlotIds : FitsAt(i)

\* What the calls ask of the files, whichever blocks H chains start at: no two files
\* have the same one.
Filed(H) ==
  /\ Walkable(H)
  /\ \A i, j \in SlotIds : entries[i].blk # 0 /\ entries[j].blk = entries[i].blk => i = j
  /\ \A i \in SlotIds : FitsAt(i)

LEMMA SInvFiled == SInv => Filed(Heads)
BY WalkableHeads DEF SInv, FInv, IInv, Structure, HeadsDistinct, Filed

\* Every file can be read, and what it holds is the content its length cuts out.
LEMMA HeldIs ==
  ASSUME Roomy, NEW H, Filed(H), NEW i \in SlotIds
  PROVE  Held(i) = IF entries[i].len = 0 THEN Empty
                   ELSE Reading(Content(blockMap, entries[i].blk, entries[i].len, disk))
<1> SUFFICES ASSUME entries[i].len # 0
             PROVE  Held(i) = Reading(Content(blockMap, entries[i].blk, entries[i].len, disk))
  BY DEF Held
<1> DEFINE b == entries[i].blk
           n == entries[i].len
<1>1. b # 0 /\ n <= Cardinality(Chain(blockMap, b)) /\ n \in Nat
      /\ Cardinality(Chain(blockMap, b)) < ChainLimit
  BY DEF Filed, Walkable, FitsAt, TypeOK, Entry
<1>2. /\ blockMap \in Maps /\ H \in SUBSET BlockIds /\ Tidy(blockMap, H)
      /\ b \in H /\ ~ Wild(blockMap, b)
      /\ GivesUp(blockMap, b) <=> Cardinality(Chain(blockMap, b)) >= ChainLimit
  BY <1>1, FileWalkOf DEF Filed
<1>3. Extent(i) = ExtentOf(blockMap, b, n)
  BY DEF Extent, ExtentOf
<1>4. Cardinality(Extent(i)) = n
  BY <1>1, <1>2, <1>3, ExtentLength
<1>5. ASSUME NEW p \in Extent(i)
      PROVE  p[1] + FSOffset \in Cells
  <2>1. p[1] \in BlockIds
    BY <1>2, <1>3, <1>5, ChainClosed DEF ExtentOf
  <2>2. QED
    BY <2>1, GeometryAssumption DEF Roomy, BlockIds, Cells
<1>6. Cardinality(Chain(blockMap, b)) \in Nat /\ ChainLimit \in Nat
  BY <1>2, ChainFinite, GeometryAssumption
<1>7. Readable(i)
  BY <1>1, <1>2, <1>4, <1>5, <1>6 DEF Readable
<1>8. FileGetData(i) = Content(blockMap, b, n, disk)
  BY <1>3 DEF FileGetData, Content
<1>9. QED
  BY <1>7, <1>8 DEF Held, Reading

\* A step keeps file j: its length and, if it has any, its content.
Kept(j) ==
  /\ FitsAt(j)'
  /\ entries'[j].len = entries[j].len
  /\ entries[j].len # 0 =>
       Content(blockMap', entries'[j].blk, entries'[j].len, disk')
         = Content(blockMap, entries[j].blk, entries[j].len, disk)

\* Whatever leaves a file's entry, its chain and its cells alone keeps it.
LEMMA KeptUntouched ==
  ASSUME NEW H, Filed(H), NEW j \in SlotIds, blockMap' \in Maps,
         entries'[j].blk = entries[j].blk, entries'[j].len = entries[j].len,
         entries[j].blk # 0 =>
           \A c \in Chain(blockMap, entries[j].blk) :
             Chain(blockMap', c) = Chain(blockMap, c)
             /\ disk'[c + FSOffset] = disk[c + FSOffset]
  PROVE  Kept(j)
<1> DEFINE b == entries[j].blk
<1>1. CASE b = 0
  BY <1>1 DEF Filed, FitsAt, Kept
<1>2. CASE b # 0
  <2>1. blockMap \in Maps /\ b \in BlockIds
    BY FileWalkOf DEF Filed
  <2>2. Chain(blockMap', b) = Chain(blockMap, b)
    BY <1>2, <2>1, ChainClosed
  <2>3. Content(blockMap', b, entries[j].len, disk') = Content(blockMap, b, entries[j].len, disk)
    BY <1>2, <2>1, ContentFrame
  <2>4. QED
    BY <1>2, <2>2, <2>3 DEF Filed, FitsAt, Kept
<1>3. QED
  BY <1>1, <1>2

\* A first block keeps all files.
LEMMA KeptByNewHead ==
  ASSUME Roomy, NEW H, Filed(H), NEW i \in SlotIds, entries[i].blk = 0,
         NEW b \in BlockIds, NewHead(i, b), KeepLengths, UNCHANGED disk
  PROVE  \A j \in SlotIds : Kept(j)
<1>1. /\ blockMap \in Maps /\ H \in SUBSET BlockIds /\ Tidy(blockMap, H)
      /\ blockMap[b] = Free /\ blockMap' = Taken(blockMap, b) /\ blockMap' \in Maps
  BY FileWalkOf, TakenTidy DEF NewHead, AllocatesBlock, FreeBlocks, Filed
<1>2. ASSUME NEW j \in SlotIds \ {i}
      PROVE  Kept(j)
  <2>1. entries'[j].blk = entries[j].blk /\ entries'[j].len = entries[j].len
    BY DEF NewHead, KeepLengths
  <2>2. entries[j].blk # 0 =>
          \A c \in Chain(blockMap, entries[j].blk) : Chain(blockMap', c) = Chain(blockMap, c)
    BY <1>1, FileWalkOf, TakenChains DEF Filed
  <2>3. QED
    BY <1>1, <2>1, <2>2, KeptUntouched
<1>3. Kept(i)
  <2>1. entries'[i].blk = b /\ entries'[i].len = 0 /\ entries[i].len = 0
    BY DEF NewHead, KeepLengths, Filed, FitsAt
  <2>2. Cardinality(Chain(blockMap', b)) = 1
    <3>1. Chain(blockMap', b) = {b}
      BY <1>1, TakenChains
    <3>2. QED
      BY <3>1, FS_Singleton
  <2>3. b # 0
    BY <1>1, MarksApart DEF Filed, Walkable
  <2>4. QED
    BY <2>1, <2>2, <2>3, GeometryAssumption DEF Kept, FitsAt, Roomy
<1>4. QED
  BY <1>2, <1>3

\* So does a growth, the growing file included.
LEMMA KeptByExtend ==
  ASSUME Roomy, NEW H, Filed(H), NEW i \in SlotIds, entries[i].blk # 0, NEW d \in Data, Extend(i, d)
  PROVE  \A j \in SlotIds : Kept(j)
<1> DEFINE h == entries[i].blk
<1>1. /\ blockMap \in Maps /\ H \in SUBSET BlockIds /\ Tidy(blockMap, H)
      /\ h \in H /\ UNCHANGED <<entries, disk>>
      /\ Cardinality(Chain(blockMap, h)) < Blocks[d]
  BY FileWalkOf DEF Filed, Extend
<1>2. PICK new \in BlockIds, last \in Chain(blockMap, h) :
        /\ blockMap[new] = Free /\ blockMap[last] = End
        /\ blockMap' = LinkedTo(blockMap, last, new)
  <2>1. PICK new \in BlockIds, last \in Chain(blockMap, h) :
          /\ AllocatesBlock(blockMap, new) /\ Stops(blockMap, last)
          /\ blockMap' = LinkedTo(blockMap, last, new)
    BY DEF Extend
  <2>2. blockMap[last] = End
    BY <1>1, <2>1, ChainEnds DEF Stops, Allocated
  <2>3. QED
    BY <2>1, <2>2 DEF AllocatesBlock, FreeBlocks
<1>3. last \in BlockIds /\ blockMap' \in Maps
  BY <1>1, <1>2, ChainEnds, LinkedTidy
<1>4. ASSUME NEW j \in SlotIds \ {i}
      PROVE  Kept(j)
  <2>1. entries[j].blk # 0 => entries[j].blk \in H \ {h}
    BY FileWalkOf DEF Filed
  <2>2. entries[j].blk # 0 =>
          \A c \in Chain(blockMap, entries[j].blk) : Chain(blockMap', c) = Chain(blockMap, c)
    BY <1>1, <1>2, <2>1, LinkedChains
  <2>3. QED
    BY <1>1, <1>3, <2>2, KeptUntouched
<1>5. Kept(i)
  <2>1. entries[i].len \in Nat /\ entries[i].len <= Cardinality(Chain(blockMap, h))
        /\ Cardinality(Chain(blockMap, h)) \in Nat
    BY <1>1, ChainFinite DEF Filed, Walkable, FitsAt, TypeOK, Entry
  <2>2. /\ Cardinality(Chain(blockMap', h)) = Cardinality(Chain(blockMap, h)) + 1
        /\ Content(blockMap', h, entries[i].len, disk) = Content(blockMap, h, entries[i].len, disk)
    BY <1>1, <1>2, <2>1, ContentLinked
  <2>3. Blocks[d] \in Nat /\ Blocks[d] < ChainLimit /\ ChainLimit \in Nat
    BY DataAssumption, GeometryAssumption DEF Roomy
  <2>4. QED
    BY <1>1, <2>1, <2>2, <2>3 DEF Kept, FitsAt
<1>6. QED
  BY <1>4, <1>5

\* A call that writes replaces the content of its file and keeps the others.
LEMMA WriteReplaces ==
  ASSUME Roomy, NEW H, Filed(H), NEW i \in SlotIds, entries[i].blk # 0, NEW d \in Data,
         Rewrite(i, d) \/ Shrink(i, d)
  PROVE  /\ \A j \in SlotIds \ {i} : Kept(j)
         /\ FitsAt(i)' /\ entries'[i].len # 0
         /\ Reading(Content(blockMap', entries'[i].blk, entries'[i].len, disk')) = d
<1> DEFINE h == entries[i].blk
<1>1. /\ blockMap \in Maps /\ H \in SUBSET BlockIds /\ Tidy(blockMap, H)
      /\ h \in H
  BY FileWalkOf DEF Filed
<1>2. Blocks[d] \in Nat /\ 0 < Blocks[d] /\ Blocks[d] < ChainLimit
  BY DataAssumption DEF Roomy
<1>3. /\ disk' = Written(blockMap', h, d)
      /\ SetLength(i, Blocks[d])
  BY DEF Rewrite, Shrink
<1>4. /\ \A j \in SlotIds : entries'[j].blk = entries[j].blk
      /\ \A j \in SlotIds \ {i} : entries'[j].len = entries[j].len
      /\ entries'[i].len = Blocks[d]
  BY <1>3 DEF SetLength, Filed, Walkable, TypeOK, Entry
<1>5. /\ blockMap' \in Maps /\ Tidy(blockMap', H)
      /\ Cardinality(Chain(blockMap', h)) = Blocks[d]
      /\ \A g \in H \ {h} : \A c \in Chain(blockMap, g) :
           Chain(blockMap', c) = Chain(blockMap, c)
  <2>1. CASE Rewrite(i, d)
    BY <1>1, <2>1 DEF Rewrite
  <2>2. CASE Shrink(i, d)
    <3>1. PICK cut \in Chain(blockMap, h) :
            /\ Place(blockMap, Chain(blockMap, h), cut) = Blocks[d]
            /\ blockMap' = CutAfter(blockMap, cut)
      BY <2>2 DEF Shrink
    <3>2. cut \in BlockIds /\ Allocated(blockMap, cut)
      BY <1>1, ChainEnds
    <3>3. QED
      BY <1>1, <3>1, <3>2, CutTidy, CutChains
  <2>3. QED
    BY <2>1, <2>2
<1>6. ASSUME NEW c \in BlockIds
      PROVE  /\ c \in Chain(blockMap', h) =>
                  disk'[c + FSOffset] = <<d, Place(blockMap', Chain(blockMap', h), c)>>
             /\ c \notin Chain(blockMap', h) => disk'[c + FSOffset] = disk[c + FSOffset]
  <2>1. c + FSOffset \in Cells /\ c + FSOffset >= FSOffset /\ (c + FSOffset) - FSOffset = c
    BY GeometryAssumption DEF Roomy, BlockIds, Cells
  <2>2. QED
    BY <1>3, <2>1 DEF Written
<1>7. ASSUME NEW j \in SlotIds \ {i}
      PROVE  Kept(j)
  <2> DEFINE g == entries[j].blk
  <2>1. g # 0 => g \in H \ {h}
    BY FileWalkOf DEF Filed
  <2>2. ASSUME g # 0, NEW c \in Chain(blockMap, g)
        PROVE  /\ Chain(blockMap', c) = Chain(blockMap, c)
               /\ disk'[c + FSOffset] = disk[c + FSOffset]
    <3>1. g \in H /\ g \in BlockIds /\ g # h /\ Chain(blockMap', g) = Chain(blockMap, g)
      BY <1>1, <1>5, <2>1, <2>2, ChainClosed
    <3>2. Chain(blockMap', g) \cap Chain(blockMap', h) = {}
      BY <1>1, <1>5, <3>1, ChainsApart
    <3>3. c \in BlockIds /\ c \notin Chain(blockMap', h)
      BY <1>1, <2>2, <3>1, <3>2, ChainClosed
    <3>4. QED
      BY <1>5, <1>6, <2>1, <2>2, <3>3
  <2>3. QED
    BY <1>4, <1>5, <2>2, KeptUntouched
<1>8. Reading(Content(blockMap', h, Blocks[d], disk')) = d
  <2>1. \A c \in Chain(blockMap', h) :
          disk'[c + FSOffset] = <<d, Place(blockMap', Chain(blockMap', h), c)>>
    BY <1>1, <1>5, <1>6, ChainClosed
  <2>2. QED
    BY <1>1, <1>5, <2>1, ContentWritten
<1>9. QED
  BY <1>2, <1>4, <1>5, <1>7, <1>8 DEF FitsAt
LEMMA SInvInit == Roomy /\ Init => SInv
<1> SUFFICES ASSUME Roomy, Init, NEW i \in SlotIds
             PROVE  FitsAt(i)
  BY FInvInit DEF SInv
<1>1. entries[i].blk = 0 /\ entries[i].len = 0
  BY DEF Init
<1>2. QED
  BY <1>1 DEF FitsAt

\* What a step does to the files: it keeps them all, or it replaces one.
AllKept == \A j \in SlotIds : Kept(j)

Replaced(i, d) ==
  /\ \A j \in SlotIds \ {i} : Kept(j)
  /\ FitsAt(i)' /\ entries'[i].len # 0
  /\ Reading(Content(blockMap', entries'[i].blk, entries'[i].len, disk')) = d

LEMMA KeptUnchanged ==
  ASSUME NEW H, Filed(H), entries' = entries, blockMap' = blockMap, disk' = disk
  PROVE  AllKept
BY DEF AllKept, Kept, Filed, FitsAt

LEMMA KeptByKeepHeads ==
  ASSUME NEW H, Filed(H), KeepHeads, KeepLengths, UNCHANGED <<blockMap, disk>>
  PROVE  AllKept
<1>1. blockMap \in Maps
  BY DEF Filed, Walkable, TypeOK, Maps
<1>2. ASSUME NEW j \in SlotIds
      PROVE  Kept(j)
  <2>1. entries'[j].blk = entries[j].blk /\ entries'[j].len = entries[j].len
    BY DEF KeepHeads, KeepLengths
  <2>2. QED
    BY <1>1, <2>1, KeptUntouched
<1>3. QED
  BY <1>2 DEF AllKept

LEMMA FilesAdd ==
  ASSUME Roomy, NEW H, Filed(H), Fresh, NEW n \in Names, FileAdd(n)
  PROVE  AllKept /\ (count' = count \/ (count < MaxEntries /\ count' = count + 1))
<1>1. TypeOK
  BY DEF Filed, Walkable
<1>2. CASE UNCHANGED <<blockMap, entries, count, disk>>
  <2>1. AllKept
    BY <1>2, KeptUnchanged
  <2>2. count' = count
    BY <1>2
  <2>3. QED
    BY <2>1, <2>2
<1>3. CASE /\ count \in SlotIds /\ count' = count + 1 /\ UNCHANGED disk /\ KeepLengths
           /\ \/ \E b \in BlockIds : NewHead(count, b)
              \/ KeepHeads /\ UNCHANGED blockMap
  <2>1. count < MaxEntries
    BY <1>3, GeometryAssumption DEF SlotIds
  <2>2. CASE KeepHeads /\ UNCHANGED blockMap
    BY <1>3, <2>1, <2>2, KeptByKeepHeads
  <2>3. ASSUME NEW b \in BlockIds, NewHead(count, b)
        PROVE  AllKept
    <3>1. entries[count].blk = 0
      BY <1>1, <1>3, GeometryAssumption DEF Fresh, TypeOK, SlotIds
    <3>2. QED
      BY <1>3, <2>3, <3>1, KeptByNewHead DEF AllKept
  <2>4. QED
    BY <1>3, <2>1, <2>2, <2>3
<1>4. QED
  BY <1>1, <1>2, <1>3, FileAddEffect

LEMMA FilesSetData ==
  ASSUME Roomy, NEW H, Filed(H), NEW i \in SlotIds, NEW d \in Data, FileSetData(i, d)
  PROVE  count' = count /\ (AllKept \/ (i < count /\ Replaced(i, d)))
<1>1. Walkable(H)
  BY DEF Filed
<1>2. CASE UNCHANGED <<blockMap, entries, count, disk>>
  BY <1>2, KeptUnchanged
<1>3. CASE /\ entries[i].blk = 0 /\ UNCHANGED <<count, disk>> /\ KeepLengths
           /\ \E b \in BlockIds : NewHead(i, b)
  BY <1>3, KeptByNewHead DEF AllKept
<1>4. ASSUME entries[i].blk # 0, i < count, Rewrite(i, d) \/ Shrink(i, d)
      PROVE  count' = count /\ i < count /\ Replaced(i, d)
  BY <1>4, WriteReplaces DEF Replaced, Rewrite, Shrink
<1>5. ASSUME entries[i].blk # 0, Extend(i, d)
      PROVE  count' = count /\ AllKept
  BY <1>5, KeptByExtend DEF AllKept, Extend
<1>6. Blocks[d] # 0
  BY DataAssumption DEF Roomy
<1>7. QED
  BY <1>1, <1>2, <1>3, <1>4, <1>5, <1>6, FileSetDataEffect

\* In either case the lengths still fit the chains.
LEMMA SInvStep == Roomy /\ SInv /\ FInv' /\ [Next]_vars => SInv'
<1> SUFFICES ASSUME Roomy, SInv, FInv', [Next]_vars, NEW j \in SlotIds
             PROVE  FitsAt(j)'
  BY DEF SInv
<1>1. Filed(Heads) /\ Fresh
  BY SInvFiled DEF SInv, FInv
<1>2. CASE UNCHANGED vars
  BY <1>1, <1>2, KeptUnchanged DEF vars, AllKept, Kept
<1>3. ASSUME NEW n \in Names, FileAdd(n)
      PROVE  FitsAt(j)'
  BY <1>1, <1>3, FilesAdd DEF AllKept, Kept
<1>4. ASSUME NEW i \in SlotIds, NEW d \in Data, FileSetData(i, d)
      PROVE  FitsAt(j)'
  <2>1. AllKept \/ Replaced(i, d)
    BY <1>1, <1>4, FilesSetData
  <2>2. QED
    BY <2>1 DEF AllKept, Replaced, Kept
<1>5. QED
  BY <1>2, <1>3, <1>4 DEF Next

LEMMA SInvHolds == Roomy => (Spec => []SInv)
<1> SUFFICES ASSUME Roomy
             PROVE  Spec => []SInv
  OBVIOUS
<1>1. Init => SInv
  BY SInvInit
<1>2. SInv /\ FInv' /\ [Next]_vars => SInv'
  BY SInvStep
<1>3. QED
  BY <1>1, <1>2, FInvHolds, PTL DEF Spec

\* What a kept file reads as does not change.
LEMMA HeldKept ==
  ASSUME Roomy, NEW H, Filed(H), NEW j \in SlotIds, Kept(j),
         \A i \in SlotIds : Held(i)' = IF entries'[i].len = 0 THEN Empty
           ELSE Reading(Content(blockMap', entries'[i].blk, entries'[i].len, disk'))
  PROVE  Held(j)' = Held(j)
BY HeldIs DEF Kept

\* Whatever the order of the calls, and whatever of a growth that stopped half way
\* remains in the map, the file system is the store of FileStore: each call enters
\* an empty file, replaces the payload of one file whole, or changes no content
\* (FileAdd, FileSetData, FileGetData).
THEOREM FilesStayWhole ==
  ASSUME Roomy
  PROVE  Spec => FilesIntact
<1> DEFINE Reads == \A i \in SlotIds :
             Held(i) = IF entries[i].len = 0 THEN Empty
                       ELSE Reading(Content(blockMap, entries[i].blk, entries[i].len, disk))
           content == [i \in SlotIds |-> Held(i)]
<1>1. Init => Store!StoreInit
  <2> SUFFICES ASSUME Init
               PROVE  Store!StoreInit
    OBVIOUS
  <2>1. ASSUME NEW i \in SlotIds
        PROVE  Held(i) = Empty
    BY DEF Init, Held
  <2>2. content = [i \in SlotIds |-> Empty]
    BY <2>1
  <2>3. QED
    BY <2>2 DEF Store!StoreInit, Init, SlotIds
<1>2. SInv => Reads
  BY SInvFiled, HeldIs
<1>3. SInv /\ SInv' /\ Reads' /\ [Next]_vars => [Store!StoreNext]_<<count, content>>
  <2> SUFFICES ASSUME SInv, SInv', Reads', [Next]_vars
               PROVE  Store!StoreNext \/ (count' = count /\ content' = content)
    OBVIOUS
  <2>1. Filed(Heads) /\ Fresh
    BY SInvFiled DEF SInv, FInv
  <2>2. ASSUME NEW j \in SlotIds, Kept(j)
        PROVE  Held(j)' = Held(j)
    BY <2>1, <2>2, HeldKept
  <2>3. ASSUME AllKept
        PROVE  content' = content
    BY <2>2, <2>3 DEF AllKept
  <2>4. CASE UNCHANGED vars
    <3>1. AllKept
      BY <2>1, <2>4, KeptUnchanged DEF vars
    <3>2. QED
      BY <2>3, <2>4, <3>1 DEF vars
  <2>5. ASSUME NEW n \in Names, FileAdd(n)
        PROVE  Store!StoreNext \/ (count' = count /\ content' = content)
    <3>1. AllKept /\ (count' = count \/ (count < MaxEntries /\ count' = count + 1))
      BY <2>1, <2>5, FilesAdd
    <3>2. QED
      BY <2>3, <3>1 DEF Store!StoreNext, Store!Create
  <2>6. ASSUME NEW i \in SlotIds, NEW d \in Data, FileSetData(i, d)
        PROVE  Store!StoreNext \/ (count' = count /\ content' = content)
    <3>1. count' = count /\ (AllKept \/ (i < count /\ Replaced(i, d)))
      BY <2>1, <2>6, FilesSetData
    <3>2. CASE AllKept
      BY <2>3, <3>1, <3>2
    <3>3. CASE i < count /\ Replaced(i, d)
      <4>1. Held(i)' = d
        BY <3>3 DEF Replaced
      <4>2. \A j \in SlotIds : j # i => Held(j)' = Held(j)
        BY <2>2, <3>3 DEF Replaced
      <4>3. content'[i] \in Data
        BY <4>1
      <4>4. \A j \in 0..(MaxEntries - 1) : j # i => content'[j] = content[j]
        BY <4>2 DEF SlotIds
      <4>5. Store!Replace(i)
        BY <3>1, <3>3, <4>3, <4>4 DEF Store!Replace
      <4>6. QED
        BY <4>5 DEF Store!StoreNext, SlotIds
    <3>4. QED
      BY <3>1, <3>2, <3>3
  <2>7. QED
    BY <2>4, <2>5, <2>6 DEF Next
<1>4. Spec => []SInv
  BY SInvHolds
<1>5. QED
  BY <1>1, <1>2, <1>3, <1>4, PTL DEF Spec, FilesIntact, Store!StoreSpec, Store!storeVars
=============================================================================
