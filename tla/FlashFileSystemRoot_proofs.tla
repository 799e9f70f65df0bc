--------------------- MODULE FlashFileSystemRoot_proofs ---------------------
(***************************************************************************)
(* Proofs about FlashFileSystemRoot.  The invariant of FlashFileSystem     *)
(* does not mention the number of visible files, so it survives a load.    *)
(* It is joined by the same facts about what was saved, and by one that    *)
(* relates the two: the map in memory is tidy for the heads of the saved   *)
(* directory as well as for its own.                                       *)
(***************************************************************************)
EXTENDS FlashFileSystemRoot, FlashFileSystem_proofs

SavedHeads ==
  {b \in BlockIds : b = RootBlock \/ \E i \in SlotIds : savedDir[i].blk = b /\ b # 0}

SavedDistinct ==
  \A i \in SlotIds :
    savedDir[i].blk # 0 =>
      /\ savedDir[i].blk # RootBlock
      /\ \A j \in SlotIds : savedDir[j].blk = savedDir[i].blk => i = j

\* What was saved is sound.
SavedStructure ==
  /\ savedMap \in Maps
  /\ savedDir \in [SlotIds -> Entry]
  /\ rootState \in RootStates
  /\ Tidy(savedMap, SavedHeads)
  /\ SavedDistinct
  /\ \A b \in SystemBlocks : savedMap[b] = Reserved

\* The map in memory still honours the heads of what was saved.
Claims ==
  /\ Tidy(blockMap, Heads \cup SavedHeads)
  /\ \A i, j \in SlotIds :
       savedDir[i].blk # 0 /\ savedDir[i].blk = entries[j].blk => i = j

RInv == IInv /\ SavedStructure /\ Claims

-----------------------------------------------------------------------------
(* What a call of FlashFileSystem does to the map and to the heads *)

Edit ==
  \/ KeepHeads /\ UNCHANGED blockMap
  \/ /\ KeepHeads
     /\ \E new, last \in BlockIds :
          /\ blockMap[new] = Free /\ blockMap[last] = End
          /\ blockMap' = LinkedTo(blockMap, last, new)
  \/ /\ KeepHeads
     /\ \E cut \in BlockIds :
          Allocated(blockMap, cut) /\ blockMap' = CutAfter(blockMap, cut)
  \/ \E i \in SlotIds, b \in BlockIds : NewHead(i, b)

LEMMA FileAddEdit ==
  ASSUME IInv, NEW n \in Names, FileAdd(n)
  PROVE  Edit
<1>1. CASE UNCHANGED <<blockMap, entries>>
  BY <1>1 DEF Edit, KeepHeads
<1>2. ASSUME count < MaxEntries,
             NEW b \in BlockIds, AllocatesBlock(blockMap, b),
             blockMap' = Taken(blockMap, b),
             entries' = [entries EXCEPT ![count].name = Stored[n], ![count].blk = b]
      PROVE  Edit
  <2>1. count \in SlotIds
    BY <1>2, GeometryAssumption DEF IInv, TypeOK, SlotIds
  <2>2. NewHead(count, b)
    BY <1>2, <2>1 DEF NewHead, IInv, TypeOK, Entry
  <2>3. QED
    BY <2>1, <2>2 DEF Edit
<1>3. CASE /\ count < MaxEntries /\ UNCHANGED blockMap
           /\ entries' = [entries EXCEPT ![count].name = Stored[n]]
  <2>1. count \in SlotIds
    BY <1>3, GeometryAssumption DEF IInv, TypeOK, SlotIds
  <2>2. KeepHeads
    BY <1>3, <2>1 DEF KeepHeads, IInv, TypeOK, Entry
  <2>3. QED
    BY <1>3, <2>2 DEF Edit
<1>4. QED
  BY <1>1, <1>2, <1>3 DEF FileAdd, Fails

LEMMA FileSetDataEdit ==
  ASSUME IInv, NEW i \in SlotIds, NEW d \in Data, FileSetData(i, d)
  PROVE  Edit
<1> DEFINE h == entries[i].blk
<1>1. ASSUME NEW b \in BlockIds, AllocatesBlock(blockMap, b),
             blockMap' = Taken(blockMap, b), entries' = [entries EXCEPT ![i].blk = b]
      PROVE  Edit
  BY <1>1 DEF Edit, NewHead, IInv, TypeOK, Entry
<1>2. ASSUME NEW n \in Nat, SetLength(i, n)
      PROVE  KeepHeads
  BY <1>2, SetLengthType DEF IInv
<1>3. CASE Rewrite(i, d) \/ ClearLength(i, d)
  BY <1>2, <1>3, DataAssumption DEF Rewrite, ClearLength, Edit
<1>4. CASE ~ Wild(blockMap, h) /\ Extend(i, d)
  <2>1. PICK new \in BlockIds, last \in Chain(blockMap, h) :
          /\ AllocatesBlock(blockMap, new)
          /\ Stops(blockMap, last)
          /\ blockMap' = LinkedTo(blockMap, last, new)
    BY <1>4 DEF Extend
  <2>2. blockMap[new] = Free /\ last \in BlockIds /\ blockMap[last] = End
    BY <1>4, <2>1, WalkableChain DEF AllocatesBlock, FreeBlocks, Stops, Allocated
  <2>3. KeepHeads
    BY <1>4 DEF Extend, KeepHeads
  <2>4. QED
    BY <2>1, <2>2, <2>3 DEF Edit
<1>5. CASE ~ Wild(blockMap, h) /\ Shrink(i, d)
  <2>1. PICK cut \in Chain(blockMap, h) : blockMap' = CutAfter(blockMap, cut)
    BY <1>5 DEF Shrink
  <2>2. cut \in BlockIds /\ Allocated(blockMap, cut)
    BY <1>5, WalkableChain
  <2>3. KeepHeads
    BY <1>2, <1>5, DataAssumption DEF Shrink
  <2>4. QED
    BY <2>1, <2>2, <2>3 DEF Edit
<1>6. CASE Exhaust(i, d) \/ Derail(i, d)
  BY <1>6 DEF Exhaust, Derail, Fails, Edit, KeepHeads
<1>7. QED
  BY <1>1, <1>3, <1>4, <1>5, <1>6 DEF FileSetData, ChainSetChainData

-----------------------------------------------------------------------------
(* The types are kept *)

LEMMA CallTypes ==
  ASSUME RootTypeOK, TypeOK', RootWritten, UNCHANGED <<savedMap, savedDir>>
  PROVE  RootTypeOK'
BY DEF RootTypeOK, RootWritten, RootStates

LEMMA SaveTypes ==
  ASSUME RootTypeOK, Save
  PROVE  RootTypeOK'
<1>1. ASSUME UNCHANGED <<blockMap, entries, count, disk, savedMap, savedDir, rootState>>,
             Returns(0) \/ Fails("wild")
      PROVE  RootTypeOK'
  <2>1. reply' \in [code : 0..2, denied : BOOLEAN] /\ fault' \in Faults
    <3>1. CASE Returns(0)
      BY <3>1 DEF Returns, RootTypeOK, TypeOK
    <3>2. CASE Fails("wild")
      BY <3>2 DEF Fails, Faults, RootTypeOK, TypeOK
    <3>3. QED
      BY <1>1, <3>1, <3>2
  <2>2. QED
    BY <1>1, <2>1 DEF RootTypeOK, TypeOK
<1>2. CASE /\ savedMap' = blockMap /\ savedDir' = entries /\ rootState' = "saved"
           /\ disk' = [disk EXCEPT ![RootBlock] = Erased]
           /\ Returns(0)
           /\ UNCHANGED <<blockMap, entries, count>>
  <2>1. disk' \in [Cells -> Pieces \cup {Erased}]
    BY <1>2 DEF RootTypeOK, TypeOK
  <2>2. reply' \in [code : 0..2, denied : BOOLEAN] /\ fault' = fault
    BY <1>2 DEF Returns
  <2>3. QED
    BY <1>2, <2>1, <2>2 DEF RootTypeOK, TypeOK, RootStates
<1>3. QED
  BY <1>1, <1>2 DEF Save, Fails

\* Load shows no more files than there are slots.
LEMMA VisibleBounds == \A dir : Visible(dir) \in 0..MaxEntries
<1> TAKE dir
<1> DEFINE S == {i \in SlotIds : \A j \in 0..i : Used(dir[j])}
<1>1. IsFiniteSet(SlotIds) /\ Cardinality(SlotIds) = MaxEntries
  <2>1. MaxEntries \in Nat
    BY GeometryAssumption
  <2>2. QED
    BY <2>1, FS_Interval, 0 \in Int, MaxEntries - 1 \in Int DEF SlotIds
<1>2. Cardinality(S) \in Nat /\ Cardinality(S) <= MaxEntries
  <2>1. S \subseteq SlotIds
    OBVIOUS
  <2>2. IsFiniteSet(S) /\ Cardinality(S) <= Cardinality(SlotIds)
    BY <1>1, <2>1, FS_Subset
  <2>3. QED
    BY <1>1, <2>2, FS_CardinalityType
<1>3. QED
  BY <1>2, GeometryAssumption DEF Visible

LEMMA LoadTypes ==
  ASSUME RootTypeOK, Load
  PROVE  RootTypeOK'
BY VisibleBounds DEF RootTypeOK, TypeOK, Load, Returns

-----------------------------------------------------------------------------
(* The invariant is kept *)

LEMMA EditClaims ==
  ASSUME RInv, Edit, UNCHANGED savedDir
  PROVE  Claims'
<1> DEFINE H == Heads \cup SavedHeads
<1>1. /\ blockMap \in Maps /\ H \in SUBSET BlockIds /\ Tidy(blockMap, H)
      /\ SavedHeads' = SavedHeads
  BY DEF RInv, IInv, TypeOK, Maps, Heads, SavedHeads, Claims
<1>2. CASE KeepHeads /\ Tidy(blockMap', H)
  <2>1. Heads' = Heads
    BY <1>2 DEF Heads, IsHead, KeepHeads
  <2>2. QED
    BY <1>1, <1>2, <2>1 DEF RInv, Claims, KeepHeads
<1>3. ASSUME NEW new \in BlockIds, NEW last \in BlockIds,
             blockMap[new] = Free, blockMap[last] = End,
             blockMap' = LinkedTo(blockMap, last, new)
      PROVE  Tidy(blockMap', H)
  BY <1>1, <1>3, LinkedTidy
<1>4. ASSUME NEW cut \in BlockIds, Allocated(blockMap, cut),
             blockMap' = CutAfter(blockMap, cut)
      PROVE  Tidy(blockMap', H)
  BY <1>1, <1>4, CutTidy
<1>5. ASSUME NEW i \in SlotIds, NEW b \in BlockIds, NewHead(i, b)
      PROVE  Claims'
  <2>1. blockMap[b] = Free
    BY <1>5 DEF NewHead, AllocatesBlock, FreeBlocks
  <2>2. Tidy(blockMap', H \cup {b})
    BY <1>1, <1>5, <2>1, TakenTidy DEF NewHead
  <2>3. Heads' \cup SavedHeads' \in SUBSET (H \cup {b})
    BY <1>1, <1>5 DEF NewHead, Heads, IsHead
  <2>4. Tidy(blockMap', Heads' \cup SavedHeads')
    BY <2>2, <2>3, FewerHeads
  <2>5. b \notin SavedHeads
    BY <1>1, <2>1 DEF Tidy, Allocated
  <2>6. \A k \in SlotIds : savedDir[k].blk # 0 => savedDir[k].blk # b
    BY <2>5 DEF SavedHeads
  <2>7. \A k, j \in SlotIds :
          savedDir'[k].blk # 0 /\ savedDir'[k].blk = entries'[j].blk => k = j
    BY <1>5, <2>6 DEF NewHead, RInv, Claims
  <2>8. QED
    BY <2>4, <2>7 DEF Claims
<1>6. QED
  BY <1>1, <1>2, <1>3, <1>4, <1>5 DEF Edit

LEMMA CallInvariant ==
  ASSUME RInv, IInv', Edit, RootWritten, UNCHANGED <<savedMap, savedDir>>
  PROVE  RInv'
<1>1. SavedStructure'
  BY DEF RInv, SavedStructure, SavedHeads, SavedDistinct, RootWritten, RootStates
<1>2. QED
  BY <1>1, EditClaims DEF RInv

LEMMA SaveInvariant ==
  ASSUME RInv, Save
  PROVE  RInv'
<1>1. TypeOK'
  BY SaveTypes DEF RInv, IInv, SavedStructure, Maps, RootTypeOK
<1>2. CASE UNCHANGED <<blockMap, entries, savedMap, savedDir, rootState>>
  <2>1. Structure' /\ SavedStructure' /\ Claims'
    BY <1>2 DEF RInv, IInv, Structure, Heads, IsHead, HeadsDistinct, SystemBlocksKept,
                SavedStructure, SavedHeads, SavedDistinct, Claims
  <2>2. QED
    BY <1>1, <2>1 DEF RInv, IInv
<1>3. CASE /\ savedMap' = blockMap /\ savedDir' = entries /\ rootState' = "saved"
           /\ UNCHANGED <<blockMap, entries>>
  <2>1. Structure' /\ Heads' = Heads /\ SavedHeads' = Heads
    <3>1. Heads' = Heads
      BY <1>3 DEF Heads, IsHead
    <3>2. SavedHeads' = Heads
      BY <1>3 DEF SavedHeads, Heads, IsHead
    <3>3. QED
      BY <1>3, <3>1, <3>2 DEF RInv, IInv, Structure, HeadsDistinct, SystemBlocksKept
  <2>2. SavedStructure'
    BY <1>3, <2>1 DEF RInv, IInv, Structure, TypeOK, Maps, HeadsDistinct,
                      SystemBlocksKept, SavedStructure, SavedDistinct, RootStates
  <2>3. Heads' \cup SavedHeads' = Heads
    BY <2>1
  <2>4. \A i, j \in SlotIds : entries[i].blk # 0 /\ entries[i].blk = entries[j].blk => i = j
    BY DEF RInv, IInv, Structure, HeadsDistinct
  <2>5. Claims'
    BY <1>3, <2>3, <2>4 DEF RInv, IInv, Structure, Claims
  <2>6. QED
    BY <1>1, <2>1, <2>2, <2>5 DEF RInv, IInv
<1>4. QED
  BY <1>2, <1>3 DEF Save, Fails

LEMMA LoadInvariant ==
  ASSUME RInv, Load
  PROVE  RInv'
<1>1. TypeOK'
  BY LoadTypes DEF RInv, IInv, SavedStructure, Maps, RootTypeOK
<1>2. Heads' = SavedHeads /\ SavedHeads' = SavedHeads
  BY DEF Load, Heads, IsHead, SavedHeads
<1>3. Structure'
  BY <1>2 DEF RInv, Load, SavedStructure, SavedDistinct, Structure, HeadsDistinct,
              SystemBlocksKept
<1>4. SavedStructure'
  BY <1>2 DEF RInv, Load, SavedStructure, SavedDistinct
<1>5. Heads' \cup SavedHeads' = SavedHeads
  BY <1>2
<1>6. Claims'
  BY <1>5 DEF RInv, Load, SavedStructure, SavedDistinct, Claims
<1>7. QED
  BY <1>1, <1>3, <1>4, <1>6 DEF RInv, IInv

LEMMA RootInitInvariant == RootInit => RInv
<1> SUFFICES ASSUME RootInit PROVE RInv
  OBVIOUS
<1>1. IInv
  BY InitInvariant DEF RootInit
<1>2. SavedHeads = Heads
  BY DEF RootInit, SavedHeads, Heads, IsHead
<1>3. SavedStructure
  BY <1>1, <1>2 DEF RootInit, IInv, TypeOK, Maps, Structure, HeadsDistinct,
                    SystemBlocksKept, SavedStructure, SavedDistinct, RootStates
<1>4. Heads \cup SavedHeads = Heads
  BY <1>2
<1>5. Claims
  BY <1>1, <1>4 DEF RootInit, IInv, Structure, HeadsDistinct, Claims
<1>6. QED
  BY <1>1, <1>3, <1>5 DEF RInv

LEMMA RootInvariantInductive == RInv /\ [RootNext]_rootVars => RInv'
<1> SUFFICES ASSUME RInv, [RootNext]_rootVars
             PROVE  RInv'
  OBVIOUS
<1>1. ASSUME NEW n \in Names, AddFile(n)
      PROVE  RInv'
  <2>1. IInv' /\ Edit
    BY <1>1, FileAddInvariant, FileAddEdit DEF AddFile, RInv
  <2>2. QED
    BY <1>1, <2>1, CallInvariant DEF AddFile
<1>2. ASSUME NEW i \in SlotIds, NEW d \in Data, SetFile(i, d)
      PROVE  RInv'
  <2>1. IInv' /\ Edit
    BY <1>2, FileSetDataInvariant, FileSetDataEdit DEF SetFile, RInv
  <2>2. QED
    BY <1>2, <2>1, CallInvariant DEF SetFile
<1>3. CASE Save
  BY <1>3, SaveInvariant
<1>4. CASE Load
  BY <1>4, LoadInvariant
<1>5. CASE UNCHANGED rootVars
  <2>1. IInv'
    BY <1>5, InvariantInductive DEF rootVars, RInv
  <2>2. SavedStructure' /\ Claims'
    BY <1>5 DEF RInv, rootVars, vars, Heads, IsHead, SavedStructure, SavedHeads,
                SavedDistinct, Claims
  <2>3. QED
    BY <2>1, <2>2 DEF RInv
<1>6. QED
  BY <1>1, <1>2, <1>3, <1>4, <1>5 DEF RootNext

LEMMA RootInvariantHolds == RootSpec => []RInv
BY RootInitInvariant, RootInvariantInductive, PTL DEF RootSpec

-----------------------------------------------------------------------------
(* Theorems *)

\* What is in memory and what was saved keep their types.
THEOREM RootTypeCorrect == RootSpec => []RootTypeOK
<1>1. RInv => RootTypeOK
  BY DEF RInv, IInv, SavedStructure, Maps, RootTypeOK
<1>2. QED
  BY <1>1, RootInvariantHolds, PTL

\* Files stay unlinked with each other through saves and loads, the ones a load
\* hides included.
THEOREM ReloadsNeverCrossLink == RootSpec => []NoCrossLink
<1>1. RInv => NoCrossLink
  <2> SUFFICES ASSUME IInv PROVE NoCrossLink
    BY DEF RInv
  <2>1. LinksDisjoint /\ HeadsDistinct
    BY DEF IInv, Structure, Tidy, LinksDisjoint
  <2>2. ASSUME NEW p \in BlockIds, IsHead(blockMap[p])
        PROVE  FALSE
    <3>1. blockMap[p] \in BlockIds
      BY <2>2, GeometryAssumption DEF IsHead, IInv, TypeOK, Entry
    <3>2. QED
      BY <2>2, <3>1 DEF IInv, Structure, Tidy, Heads
  <2>3. QED
    BY <2>1, <2>2 DEF NoCrossLink, HeadsUnlinked
<1>2. QED
  BY <1>1, RootInvariantHolds, PTL

\* A load never makes a chain run into a free block.
THEOREM ReloadsKeepLinksLive == RootSpec => []LinksLive
<1>1. RInv => LinksLive
  BY DEF RInv, IInv, Structure, Tidy, LinksLive, Heads
<1>2. QED
  BY <1>1, RootInvariantHolds, PTL

\* The first block of a saved file never goes to another file.
THEOREM SavedFilesKeepTheirHeads == RootSpec => []SavedHeadsKept
<1>1. RInv => SavedHeadsKept
  <2> SUFFICES ASSUME RInv, NEW i \in SlotIds, NEW j \in SlotIds,
                      savedDir[i].blk # 0, entries[j].blk # 0,
                      savedDir[i].blk \in Chain(blockMap, entries[j].blk)
               PROVE  i = j /\ savedDir[i].blk = entries[i].blk
    BY DEF SavedHeadsKept
  <2>1. /\ blockMap \in Maps
        /\ savedDir[i].blk \in SavedHeads /\ entries[j].blk \in BlockIds
    BY DEF RInv, IInv, TypeOK, Maps, SavedStructure, SavedHeads, Entry
  <2>2. \A p \in BlockIds : blockMap[p] # savedDir[i].blk
    BY <2>1 DEF RInv, Claims, Tidy
  <2>3. savedDir[i].blk = entries[j].blk
    BY <2>1, <2>2, ChainPredecessor, ChainClosed
  <2>4. QED
    BY <2>3 DEF RInv, Claims
<1>2. QED
  BY <1>1, RootInvariantHolds, PTL

\* Only a chain that starts at the root contains it.
LEMMA RootOutOfChains ==
  ASSUME NEW m \in Maps, NEW H \in SUBSET BlockIds, Tidy(m, H), RootBlock \in H,
         NEW b \in BlockIds, b # RootBlock
  PROVE  RootBlock \notin Chain(m, b)
<1>1. \A p \in BlockIds : m[p] # RootBlock
  BY DEF Tidy
<1>2. QED
  BY <1>1, ChainPredecessor, ChainClosed

\* Where files are written at an offset, it takes them past the root.
OffsetClear == FSOffset = 0 \/ FSOffset > RootBlock

LEMMA WrittenAwayFromRoot ==
  ASSUME OffsetClear, TypeOK, NEW m \in Maps, NEW b \in BlockIds, NEW d \in Data,
         RootBlock \notin Chain(m, b)
  PROVE  Written(m, b, d)[RootBlock] = disk[RootBlock]
<1>1. ~ (RootBlock >= FSOffset /\ RootBlock - FSOffset \in Chain(m, b))
  BY GeometryAssumption DEF OffsetClear, BlockIds
<1>2. QED
  BY <1>1, RootAssumption DEF Written

LEMMA RootUntouched ==
  ASSUME OffsetClear, IInv, IInv', NEW i \in SlotIds, NEW d \in Data, FileSetData(i, d)
  PROVE  disk'[RootBlock] = disk[RootBlock]
<1> DEFINE b == entries[i].blk
<1>1. ASSUME ~ Wild(blockMap, b)
      PROVE  /\ b \in BlockIds /\ b # RootBlock /\ blockMap \in Maps
             /\ RootBlock \notin Chain(blockMap, b)
  <2>1. b \in BlockIds /\ Allocated(blockMap, b) /\ blockMap \in Maps
    BY <1>1, WalkableChain, ChainClosed
  <2>2. b # 0
    BY <2>1, GeometryAssumption, MarksApart
       DEF IInv, Structure, SystemBlocksKept, Allocated
  <2>3. b # RootBlock
    BY <2>2 DEF IInv, Structure, HeadsDistinct
  <2>4. Heads \in SUBSET BlockIds /\ RootBlock \in Heads /\ Tidy(blockMap, Heads)
    BY GeometryAssumption DEF Heads, IsHead, IInv, Structure
  <2>5. QED
    BY <2>1, <2>3, <2>4, RootOutOfChains
<1>2. CASE ~ Wild(blockMap, b) /\ Rewrite(i, d)
  BY <1>1, <1>2, WrittenAwayFromRoot DEF Rewrite, IInv
<1>3. CASE ~ Wild(blockMap, b) /\ Shrink(i, d)
  <2>1. blockMap' \in Maps /\ Tidy(blockMap', Heads') /\ Heads' \in SUBSET BlockIds
        /\ RootBlock \in Heads'
    BY GeometryAssumption DEF IInv, TypeOK, Maps, Structure, Heads, IsHead
  <2>2. RootBlock \notin Chain(blockMap', b)
    BY <1>1, <1>3, <2>1, RootOutOfChains
  <2>3. QED
    BY <1>1, <1>3, <2>1, <2>2, WrittenAwayFromRoot DEF Shrink, IInv
<1>4. CASE UNCHANGED disk
  BY <1>4
<1>5. QED
  BY <1>2, <1>3, <1>4
     DEF FileSetData, ChainSetChainData, Extend, Exhaust, ClearLength, Derail, Fails

\* No file write lands on the root block, if FSOffset is 0 or past the root.
THEOREM RootStays ==
  ASSUME OffsetClear
  PROVE  RootSpec => []RootSurvives
<1>1. RootInit => RootSurvives
  BY DEF RootInit, RootSurvives
<1>2. RInv /\ RInv' /\ RootSurvives /\ [RootNext]_rootVars => RootSurvives'
  <2> SUFFICES ASSUME RInv, RInv', RootSurvives, [RootNext]_rootVars
               PROVE  RootSurvives'
    OBVIOUS
  <2>1. ASSUME NEW n \in Names, AddFile(n)
        PROVE  RootSurvives'
    BY <2>1 DEF AddFile, FileAdd, Fails, RootWritten, RootSurvives
  <2>2. ASSUME NEW i \in SlotIds, NEW d \in Data, SetFile(i, d)
        PROVE  RootSurvives'
    BY <2>2, RootUntouched DEF SetFile, RootWritten, RootSurvives, RInv
  <2>3. CASE Save \/ Load \/ UNCHANGED rootVars
    BY <2>3 DEF Save, Load, rootVars, RootSurvives
  <2>4. QED
    BY <2>1, <2>2, <2>3 DEF RootNext
<1>3. QED
  BY <1>1, <1>2, RootInvariantHolds, PTL DEF RootSpec

-----------------------------------------------------------------------------
(* Lost blocks *)

LEMMA OrphansAre ==
  TypeOK => Orphans = Lost(blockMap, Heads)
<1> SUFFICES ASSUME TypeOK
             PROVE  Orphans = Lost(blockMap, Heads)
  OBVIOUS
<1>1. Heads = {RootBlock} \cup ({entries[i].blk : i \in SlotIds} \ {0})
  BY HeadsAre
<1>2. QED
  BY <1>1 DEF Orphans, Lost

\* A head that is forgotten loses its chain, and nothing else.
LEMMA ForgottenLost ==
  ASSUME NEW m \in Maps, NEW H \in SUBSET BlockIds, Tidy(m, H), NEW g \in H
  PROVE  Lost(m, H \ {g}) = Lost(m, H) \cup Chain(m, g)
<1>1. ASSUME NEW c \in Chain(m, g)
      PROVE  c \in BlockIds /\ Allocated(m, c) /\ \A h \in H \ {g} : c \notin Chain(m, h)
  <2>1. c \in BlockIds /\ Allocated(m, c)
    BY ChainEnds
  <2>2. ASSUME NEW h \in H \ {g}
        PROVE  c \notin Chain(m, h)
    BY <1>1, ChainsApart
  <2>3. QED
    BY <2>1, <2>2
<1>2. QED
  BY <1>1 DEF Lost

\* A slot that is given a new block while it has one forgets that one.
LEMMA ReuseLost ==
  ASSUME IInv, NEW i \in SlotIds, entries[i].blk # 0, NEW b \in BlockIds, NewHead(i, b)
  PROVE  Lost(blockMap, Heads)' = Lost(blockMap, Heads) \cup Chain(blockMap, entries[i].blk)
<1> DEFINE g == entries[i].blk
           K == Heads \ {g}
<1>1. /\ blockMap \in Maps /\ Heads \in SUBSET BlockIds /\ Tidy(blockMap, Heads)
      /\ g \in Heads
  BY FileWalk
<1>2. blockMap[b] = Free /\ blockMap' = Taken(blockMap, b)
  BY DEF NewHead, AllocatesBlock, FreeBlocks
<1>3. b # 0 /\ g # RootBlock /\ \A j \in SlotIds \ {i} : entries[j].blk # g
  BY <1>2, FreeBlockFresh DEF IInv, Structure, HeadsDistinct
<1>4. Heads' = K \cup {b}
  BY <1>3 DEF Heads, IsHead, NewHead
<1>5. K \in SUBSET BlockIds /\ Tidy(blockMap, K)
  BY <1>1, FewerHeads
<1>6. Lost(Taken(blockMap, b), K \cup {b}) = Lost(blockMap, K)
  BY <1>1, <1>2, <1>5, TakenLost
<1>7. Lost(blockMap, K) = Lost(blockMap, Heads) \cup Chain(blockMap, g)
  BY <1>1, ForgottenLost
<1>8. QED
  BY <1>2, <1>4, <1>6, <1>7

\* The conclusion of LostOnlyByReuse for one call.
Losing ==
  \/ Lost(blockMap, Heads)' \subseteq Lost(blockMap, Heads)
  \/ /\ count' = count + 1 /\ entries[count].blk # 0
     /\ Lost(blockMap, Heads)' = Lost(blockMap, Heads) \cup Chain(blockMap, entries[count].blk)

LEMMA NothingLost ==
  ASSUME KeepHeads, UNCHANGED blockMap
  PROVE  Lost(blockMap, Heads)' = Lost(blockMap, Heads)
BY KeepHeadsHeads

LEMMA FileAddLost ==
  ASSUME IInv, NEW n \in Names, FileAdd(n)
  PROVE  Losing
<1>1. CASE UNCHANGED <<blockMap, entries, count, disk>>
  BY <1>1, NothingLost DEF Losing, KeepHeads
<1>2. ASSUME KeepHeads, UNCHANGED blockMap
      PROVE  Losing
  BY <1>2, NothingLost DEF Losing
<1>3. ASSUME count \in SlotIds, count' = count + 1, NEW b \in BlockIds, NewHead(count, b)
      PROVE  Losing
  BY <1>3, NewHeadLost, ReuseLost DEF Losing
<1>4. QED
  BY <1>1, <1>2, <1>3, FileAddEffect DEF IInv

LEMMA FileSetDataLost ==
  ASSUME IInv, NEW i \in SlotIds, NEW d \in Data, FileSetData(i, d)
  PROVE  Losing
<1>1. CASE UNCHANGED <<blockMap, entries, count, disk>>
  BY <1>1, NothingLost DEF Losing, KeepHeads
<1>2. ASSUME entries[i].blk = 0, NEW b \in BlockIds, NewHead(i, b)
      PROVE  Losing
  BY <1>2, NewHeadLost DEF Losing
<1>3. ASSUME entries[i].blk # 0, Rewrite(i, d) \/ Extend(i, d) \/ Shrink(i, d)
      PROVE  Losing
  BY <1>3, ChainWorkLost DEF Losing
<1>4. ASSUME SetLength(i, 0), UNCHANGED blockMap
      PROVE  Losing
  BY <1>4, SetLengthType, NothingLost DEF Losing, IInv
<1>5. QED
  BY <1>1, <1>2, <1>3, <1>4, FileSetDataEffect, WalkableHeads

\* Over any sequence of calls, saves and loads, a block is lost in one way only:
\* FileAdd gives the slot of a hidden file to a new one, and what is lost then is
\* the chain of the hidden file, whole, and nothing else.
THEOREM LossOnlyByReuse == RootSpec => LostOnlyByReuse
<1> DEFINE Explained ==
      ~ (Orphans' \subseteq Orphans) =>
        \/ count' = count + 1 /\ entries[count].blk # 0
           /\ Orphans' = Orphans \cup Chain(blockMap, entries[count].blk)
        \/ Load
<1>1. TypeOK => Orphans = Lost(blockMap, Heads)
  BY OrphansAre
<1>2. (TypeOK => Orphans = Lost(blockMap, Heads))'
  BY <1>1, PTL
<1>3. RInv /\ RInv' /\ [RootNext]_rootVars => [Explained]_rootVars
  <2> SUFFICES ASSUME RInv, RInv', RootNext
               PROVE  Explained
    OBVIOUS
  <2>1. Orphans = Lost(blockMap, Heads) /\ Orphans' = Lost(blockMap, Heads)'
    BY <1>1, <1>2 DEF RInv, IInv
  <2>2. ASSUME Losing
        PROVE  Explained
    BY <2>1, <2>2 DEF Losing
  <2>3. ASSUME NEW n \in Names, AddFile(n)
        PROVE  Explained
    BY <2>2, <2>3, FileAddLost DEF AddFile, RInv
  <2>4. ASSUME NEW i \in SlotIds, NEW d \in Data, SetFile(i, d)
        PROVE  Explained
    BY <2>2, <2>4, FileSetDataLost DEF SetFile, RInv
  <2>5. CASE Save
    <3>1. KeepHeads /\ UNCHANGED blockMap
      BY <2>5 DEF Save, Fails, KeepHeads
    <3>2. QED
      BY <2>2, <3>1, NothingLost DEF Losing
  <2>6. QED
    BY <2>3, <2>4, <2>5 DEF RootNext
<1>4. RootSpec => [][Explained]_rootVars
  BY <1>3, RootInvariantHolds, PTL DEF RootSpec
<1>5. QED
  BY <1>4 DEF LostOnlyByReuse
=============================================================================
