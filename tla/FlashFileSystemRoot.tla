------------------------ MODULE FlashFileSystemRoot ------------------------
(***************************************************************************)
(* The file system and its root block.  Save writes the block map and the  *)
(* directory to the root block; Load takes them back and shows the files   *)
(* up to the first slot without a block or without data.  Slots behind it  *)
(* are hidden: they keep their blocks until FileAdd fills them again.      *)
(*                                                                         *)
(* A Load need not follow a Save.  SaveImageFile ignores what SaveContinue *)
(* returns, SaveFileSystems returns before it saves any root when a mobile *)
(* file needs a block, and the image buffer already holds what FileSetData *)
(* wrote.                                                                  *)
(***************************************************************************)
EXTENDS FlashFileSystem

VARIABLES
  savedMap, savedDir,  \* what the last Save wrote; before, the empty system
  rootState            \* what the cell of the root block holds

rootVars == <<vars, savedMap, savedDir, rootState>>

RootStates == {"blank", "saved", "overwritten"}

\* LoadFileSystems finds a root by scanning the image.
ASSUME RootAssumption == RootBlock \in Cells

-----------------------------------------------------------------------------

\* ChainGetPrevious: the blocks whose word leads to b.
Previous(m, b) == {p \in BlockIds : m[p] = b}

\* ChainGetFromStart finds the root block and nothing else, so that Save writes
\* the buffers it has and no more.
RootAlone(m) == Previous(m, RootBlock) = {} /\ m[RootBlock] = End

\* Save.  The root goes to its block without FSOffset, over any file data there;
\* a chain ChainGetChain gives up on is not saved and 0 is returned all the same.
Save ==
  /\ Running
  /\ \/ /\ RootAlone(blockMap) /\ ~ GivesUp(blockMap, RootBlock)
        /\ savedMap' = blockMap
        /\ savedDir' = entries
        /\ rootState' = "saved"
        /\ disk' = [disk EXCEPT ![RootBlock] = Erased]
        /\ Returns(0)
        /\ UNCHANGED <<blockMap, entries, count>>
     \/ /\ RootAlone(blockMap) /\ GivesUp(blockMap, RootBlock)
        /\ Returns(0)
        /\ UNCHANGED <<blockMap, entries, count, disk, savedMap, savedDir, rootState>>
     \/ /\ ~ RootAlone(blockMap)
        /\ Fails("wild")
        /\ UNCHANGED <<savedMap, savedDir, rootState>>

\* Mutant: a slot with a block counts, whatever its length.
UsedWithBlock(e) == e.blk # 0

\* The validation loop of Load stops at the first slot that is not in use.
Used(e) == e.blk # 0 /\ e.len # 0
Visible(dir) == Cardinality({i \in SlotIds : \A j \in 0..i : Used(dir[j])})

\* Load into a new CXeFlashFileSystemRoot, as LoadFileSystems does.
Load ==
  /\ Running
  /\ rootState = "saved"
  /\ blockMap' = savedMap
  /\ entries' = savedDir
  /\ count' = Visible(savedDir)
  /\ Returns(0)
  /\ UNCHANGED <<disk, savedMap, savedDir, rootState>>

\* The calls of FlashFileSystem, which may write file data over the root.
RootWritten ==
  rootState' = IF rootState = "saved" /\ disk'[RootBlock] # disk[RootBlock]
               THEN "overwritten" ELSE rootState

AddFile(n)    == FileAdd(n)        /\ RootWritten /\ UNCHANGED <<savedMap, savedDir>>
SetFile(i, d) == FileSetData(i, d) /\ RootWritten /\ UNCHANGED <<savedMap, savedDir>>

RootInit ==
  /\ Init
  /\ savedMap = blockMap
  /\ savedDir = entries
  /\ rootState = "blank"

RootNext ==
  \/ \E n \in Names : AddFile(n)
  \/ \E i \in SlotIds, d \in Data : SetFile(i, d)
  \/ Save
  \/ Load

RootSpec == RootInit /\ [][RootNext]_rootVars

-----------------------------------------------------------------------------
(* Properties *)

\* The saved map and directory have the types of those in memory.
RootTypeOK ==
  /\ TypeOK
  /\ savedMap \in [BlockIds -> Words]
  /\ savedDir \in [SlotIds -> Entry]
  /\ rootState \in RootStates

\* No file write ever lands on the root block: chains never reach it, and Save
\* and FileSetData agree on where it is.  (FSOffset, which only files get, must
\* be 0 or past the root.)
RootSurvives == rootState # "overwritten"

\* The block a saved file starts at goes to no other file, however often the
\* files have been rewritten, hidden and replaced in memory since: a load that
\* follows an aborted save finds it as that file's, or as nobody's.
SavedHeadsKept ==
  \A i, j \in SlotIds :
    /\ savedDir[i].blk # 0
    /\ entries[j].blk # 0
    /\ savedDir[i].blk \in Chain(blockMap, entries[j].blk)
    => i = j /\ savedDir[i].blk = entries[i].blk

\* Blocks in use that no slot of the directory leads to.
Orphans ==
  LET heads == {RootBlock} \cup ({entries[i].blk : i \in SlotIds} \ {0})
  IN  {b \in BlockIds : Allocated(blockMap, b)}
        \ UNION {Chain(blockMap, h) : h \in heads}

\* Blocks are lost in one way only: FileAdd gives the slot of a hidden file to a
\* new one, and forgets the chain the slot had.
LostOnlyByReuse ==
  [][ ~ (Orphans' \subseteq Orphans) =>
        \/ count' = count + 1 /\ entries[count].blk # 0
           /\ Orphans' = Orphans \cup Chain(blockMap, entries[count].blk)
        \/ Load ]_rootVars
=============================================================================
