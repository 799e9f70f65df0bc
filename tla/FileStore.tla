----------------------------- MODULE FileStore -----------------------------
(***************************************************************************)
(* What a caller of the flash file system relies on: a directory of files, *)
(* each empty or holding one whole payload.  A call may add an empty file  *)
(* or replace the payload of one file; whatever else it does, it disturbs  *)
(* no other file and never leaves half of a payload behind.                *)
(***************************************************************************)
EXTENDS Naturals

CONSTANTS MaxEntries,  \* directory slots of the root block
          Data,        \* payloads
          Empty        \* the content of a file that holds nothing

VARIABLES size,        \* number of files in the directory
          content      \* the payload of each directory slot

storeVars == <<size, content>>

StoreInit ==
  /\ size = 0
  /\ content = [i \in 0..(MaxEntries - 1) |-> Empty]

Create ==
  /\ size < MaxEntries
  /\ size' = size + 1
  /\ UNCHANGED content

Replace(i) ==
  /\ i < size
  /\ content'[i] \in Data
  /\ \A j \in 0..(MaxEntries - 1) : j # i => content'[j] = content[j]
  /\ UNCHANGED size

StoreNext ==
  \/ Create
  \/ \E i \in 0..(MaxEntries - 1) : Replace(i)

StoreSpec == StoreInit /\ [][StoreNext]_storeVars
=============================================================================
