----------------------------- MODULE FlashDevice -----------------------------
(***************************************************************************)
(* The driver's access to the flash of the console it runs on: OpenDevice  *)
(* reads it page by page, SaveDevice erases and writes it block by block,  *)
(* both through the routines of SFCX.cpp.  A routine gives the controller  *)
(* a command and then waits for the busy bit, without a bound and without  *)
(* a look at the result.  The chip is external: it ends a command in its   *)
(* own time, wears out, and loses power at any moment.  The pages' bytes   *)
(* and codes are abstract.                                                 *)
(***************************************************************************)
EXTENDS Naturals

CONSTANTS Sizes,  \* numbers of blocks a flash may have
          Pages,  \* pages_in_block
          Limit   \* the blocks in the 69206016 bytes OpenDevice allocates

ASSUME DeviceAssumption == Sizes \subseteq Nat \ {0} /\ Pages \in Nat \ {0} /\ Limit \in Nat \ {0}

PageIds  == 0..Pages-1
Contents == {"old", "new", "blank", "noise"}

VARIABLES
  size,      \* sfc.size_blocks
  worn,      \* blocks that no longer take a command well
  flash,     \* the contents of the pages of the chip
  image,     \* pbImageData, by blocks and pages
  before,    \* the flash when the last SaveDevice began
  task,      \* the loop the program is in: "none", "open", "erase", "write"
  block,     \* i of these loops
  page,      \* p of sfcx_write_block, the page in its block for OpenDevice
  issued,    \* the routine has given its command
  busy,      \* STATUS_BUSY
  writable,  \* CONFIG_WP_EN, which the routines set to enable writes
  loaded,    \* OpenDevice has returned
  overrun,   \* a page was read past the end of the buffer; the model goes on as if
             \* the memory there were free, and a crash is the loss of power
  power

chip    == <<size, worn, flash, busy>>
program == <<image, before, task, block, page, issued, writable, loaded, overrun>>
vars    == <<chip, program, power>>

Blocks == 0..size-1
Least(x, y) == IF x <= y THEN x ELSE y

\* The blocks SaveDevice writes: len / block_sz_phys.
Held == Least(size, Limit)

Goto(t, b, p) == task' = t /\ block' = b /\ page' = p

-----------------------------------------------------------------------------
(* Opening *)

\* sfcx_init turns writes off.
OpenDevice ==
  /\ power /\ task = "none" /\ ~ loaded
  /\ Goto("open", 0, 0) /\ writable' = FALSE
  /\ UNCHANGED <<chip, image, before, issued, loaded, overrun, power>>

\* sfcx_read_page gives its command at once.
ReadCommand ==
  /\ power /\ task = "open" /\ ~ issued
  /\ issued' = TRUE /\ busy' = TRUE
  /\ UNCHANGED <<size, worn, flash, image, before, task, block, page, writable, loaded,
                 overrun, power>>

\* Mutant: the page goes where the one before it went.
ReceivedBehind(c) == [image EXCEPT ![block][IF page = 0 THEN 0 ELSE page - 1] = c]

\* The image with a page read: the i-th takes the i-th page_sz_phys bytes.
Received(c) == [image EXCEPT ![block][page] = c]

\* Mutant: no step to the next block.
AfterPageOn(t) == Goto(t, block, page + 1)

\* To the next page of the flash.
AfterPage(t) ==
  IF page + 1 < Pages THEN Goto(t, block, page + 1) ELSE Goto(t, block + 1, 0)

\* The wait of sfcx_read_page ends: the page comes out of the controller, whatever
\* the status says.  The loop goes over all pages of the chip, sfcx_reset turns
\* writes on.
ReadDone ==
  /\ power /\ task = "open" /\ issued /\ ~ busy
  /\ issued' = FALSE
  /\ overrun' = (block >= Limit)
  /\ IF block >= Limit THEN UNCHANGED image
     ELSE \E c \in IF block \in worn THEN {"noise", flash[block][page]} ELSE {flash[block][page]} :
            image' = Received(c)
  /\ IF block + 1 = size /\ page + 1 = Pages
     THEN Goto("none", 0, 0) /\ loaded' = TRUE /\ writable' = TRUE
     ELSE AfterPage("open") /\ UNCHANGED <<loaded, writable>>
  /\ UNCHANGED <<chip, before, power>>

\* What the rest of the program does to the image.
Edit ==
  /\ power /\ task = "none" /\ loaded
  /\ \E b \in 0..Held-1, p \in PageIds : image' = [image EXCEPT ![b][p] = "new"]
  /\ UNCHANGED <<chip, before, task, block, page, issued, writable, loaded, overrun, power>>

-----------------------------------------------------------------------------
(* Saving *)

SaveDevice ==
  /\ power /\ task = "none" /\ loaded
  /\ before' = flash /\ writable' = FALSE
  /\ Goto("erase", 0, 0)
  /\ UNCHANGED <<chip, image, issued, loaded, overrun, power>>

\* Mutant: the next block is erased before the last page of this one is written.
NextPageEarly ==
  \/ page + 2 < Pages /\ Goto("write", block, page + 1) /\ writable' = FALSE
  \/ page + 2 >= Pages /\ block + 1 < Held /\ Goto("erase", block + 1, 0) /\ writable' = FALSE
  \/ page + 2 >= Pages /\ block + 1 >= Held /\ Goto("none", 0, 0) /\ writable' = TRUE

\* Mutant: the last block is done over and over.
NextPageAgain ==
  \/ page + 1 < Pages /\ Goto("write", block, page + 1) /\ writable' = FALSE
  \/ page + 1 = Pages /\ Goto("erase", Least(block + 1, Held - 1), 0) /\ writable' = FALSE

\* The next page, the next block or, with sfcx_reset, the end.
NextPage ==
  \/ page + 1 < Pages /\ Goto("write", block, page + 1) /\ writable' = FALSE
  \/ page + 1 = Pages /\ block + 1 < Held /\ Goto("erase", block + 1, 0) /\ writable' = FALSE
  \/ page + 1 = Pages /\ block + 1 = Held /\ Goto("none", 0, 0) /\ writable' = TRUE

\* sfcx_erase_block and sfcx_write_page wait for an idle chip, enable writes, unlock
\* the chip and give the command.
WriteCommand ==
  /\ power /\ task \in {"erase", "write"} /\ ~ issued /\ ~ busy
  /\ issued' = TRUE /\ busy' = TRUE /\ writable' = TRUE
  /\ UNCHANGED <<size, worn, flash, image, before, task, block, page, loaded, overrun, power>>

\* The wait of sfcx_erase_block ends; its status is dropped.
EraseDone ==
  /\ power /\ task = "erase" /\ issued /\ ~ busy
  /\ issued' = FALSE /\ writable' = FALSE
  /\ Goto("write", block, 0)
  /\ UNCHANGED <<chip, image, before, loaded, overrun, power>>

\* The wait of sfcx_write_page ends; its status is dropped as well.
WriteDone ==
  /\ power /\ task = "write" /\ issued /\ ~ busy
  /\ issued' = FALSE /\ NextPage
  /\ UNCHANGED <<chip, image, before, loaded, overrun, power>>

-----------------------------------------------------------------------------
(* The chip *)

\* A page programmed over anything but blank cells keeps neither content.
Programmed(b, p) ==
  [flash EXCEPT ![b][p] = IF @ = "blank" THEN image[b][p] ELSE "noise"]

\* What the command under way makes of the flash when it goes well.
Effect ==
  CASE task = "erase" -> [flash EXCEPT ![block] = [p \in PageIds |-> "blank"]]
    [] task = "write" -> Programmed(block, page)
    [] OTHER          -> flash

\* A command that goes wrong leaves noise in some pages of its block.
Spoilt(pages) ==
  [flash EXCEPT ![block] = [p \in PageIds |-> IF p \in pages THEN "noise" ELSE @[p]]]

\* The pages a command can spoil.
Touched == CASE task = "erase" -> PageIds [] task = "write" -> {page} [] OTHER -> {}

\* The chip ends its command.
Finish ==
  /\ power /\ busy
  /\ busy' = FALSE
  /\ \/ block \notin worn /\ flash' = Effect
     \/ block \in worn /\ \E pages \in SUBSET Touched : flash' = Spoilt(pages)
  /\ UNCHANGED <<size, worn, program, power>>

\* Power fails, in the middle of a command or not.
PowerCut ==
  /\ power /\ power' = FALSE
  /\ IF busy THEN \E pages \in SUBSET Touched : flash' = Spoilt(pages) ELSE UNCHANGED flash
  /\ UNCHANGED <<size, worn, busy, program>>

-----------------------------------------------------------------------------
(* Specification *)

Init ==
  /\ size \in Sizes /\ worn \in SUBSET Blocks
  /\ flash = [b \in Blocks |-> [p \in PageIds |-> "old"]]
  /\ image = [b \in 0..Limit-1 |-> [p \in PageIds |-> "noise"]]
  /\ before = flash
  /\ task = "none" /\ block = 0 /\ page = 0
  /\ issued = FALSE /\ busy = FALSE /\ writable = FALSE
  /\ loaded = FALSE /\ overrun = FALSE /\ power = TRUE

\* A step of a routine that has been called.
Step == ReadCommand \/ ReadDone \/ WriteCommand \/ EraseDone \/ WriteDone

Next == OpenDevice \/ SaveDevice \/ Edit \/ Step \/ Finish \/ PowerCut

\* The processor runs on (the routines only loop and never sleep) and the chip ends
\* every command it is given.  Nothing makes the program call OpenDevice, SaveDevice
\* or change the image, and nothing cuts the power.
Fairness == WF_vars(Step) /\ WF_vars(Finish)

Spec == Init /\ [][Next]_vars /\ Fairness

-----------------------------------------------------------------------------
(* Properties *)

TypeOK ==
  /\ size \in Sizes /\ worn \in SUBSET Blocks
  /\ flash \in [Blocks -> [PageIds -> Contents]]
  /\ before \in [Blocks -> [PageIds -> Contents]]
  /\ image \in [0..Limit-1 -> [PageIds -> Contents]]
  /\ task \in {"none", "open", "erase", "write"}
  /\ block \in Blocks /\ page \in PageIds
  /\ issued \in BOOLEAN /\ busy \in BOOLEAN /\ writable \in BOOLEAN
  /\ loaded \in BOOLEAN /\ overrun \in BOOLEAN /\ power \in BOOLEAN

\* Wherever SaveDevice is interrupted, and whatever worn blocks do, at most one block
\* that is not worn has lost its old content without having the image's yet, and no
\* block behind the buffer is touched.
Torn == {b \in Blocks \ worn :
           flash[b] # before[b] /\ (b < Limit => flash[b] # image[b])}

AtMostOneTorn ==
  task \in {"erase", "write"} => Torn \subseteq {block}

\* OpenDevice: the image of a flash no larger than the buffer holds what the flash
\* does, but for worn blocks, when OpenDevice ends and until something changes either.
OpenedWhole ==
  [][loaded' /\ ~ loaded =>
       /\ \A b \in Blocks \ worn : b < Limit => image'[b] = flash[b]
       /\ size <= Limit => ~ overrun']_vars

\* The waits end, the loops too: OpenDevice and SaveDevice return unless power fails,
\* and when SaveDevice returns every block it went over has the content of the image,
\* but for worn blocks.
CallsEnd ==
  /\ task = "open" ~> task = "none" \/ ~ power
  /\ task \in {"erase", "write"} ~>
       \/ ~ power
       \/ task = "none" /\ \A b \in 0..Held-1 : b \notin worn => flash[b] = image[b]
=============================================================================
