-------------------------- MODULE FlashDevice_proofs --------------------------
(***************************************************************************)
(* SaveDevice puts at most one block at risk, for a flash of any size.     *)
(***************************************************************************)
EXTENDS FlashDevice, TLAPS

\* What a SaveDevice under way has made of the flash: the blocks behind it are the
\* image's but for worn ones, those before it untouched, and in its own block the
\* pages behind are the image's, those before blank.
Behind == \A b \in Blocks \ worn : b < block => flash[b] = image[b]
Ahead  == \A b \in Blocks : b > block => flash[b] = before[b]
Ended  == issued /\ ~ busy
Within ==
  power /\ block \notin worn =>
    /\ task = "erase" /\ Ended => \A p \in PageIds : flash[block][p] = "blank"
    /\ task = "write" => \A p \in PageIds :
         /\ p < page => flash[block][p] = image[block][p]
         /\ p = page /\ Ended => flash[block][p] = image[block][p]
         /\ p = page /\ ~ Ended => flash[block][p] = "blank"
         /\ p > page => flash[block][p] = "blank"

Progress ==
  task \in {"erase", "write"} => block < Held /\ Behind /\ Ahead /\ Within

DeviceInv == TypeOK /\ (busy => issued) /\ (task = "none" => ~ issued) /\ Progress

-----------------------------------------------------------------------------
\* The number of blocks SaveDevice writes is at least one and within both bounds.
LEMMA HeldBounds ==
  ASSUME size \in Sizes
  PROVE  /\ size \in Nat /\ size > 0 /\ Limit \in Nat /\ Pages \in Nat /\ Pages > 0
         /\ Held \in Nat /\ 0 < Held /\ Held <= size /\ Held <= Limit
  BY DeviceAssumption DEF Held, Least

\* The constants and the flash of Init have their types.
LEMMA InitInv == Init => DeviceInv
<1> SUFFICES ASSUME Init PROVE DeviceInv
  OBVIOUS
<1>0. size \in Nat /\ size > 0 /\ Limit \in Nat /\ Pages \in Nat /\ Pages > 0
  BY HeldBounds DEF Init
<1>1. TypeOK
  <2>1. block \in Blocks /\ page \in PageIds
    BY <1>0 DEF Init, Blocks, PageIds
  <2>2. flash \in [Blocks -> [PageIds -> Contents]] /\ before \in [Blocks -> [PageIds -> Contents]]
    BY DEF Init, Contents
  <2>3. image \in [0..Limit-1 -> [PageIds -> Contents]]
    BY DEF Init, Contents
  <2> QED BY <2>1, <2>2, <2>3 DEF Init, TypeOK
<1> QED BY <1>1 DEF Init, DeviceInv, Progress

\* No step leaves the types.
LEMMA TypeStep == TypeOK /\ (task \in {"erase", "write"} => block < Held) /\ [Next]_vars => TypeOK'
<1> SUFFICES ASSUME TypeOK, task \in {"erase", "write"} => block < Held, [Next]_vars
             PROVE  TypeOK'
  OBVIOUS
<1>0. /\ size \in Nat /\ size > 0 /\ Limit \in Nat /\ Pages \in Nat /\ Pages > 0
      /\ Held \in Nat /\ 0 < Held /\ Held <= size /\ Held <= Limit
  BY HeldBounds DEF TypeOK
<1>1. CASE OpenDevice
  <2>1. task' = "open" /\ block' = 0 /\ page' = 0 /\ writable' \in BOOLEAN
    BY <1>1 DEF OpenDevice, Goto
  <2>2. block' \in Blocks /\ page' \in PageIds
    BY <2>1, <1>0 DEF Blocks, PageIds
  <2> QED BY <2>1, <2>2, <1>1 DEF TypeOK, OpenDevice, chip, Blocks
<1>2. CASE SaveDevice
  <2>1. task' = "erase" /\ block' = 0 /\ page' = 0 /\ writable' \in BOOLEAN
    BY <1>2 DEF SaveDevice, Goto
  <2>2. block' \in Blocks /\ page' \in PageIds
    BY <2>1, <1>0 DEF Blocks, PageIds
  <2> QED BY <2>1, <2>2, <1>2 DEF TypeOK, SaveDevice, chip, Blocks
<1>3. CASE Edit
  <2>1. PICK b \in 0..Held-1, p \in PageIds : image' = [image EXCEPT ![b][p] = "new"]
    BY <1>3 DEF Edit
  <2>2. image' \in [0..Limit-1 -> [PageIds -> Contents]]
    BY <2>1, <1>0 DEF TypeOK, Contents
  <2> QED BY <2>2, <1>3 DEF TypeOK, Edit, chip, Blocks, PageIds
<1>4. CASE ReadCommand
  BY <1>4 DEF TypeOK, ReadCommand, Blocks
<1>5. CASE ReadDone
  <2>1. image' \in [0..Limit-1 -> [PageIds -> Contents]]
    <3>1. CASE block >= Limit
      BY <3>1, <1>5 DEF TypeOK, ReadDone
    <3>2. CASE ~ (block >= Limit)
      <4>1. PICK c \in {"noise", flash[block][page]} : image' = [image EXCEPT ![block][page] = c]
        BY <3>2, <1>5 DEF ReadDone, Received
      <4>2. c \in Contents
        BY <4>1 DEF TypeOK, Contents
      <4> QED BY <4>1, <4>2, <3>2, <1>0 DEF TypeOK, Blocks
    <3> QED BY <3>1, <3>2
  <2>2. block' \in Blocks /\ page' \in PageIds /\ task' \in {"none", "open", "erase", "write"}
    BY <1>5, <1>0 DEF TypeOK, ReadDone, AfterPage, Goto, Blocks, PageIds
  <2>3. issued' \in BOOLEAN /\ writable' \in BOOLEAN /\ loaded' \in BOOLEAN /\ overrun' \in BOOLEAN
    <3>1. \/ loaded' = TRUE /\ writable' = TRUE
          \/ loaded' = loaded /\ writable' = writable
      BY <1>5, Zenon DEF ReadDone
    <3>2. overrun' \in BOOLEAN /\ issued' = FALSE
      BY <1>5 DEF ReadDone
    <3> QED BY <3>1, <3>2 DEF TypeOK
  <2> QED BY <2>1, <2>2, <2>3, <1>5 DEF TypeOK, ReadDone, chip, Blocks, PageIds
<1>6. CASE WriteCommand
  BY <1>6 DEF TypeOK, WriteCommand, Blocks
<1>7. CASE EraseDone
  <2>1. task' = "write" /\ block' = block /\ page' = 0 /\ writable' \in BOOLEAN /\ issued' \in BOOLEAN
    BY <1>7 DEF EraseDone, Goto
  <2>2. page' \in PageIds
    BY <2>1, <1>0 DEF PageIds
  <2> QED BY <2>1, <2>2, <1>7 DEF TypeOK, EraseDone, chip, Blocks
<1>8. CASE WriteDone
  <2>1. writable' \in BOOLEAN /\ issued' \in BOOLEAN
    BY <1>8, Zenon DEF WriteDone, NextPage
  <2>2. \/ task' = "write" /\ block' = block /\ page' = page + 1 /\ page + 1 < Pages
        \/ task' = "erase" /\ block' = block + 1 /\ page' = 0 /\ block + 1 < Held
        \/ task' = "none" /\ block' = 0 /\ page' = 0
    BY <1>8, Zenon DEF WriteDone, NextPage, Goto
  <2>3. block' \in Blocks /\ page' \in PageIds /\ task' \in {"none", "open", "erase", "write"}
    BY <2>2, <1>0 DEF TypeOK, Blocks, PageIds
  <2> QED BY <2>1, <2>3, <1>8 DEF TypeOK, WriteDone, chip, Blocks
<1>9. CASE Finish
  <2>1. flash' \in [Blocks -> [PageIds -> Contents]]
    <3>1. CASE flash' = Effect
      <4>1. CASE task = "write"
        <5>1. image[block][page] \in Contents
          BY <4>1, <1>0 DEF TypeOK, Blocks
        <5> QED BY <3>1, <4>1, <5>1 DEF TypeOK, Effect, Programmed, Contents
      <4>2. CASE task = "erase"
        BY <3>1, <4>2 DEF TypeOK, Effect, Contents
      <4>3. CASE task \notin {"write", "erase"}
        BY <3>1, <4>3 DEF TypeOK, Effect
      <4> QED BY <4>1, <4>2, <4>3
    <3>2. ASSUME NEW pages \in SUBSET Touched, flash' = Spoilt(pages)
          PROVE  flash' \in [Blocks -> [PageIds -> Contents]]
      BY <3>2 DEF TypeOK, Spoilt, Contents
    <3> QED BY <3>1, <3>2, <1>9 DEF Finish
  <2> QED BY <2>1, <1>9 DEF TypeOK, Finish, program, Blocks
<1>10. CASE PowerCut
  <2>1. flash' \in [Blocks -> [PageIds -> Contents]]
    <3>1. ASSUME NEW pages \in SUBSET Touched, flash' = Spoilt(pages)
          PROVE  flash' \in [Blocks -> [PageIds -> Contents]]
      BY <3>1 DEF TypeOK, Spoilt, Contents
    <3> QED BY <3>1, <1>10 DEF PowerCut, TypeOK
  <2> QED BY <2>1, <1>10 DEF TypeOK, PowerCut, program, Blocks
<1>11. CASE UNCHANGED vars
  BY <1>11 DEF TypeOK, vars, chip, program, Blocks
<1> QED BY <1>1, <1>2, <1>3, <1>4, <1>5, <1>6, <1>7, <1>8, <1>9, <1>10, <1>11 DEF Next, Step

\* A command under way ends in what the program waits for; steps of the program keep
\* what the save has made.
LEMMA ProgressStep == DeviceInv /\ [Next]_vars => Progress'
<1> SUFFICES ASSUME DeviceInv, [Next]_vars, task' \in {"erase", "write"}
             PROVE  (block < Held /\ Behind /\ Ahead /\ Within)'
  BY DEF Progress
<1>0. /\ size \in Nat /\ size > 0 /\ Limit \in Nat /\ Pages \in Nat /\ Pages > 0
      /\ Held \in Nat /\ 0 < Held /\ Held <= size /\ Held <= Limit
  BY HeldBounds DEF DeviceInv, TypeOK
<1> USE DEF Ended
<1>1. CASE OpenDevice
  BY <1>1 DEF OpenDevice, Goto
<1>2. CASE SaveDevice
  <2>1. Held' = Held
    BY <1>2 DEF SaveDevice, chip, Held, Least
  <2>2. issued' = FALSE /\ busy' = busy /\ block' = 0 /\ task' = "erase" /\ flash' = flash /\ before' = flash
    BY <1>2 DEF SaveDevice, chip, Goto, DeviceInv
  <2>3. Behind' /\ Ahead'
    BY <2>2, <1>0, <1>2 DEF Behind, Ahead, Blocks, DeviceInv, TypeOK, SaveDevice, chip
  <2> QED BY <2>1, <2>2, <2>3, <1>0 DEF Within
<1>3. CASE Edit
  BY <1>3 DEF Edit
<1>4. CASE ReadCommand
  BY <1>4 DEF ReadCommand
<1>5. CASE ReadDone
  BY <1>5 DEF ReadDone, AfterPage, Goto
<1>6. CASE WriteCommand
  <2>1. UNCHANGED <<size, worn, flash, image, before, task, block, page, power>> /\ busy' /\ ~ Ended
    BY <1>6 DEF WriteCommand
  <2> QED BY <2>1, <1>6, <1>0 DEF WriteCommand, DeviceInv, Progress, Behind, Ahead, Within, Held, Least, Blocks
<1>7. CASE EraseDone
  <2>1. /\ UNCHANGED <<size, worn, flash, image, before, block, power, busy>>
        /\ task = "erase" /\ Ended /\ task' = "write" /\ page' = 0 /\ ~ issued'
    BY <1>7 DEF EraseDone, chip, Goto
  <2>2. (block < Held /\ Behind /\ Ahead)'
    BY <2>1 DEF DeviceInv, Progress, Behind, Ahead, Held, Least, Blocks
  <2>3. Within'
    BY <2>1 DEF DeviceInv, Progress, Within, PageIds
  <2> QED BY <2>2, <2>3
<1>8. CASE WriteDone
  <2>1. /\ UNCHANGED <<size, worn, flash, image, before, power, busy>>
        /\ task = "write" /\ Ended /\ ~ issued' /\ power
    BY <1>8 DEF WriteDone, chip
  <2>2. CASE page + 1 < Pages
    <3>1. task' = "write" /\ block' = block /\ page' = page + 1
      <4>1. page + 1 # Pages
        BY <2>2, <1>0 DEF DeviceInv, TypeOK, PageIds
      <4> QED BY <4>1, <1>8, Zenon DEF WriteDone, NextPage, Goto
    <3>2. (block < Held /\ Behind /\ Ahead)'
      BY <2>1, <3>1 DEF DeviceInv, Progress, Behind, Ahead, Held, Least, Blocks
    <3>3. Within'
      BY <2>1, <3>1 DEF DeviceInv, TypeOK, Progress, Within, PageIds
    <3> QED BY <3>2, <3>3
  <2>3. CASE ~ (page + 1 < Pages)
    <3>1. task' = "erase" /\ block' = block + 1 /\ block + 1 < Held /\ page + 1 = Pages
      BY <2>3, <1>8, <1>0 DEF WriteDone, NextPage, Goto, DeviceInv, TypeOK, PageIds
    <3>2. block \notin worn => flash[block] = image[block]
      <4> SUFFICES ASSUME block \notin worn PROVE flash[block] = image[block]
        OBVIOUS
      <4>1. \A p \in PageIds : flash[block][p] = image[block][p]
        BY <2>1, <3>1, <1>0 DEF DeviceInv, TypeOK, Progress, Within, PageIds
      <4>2. flash[block] \in [PageIds -> Contents] /\ image[block] \in [PageIds -> Contents]
        BY <3>1, <1>0 DEF DeviceInv, TypeOK, Blocks
      <4> QED BY <4>1, <4>2
    <3>3. (block < Held)'
      BY <2>1, <3>1 DEF Held, Least
    <3>4. Behind'
      BY <2>1, <3>1, <3>2, <1>0 DEF DeviceInv, TypeOK, Progress, Behind, Blocks
    <3>5. Ahead'
      BY <2>1, <3>1, <1>0 DEF DeviceInv, TypeOK, Progress, Ahead, Blocks
    <3>6. Within'
      BY <2>1, <3>1 DEF Within
    <3> QED BY <3>3, <3>4, <3>5, <3>6
  <2> QED BY <2>2, <2>3
<1>9. CASE Finish
  <2>1. /\ UNCHANGED <<size, worn, image, before, task, block, page, issued, power>>
        /\ busy /\ ~ busy' /\ power /\ issued /\ block < Held
    BY <1>9 DEF Finish, program, DeviceInv, Progress
  <2>2. \A b \in Blocks \ {block} : flash'[b] = flash[b]
    BY <1>9 DEF Finish, Effect, Programmed, Spoilt, DeviceInv, TypeOK
  <2>3. (block < Held /\ Behind /\ Ahead)'
    <3>1. Held' = Held /\ Blocks' = Blocks
      BY <2>1 DEF Held, Least, Blocks
    <3>2. Behind /\ Ahead /\ block \in Nat /\ Blocks \subseteq Nat
      BY <2>1, <1>0 DEF DeviceInv, TypeOK, Progress, Blocks
    <3>3. (block < Held)'
      BY <2>1, <3>1, <2>1
    <3>4. Behind'
      <4> SUFFICES ASSUME NEW b \in Blocks \ worn, b < block PROVE flash'[b] = image[b]
        BY <2>1, <3>1 DEF Behind
      <4> QED BY <2>2, <3>2 DEF Behind
    <3>5. Ahead'
      <4> SUFFICES ASSUME NEW b \in Blocks, b > block PROVE flash'[b] = before[b]
        BY <2>1, <3>1 DEF Ahead
      <4> QED BY <2>2, <3>2 DEF Ahead
    <3> QED BY <3>3, <3>4, <3>5
  <2>4. Within'
    <3> SUFFICES ASSUME block \notin worn PROVE Within'
      BY <2>1 DEF Within
    <3>1. flash' = Effect
      BY <1>9 DEF Finish
    <3>2. CASE task = "erase"
      BY <2>1, <3>1, <3>2 DEF Within, Effect, DeviceInv, TypeOK
    <3>3. CASE task = "write"
      <4>1. \A p \in PageIds : flash'[block][p] = IF p = page THEN image[block][p] ELSE flash[block][p]
        BY <2>1, <3>1, <3>3 DEF Effect, Programmed, DeviceInv, TypeOK, Progress, Within
      <4> QED BY <4>1, <2>1, <3>3 DEF DeviceInv, TypeOK, Progress, Within, PageIds
    <3> QED BY <3>2, <3>3, <2>1
  <2> QED BY <2>3, <2>4
<1>10. CASE PowerCut
  <2>1. UNCHANGED <<size, worn, image, before, task, block, page, issued, busy>> /\ ~ power'
    BY <1>10 DEF PowerCut, program
  <2>2. \A b \in Blocks \ {block} : flash'[b] = flash[b]
    BY <1>10 DEF PowerCut, Spoilt, DeviceInv, TypeOK
  <2>3. (block < Held /\ Behind /\ Ahead)'
    <3>1. Held' = Held /\ Blocks' = Blocks
      BY <2>1 DEF Held, Least, Blocks
    <3>2. block < Held /\ Behind /\ Ahead /\ block \in Nat /\ Blocks \subseteq Nat
      BY <2>1, <1>0 DEF DeviceInv, TypeOK, Progress, Blocks
    <3>3. (block < Held)'
      BY <2>1, <3>1, <3>2
    <3>4. Behind'
      <4> SUFFICES ASSUME NEW b \in Blocks \ worn, b < block PROVE flash'[b] = image[b]
        BY <2>1, <3>1 DEF Behind
      <4> QED BY <2>2, <3>2 DEF Behind
    <3>5. Ahead'
      <4> SUFFICES ASSUME NEW b \in Blocks, b > block PROVE flash'[b] = before[b]
        BY <2>1, <3>1 DEF Ahead
      <4> QED BY <2>2, <3>2 DEF Ahead
    <3> QED BY <3>3, <3>4, <3>5
  <2> QED BY <2>1, <2>3 DEF Within
<1>11. CASE UNCHANGED vars
  BY <1>11 DEF vars, chip, program, DeviceInv, Progress, Behind, Ahead, Within, Held, Least, Blocks
<1> QED BY <1>1, <1>2, <1>3, <1>4, <1>5, <1>6, <1>7, <1>8, <1>9, <1>10, <1>11 DEF Next, Step

-----------------------------------------------------------------------------
\* DeviceInv holds throughout.
THEOREM DeviceInvariant == Spec => []DeviceInv
<1>1. DeviceInv /\ [Next]_vars => DeviceInv'
  <2> SUFFICES ASSUME DeviceInv, [Next]_vars PROVE DeviceInv'
    OBVIOUS
  <2>1. TypeOK'
    BY TypeStep DEF DeviceInv, Progress
  <2>2. (busy => issued)' /\ (task = "none" => ~ issued)'
    BY DEF DeviceInv, Next, Step, OpenDevice, SaveDevice, Edit, ReadCommand, ReadDone, WriteCommand,
           EraseDone, WriteDone, NextPage, AfterPage, Goto, Finish, PowerCut, vars, chip, program
  <2> QED BY <2>1, <2>2, ProgressStep DEF DeviceInv
<1> QED BY InitInv, <1>1, PTL DEF Spec

\* The driver, the controller and the chip keep the types of their state (TypeOK).
THEOREM DeviceTypeCorrect == Spec => []TypeOK
  BY DeviceInvariant, PTL DEF DeviceInv

\* For a flash of any size, blocks of any number of pages and any set of worn blocks,
\* an interrupted SaveDevice costs the content of one block at most (AtMostOneTorn).
THEOREM OneBlockAtRisk == Spec => []AtMostOneTorn
<1>1. DeviceInv => AtMostOneTorn
  <2> SUFFICES ASSUME DeviceInv, task \in {"erase", "write"}, NEW b \in Torn PROVE b = block
    BY DEF AtMostOneTorn
  <2>1. b \in Blocks \ worn /\ flash[b] # before[b] /\ (b < Limit => flash[b] # image[b])
    BY DEF Torn
  <2>2. ~ (b > block)
    BY <2>1 DEF DeviceInv, Progress, Ahead
  <2>3. ~ (b < block)
    BY <2>1, HeldBounds DEF DeviceInv, TypeOK, Progress, Behind, Blocks
  <2> QED BY <2>1, <2>2, <2>3, HeldBounds DEF DeviceInv, TypeOK, Blocks
<1> QED BY <1>1, DeviceInvariant, PTL

-----------------------------------------------------------------------------
(* What OpenDevice and SaveDevice leave *)

\* What an OpenDevice under way has read: the blocks behind it and the pages behind
\* in its own block, but for worn ones.
Fetched ==
  task = "open" =>
    \A b \in Blocks \ worn : b < Limit =>
      /\ b < block => image[b] = flash[b]
      /\ b = block => \A p \in PageIds : p < page => image[b][p] = flash[b][p]

\* While the flash is read the chip changes nothing.
LEMMA ReadingKeepsFlash ==
  ASSUME TypeOK, task = "open", Finish \/ PowerCut
  PROVE  flash' = flash
<1>1. Touched = {} /\ Effect = flash
  BY DEF Touched, Effect
<1>2. Spoilt({}) = flash
  <2>1. flash[block] \in [PageIds -> Contents] /\ flash \in [Blocks -> [PageIds -> Contents]]
    BY DEF TypeOK
  <2>2. [p \in PageIds |-> IF p \in {} THEN "noise" ELSE flash[block][p]] = flash[block]
    BY <2>1
  <2>3. QED
    BY <2>1, <2>2 DEF Spoilt
<1>3. QED
  BY <1>1, <1>2 DEF Finish, PowerCut

\* A page read joins the pages read before it.
LEMMA PageFetched ==
  ASSUME TypeOK, Fetched, ReadDone
  PROVE  /\ UNCHANGED <<size, worn, flash>>
         /\ \A b \in Blocks \ worn : b < Limit =>
              /\ b < block => image'[b] = flash[b]
              /\ b = block => \A p \in PageIds : p <= page => image'[b][p] = flash[b][p]
<1>0. /\ Limit \in Nat /\ block \in Nat /\ Blocks \subseteq Nat
      /\ page \in PageIds /\ PageIds \subseteq Nat
  BY HeldBounds DEF TypeOK, Blocks, PageIds
<1>1. UNCHANGED <<size, worn, flash>> /\ task = "open"
  BY DEF ReadDone, chip
<1>2. CASE block >= Limit
  <2>1. image' = image
    BY <1>2 DEF ReadDone
  <2>2. \A b \in Blocks : b < Limit => b < block /\ b # block
    BY <1>0, <1>2
  <2>3. QED
    BY <1>1, <2>1, <2>2 DEF Fetched
<1>3. CASE ~ (block >= Limit)
  <2>1. PICK c : /\ image' = [image EXCEPT ![block][page] = c]
                 /\ block \notin worn => c = flash[block][page]
    BY <1>3 DEF ReadDone, Received
  <2>2. /\ image \in [0..Limit-1 -> [PageIds -> Contents]] /\ block \in 0..Limit-1
    BY <1>0, <1>3 DEF TypeOK
  <2>3. \A b \in 0..Limit-1 : b # block => image'[b] = image[b]
    BY <2>1, <2>2
  <2>4. \A p \in PageIds : image'[block][p] = IF p = page THEN c ELSE image[block][p]
    BY <1>0, <2>1, <2>2
  <2>5. QED
    BY <1>0, <1>1, <1>3, <2>1, <2>3, <2>4 DEF Fetched
<1>4. QED
  BY <1>2, <1>3

LEMMA FetchedStep ==
  ASSUME DeviceInv, Fetched, [Next]_vars
  PROVE  Fetched'
<1> SUFFICES ASSUME task' = "open"
             PROVE  Fetched'
  BY DEF Fetched
<1>0. /\ size \in Nat /\ Limit \in Nat /\ block \in Nat /\ Blocks \subseteq Nat
      /\ page \in PageIds /\ PageIds \subseteq Nat /\ Pages \in Nat /\ TypeOK
  BY HeldBounds DEF DeviceInv, TypeOK, Blocks, PageIds
<1>1. CASE OpenDevice
  <2>1. block' = 0 /\ page' = 0 /\ Blocks' \subseteq Nat
    BY <1>0, <1>1 DEF OpenDevice, Goto, chip, Blocks
  <2>2. QED
    BY <2>1 DEF Fetched, PageIds
<1>2. CASE task = "open" /\ UNCHANGED <<size, worn, image, block, page>> /\ flash' = flash
  BY <1>2 DEF Fetched, Blocks
<1>3. CASE ReadDone
  <2>1. /\ Blocks' = Blocks /\ Limit \in Nat /\ UNCHANGED <<worn, flash>>
        /\ \A b \in Blocks \ worn : b < Limit =>
             /\ b < block => image'[b] = flash[b]
             /\ b = block => \A p \in PageIds : p <= page => image'[b][p] = flash[b][p]
    BY <1>0, <1>3, PageFetched DEF Blocks
  <2>2. AfterPage("open")
    BY <1>3 DEF ReadDone, Goto
  <2>3. CASE page + 1 < Pages
    <3>1. block' = block /\ page' = page + 1
      BY <2>2, <2>3 DEF AfterPage, Goto
    <3>2. \A p \in PageIds : p < page + 1 => p <= page
      BY <1>0
    <3>3. QED
      BY <2>1, <3>1, <3>2 DEF Fetched
  <2>4. CASE ~ (page + 1 < Pages)
    <3>1. block' = block + 1 /\ page' = 0
      BY <2>2, <2>4 DEF AfterPage, Goto
    <3>2. \A p \in PageIds : p <= page /\ ~ (p < 0)
      BY <1>0, <2>4 DEF PageIds
    <3>3. ASSUME NEW b \in Blocks \ worn, b < Limit, b <= block
          PROVE  image'[b] = flash[b]
      <4>1. CASE b = block
        <5>1. \A p \in PageIds : image'[b][p] = flash[b][p]
          BY <2>1, <3>2, <3>3, <4>1
        <5>2. image'[b] \in [PageIds -> Contents] /\ flash[b] \in [PageIds -> Contents]
          <6>1. TypeOK'
            BY TypeStep DEF DeviceInv, Progress
          <6>2. b \in 0..Limit-1
            BY <1>0, <3>3
          <6>3. QED
            BY <1>0, <6>1, <6>2 DEF TypeOK
        <5>3. QED
          BY <5>1, <5>2
      <4>2. CASE b # block
        <5>1. b < block
          BY <1>0, <3>3, <4>2
        <5>2. QED
          BY <2>1, <3>3, <5>1
      <4>3. QED
        BY <4>1, <4>2
    <3>4. \A b \in Blocks : b < block + 1 => b <= block
      BY <1>0
    <3>5. QED
      BY <2>1, <3>1, <3>2, <3>3, <3>4 DEF Fetched
  <2>5. QED
    BY <2>3, <2>4
<1>4. CASE Finish \/ PowerCut
  BY <1>0, <1>2, <1>4, ReadingKeepsFlash DEF Finish, PowerCut, program
<1>5. CASE ReadCommand
  BY <1>2, <1>5 DEF ReadCommand
<1>6. CASE SaveDevice \/ Edit \/ WriteCommand \/ EraseDone
  BY <1>6 DEF SaveDevice, Edit, WriteCommand, EraseDone, Goto
<1>7. CASE WriteDone
  BY <1>7, Zenon DEF WriteDone, NextPage, Goto
<1>8. CASE UNCHANGED vars
  BY <1>2, <1>8 DEF vars, chip, program
<1>9. QED
  BY <1>1, <1>3, <1>4, <1>5, <1>6, <1>7, <1>8 DEF Next, Step

\* OpenDevice leaves the flash in the buffer, block by block and page by page, but for
\* worn blocks and what does not fit (OpenedWhole).
THEOREM OpeningReadsAll == Spec => OpenedWhole
<1> DEFINE Opened == loaded' /\ ~ loaded =>
                       /\ \A b \in Blocks \ worn : b < Limit => image'[b] = flash[b]
                       /\ size <= Limit => ~ overrun'
<1>1. DeviceInv /\ Fetched /\ [Next]_vars => [Opened]_vars
  <2> SUFFICES ASSUME DeviceInv, Fetched, Next, loaded', ~ loaded
               PROVE  Opened
    BY DEF vars, program
  <2>1. ReadDone /\ block + 1 = size /\ page + 1 = Pages
    <3>1. ~ (OpenDevice \/ SaveDevice \/ Edit \/ ReadCommand \/ WriteCommand \/ EraseDone
              \/ WriteDone \/ Finish \/ PowerCut)
      BY DEF OpenDevice, SaveDevice, Edit, ReadCommand, WriteCommand, EraseDone, WriteDone,
             Finish, PowerCut, program
    <3>2. ReadDone
      BY <3>1 DEF Next, Step
    <3>3. QED
      BY <3>2 DEF ReadDone
  <2>2. /\ size \in Nat /\ Limit \in Nat /\ block \in Nat /\ Blocks \subseteq Nat
        /\ PageIds \subseteq Nat /\ page \in PageIds /\ Pages \in Nat /\ TypeOK
    BY HeldBounds DEF DeviceInv, TypeOK, Blocks, PageIds
  <2>3. \A p \in PageIds : p <= page
    BY <2>1, <2>2 DEF PageIds
  <2>4. ASSUME NEW b \in Blocks \ worn, b < Limit
        PROVE  image'[b] = flash[b]
    <3>1. /\ b < block => image'[b] = flash[b]
          /\ b = block => \A p \in PageIds : p <= page => image'[b][p] = flash[b][p]
      BY <2>1, <2>2, <2>4, PageFetched
    <3>2. b <= block
      BY <2>1, <2>2 DEF Blocks
    <3>3. CASE b = block
      <4>1. \A p \in PageIds : image'[b][p] = flash[b][p]
        BY <2>3, <3>1, <3>3
      <4>2. image'[b] \in [PageIds -> Contents] /\ flash[b] \in [PageIds -> Contents]
        <5>1. TypeOK'
          BY TypeStep DEF DeviceInv, Progress
        <5>2. b \in 0..Limit-1
          BY <2>2, <2>4
        <5>3. QED
          BY <2>2, <5>1, <5>2 DEF TypeOK
      <4>3. QED
        BY <4>1, <4>2
    <3>4. QED
      BY <2>2, <3>1, <3>2, <3>3
  <2>5. size <= Limit => ~ overrun'
    <3>1. size <= Limit => ~ (block >= Limit)
      BY <2>1, <2>2
    <3>2. overrun' = (block >= Limit)
      BY <2>1 DEF ReadDone
    <3>3. QED
      BY <3>1, <3>2, Zenon
  <2>6. QED
    BY <2>4, <2>5
<1>2. Init => Fetched
  BY DEF Init, Fetched
<1>3. DeviceInv /\ Fetched /\ [Next]_vars => Fetched'
  BY FetchedStep
<1>4. QED
  BY <1>1, <1>2, <1>3, DeviceInvariant, PTL DEF Spec, OpenedWhole

\* When SaveDevice is done the flash holds the image as far as the image goes, but for
\* worn blocks: what CallsEnd says of its end.
THEOREM SavingWritesAll ==
  Spec => [][task' = "none" /\ task \in {"erase", "write"} =>
               \A b \in Blocks \ worn : b < Held => flash'[b] = image'[b]]_vars
<1> DEFINE Saved == task' = "none" /\ task \in {"erase", "write"} =>
                      \A b \in Blocks \ worn : b < Held => flash'[b] = image'[b]
<1>1. DeviceInv /\ [Next]_vars => [Saved]_vars
  <2> SUFFICES ASSUME DeviceInv, Next, task \in {"erase", "write"}, task' = "none",
                      NEW b \in Blocks \ worn, b < Held
               PROVE  flash'[b] = image'[b]
    OBVIOUS
  <2>0. /\ size \in Nat /\ Limit \in Nat /\ block \in Nat /\ b \in Nat /\ Held \in Nat
        /\ Pages \in Nat /\ Held <= size /\ Held <= Limit
    BY HeldBounds DEF DeviceInv, TypeOK, Blocks
  <2>1. WriteDone
    BY DEF Next, Step, OpenDevice, SaveDevice, Edit, ReadCommand, ReadDone, WriteCommand,
           EraseDone, Finish, PowerCut, program, Goto
  <2>2. /\ task = "write" /\ power /\ Ended /\ UNCHANGED <<flash, image>>
    BY <2>1 DEF WriteDone, chip, Ended
  <2>3. page + 1 = Pages /\ block + 1 = Held
    BY <2>1, Zenon DEF WriteDone, NextPage, Goto
  <2>4. CASE b < block
    BY <2>2, <2>4 DEF DeviceInv, Progress, Behind
  <2>5. CASE b = block
    <3>1. \A p \in PageIds : p = page \/ p < page
      BY <2>0, <2>3 DEF DeviceInv, TypeOK, PageIds
    <3>2. \A p \in PageIds : flash[b][p] = image[b][p]
      BY <2>2, <2>5, <3>1 DEF DeviceInv, Progress, Within
    <3>3. flash[b] \in [PageIds -> Contents] /\ image[b] \in [PageIds -> Contents]
      BY <2>0 DEF DeviceInv, TypeOK, Blocks
    <3>4. QED
      BY <2>2, <3>2, <3>3
  <2>6. QED
    BY <2>0, <2>3, <2>4, <2>5
<1>2. QED
  BY <1>1, DeviceInvariant, PTL DEF Spec
=============================================================================
