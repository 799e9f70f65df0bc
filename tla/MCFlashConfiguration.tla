------------------------ MODULE MCFlashConfiguration ------------------------
(***************************************************************************)
(* An instance of FlashConfiguration for TLC.  The versions use one byte,  *)
(* three and four; the counts are the least, one in between and the        *)
(* largest.  Words, lengths and limits are the code's own: every console   *)
(* the comments of OpenContinue name, with a 16MB dump cut short.          *)
(***************************************************************************)
EXTENDS FlashConfiguration

MCVersions    == {1, 65535, 2130771713}
MCMobileTypes == {49}
MCCounts      == {1, 32}
MCCodes       == {<<0, 0>>, <<3, 255>>}

Described(len, page, w) == [length |-> len, pageLength |-> page, word |-> w]

MCDescriptions ==
  { Described(17301504, 528, 18448400), Described(17301504, 528, 143376),
    Described(17284608, 528, 143376), Described(69206016, 528, 18448432),
    Described(69206016, 528, 274448),   Described(69206016, 528, 11153440),
    Described(50331648, 512, 393216) }

MCDumps ==
  { [length |-> 17301504, type |-> 0], [length |-> 17301504, type |-> 1],
    [length |-> 17000000, type |-> 0], [length |-> 69206016, type |-> 0],
    [length |-> 69206016, type |-> 1], [length |-> 69206016, type |-> 2],
    [length |-> 553648128, type |-> 2] }

MCChipWords ==
  { 18448400, 18448432, 143376, 274432, 274448, 11153440, 9056288 }

MCFileLimit   == 184549376
MCDeviceLimit == 69206016

\* These are images and chips the theorems on reopening speak of.
ASSUME ConsistentAssumption == Consistent
=============================================================================
