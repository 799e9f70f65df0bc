---------------------------- MODULE MCSpareArea ----------------------------
(***************************************************************************)
(* An instance of SpareArea for TLC.  The versions use one byte, three and *)
(* four; the counts are the least, one in between and the largest.         *)
(***************************************************************************)
EXTENDS SpareArea

MCVersions    == {1, 65535, 2130771713}
MCMobileTypes == {49, 57}
MCCounts      == {1, 20, 32}
MCCodes       == {<<0, 0>>, <<3, 255>>}
=============================================================================
