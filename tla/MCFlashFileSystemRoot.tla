----------------------- MODULE MCFlashFileSystemRoot -----------------------
(***************************************************************************)
(* An instance of FlashFileSystemRoot for TLC: five blocks, of which three *)
(* are left for files, and two slots, so that a load can hide a file and   *)
(* a later addition can take its slot.                                     *)
(***************************************************************************)
EXTENDS FlashFileSystemRoot

CONSTANTS a, other, d1, d2

MCNames  == {a, other}
MCStored == [n \in MCNames |-> n]
MCSystem == {0}
MCData   == {d1, d2}
MCBlocks == [d \in MCData |-> IF d = d1 THEN 1 ELSE 2]
=============================================================================
