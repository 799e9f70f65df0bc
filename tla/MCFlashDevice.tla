---------------------------- MODULE MCFlashDevice ----------------------------
(***************************************************************************)
(* An instance of FlashDevice for TLC: a flash that fits the buffer and    *)
(* one that does not.                                                      *)
(***************************************************************************)
EXTENDS FlashDevice

MCSizes == {2, 3}
=============================================================================
