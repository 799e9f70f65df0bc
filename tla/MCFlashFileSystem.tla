------------------------- MODULE MCFlashFileSystem -------------------------
(***************************************************************************)
(* Instances of FlashFileSystem small enough for TLC: a map of six         *)
(* blocks with the root in the middle, so that first-fit allocation goes   *)
(* round it, and payloads of no, one, two and three blocks.                *)
(***************************************************************************)
EXTENDS FlashFileSystem

CONSTANTS a, long, d0, d1, d2, d3

MCNames  == {a, long}
MCStored == [n \in MCNames |-> IF n = long THEN NoName ELSE n]
MCSystem == {0}

MCData   == {d1, d2, d3}
MCBlocks == [d \in MCData |-> CASE d = d1 -> 1 [] d = d2 -> 2 [] d = d3 -> 3]

LimitData   == MCData \cup {d0}
LimitBlocks == [d \in LimitData |-> IF d = d0 THEN 0 ELSE MCBlocks[d]]
=============================================================================
