------------------------- MODULE MCFlashBlockDriver -------------------------
(***************************************************************************)
(* Instances of FlashBlockDriver for TLC: two pages of four bytes of data, *)
(* with or without a spare byte.  A transfer of three bytes is short for   *)
(* the loop and can still run over the spare byte into the next page.      *)
(***************************************************************************)
EXTENDS FlashBlockDriver, FiniteSets

MCByte     == {0, 1}
MCSpares   == [InSpare -> {1}]
MCNewSpare == [j \in InSpare |-> 1]

\* A parity stands for the error code.
MCEDC == [w \in [0..(Stride - 2) -> MCByte] |->
            Cardinality({j \in DOMAIN w : w[j] = 1}) % 2]

MCStrings == {<<1, 0, 1>>, <<0, 1, 1, 0>>, <<1, 1, 0, 1, 0, 0>>}
MCFiles   == {[x \in Cells |-> 0], [x \in Cells |-> IF x % 2 = 0 THEN 1 ELSE 0]}
=============================================================================
