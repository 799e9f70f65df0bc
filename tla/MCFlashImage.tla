---------------------------- MODULE MCFlashImage ----------------------------
(***************************************************************************)
(* An instance of FlashImage for TLC: seven blocks, of which five are left *)
(* for files and payloads, room for three files, of which two are update   *)
(* files, and rests of a 7BL that need one to three blocks.  The map has a *)
(* word to spare; payloads lie on it, over its end and behind it, one has  *)
(* nothing in it and one a name of which the header does not hold two.     *)
(* Consoles have up to three file systems and four mobile pages, one more  *)
(* of each than there are places for.                                      *)
(***************************************************************************)
EXTENDS FlashImage

CONSTANTS update1, update2, other, r1, r2, r3, j1, j2, j3

MCNames   == {update1, update2, other}
MCStored  == [n \in MCNames |-> n]
MCSystem  == {0}
MCRests   == {r1, r2, r3}
MCData    == MCRests \cup {j1, j2, j3}
MCBlocks  == [d \in MCData |-> IF d \in {r1, j1} THEN 1 ELSE IF d \in {r2, j2} THEN 2 ELSE 3]
MCJunk    == [r \in MCRests |-> IF r = r1 THEN j1 ELSE IF r = r2 THEN j2 ELSE j3]
MCUpdate  == <<update1, update2>>

MCPayloads ==
  LET laid(at, blocks, desc) == [at |-> at, blocks |-> blocks, desc |-> desc]
  IN  {laid(b, 1, 10) : b \in 0..6} \cup {laid(b, 2, 10) : b \in 1..7}
        \cup {laid(4, 0, 10), laid(5, 1, 200)}

MCVersions ==
  {v \in [0..6 -> {0, 3, 4, 5}] : \A b \in {0, 1, 5, 6} : v[b] = 0}
MCMobile  == [type : {"B", "C"}, seq : 0..2, pages : {1, 32}]
               \cup [type : {"B", "C"}, seq : {1}, pages : {2}]
MCMobiles ==
  {<<>>} \cup {<<m>> : m \in MCMobile} \cup {<<m, n>> : m \in MCMobile, n \in MCMobile}
MCConsoles == [tags : MCVersions, mobiles : MCMobiles]
=============================================================================
