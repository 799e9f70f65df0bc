----------------------------- MODULE FlatStore -----------------------------
(***************************************************************************)
(* What the layers above the block driver take it for: a flat array of     *)
(* bytes.  A Put changes nothing outside its range and stores its data,    *)
(* whole if the range lies in one page or is at least a page long; of a    *)
(* shorter range that runs into the next page only the part in its first   *)
(* page is certain.                                                        *)
(***************************************************************************)
EXTENDS Integers, Sequences

CONSTANTS Size,       \* bytes of the array
          PageData,   \* bytes of a page
          Byte,
          Strings     \* what a caller may put

VARIABLE bytes

Addresses == 0..(Size - 1)

FlatInit == bytes \in [Addresses -> Byte]

Format == bytes' = [a \in Addresses |-> 0]

Certain(off, d, a) ==
  a \in off..(off + Len(d) - 1) /\ (Len(d) >= PageData \/ a \div PageData = off \div PageData)

Put(off, d) ==
  /\ bytes' \in [Addresses -> Byte]
  /\ \A a \in Addresses :
       /\ Certain(off, d, a) => bytes'[a] = d[a - off + 1]
       /\ a \notin off..(off + Len(d) - 1) => bytes'[a] = bytes[a]

FlatNext == Format \/ \E off \in Addresses, d \in Strings : Put(off, d)

FlatSpec == FlatInit /\ [][FlatNext]_bytes
=============================================================================
