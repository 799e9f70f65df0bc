---------------------------- MODULE SpareRecord ----------------------------
(***************************************************************************)
(* The spare bytes of a page as their users see them: a record of fields   *)
(* that do not depend on each other.  Each keeps as much of a value as it  *)
(* has room for; a capacity of 0 stands for room for every value.          *)
(***************************************************************************)
EXTENDS Naturals

CONSTANTS Fields,
          Updates    \* what callers store at once: values of some of the fields

VARIABLES fields,    \* the value of each field
          capacity   \* how many values a field can tell apart

Fits(f, v) == IF capacity[f] = 0 THEN v ELSE v % capacity[f]

Update(new) ==
  /\ fields' = [f \in Fields |-> IF f \in DOMAIN new THEN Fits(f, new[f]) ELSE fields[f]]
  /\ UNCHANGED capacity

RecordInit == fields \in [Fields -> Nat] /\ capacity \in [Fields -> Nat]
RecordNext == \E new \in Updates : Update(new)

RecordSpec == RecordInit /\ [][RecordNext]_<<fields, capacity>>
=============================================================================
