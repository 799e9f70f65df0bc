---------------------------- MODULE CommandLine ----------------------------
(***************************************************************************)
(* The options of RGBuildPP.cpp: what main makes of its arguments.  "/c"   *)
(* does not step over its path, which is then an image path as well, and   *)
(* after it "/e" is no option.                                             *)
(***************************************************************************)
EXTENDS Integers, Sequences, SequencesExt

\* MainContinue's variables, with the zeros that a config.ini without keys leaves.
Defaults ==
  [image |-> "", create |-> FALSE, ini |-> "", extract |-> FALSE, path |-> "",
   cpu |-> "zero", bl |-> "zero", strip |-> FALSE, rc4 |-> FALSE, skip |-> 0]

\* argv[i], which is null behind the last argument.
Arg(args, i) == IF i <= Len(args) THEN args[i] ELSE ""

\* One turn of the loop over the arguments.
Option(o, args, i) ==
  LET word == args[i]
      next == Arg(args, i + 1)
  IN  CASE o.skip > 0    -> [o EXCEPT !.skip = @ - 1]
        [] o.skip = 0 /\ word = "/v"   -> o
        [] o.skip = 0 /\ word = "/rc4" -> [o EXCEPT !.rc4 = TRUE, !.skip = 2]
        [] o.skip = 0 /\ word = "/s"   -> [o EXCEPT !.strip = TRUE]
        [] o.skip = 0 /\ word = "/c"   ->
             [o EXCEPT !.create = TRUE, !.ini = next, !.extract = FALSE]
        [] o.skip = 0 /\ word = "/e" /\ ~ o.create ->
             [o EXCEPT !.extract = TRUE, !.path = next, !.skip = 1]
        [] o.skip = 0 /\ word = "/cpu" -> [o EXCEPT !.cpu = next, !.skip = 1]
        [] o.skip = 0 /\ word = "/1bl" -> [o EXCEPT !.bl = next, !.skip = 1]
        [] OTHER -> [o EXCEPT !.image = word]

Parse(args) ==
  FoldLeft(LAMBDA o, i : Option(o, args, i), Defaults, [i \in 1..Len(args) |-> i])

\* What MainContinue then does with the image, if anything: rc4 mode goes on to
\* load or create it, strip mode returns.
Loads(o)   == o.image # "" /\ ~ o.strip /\ ~ o.create
Creates(o) == o.image # "" /\ ~ o.strip /\ o.create
=============================================================================
