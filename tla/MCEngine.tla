------------------------------ MODULE MCEngine ------------------------------
(* Values of Engine's constants for TLC.                                   *)
EXTENDS Engine

CONSTANTS note, def, asset, dir

OneUnder == [d \in {dir} |-> {note, def}]

\* Only the note is there at first.
NewDef == [f \in Files |-> IF f = note THEN "c1" ELSE "absent"]
=============================================================================
