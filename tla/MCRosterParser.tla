--------------------------- MODULE MCRosterParser ---------------------------
(***************************************************************************)
(* RosterParser on an int64 of three bits: -4 .. 3.                        *)
(***************************************************************************)
EXTENDS RosterParser

MCNames ==
    {[who |-> "ann", caps |-> c, mark |-> FALSE] : c \in BOOLEAN}
    \cup {[who |-> w, caps |-> FALSE, mark |-> m] : w \in {"bob", Nobody}, m \in BOOLEAN}

\* Counts below the width, negative, in range, and above the width.
MCLines ==
    [name : MCNames, tabbed : BOOLEAN, counted : {TRUE}, count : {-6, -1, 2, 3, 7}]
    \cup [name : MCNames, tabbed : BOOLEAN, counted : {FALSE}, count : {0}]
=============================================================================
