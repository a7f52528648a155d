------------------------------- MODULE MCHunt -------------------------------
(***************************************************************************)
(* Values of the constants of Hunt for TLC.                                *)
(***************************************************************************)
EXTENDS Hunt

MCOrder == <<"EASY", "MEDIUM">>
MCPictures == [d \in {"EASY", "MEDIUM"} |-> IF d = "EASY" THEN {1} ELSE {1, 2}]
=============================================================================
