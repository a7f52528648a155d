--------------------------- MODULE MCPhoneProcess ---------------------------
(***************************************************************************)
(* Values of the constants of PhoneProcess for TLC.                        *)
(***************************************************************************)
EXTENDS PhoneProcess

MCRemote == {"r"}
=============================================================================
