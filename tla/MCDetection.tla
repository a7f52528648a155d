---------------------------- MODULE MCDetection ----------------------------
(***************************************************************************)
(* Values of the constants of Detection for TLC.                           *)
(***************************************************************************)
EXTENDS Detection, TLC

CONSTANTS p1, p2, d1, d2, b1, b2

MCPhones == {p1, p2}
MCChecks == (p1 :> 1) @@ (p2 :> 1)
MCPoolSizes == {1, 2}
MCDetectors == {d1, d2}
MCServerDetectors == {d1}
MCBoards == {b1, b2}
MCFiles == (b1 :> {d1}) @@ (b2 :> {d2})
MCSeen == {<<p1, 1>>}
MCBuffered == {p1}
=============================================================================
