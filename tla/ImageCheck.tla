----------------------------- MODULE ImageCheck -----------------------------
(***************************************************************************)
(* What ObjectDetector.checkForObjects promises to the camera, wherever    *)
(* the picture is examined: one answer per check, about the picture of     *)
(* that check, and -1 only for a detector that the server or the phone     *)
(* does not have.                                                          *)
(***************************************************************************)
EXTENDS Integers

CONSTANTS Phones, Detectors, ServerDetectors, None

VARIABLES
  asked,   (* asked[p]: the picture under examination, or None              *)
  answer,  (* answer[p]: the last answer, None while there is none          *)
  loaded   (* the detectors of the phone                                    *)

vars == <<asked, answer, loaded>>

Init ==
  /\ asked = [p \in Phones |-> None]
  /\ answer = [p \in Phones |-> None]
  /\ loaded \in [Phones -> SUBSET Detectors]

Ask(p) ==
  /\ asked[p] = None
  /\ \E d \in Detectors, s \in BOOLEAN :
       asked' = [asked EXCEPT ![p] = [detector |-> d, seen |-> s]]
  /\ answer' = [answer EXCEPT ![p] = None]
  /\ UNCHANGED loaded

Verdict(p) == IF asked[p].seen THEN 1 ELSE 0

Unknown(p) == asked[p].detector \notin ServerDetectors \cap loaded[p]

Reply(p) ==
  /\ asked[p] # None
  /\ \E a \in {Verdict(p)} \cup (IF Unknown(p) THEN {-1} ELSE {}) :
       answer' = [answer EXCEPT ![p] = a]
  /\ asked' = [asked EXCEPT ![p] = None]
  /\ UNCHANGED loaded

(* Other detectors are loaded, never during a check.                       *)
Load(p) ==
  /\ asked[p] = None
  /\ \E l \in SUBSET Detectors : loaded' = [loaded EXCEPT ![p] = l]
  /\ UNCHANGED <<asked, answer>>

(* The application ends without an answer.                                 *)
Abandon(p) ==
  /\ asked[p] # None
  /\ asked' = [asked EXCEPT ![p] = None]
  /\ \E l \in SUBSET Detectors : loaded' = [loaded EXCEPT ![p] = l]
  /\ UNCHANGED answer

Next == \E p \in Phones : Ask(p) \/ Reply(p) \/ Load(p) \/ Abandon(p)

Spec == Init /\ [][Next]_vars
=============================================================================
