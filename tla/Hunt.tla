-------------------------------- MODULE Hunt --------------------------------
(***************************************************************************)
(* What a hunt needs on one phone: the dictionary that offers pictures and *)
(* the camera.  They share no state: the choice activity starts the camera *)
(* activity and gets its result.  Behaviours of the one are therefore      *)
(* checked with the other at rest.                                         *)
(***************************************************************************)
EXTENDS CameraProcessor, PictureHunt

VARIABLE studied   (* the part that moves: camera or dictionary             *)

vars == <<cameraVars, huntVars, studied>>

Init == CameraInit /\ HuntInit /\ studied \in {"camera", "dictionary"}

Next ==
  \/ studied = "camera" /\ CameraStep /\ UNCHANGED <<huntVars, studied>>
  \/ studied = "dictionary" /\ HuntStep /\ UNCHANGED <<cameraVars, studied>>

-----------------------------------------------------------------------------
(* Fairness: the camera answers what it is asked unless it is lost, the    *)
(* handler's thread runs, and so does the interface's when it can have the *)
(* semaphore.  A player need not do anything.                              *)
Answers == crash = "none" /\ Service /\ losses' = losses

Returns ==
  /\ crash = "none"
  /\ \/ LockToOpen \/ LockToStop \/ Joined
     \/ \E what \in {"focus", "capture"} : LockToShoot(what) \/ ShootInVain(what)

Others == UNCHANGED <<huntVars, studied>>

Fairness ==
  /\ WF_vars(Answers /\ Others) /\ WF_vars(Returns /\ Others)
  /\ WF_vars(crash = "none" /\ Handler /\ Others)

Spec == Init /\ [][Next]_vars /\ Fairness

-----------------------------------------------------------------------------
(* Properties of the camera *)

TypeOK ==
  /\ ui \in {"free", "open", "surface", "focus", "capture", "stop", "join", "drop"}
  /\ handler \in {"none", "alive", "quit"}
  /\ permits \in Nat /\ ops \in 0..MaxOps
  /\ owes \subseteq 1..ops /\ slips \subseteq 1..ops
  /\ device \in [state : {"closed", "opening", "open", "lost"}, op : 0..ops]
  /\ camera \in 0..ops /\ session \in 0..ops
  /\ tag \in {"none", "preview", "focus"}
  /\ losses \in 0..MaxLosses
  /\ turn \in DOMAIN Order /\ hunted \in {0} \cup DOMAIN Order
  /\ \A d \in Difficulty : Found(d) \subseteq Pictures[d]

(* What the semaphore is for: opening, a focus, a capture and stop do not  *)
(* overlap, as long as no permit was given back twice, or before the last  *)
(* callback of its operation.                                              *)
InProgress ==
  OpsOf(posts, {"opened", "done", "failed"})
  \cup {k \in {device.op} : device.state = "opening"}
  \cup {k \in {current.op} : current.what = "done"}
  \cup {k \in {ops} : ui = "join"}

Exclusive == slips = {} => Cardinality(InProgress) <= 1

(* The question of CameraProcessor.java:485, why captureSession is         *)
(* sometimes null: a callback of a capture finds no session only when a    *)
(* permit too many let stop in before it.                                  *)
CaptureCallback ==
  \/ current.what = "done"
  \/ posts # <<>> /\ Head(posts).what = "done" /\ Head(posts).tag # "preview"

NullSessionExplained == CaptureCallback /\ session = 0 => slips # {}

(* A null session or reader ends the application only after a permit too   *)
(* many, a session of another camera only when it was configured after its *)
(* camera was closed, or when the camera was lost.                         *)
CrashExplained ==
  /\ crash \in {"focus", "capture", "reader"} => slips # {}
  /\ crash = "stale" => late \/ losses > 0

(* The camera is free for others once the activity is paused, unless a     *)
(* permit too many let stop in before onOpened.                            *)
PauseReleasesCamera ==
  screen = "paused" /\ ui = "free" /\ device.state \in {"opening", "open"} => slips # {}

(* The interface's thread does not wait for ever for the semaphore or for  *)
(* the handler, except after openCamera has thrown with the semaphore      *)
(* taken, which nothing gives back.                                        *)
InterfaceReturns == (ui # "free") ~> (ui = "free" \/ thrown \/ crash # "none")

-----------------------------------------------------------------------------
(* Properties of the dictionary *)

(* The player's thread never draws from an empty list, whatever the room's *)
(* thread does to the dictionary at the same time; the room's thread does  *)
(* only if a picture was found meanwhile.                                  *)
DrawExplained == failed # "player" /\ (failed = "room" => raced)

(* No picture is offered that has been found since the list was cleared.   *)
OfferedNew ==
  pc["player"] = "idle" /\ hunted = 0 /\ failed = "none" =>
    \A d \in Difficulty : offered[d] \in Pictures[d] \ Found(d)

(* What was found is forgotten only when all has been found, or when the   *)
(* room's thread clears a list that has been cleared and used since it     *)
(* compared the sizes.                                                     *)
ForgottenWhenAllFound ==
  [][\A d \in Difficulty :
       validated'[d] = <<>> /\ validated[d] # <<>> =>
         Found(d) = Pictures[d] \/ (d = Medium /\ raced)]_vars
=============================================================================
