--------------------------- MODULE CameraProcessor ---------------------------
(***************************************************************************)
(* camera/CameraProcessor.java: the user interface's thread opens, uses    *)
(* and closes the camera; a handler thread runs the camera's callbacks; a  *)
(* semaphore of one permit is taken by the first and given back, for the   *)
(* most part, by the second.                                               *)
(*                                                                         *)
(* Every acquisition of the semaphore begins an operation, a number.  The  *)
(* camera service is not in the repository: a device is opened or refused, *)
(* can be lost, answers captures in order, and posts its callbacks to the  *)
(* handler, which drops them once it has been told to quit.                *)
(***************************************************************************)
EXTENDS Integers, Sequences, FiniteSets

CONSTANTS
  MaxOps,     (* how many operations there are                              *)
  MaxLosses   (* how often the camera is lost                               *)

ASSUME CameraAssumption == MaxOps \in Nat /\ MaxLosses \in Nat

VARIABLES
  ui,       (* what the user interface's thread waits for; free             *)
  screen,   (* the activity is resumed or paused                            *)
  surface,  (* the texture of the view is available                         *)
  handler,  (* none, alive, quit (it only runs what is already posted)      *)
  posts,    (* the callbacks posted to the handler                          *)
  current,  (* the callback the handler's thread is in the middle of        *)
  permits,  (* of cameraOpenCloseLock                                       *)
  ops,      (* the number of operations so far                              *)
  owes,     (* the operations that have not given their permit back         *)
  slips,    (* those that gave it back twice, or before their last callback *)
  device,   (* the camera: its state, and the operation that opened it      *)
  camera,   (* the field camera: an operation, 0 for null                   *)
  session,  (* the field captureSession: the operation of its device        *)
  reader,   (* the field imageReader is not null                            *)
  tag,      (* the tag of requestBuilder                                    *)
  shots,    (* the captures the camera has not answered                     *)
  late,     (* a session was kept after its device was closed               *)
  thrown,   (* openCamera of the camera service has thrown                  *)
  losses,
  crash     (* what an exception that nothing catches was about             *)

lock == <<permits, ops, owes, slips>>
fields == <<camera, session, reader, tag>>
service == <<device, shots, losses>>
thread == <<handler, posts, current>>
history == <<late, thrown>>
cameraVars == <<ui, screen, surface, thread, lock, fields, service, history, crash>>

Nothing == [what |-> "none", op |-> 0, tag |-> "none"]

Callback(what, op, t) == [what |-> what, op |-> op, tag |-> t]

Image == Callback("image", 0, "none")

CameraInit ==
  /\ ui = "free" /\ screen = "paused" /\ surface = FALSE
  /\ handler = "none" /\ posts = <<>> /\ current = Nothing
  /\ permits = 1 /\ ops = 0 /\ owes = {} /\ slips = {}
  /\ device = [state |-> "closed", op |-> 0]
  /\ camera = 0 /\ session = 0 /\ reader = FALSE /\ tag = "none"
  /\ shots = <<>> /\ losses = 0
  /\ late = FALSE /\ thrown = FALSE /\ crash = "none"

-----------------------------------------------------------------------------
(* The semaphore *)

Acquire(k) ==
  /\ permits > 0
  /\ permits' = permits - 1
  /\ ops' = k /\ owes' = owes \cup {k}
  /\ UNCHANGED slips

(* The operations that callbacks of these kinds belong to, the captures    *)
(* that are not answered yet included.                                     *)
OpsOf(queue, kinds) ==
  {queue[i].op : i \in {j \in DOMAIN queue : queue[j].what \in kinds}}
  \cup {shots[i].op : i \in DOMAIN shots}

Pending(queue) == OpsOf(queue, {"opened", "disconnected", "done", "failed"})

Release(k, queue) ==
  /\ permits' = permits + 1
  /\ owes' = owes \ {k}
  /\ slips' = IF k \in owes \ Pending(queue) THEN slips ELSE slips \cup {k}
  /\ UNCHANGED ops

(* An operation that fails at once gives its permit back at once.          *)
AcquireInVain(k) ==
  /\ permits > 0 /\ ops' = k
  /\ UNCHANGED <<permits, owes, slips>>

Live(k) == device = [state |-> "open", op |-> k]

Crash(about) == crash' = about

-----------------------------------------------------------------------------
(* The activity: start, stop and what the player does                      *)

(* openCamera up to its lock: no camera, no permission, or an exception,   *)
(* which start catches, and of which onSurfaceTextureAvailable makes the   *)
(* end of the handler.                                                     *)
Fail(from) ==
  IF from = "surface" THEN ui' = "drop" /\ handler' = "quit"
  ELSE ui' = "free" /\ handler' = "alive"

(* Bug: setupImageReader is never called.                                  *)
OpenWithoutReader(from) ==
  /\ ui' = from /\ handler' = "alive"
  /\ UNCHANGED reader

OpenCamera(from) ==
  \/ ui' = from /\ handler' = "alive" /\ reader' = TRUE
  \/ ui' = "free" /\ handler' = "alive" /\ reader' \in {reader, TRUE}
  \/ Fail(from) /\ UNCHANGED reader

Resume ==
  /\ ui = "free" /\ screen = "paused" /\ ops < MaxOps
  /\ screen' = "resumed"
  /\ \/ surface' = TRUE /\ OpenCamera("open")
     \/ surface' = FALSE /\ ui' = "free" /\ handler' = "alive" /\ UNCHANGED reader
  /\ UNCHANGED <<posts, current, lock, camera, session, tag, service, history, crash>>

SurfaceAvailable ==
  /\ ui = "free" /\ screen = "resumed" /\ ~surface /\ ops < MaxOps
  /\ surface' = TRUE
  /\ OpenCamera("surface")
  /\ UNCHANGED <<screen, posts, current, lock, camera, session, tag, service,
                 history, crash>>

LockToOpen ==
  /\ ui \in {"open", "surface"}
  /\ Acquire(ops + 1)
  /\ \/ /\ device.state = "closed"
        /\ device' = [state |-> "opening", op |-> ops + 1]
        /\ ui' = "free" /\ UNCHANGED <<handler, thrown>>
     \/ Fail(ui) /\ thrown' = TRUE /\ UNCHANGED device
  /\ UNCHANGED <<screen, surface, posts, current, fields, shots, losses, late, crash>>

(* focusOnPoint and captureImage do nothing without a session.             *)
Tap(what) ==
  /\ ui = "free" /\ screen = "resumed" /\ session # 0 /\ ops < MaxOps
  /\ ui' = what
  /\ UNCHANGED <<screen, surface, thread, lock, fields, service, history, crash>>

Asks(what, k) ==
  IF what = "focus" THEN <<Callback("done", k, tag), Callback("done", k, "focus")>>
  ELSE <<Callback("done", k, "still")>>

(* Bug: captureImage and focusOnPoint do not lock.                         *)
ShootUnlocked(what) ==
  /\ ui = what /\ Live(session)
  /\ ops' = ops + 1
  /\ shots' = shots \o Asks(what, ops + 1)
  /\ ui' = "free"
  /\ UNCHANGED <<screen, surface, thread, permits, owes, slips, fields, device,
                 losses, history, crash>>

LockToShoot(what) ==
  /\ ui = what /\ Live(session)
  /\ Acquire(ops + 1)
  /\ shots' = shots \o Asks(what, ops + 1)
  /\ tag' = IF what = "focus" THEN "focus" ELSE tag
  /\ ui' = "free"
  /\ UNCHANGED <<screen, surface, thread, camera, session, reader, device, losses,
                 history, crash>>

(* The session of a camera that is closed or lost: CameraAccessException   *)
(* is caught, IllegalStateException is not.                                *)
ShootInVain(what) ==
  /\ ui = what /\ ~Live(session)
  /\ AcquireInVain(ops + 1)
  /\ ui' = "free"
  /\ crash' \in {crash, "stale"}
  /\ UNCHANGED <<screen, surface, thread, fields, service, history>>

Pause ==
  /\ ui = "free" /\ screen = "resumed" /\ ops < MaxOps
  /\ screen' = "paused" /\ ui' = "stop"
  /\ UNCHANGED <<surface, thread, lock, fields, service, history, crash>>

(* Bug: closeCamera does not lock.                                         *)
StopUnlocked ==
  /\ ui = "stop" /\ handler # "none"
  /\ ops' = ops + 1
  /\ session' = 0 /\ camera' = 0 /\ reader' = FALSE
  /\ device' = IF camera # 0 THEN [device EXCEPT !.state = "closed"] ELSE device
  /\ ui' = "join" /\ handler' = "quit"
  /\ UNCHANGED <<screen, surface, posts, current, permits, owes, slips, tag, shots,
                 losses, history, crash>>

(* Bug: closeCamera forgets the camera without closing it.                 *)
StopForgetsClose ==
  /\ ui = "stop" /\ handler # "none"
  /\ Acquire(ops + 1)
  /\ session' = 0 /\ camera' = 0 /\ reader' = FALSE
  /\ ui' = "join" /\ handler' = "quit"
  /\ UNCHANGED <<screen, surface, posts, current, tag, service, history, crash>>

(* stop: closeCamera, which frees the picture under examination with its   *)
(* reader, then stopBackgroundHandler, which fails without a handler.      *)
LockToStop ==
  /\ ui = "stop"
  /\ Acquire(ops + 1)
  /\ session' = 0 /\ camera' = 0 /\ reader' = FALSE
  /\ device' = IF camera # 0 THEN [device EXCEPT !.state = "closed"] ELSE device
  /\ ui' = "join"
  /\ IF handler = "none" THEN Crash("handler") /\ UNCHANGED handler
     ELSE /\ handler' = "quit"
          /\ crash' \in IF current = Image THEN {crash, "image"} ELSE {crash}
  /\ UNCHANGED <<screen, surface, posts, current, tag, shots, losses, history>>

(* The handler's thread has ended.  What its camera still answers reaches  *)
(* nobody.                                                                 *)
Joined ==
  /\ ui \in {"join", "drop"} /\ handler = "quit"
  /\ posts = <<>> /\ current = Nothing
  /\ handler' = "none" /\ shots' = <<>> /\ ui' = "free"
  /\ device' = IF device.state = "opening" THEN [device EXCEPT !.state = "open"]
               ELSE device
  /\ IF ui = "join" THEN Release(ops, <<>>) ELSE UNCHANGED lock
  /\ UNCHANGED <<screen, surface, posts, current, fields, losses, history, crash>>

UserInterface ==
  \/ Resume \/ SurfaceAvailable \/ LockToOpen \/ Pause \/ LockToStop \/ Joined
  \/ \E what \in {"focus", "capture"} :
       Tap(what) \/ LockToShoot(what) \/ ShootInVain(what)

-----------------------------------------------------------------------------
(* The camera service *)

Post(cs) == posts' = IF handler = "alive" THEN posts \o cs ELSE posts

DeviceOpens ==
  /\ device.state = "opening"
  /\ device' = [device EXCEPT !.state = "open"]
  /\ Post(<<Callback("opened", device.op, "none")>>)
  /\ UNCHANGED <<shots, losses>>

(* onDisconnected or onError, before the device has opened or after.       *)
DeviceLost ==
  /\ device.state \in {"opening", "open"} /\ losses < MaxLosses
  /\ losses' = losses + 1
  /\ device' = [device EXCEPT !.state = "lost"]
  /\ Post(<<Callback("disconnected", device.op, "none")>>)
  /\ UNCHANGED shots

(* A still picture also reaches the reader, before or after the callback.  *)
ShotDone ==
  /\ shots # <<>> /\ device.state = "open"
  /\ shots' = Tail(shots)
  /\ IF Head(shots).tag = "still"
     THEN Post(<<Image, Head(shots)>>) \/ Post(<<Head(shots), Image>>)
     ELSE Post(<<Head(shots)>>)
  /\ UNCHANGED <<device, losses>>

ShotFails ==
  /\ shots # <<>>
  /\ shots' = Tail(shots)
  /\ Post(<<[Head(shots) EXCEPT !.what = "failed"]>>)
  /\ UNCHANGED <<device, losses>>

(* A camera that is closed or lost may forget its captures.                *)
ShotsForgotten ==
  /\ shots # <<>> /\ device.state # "open"
  /\ shots' = <<>>
  /\ UNCHANGED <<posts, device, losses>>

Service ==
  /\ DeviceOpens \/ DeviceLost \/ ShotDone \/ ShotFails \/ ShotsForgotten
  /\ UNCHANGED <<ui, screen, surface, handler, current, lock, fields, history, crash>>

-----------------------------------------------------------------------------
(* The handler's thread *)

Run(what) ==
  /\ handler # "none" /\ current = Nothing
  /\ posts # <<>> /\ Head(posts).what = what
  /\ UNCHANGED <<ui, screen, surface, handler, service, thrown>>

(* onOpened: the session is configured later, on this thread.              *)
OnOpened ==
  LET k == Head(posts).op IN
  /\ Run("opened")
  /\ camera' = k /\ tag' = IF reader THEN "preview" ELSE tag
  /\ \/ /\ reader /\ Live(k)
        /\ \/ posts' = Tail(posts)
           \/ handler = "alive"
              /\ posts' = Append(Tail(posts), Callback("configured", k, "none"))
        /\ UNCHANGED crash
     \/ /\ reader /\ ~Live(k)
        /\ posts' = Tail(posts) /\ crash' \in {crash, "stale"}
     \/ /\ ~reader
        /\ posts' = Tail(posts) /\ Crash("reader")
  /\ Release(k, posts')
  /\ UNCHANGED <<current, session, reader, late>>

OnConfigured ==
  LET k == Head(posts).op IN
  /\ Run("configured")
  /\ session' = k
  /\ posts' = Tail(posts)
  /\ late' = (late \/ camera # k)
  /\ crash' \in IF Live(k) THEN {crash} ELSE {crash, "stale"}
  /\ UNCHANGED <<current, lock, camera, reader, tag>>

OnDisconnected ==
  /\ Run("disconnected")
  /\ posts' = Tail(posts)
  /\ Release(Head(posts).op, posts')
  /\ UNCHANGED <<current, fields, late, crash>>

(* The callback of a focus only looks at the tag, and never at whether     *)
(* there still is a session.                                               *)
FocusDone ==
  /\ Run("done") /\ Head(posts).tag \in {"preview", "focus"}
  /\ posts' = Tail(posts)
  /\ IF Head(posts).tag = "focus"
     THEN /\ Release(Head(posts).op, posts')
          /\ crash' \in IF session = 0 THEN {"focus"}
                        ELSE IF Live(session) THEN {crash} ELSE {crash, "stale"}
     ELSE UNCHANGED <<lock, crash>>
  /\ UNCHANGED <<current, fields, late>>

(* The callback of a capture looks whether there is a session.             *)
CaptureDone ==
  /\ Run("done") /\ Head(posts).tag = "still"
  /\ posts' = Tail(posts)
  /\ IF session = 0 THEN Release(Head(posts).op, posts') /\ UNCHANGED current
     ELSE current' = Head(posts) /\ UNCHANGED lock
  /\ UNCHANGED <<fields, late, crash>>

RestartPreview ==
  /\ current.what = "done"
  /\ Release(current.op, posts)
  /\ current' = Nothing
  /\ crash' = IF session = 0 THEN "capture" ELSE crash
  /\ UNCHANGED <<ui, screen, surface, handler, posts, fields, service, history>>

(* Bug: a capture that failed keeps the permit.                            *)
FailedKeepsPermit ==
  /\ Run("failed")
  /\ posts' = Tail(posts)
  /\ UNCHANGED <<current, lock, fields, late, crash>>

OnCaptureFailed ==
  /\ Run("failed")
  /\ posts' = Tail(posts)
  /\ Release(Head(posts).op, posts')
  /\ UNCHANGED <<current, fields, late, crash>>

(* The picture is examined on this thread; a reader that has been closed   *)
(* delivers nothing more.                                                  *)
OnImage ==
  /\ Run("image")
  /\ posts' = Tail(posts)
  /\ current' = IF reader THEN Head(posts) ELSE Nothing
  /\ UNCHANGED <<lock, fields, late, crash>>

Examined ==
  /\ current.what = "image"
  /\ current' = Nothing
  /\ UNCHANGED <<ui, screen, surface, handler, posts, lock, fields, service,
                 history, crash>>

Handler ==
  \/ OnOpened \/ OnConfigured \/ OnDisconnected \/ FocusDone \/ CaptureDone
  \/ RestartPreview \/ OnCaptureFailed \/ OnImage \/ Examined

CameraStep == crash = "none" /\ (UserInterface \/ Service \/ Handler)
=============================================================================
