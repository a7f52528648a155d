----------------------------- MODULE Detection -----------------------------
(***************************************************************************)
(* The phones and the detection server together.                           *)
(***************************************************************************)
EXTENDS DetectionClient

vars == <<wire, serviceVars, clientVars>>

Init == ServiceInit /\ ClientInit

ServiceStep == Service /\ UNCHANGED clientVars

Next == ServiceStep \/ \E p \in Phones : Client(p)

(* Threads run: the camera's, the one that accepts, the workers, the one   *)
(* that loads the detectors and, since the server repeats its datagram     *)
(* every ten seconds, the one that hears it.  Nobody has to launch the     *)
(* server or to look at anything.                                          *)
Fairness ==
  /\ WF_vars(Listen /\ UNCHANGED clientVars)
  /\ \A c \in Conn : WF_vars(Task(c) /\ UNCHANGED clientVars)
  /\ \A p \in Phones : WF_vars(CheckStep(p)) /\ WF_vars(HearServer(p))

Spec == Init /\ [][Next]_vars /\ Fairness

-----------------------------------------------------------------------------
(* Properties *)

(* Every variable keeps its type, and a file is one connection's picture.  *)
TypeOK ==
  /\ ServiceTypeOK /\ ClientTypeOK
  /\ \A d \in Detectors : \A i \in DOMAIN files[d] :
       i \in Nat \ {0} /\ files[d][i] \in Conn

(* A saved picture is never overwritten, by this server or by the next,    *)
(* unless two tasks were saving for one detector at a time or a picture    *)
(* could not be saved: saveImage looks for a free name only once.          *)
Kept(d) == \A i \in DOMAIN files[d] : i \in DOMAIN files'[d] /\ files'[d][i] = files[d][i]

SavedKept == [][\A d \in Detectors : d \in disturbed \/ Kept(d)]_vars

(* A task that waits for the rest of a request nobody will write: read     *)
(* takes the end of the stream for zero bytes and asks again.              *)
Lost(c) ==
  /\ stage[c] = "read" /\ sent[c] = "part" /\ conn[c] \in {"open", "shut"}
  /\ step[c[1]] = "idle" \/ c # Current(c[1])

(* A thread of the pool is lost to one cause only, a phone that vanished   *)
(* before it had written its request: every other task ends, whatever the  *)
(* phones and the connections do.                                          *)
TasksEnd == \A c \in Conn : (c \in Busy) ~> (c \notin Busy \/ Lost(c))

(* Every check ends.  The exception is a phone whose request fills the     *)
(* buffers of its connection when all threads are lost: nothing bounds the *)
(* time of its write.                                                      *)
PoolLost == Cardinality({c \in Conn : Lost(c)}) = threads

EveryCheckAnswered ==
  \A p \in Phones :
    (step[p] # "idle") ~> (step[p] = "idle" \/ (p \notin Buffered /\ PoolLost))

(* The phones and the server implement what checkForObjects promises: an   *)
(* answer is never that of another check or another phone, and a server    *)
(* that dies, is lost or is late changes no answer.                        *)
UnderCheck(p) == [detector |-> asked[Current(p)], seen |-> Current(p) \in Seen]

Check == INSTANCE ImageCheck WITH
  asked <- [p \in Phones |-> IF step[p] = "idle" THEN None ELSE UnderCheck(p)],
  answer <- result

CheckSpec == Check!Spec
=============================================================================
