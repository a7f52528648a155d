--------------------------- MODULE DetectionClient ---------------------------
(***************************************************************************)
(* The phones' side of detection: DetectionServer.java, ObjectDetector.java *)
(* and the native library, wrapper.cpp).  One thread of a phone, the       *)
(* camera's, asks for checks one after the other; another listens for the  *)
(* server's datagrams.                                                     *)
(***************************************************************************)
EXTENDS DetectionService

CONSTANTS
  Boards,       (* the board games, each a directory of detectors           *)
  Shipped,      (* the one a phone starts with                              *)
  Files,        (* Files[b]: the detectors of board b                       *)
  Buffered      (* the phones whose requests the sockets' buffers can hold  *)

ASSUME ClientAssumption ==
  /\ Shipped \in Boards
  /\ Files \in [Boards -> SUBSET Detectors]
  /\ Buffered \subseteq Phones

VARIABLES
  known,     (* known[p]: serverAddress is not null                         *)
  checks,    (* the number of checks a phone has asked for                  *)
  step,      (* where the camera's thread is in checkForObjects             *)
  result,    (* the result of the last check                                *)
  board,     (* the board of the phone's dictionary                         *)
  loaded     (* the native library's detectors                              *)

detector == <<known, board, loaded>>
clientVars == <<detector, checks, step, result>>

Steps == {"idle", "connect", "write", "wait", "local"}

Current(p) == <<p, checks[p]>>

(* HomeActivity has loaded the detectors of the default directory.         *)
ClientInit ==
  /\ known = [p \in Phones |-> FALSE]
  /\ checks = [p \in Phones |-> 0]
  /\ step = [p \in Phones |-> "idle"]
  /\ result = [p \in Phones |-> None]
  /\ board = [p \in Phones |-> Shipped]
  /\ loaded = [p \in Phones |-> Files[Shipped]]

At(p, s) == step' = [step EXCEPT ![p] = s]

-----------------------------------------------------------------------------
(* FindServerTask: any datagram of the server, whatever else is going on.  *)
HearServer(p) ==
  /\ phase # "off"
  /\ known' = [known EXCEPT ![p] = TRUE]
  /\ UNCHANGED <<board, loaded, checks, step, result>>
  /\ UNCHANGED <<wire, serviceVars>>

(* ChangeBoardActivity: the dictionary follows the choice, the detectors   *)
(* are added to those already there, and an error that stops the loading   *)
(* half way is not looked at.                                              *)
ChangeBoard(p) ==
  /\ step[p] = "idle" /\ upsets < MaxUpsets
  /\ \E b \in Boards : \E read \in SUBSET Files[b] :
       /\ board' = [board EXCEPT ![p] = b]
       /\ loaded' = [loaded EXCEPT ![p] = @ \cup read]
  /\ upsets' = upsets + 1
  /\ UNCHANGED <<known, checks, step, result>>
  /\ UNCHANGED <<wire, phase, tasks, saving>>

-----------------------------------------------------------------------------
(* checkForObjects *)

CheckPicture(p) ==
  /\ step[p] = "idle" /\ checks[p] < MaxChecks[p]
  /\ checks' = [checks EXCEPT ![p] = @ + 1]
  /\ \E d \in Files[board[p]] :
       asked' = [asked EXCEPT ![<<p, checks'[p]>>] = d]
  /\ result' = [result EXCEPT ![p] = None]
  /\ At(p, IF known[p] THEN "connect" ELSE "local")
  /\ UNCHANGED <<conn, sent, reply, detector>>
  /\ UNCHANGED serviceVars

(* The four bytes of the name's size are flushed alone and always fit; the *)
(* accept loop hands the connection to the pool.                           *)
Connect(p) ==
  /\ step[p] = "connect" /\ phase = "listening"
  /\ conn' = [conn EXCEPT ![Current(p)] = "open"]
  /\ Goto(Current(p), "queued")
  /\ At(p, "write")
  /\ UNCHANGED <<asked, sent, reply, detector, checks, result>>
  /\ UNCHANGED <<phase, threads, saving, upsets>>

(* A picture that fills the sockets' buffers is written at the pace of the *)
(* task that reads it; the two seconds of setSoTimeout do not bound a      *)
(* write.                                                                  *)
Write(p) ==
  /\ step[p] = "write" /\ conn[Current(p)] = "open"
  /\ p \in Buffered \/ stage[Current(p)] = "read"
  /\ sent' = [sent EXCEPT ![Current(p)] = "all"]
  /\ At(p, "wait")
  /\ UNCHANGED <<asked, conn, reply, detector, checks, result>>
  /\ UNCHANGED serviceVars

(* The answer is returned as it is, -1 included.                           *)
ReadReply(p) ==
  /\ step[p] = "wait" /\ reply[Current(p)] # None
  /\ result' = [result EXCEPT ![p] = reply[Current(p)]]
  /\ reply' = [reply EXCEPT ![Current(p)] = None]
  /\ conn' = [conn EXCEPT ![Current(p)] = "none"]
  /\ At(p, "idle")
  /\ UNCHANGED <<asked, sent, detector, checks>>
  /\ UNCHANGED serviceVars

(* Bug: no setSoTimeout.                                                   *)
FailingUntimed(p) ==
  \/ step[p] = "connect" /\ phase # "listening"
  \/ step[p] \in {"write", "wait"} /\ conn[Current(p)] = "rst"

(* An IOException forgets the server and leaves the check to the phone: its *)
(* connection is refused, it is reset, or two seconds pass without an      *)
(* answer.                                                                 *)
Failing(p) ==
  \/ step[p] = "connect" /\ phase # "listening"
  \/ step[p] = "write" /\ conn[Current(p)] = "rst"
  \/ step[p] = "wait"

NetworkError(p) ==
  LET c == Current(p) IN
  /\ Failing(p)
  /\ known' = [known EXCEPT ![p] = FALSE]
  /\ conn' = [conn EXCEPT ![c] = IF @ = "open" THEN "shut" ELSE "none"]
  /\ reply' = [reply EXCEPT ![c] = None]
  /\ At(p, "local")
  /\ UNCHANGED <<asked, sent, board, loaded, checks, result>>
  /\ UNCHANGED serviceVars

(* The native checkForObjects.                                             *)
LocalCheck(p) ==
  /\ step[p] = "local"
  /\ result' = [result EXCEPT ![p] = IF asked[Current(p)] \notin loaded[p] THEN -1
                                     ELSE Verdict(Current(p))]
  /\ At(p, "idle")
  /\ UNCHANGED <<wire, detector, checks>>
  /\ UNCHANGED serviceVars

(* The application is killed or the phone leaves the network, and starts   *)
(* anew: the server sees the stream end, sees it reset, or sees nothing.   *)
AppVanishes(p) ==
  LET c == Current(p) IN
  /\ step[p] # "idle" /\ upsets < MaxUpsets
  /\ upsets' = upsets + 1
  /\ \E end \in {"open", "shut", "rst"} :
       conn' = [conn EXCEPT ![c] = IF @ = "open" THEN end ELSE "none"]
  /\ reply' = [reply EXCEPT ![c] = None]
  /\ At(p, "idle")
  /\ known' = [known EXCEPT ![p] = FALSE]
  /\ board' = [board EXCEPT ![p] = Shipped]
  /\ loaded' = [loaded EXCEPT ![p] = Files[Shipped]]
  /\ UNCHANGED <<asked, sent, checks, result>>
  /\ UNCHANGED <<phase, tasks, saving>>

CheckStep(p) ==
  \/ Connect(p) \/ Write(p) \/ ReadReply(p)
  \/ NetworkError(p) \/ LocalCheck(p)

Client(p) ==
  \/ HearServer(p) \/ ChangeBoard(p)
  \/ CheckPicture(p) \/ CheckStep(p) \/ AppVanishes(p)

ClientTypeOK ==
  /\ known \in [Phones -> BOOLEAN]
  /\ \A p \in Phones : checks[p] \in 0..MaxChecks[p]
  /\ step \in [Phones -> Steps]
  /\ result \in [Phones -> Answers \cup {None}]
  /\ board \in [Phones -> Boards]
  /\ loaded \in [Phones -> SUBSET Detectors]
=============================================================================
