-------------------------- MODULE DetectionService --------------------------
(***************************************************************************)
(* The detection server, a C++ process (src/detector_training/src/): a     *)
(* thread that advertises it, a thread that accepts connections, and a     *)
(* pool of threads that examine one picture per connection.                *)
(*                                                                         *)
(* A connection is <<phone, n>>, the one the phone opens for its n-th      *)
(* check.  The pool is in a library of which only the use is known: a      *)
(* number of threads that take the tasks added to it, every one in turn.   *)
(***************************************************************************)
EXTENDS Integers, FiniteSets

CONSTANTS
  Phones, MaxChecks,  (* the phones, and how many checks each asks for      *)
  PoolSizes,          (* the numbers of threads the pool may have           *)
  Detectors,          (* the names of the detectors                         *)
  ServerDetectors,    (* those whose files the server has loaded            *)
  SaveImages,         (* the option -save_analysed_images                   *)
  Seen,               (* the checks whose picture shows what is looked for  *)
  MaxUpsets,          (* how often the process ends, a phone vanishes or a  *)
                      (* board changes, in all                              *)
  None

ASSUME ServiceAssumption ==
  /\ MaxChecks \in [Phones -> Nat] /\ MaxUpsets \in Nat
  /\ PoolSizes \subseteq Nat \ {0}
  /\ ServerDetectors \subseteq Detectors
  /\ SaveImages \in BOOLEAN
  /\ None \notin {-1, 0, 1} \cup [detector : Detectors, seen : BOOLEAN]

Conn == UNION {{p} \X (1..MaxChecks[p]) : p \in Phones}

VARIABLES
  asked,     (* asked[c]: the detector a check is for                       *)
  conn,      (* conn[c]: open, shut (by the phone), done (by the server),   *)
             (* rst, or none when neither end has it any more               *)
  sent,      (* sent[c]: part or all of the request                         *)
  reply,     (* reply[c]: the answer on its way                             *)
  phase,     (* off, loading (it already advertises), listening             *)
  threads,   (* the size of the pool                                        *)
  stage,     (* stage[c]: where the task of a connection is                 *)
  index,     (* index[c]: the index saveImage has chosen                    *)
  nameIndex, (* imageNameIndices, 0 for a detector that is not in it        *)
  files,     (* files[d]: index to picture, the content of saved_images     *)
  disturbed, (* the detectors of which two tasks were saving at a time, or  *)
             (* a save failed                                               *)
  upsets

wire == <<asked, conn, sent, reply>>
tasks == <<threads, stage>>
saving == <<index, nameIndex, files, disturbed>>
serviceVars == <<phase, tasks, saving, upsets>>

Stages == {"none", "queued", "read", "fail", "name", "store", "write", "scan"}

Answers == {-1, 0, 1}

ServiceInit ==
  /\ asked = [c \in Conn |-> None]
  /\ conn = [c \in Conn |-> "none"]
  /\ sent = [c \in Conn |-> "part"]
  /\ reply = [c \in Conn |-> None]
  /\ phase = "off" /\ threads \in PoolSizes
  /\ stage = [c \in Conn |-> "none"]
  /\ index = [c \in Conn |-> 0]
  /\ nameIndex = [d \in Detectors |-> 0]
  /\ files = [d \in Detectors |-> [i \in {} |-> None]]
  /\ disturbed = {} /\ upsets = 0

-----------------------------------------------------------------------------
(* The process *)

(* main starts the advertiser before it loads the detectors and before it  *)
(* listens: phones may hear of a server that refuses their connections.    *)
Launch ==
  /\ phase = "off"
  /\ phase' = "loading"
  /\ UNCHANGED <<wire, tasks, saving, upsets>>

Listen ==
  /\ phase = "loading"
  /\ phase' = "listening"
  /\ UNCHANGED <<wire, tasks, saving, upsets>>

(* An exception out of a thread (the interface of the advertiser is not    *)
(* ready, accept fails), a signal or an operator ends the process: every   *)
(* connection is reset, the indices are forgotten, the files stay.         *)
Die ==
  /\ phase # "off" /\ upsets < MaxUpsets
  /\ upsets' = upsets + 1
  /\ phase' = "off"
  /\ conn' = [c \in Conn |-> CASE conn[c] = "open" -> "rst"
                               [] conn[c] = "shut" -> "none"
                               [] OTHER -> conn[c]]
  /\ stage' = [c \in Conn |-> "none"]
  /\ index' = [c \in Conn |-> 0]
  /\ nameIndex' = [d \in Detectors |-> 0]
  /\ UNCHANGED <<asked, sent, reply, threads, files, disturbed>>

-----------------------------------------------------------------------------
(* DetectionTask.run *)

Goto(c, s) == stage' = [stage EXCEPT ![c] = s]

Busy == {c \in Conn : stage[c] \notin {"none", "queued"}}

Take(c) ==
  /\ stage[c] = "queued" /\ Cardinality(Busy) < threads
  /\ Goto(c, "read")
  /\ UNCHANGED <<wire, phase, threads, saving, upsets>>

(* read returns when all it asked for has come.  At the end of a stream    *)
(* recv returns 0, which is no error: read asks again, for ever, so that   *)
(* nothing is enabled for a task whose phone has closed half way.          *)
Read(c) ==
  /\ stage[c] = "read" /\ sent[c] = "all"
  /\ Goto(c, IF asked[c] \notin ServerDetectors THEN "fail"
             ELSE IF SaveImages THEN "name" ELSE "scan")
  /\ UNCHANGED <<wire, phase, threads, saving, upsets>>

(* Bug: the error is taken for zero bytes.                                 *)
ReadErrorIgnored(c) == FALSE

(* recv fails on a connection the phone has reset.                         *)
ReadError(c) ==
  /\ stage[c] = "read" /\ conn[c] = "rst"
  /\ Goto(c, "fail")
  /\ UNCHANGED <<wire, phase, threads, saving, upsets>>

(* Bug: the files of an earlier process are not looked at.                 *)
FirstName(d) == 1

(* Bug: index starts at 0.                                                 *)
ZeroName(d) == 0

(* saveImage keeps its indices in a map that no lock protects: the first   *)
(* free name when the detector is not in the map, the next one otherwise.  *)
Free(d) == CHOOSE i \in 1..Cardinality(DOMAIN files[d]) + 1 :
             /\ i \notin DOMAIN files[d]
             /\ \A j \in 1..i - 1 : j \in DOMAIN files[d]

Saving(d) == {c \in Conn : stage[c] \in {"store", "write"} /\ asked[c] = d}

ChooseName(c) ==
  LET d == asked[c] IN
  /\ stage[c] = "name"
  /\ index' = [index EXCEPT ![c] = IF nameIndex[d] = 0 THEN Free(d)
                                   ELSE nameIndex[d] + 1]
  /\ disturbed' = IF Saving(d) = {} THEN disturbed ELSE disturbed \cup {d}
  /\ Goto(c, "store")
  /\ UNCHANGED <<wire, phase, threads, nameIndex, files, upsets>>

StoreIndex(c) ==
  /\ stage[c] = "store"
  /\ nameIndex' = [nameIndex EXCEPT ![asked[c]] = index[c]]
  /\ Goto(c, "write")
  /\ UNCHANGED <<wire, phase, threads, index, files, disturbed, upsets>>

WriteFile(c) ==
  /\ stage[c] = "write"
  /\ files' = [files EXCEPT ![asked[c]] =
                 [i \in DOMAIN @ \cup {index[c]} |-> IF i = index[c] THEN c ELSE @[i]]]
  /\ index' = [index EXCEPT ![c] = 0]
  /\ Goto(c, "scan")
  /\ UNCHANGED <<wire, phase, threads, nameIndex, disturbed, upsets>>

(* detect goes on when the picture cannot be saved.                        *)
SaveFails(c) ==
  /\ stage[c] = "write"
  /\ disturbed' = disturbed \cup {asked[c]}
  /\ index' = [index EXCEPT ![c] = 0]
  /\ Goto(c, "scan")
  /\ UNCHANGED <<wire, phase, threads, nameIndex, files, upsets>>

(* The answer is sent and the connection closed, whether the phone is      *)
(* still there or not.                                                     *)
Answer(c, a) ==
  /\ \/ /\ conn[c] = "open"
        /\ conn' = [conn EXCEPT ![c] = "done"]
        /\ reply' = [reply EXCEPT ![c] = a]
     \/ /\ conn[c] # "open"
        /\ conn' = [conn EXCEPT ![c] = "none"]
        /\ UNCHANGED reply
  /\ Goto(c, "none")
  /\ UNCHANGED <<asked, sent, phase, threads, saving, upsets>>

Verdict(c) == IF c \in Seen THEN 1 ELSE 0

Scan(c) == stage[c] = "scan" /\ Answer(c, Verdict(c))

(* Bug: a picture that cannot be examined shows nothing.                   *)
RefuseWithZero(c) == stage[c] = "fail" /\ Answer(c, 0)

(* The catch block.                                                        *)
Refuse(c) == stage[c] = "fail" /\ Answer(c, -1)

Task(c) ==
  \/ Take(c) \/ Read(c) \/ ReadError(c)
  \/ ChooseName(c) \/ StoreIndex(c) \/ WriteFile(c) \/ SaveFails(c)
  \/ Scan(c) \/ Refuse(c)

Service == Launch \/ Listen \/ Die \/ \E c \in Conn : Task(c)

ServiceTypeOK ==
  /\ asked \in [Conn -> Detectors \cup {None}]
  /\ conn \in [Conn -> {"none", "open", "shut", "done", "rst"}]
  /\ sent \in [Conn -> {"part", "all"}]
  /\ reply \in [Conn -> Answers \cup {None}]
  /\ phase \in {"off", "loading", "listening"}
  /\ threads \in PoolSizes
  /\ stage \in [Conn -> Stages]
  /\ index \in [Conn -> Nat] /\ nameIndex \in [Detectors -> Nat]
  /\ DOMAIN files = Detectors
  /\ disturbed \subseteq Detectors
  /\ upsets \in 0..MaxUpsets
=============================================================================
