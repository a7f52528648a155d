-------------------------- MODULE Detection_proof --------------------------
(***************************************************************************)
(* Proofs about the detection: TypeOK, SavedKept and CheckSpec of          *)
(* Detection, for any number of phones, of checks, of threads in the pool  *)
(* and of upsets.  The strengthening says what a connection is before its  *)
(* check, what the task that will answer knows, and which indices of       *)
(* saved_images are taken while no two tasks save for one detector.        *)
(***************************************************************************)
EXTENDS Detection, FiniteSetTheorems, WellFoundedInduction, TLAPS

Fields ==
  /\ checks \in [Phones -> Nat]
  /\ \A d \in Detectors : IsFiniteSet(DOMAIN files[d])

(* A check that has not reached the server.                                *)
Ahead(c) == c[2] > checks[c[1]] \/ (c = Current(c[1]) /\ step[c[1]] = "connect")

Untouched(c) == conn[c] = "none" /\ stage[c] = "none" /\ reply[c] = None

UnderWay(p) == step[p] # "idle" => checks[p] > 0 /\ asked[Current(p)] \in Detectors

(* A task is refused for a detector the server does not have, or fails on  *)
(* a connection that takes no answer.                                      *)
Informed(c) ==
  /\ stage[c] # "none" => asked[c] \in Detectors
  /\ stage[c] = "fail" => conn[c] # "open" \/ asked[c] \notin ServerDetectors
  /\ stage[c] \in {"store", "write"} => index[c] > 0
  /\ reply[c] # None => \/ reply[c] = Verdict(c)
                        \/ reply[c] = -1 /\ asked[c] \notin ServerDetectors

Count(d) == Cardinality(DOMAIN files[d])

(* The pictures are numbered without a gap; the one task that saves has    *)
(* the next number, and the map, when the detector is in it, the last one. *)
Numbered(d) ==
  /\ DOMAIN files[d] = 1..Count(d)
  /\ Saving(d) = {} => nameIndex[d] \in {0, Count(d)}
  /\ \A c \in Saving(d) :
       /\ Saving(d) = {c} /\ index[c] = Count(d) + 1
       /\ stage[c] = "store" => nameIndex[d] \in {0, Count(d)}
       /\ stage[c] = "write" => nameIndex[d] = Count(d) + 1

Checking ==
  /\ \A c \in Conn : (Ahead(c) => Untouched(c)) /\ Informed(c)
  /\ \A p \in Phones : UnderWay(p)

Saved == \A d \in Detectors \ disturbed : Numbered(d)

DetectionInv == TypeOK /\ Fields /\ Checking /\ Saved

-----------------------------------------------------------------------------
(* Connections *)

LEMMA ConnFacts ==
  /\ \A c \in Conn : \E p \in Phones : \E n \in 1..MaxChecks[p] : c = <<p, n>>
  /\ \A p \in Phones : \A n \in 1..MaxChecks[p] : <<p, n>> \in Conn
BY DEF Conn

LEMMA CurrentConn ==
  ASSUME TypeOK, Fields, NEW p \in Phones, checks[p] > 0
  PROVE  Current(p) \in Conn
<1>1. checks[p] \in 1..MaxChecks[p]
  BY ServiceAssumption DEF TypeOK, ClientTypeOK, Fields
<1> QED
  BY <1>1, ConnFacts DEF Current

-----------------------------------------------------------------------------
(* Names of files *)

(* saveImage always finds a free name, and when the pictures are numbered  *)
(* without a gap it is the next one.                                       *)
LEMMA FreeName ==
  ASSUME TypeOK, Fields, NEW d \in Detectors
  PROVE  /\ Free(d) \in Nat \ {0}
         /\ Free(d) \notin DOMAIN files[d]
         /\ DOMAIN files[d] = 1..Count(d) => Free(d) = Count(d) + 1
<1> DEFINE D == DOMAIN files[d]
           N == Cardinality(D)
           Unused == {i \in Nat : i \in 1..N + 1 /\ i \notin D}
<1>1. IsFiniteSet(D) /\ N \in Nat
  BY FS_CardinalityType DEF Fields
<1>2. Unused # {}
  <2>1. SUFFICES ASSUME Unused = {} PROVE FALSE
    OBVIOUS
  <2>2. 1..N + 1 \subseteq D
    BY <2>1, <1>1
  <2>3. IsFiniteSet(1..N + 1) /\ Cardinality(1..N + 1) = N + 1
    BY <1>1, FS_Interval
  <2>4. N + 1 <= N
    BY <2>2, <2>3, <1>1, FS_Subset
  <2> QED
    BY <2>4, <1>1
<1>3. PICK i \in Unused : \A j \in Unused : i <= j
  <2> DEFINE Runs == {1..k : k \in Unused}
             R == StrictSubsetOrdering(1..N + 1)
  <2>1. Runs \subseteq SUBSET (1..N + 1) /\ Runs # {}
    BY <1>1, <1>2
  <2>2. IsWellFoundedOn(R, SUBSET (1..N + 1))
    <3>1. IsFiniteSet(1..N + 1)
      BY <1>1, FS_Interval
    <3>2. FiniteSubsetsOf(1..N + 1) = SUBSET (1..N + 1)
      BY <3>1, FS_FiniteSubsetsOfFinite
    <3> QED
      BY <3>2, FS_StrictSubsetOrderingWellFounded
  <2>3. PICK run \in Runs : \A t \in Runs : ~ (<<t, run>> \in R)
    <3> HIDE DEF Runs, R
    <3> QED
      BY <2>1, <2>2, WFMin
  <2>4. PICK i \in Unused : run = 1..i
    OBVIOUS
  <2>5. ASSUME NEW j \in Unused, j < i PROVE FALSE
    <3>1. 1..j \subseteq 1..i /\ i \in 1..i /\ i \notin 1..j
      BY <2>5
    <3>2. 1..j \in Runs /\ 1..j \in SUBSET (1..N + 1) /\ run \in SUBSET (1..N + 1)
      <4>1. 1..j \in Runs
        BY <2>5
      <4> HIDE DEF Runs
      <4> QED
        BY <4>1, <2>1, <2>3
    <3>3. 1..j \subseteq run /\ 1..j # run
      BY <3>1, <2>4
    <3>4. <<1..j, run>> \in R
      BY <3>2, <3>3 DEF StrictSubsetOrdering
    <3> HIDE DEF R, Runs
    <3> QED
      BY <3>2, <3>4, <2>3
  <2>6. ASSUME NEW j \in Unused PROVE i <= j
    <3>1. i \in Nat /\ j \in Nat
      OBVIOUS
    <3> QED
      BY <2>5, <3>1
  <2> QED
    BY <2>6
<1>5. i \in 1..N + 1 /\ i \notin D /\ \A j \in 1..i - 1 : j \in D
  BY <1>3, <1>1
<1>6. Free(d) \in 1..N + 1 /\ Free(d) \notin D /\ \A j \in 1..Free(d) - 1 : j \in D
  BY <1>5 DEF Free
<1>7. ASSUME D = 1..Count(d) PROVE Free(d) = Count(d) + 1
  BY <1>6, <1>7, <1>1 DEF Count
<1> QED
  BY <1>6, <1>7, <1>1

LEMMA DetectionInit == Init => DetectionInv
<1> SUFFICES ASSUME Init PROVE DetectionInv
  OBVIOUS
<1> USE DEF Init, ServiceInit, ClientInit
<1>1. TypeOK
  <2>1. ServiceTypeOK
    BY ServiceAssumption DEF ServiceTypeOK, Stages
  <2>2. ClientTypeOK
    <3>1. \A p \in Phones : checks[p] \in 0..MaxChecks[p]
      BY ServiceAssumption
    <3> QED
      BY <3>1, ClientAssumption DEF ClientTypeOK, Steps
  <2> QED
    BY <2>1, <2>2 DEF TypeOK
<1>2. \A d \in Detectors : DOMAIN files[d] = {}
  OBVIOUS
<1>3. Fields
  BY <1>2, FS_EmptySet DEF Fields
<1>4. Checking
  BY DEF Checking, Untouched, Informed, UnderWay
<1>5. Saved
  BY <1>2, FS_EmptySet DEF Saved, Numbered, Saving, Count
<1> QED
  BY <1>1, <1>3, <1>4, <1>5 DEF DetectionInv

-----------------------------------------------------------------------------
(* The tasks of the server *)

Storing == {"store", "write"}

(* A step that has nothing to do with the saving of pictures.              *)
LEMMA SavedStays ==
  ASSUME Saved, UNCHANGED saving,
         \A c \in Conn : stage[c] \in Storing \/ stage'[c] \in Storing =>
                           stage'[c] = stage[c] /\ asked'[c] = asked[c]
  PROVE  Saved'
<1>1. \A d : Saving(d)' = Saving(d)
  BY DEF Saving, Storing
<1>2. \A d : \A c \in Saving(d) : stage'[c] = stage[c]
  BY DEF Saving, Storing
<1>3. \A d : Count(d)' = Count(d) /\ files' = files /\ nameIndex' = nameIndex
             /\ index' = index /\ disturbed' = disturbed
  BY DEF Count, saving
<1> QED
  BY <1>1, <1>2, <1>3 DEF Saved, Numbered

(* A task goes on to another stage.                                        *)
LEMMA TaskMoves ==
  ASSUME DetectionInv, NEW c \in Conn, NEW s \in Stages, Goto(c, s),
         stage[c] # "none" \/ s = "none",
         UNCHANGED <<wire, phase, threads, upsets, clientVars>>,
         s = "fail" => conn[c] # "open" \/ asked[c] \notin ServerDetectors,
         index' \in [Conn -> Nat], \A k \in Conn \ {c} : index'[k] = index[k],
         s \in Storing => index'[c] > 0
  PROVE  Checking' /\ stage' \in [Conn -> Stages]
<1>1. stage'[c] = s /\ \A k \in Conn \ {c} : stage'[k] = stage[k]
  BY DEF Goto, DetectionInv, TypeOK, ServiceTypeOK
<1>2. ASSUME NEW k \in Conn PROVE (Ahead(k) => Untouched(k))'
  BY <1>1, <1>2 DEF DetectionInv, Checking, Ahead, Untouched, Current, wire, clientVars, detector
<1>3. ASSUME NEW k \in Conn PROVE Informed(k)'
  <2>1. CASE k = c
    BY <1>1, <2>1 DEF DetectionInv, Checking, Informed, Verdict, wire, Storing
  <2>2. CASE k # c
    BY <1>1, <2>2, <1>3 DEF DetectionInv, Checking, Informed, Verdict, wire
  <2> QED
    BY <2>1, <2>2
<1>4. ASSUME NEW p \in Phones PROVE UnderWay(p)'
  BY DEF DetectionInv, Checking, UnderWay, Current, wire, clientVars, detector
<1>5. stage' \in [Conn -> Stages]
  BY DEF Goto, DetectionInv, TypeOK, ServiceTypeOK
<1> QED
  BY <1>2, <1>3, <1>4, <1>5 DEF Checking

(* Only the phase of the process or the stage of a task changes.           *)
LEMMA TypesStay ==
  ASSUME TypeOK, Fields, UNCHANGED <<wire, threads, saving, upsets, clientVars>>,
         phase' \in {"off", "loading", "listening"}, stage' \in [Conn -> Stages]
  PROVE  TypeOK' /\ Fields'
<1>1. ServiceTypeOK'
  BY DEF TypeOK, ServiceTypeOK, wire, saving
<1>2. ClientTypeOK'
  BY DEF TypeOK, ClientTypeOK, clientVars, detector
<1> QED
  BY <1>1, <1>2 DEF TypeOK, Fields, saving, clientVars

LEMMA Unsaved ==
  ASSUME DetectionInv, NEW c \in Conn, Take(c) \/ Read(c) \/ ReadError(c),
         UNCHANGED clientVars
  PROVE  DetectionInv'
<1>1. PICK s \in {"read", "fail", "name", "scan"} :
        /\ Goto(c, s) /\ UNCHANGED <<wire, phase, threads, saving, upsets>>
        /\ stage[c] \in {"queued", "read"}
        /\ s = "fail" => conn[c] # "open" \/ asked[c] \notin ServerDetectors
  BY DEF Take, Read, ReadError
<1>2. index' = index /\ index \in [Conn -> Nat]
  BY <1>1 DEF saving, DetectionInv, TypeOK, ServiceTypeOK
<1>3. Checking' /\ stage' \in [Conn -> Stages]
  BY <1>1, <1>2, TaskMoves DEF Stages, Storing
<1>4. TypeOK' /\ Fields'
  BY <1>1, <1>3, TypesStay DEF DetectionInv, TypeOK, ServiceTypeOK
<1>5. \A k \in Conn : stage[k] \in Storing \/ stage'[k] \in Storing =>
                        stage'[k] = stage[k] /\ asked'[k] = asked[k]
  BY <1>1 DEF Goto, Storing, wire, DetectionInv, TypeOK, ServiceTypeOK
<1>6. Saved'
  BY <1>1, <1>5, SavedStays DEF DetectionInv
<1> QED
  BY <1>3, <1>4, <1>6 DEF DetectionInv

LEMMA PhaseChanges ==
  ASSUME DetectionInv, Launch \/ Listen, UNCHANGED clientVars
  PROVE  DetectionInv'
<1>1. UNCHANGED <<wire, tasks, saving, upsets, clientVars>> /\ phase' \in {"loading", "listening"}
  BY DEF Launch, Listen
<1>2. TypeOK' /\ Fields'
  BY <1>1, TypesStay DEF DetectionInv, TypeOK, ServiceTypeOK, tasks
<1>3. Checking'
  BY <1>1 DEF DetectionInv, Checking, Ahead, Untouched, Informed, UnderWay, Current, Verdict,
              wire, tasks, saving, clientVars, detector
<1>4. Saved'
  BY <1>1, SavedStays DEF DetectionInv, wire, tasks
<1> QED
  BY <1>2, <1>3, <1>4 DEF DetectionInv

(* The pictures stay; nobody saves, and no detector is in the map.         *)
LEMMA ProcessDies ==
  ASSUME DetectionInv, Die, UNCHANGED clientVars
  PROVE  DetectionInv'
<1> USE DEF Die
<1>1. ServiceTypeOK'
  <2>1. conn' \in [Conn -> {"none", "open", "shut", "done", "rst"}]
    BY DEF DetectionInv, TypeOK, ServiceTypeOK
  <2>2. upsets' \in 0..MaxUpsets
    BY ServiceAssumption DEF DetectionInv, TypeOK, ServiceTypeOK
  <2> QED
    BY <2>1, <2>2 DEF DetectionInv, TypeOK, ServiceTypeOK, Stages
<1>2. TypeOK' /\ Fields'
  BY <1>1 DEF DetectionInv, TypeOK, ClientTypeOK, Fields, clientVars, detector
<1>3. ASSUME NEW c \in Conn PROVE (Ahead(c) => Untouched(c))'
  BY <1>3 DEF DetectionInv, Checking, Ahead, Untouched, Current, clientVars, detector
<1>4. ASSUME NEW c \in Conn PROVE Informed(c)'
  BY <1>4 DEF DetectionInv, Checking, Informed, Verdict
<1>5. Checking'
  BY <1>3, <1>4 DEF DetectionInv, Checking, UnderWay, Current, clientVars, detector
<1>6. ASSUME NEW d \in Detectors \ disturbed PROVE Numbered(d)'
  BY <1>6 DEF DetectionInv, Saved, Numbered, Saving, Count
<1> QED
  BY <1>2, <1>5, <1>6 DEF DetectionInv, Saved

LEMMA TaskAnswers ==
  ASSUME DetectionInv, NEW c \in Conn, Scan(c) \/ Refuse(c), UNCHANGED clientVars
  PROVE  DetectionInv'
<1>1. PICK a \in Answers :
        /\ Answer(c, a) /\ stage[c] \in {"scan", "fail"}
        /\ a = Verdict(c) \/ (a = -1 /\ (conn[c] # "open" \/ asked[c] \notin ServerDetectors))
  BY DEF Scan, Refuse, Verdict, Answers, DetectionInv, Checking, Informed
<1> USE DEF Answer, Goto
<1>2. ServiceTypeOK'
  BY <1>1 DEF DetectionInv, TypeOK, ServiceTypeOK, saving, Stages
<1>3. TypeOK' /\ Fields'
  BY <1>1, <1>2 DEF DetectionInv, TypeOK, ClientTypeOK, Fields, clientVars, detector, saving
<1>4. ~Ahead(c)
  BY <1>1 DEF DetectionInv, Checking, Untouched
<1>5. ASSUME NEW k \in Conn PROVE (Ahead(k) => Untouched(k))'
  BY <1>1, <1>4, <1>5
     DEF DetectionInv, Checking, Ahead, Untouched, Current, clientVars, detector, TypeOK, ServiceTypeOK
<1>6. ASSUME NEW k \in Conn PROVE Informed(k)'
  BY <1>1, <1>6 DEF DetectionInv, Checking, Informed, Verdict, saving, TypeOK, ServiceTypeOK
<1>7. Checking'
  BY <1>1, <1>5, <1>6 DEF DetectionInv, Checking, UnderWay, Current, clientVars, detector
<1>8. Saved'
  <2>1. \A k \in Conn : stage[k] \in Storing \/ stage'[k] \in Storing =>
                          stage'[k] = stage[k] /\ asked'[k] = asked[k]
    BY <1>1 DEF Storing, DetectionInv, TypeOK, ServiceTypeOK
  <2> QED
    BY <1>1, <2>1, SavedStays DEF DetectionInv
<1> QED
  BY <1>3, <1>7, <1>8 DEF DetectionInv

-----------------------------------------------------------------------------
(* saveImage *)

(* A step of a task says nothing about the pictures of another detector.   *)
LEMMA OtherDetector ==
  ASSUME DetectionInv, NEW c \in Conn, NEW s \in Stages, Goto(c, s), UNCHANGED asked,
         \A k \in Conn \ {c} : index'[k] = index[k],
         NEW d \in Detectors \ disturbed, d # asked[c],
         files'[d] = files[d], nameIndex'[d] = nameIndex[d]
  PROVE  Numbered(d)'
<1>1. stage \in [Conn -> Stages] /\ \A k \in Conn \ {c} : stage'[k] = stage[k]
  BY DEF Goto, DetectionInv, TypeOK, ServiceTypeOK
<1>2. Saving(d)' = Saving(d) /\ c \notin Saving(d)
  BY <1>1 DEF Saving
<1>3. \A k \in Saving(d) : stage'[k] = stage[k] /\ index'[k] = index[k]
  BY <1>1, <1>2 DEF Saving
<1>4. Count(d)' = Count(d)
  BY DEF Count
<1> QED
  BY <1>2, <1>3, <1>4 DEF DetectionInv, Saved, Numbered

LEMMA SaveFields ==
  ASSUME DetectionInv, NEW c \in Conn, NEW s, NEW e, s \in Stages, Goto(c, s),
         stage[c] # "none", s # "fail",
         s \in Storing => index'[c] > 0,
         index' = [index EXCEPT ![c] = e], e \in Nat,
         nameIndex' \in [Detectors -> Nat], disturbed' \subseteq Detectors,
         UNCHANGED <<wire, phase, threads, upsets, clientVars>>,
         \A d \in Detectors : IsFiniteSet(DOMAIN files'[d]) /\
           \A i \in DOMAIN files'[d] : i \in Nat \ {0} /\ files'[d][i] \in Conn,
         DOMAIN files' = Detectors
  PROVE  TypeOK' /\ Fields' /\ Checking'
<1>1. index' \in [Conn -> Nat] /\ \A k \in Conn \ {c} : index'[k] = index[k]
  BY DEF DetectionInv, TypeOK, ServiceTypeOK
<1>2. Checking' /\ stage' \in [Conn -> Stages]
  BY <1>1, TaskMoves
<1>3. ServiceTypeOK'
  BY <1>1, <1>2 DEF DetectionInv, TypeOK, ServiceTypeOK, wire
<1>4. ClientTypeOK'
  BY DEF DetectionInv, TypeOK, ClientTypeOK, clientVars, detector
<1>5. Fields'
  BY DEF DetectionInv, Fields, clientVars
<1> QED
  BY <1>2, <1>3, <1>4, <1>5 DEF TypeOK

LEMMA SameFiles ==
  ASSUME DetectionInv, UNCHANGED files
  PROVE  /\ \A d \in Detectors : IsFiniteSet(DOMAIN files'[d]) /\
              \A i \in DOMAIN files'[d] : i \in Nat \ {0} /\ files'[d][i] \in Conn
         /\ DOMAIN files' = Detectors
BY DEF DetectionInv, TypeOK, ServiceTypeOK, Fields

LEMMA NameChosen ==
  ASSUME DetectionInv, NEW c \in Conn, ChooseName(c), UNCHANGED clientVars
  PROVE  DetectionInv'
<1> DEFINE d == asked[c]
           e == IF nameIndex[d] = 0 THEN Free(d) ELSE nameIndex[d] + 1
<1>1. d \in Detectors /\ stage[c] = "name" /\ Goto(c, "store") /\ index' = [index EXCEPT ![c] = e]
  BY DEF ChooseName, DetectionInv, Checking, Informed
<1>2. nameIndex[d] \in Nat /\ index \in [Conn -> Nat] /\ stage \in [Conn -> Stages]
  BY <1>1 DEF DetectionInv, TypeOK, ServiceTypeOK
<1>3. e \in Nat /\ e > 0 /\ index'[c] = e
  BY <1>1, <1>2, FreeName DEF DetectionInv
<1>4. TypeOK' /\ Fields' /\ Checking'
  <2>1. nameIndex' \in [Detectors -> Nat] /\ disturbed' \subseteq Detectors
    BY <1>1 DEF ChooseName, DetectionInv, TypeOK, ServiceTypeOK
  <2>2. UNCHANGED <<wire, phase, threads, upsets, clientVars, files>>
    BY DEF ChooseName
  <2>3. "store" \in Stages /\ "store" # "fail" /\ stage[c] # "none"
    BY <1>1 DEF Stages
  <2>4. /\ \A b \in Detectors : IsFiniteSet(DOMAIN files'[b]) /\
             \A i \in DOMAIN files'[b] : i \in Nat \ {0} /\ files'[b][i] \in Conn
        /\ DOMAIN files' = Detectors
    BY <2>2, SameFiles
  <2> HIDE DEF e
  <2> QED
    BY <1>1, <1>3, <2>1, <2>2, <2>3, <2>4, SaveFields
<1>5. ASSUME NEW b \in Detectors \ disturbed' PROVE Numbered(b)'
  <2>1. b \notin disturbed
    BY <1>5 DEF ChooseName
  <2>2. CASE b # d
    <3>1. UNCHANGED <<asked, files, nameIndex>> /\ \A k \in Conn \ {c} : index'[k] = index[k]
      BY <1>1, <1>2 DEF ChooseName, wire
    <3> QED
      BY <1>1, <2>1, <2>2, <3>1, OtherDetector DEF Stages
  <2>3. CASE b = d
    <3>1. Saving(d) = {}
      BY <1>5, <2>3 DEF ChooseName
    <3>2. UNCHANGED <<asked, files, nameIndex, disturbed>>
      BY <3>1 DEF ChooseName, wire
    <3>3. stage'[c] = "store" /\ \A k \in Conn \ {c} : stage'[k] = stage[k]
      BY <1>1, <1>2 DEF Goto
    <3>4. Saving(d)' = {c}
      BY <3>1, <3>2, <3>3 DEF Saving
    <3>5. Numbered(d)
      BY <1>1, <2>1, <2>3 DEF DetectionInv, Saved
    <3>6. Count(d) \in Nat
      BY <1>1, FS_CardinalityType DEF Count, DetectionInv, Fields
    <3>7. e = Count(d) + 1 /\ nameIndex[d] \in {0, Count(d)}
      BY <1>1, <1>2, <3>1, <3>5, <3>6, FreeName DEF Numbered, DetectionInv
    <3>8. Count(d)' = Count(d)
      BY <3>2 DEF Count
    <3>9. Numbered(d)'
      BY <1>3, <3>2, <3>3, <3>4, <3>5, <3>7, <3>8 DEF Numbered
    <3> QED
      BY <2>3, <3>2, <3>9
  <2> QED
    BY <2>2, <2>3
<1> QED
  BY <1>4, <1>5 DEF DetectionInv, Saved

LEMMA IndexStored ==
  ASSUME DetectionInv, NEW c \in Conn, StoreIndex(c), UNCHANGED clientVars
  PROVE  DetectionInv'
<1> DEFINE d == asked[c]
<1>1. /\ d \in Detectors /\ stage[c] = "store" /\ Goto(c, "write")
      /\ nameIndex' = [nameIndex EXCEPT ![d] = index[c]]
      /\ UNCHANGED <<wire, phase, threads, index, files, disturbed, upsets>>
      /\ index[c] > 0
  BY DEF StoreIndex, DetectionInv, Checking, Informed
<1>2. nameIndex \in [Detectors -> Nat] /\ index \in [Conn -> Nat] /\ stage \in [Conn -> Stages]
  BY DEF DetectionInv, TypeOK, ServiceTypeOK
<1>3. TypeOK' /\ Fields' /\ Checking'
  <2>1. nameIndex' \in [Detectors -> Nat] /\ disturbed' \subseteq Detectors
    BY <1>1, <1>2 DEF DetectionInv, TypeOK, ServiceTypeOK
  <2>2. index' = [index EXCEPT ![c] = index[c]] /\ index[c] \in Nat
    BY <1>1, <1>2
  <2>3. "write" \in Stages /\ "write" # "fail" /\ stage[c] # "none"
    BY <1>1 DEF Stages
  <2>4. /\ \A b \in Detectors : IsFiniteSet(DOMAIN files'[b]) /\
             \A i \in DOMAIN files'[b] : i \in Nat \ {0} /\ files'[b][i] \in Conn
        /\ DOMAIN files' = Detectors
    BY <1>1, SameFiles
  <2>5. index'[c] > 0
    BY <1>1
  <2> QED
    BY <1>1, <2>1, <2>2, <2>3, <2>4, <2>5, SaveFields
<1>4. ASSUME NEW b \in Detectors \ disturbed PROVE Numbered(b)'
  <2>1. CASE b # d
    <3>1. UNCHANGED asked /\ files'[b] = files[b] /\ nameIndex'[b] = nameIndex[b]
          /\ \A k \in Conn \ {c} : index'[k] = index[k]
      BY <1>1, <1>2, <2>1 DEF wire
    <3> QED
      BY <1>1, <1>4, <2>1, <3>1, OtherDetector DEF Stages
  <2>2. CASE b = d
    <3>1. stage'[c] = "write" /\ \A k \in Conn \ {c} : stage'[k] = stage[k]
      BY <1>1, <1>2 DEF Goto
    <3>2. c \in Saving(d)
      BY <1>1 DEF Saving
    <3>3. Saving(d) = {c} /\ index[c] = Count(d) + 1 /\ DOMAIN files[d] = 1..Count(d)
      BY <1>1, <1>4, <2>2, <3>2 DEF DetectionInv, Saved, Numbered
    <3>4. Saving(d)' = {c}
      <4>1. Saving(d)' = Saving(d)
        BY <1>1, <3>1 DEF Saving, wire
      <4> QED
        BY <3>3, <4>1
    <3>5. Count(d)' = Count(d) /\ d' = d /\ index' = index /\ files' = files
      BY <1>1 DEF Count, wire
    <3>6. nameIndex'[d] = index[c]
      BY <1>1, <1>2
    <3>7. Numbered(d)'
      BY <3>1, <3>3, <3>4, <3>5, <3>6 DEF Numbered
    <3> QED
      BY <2>2, <3>5, <3>7
  <2> QED
    BY <2>1, <2>2
<1> QED
  BY <1>1, <1>3, <1>4 DEF DetectionInv, Saved

(* What writing one file does to those of its detector.                    *)
LEMMA FileAdded ==
  ASSUME DetectionInv, NEW c \in Conn, WriteFile(c)
  PROVE  /\ asked[c] \in Detectors /\ index[c] \in Nat \ {0}
         /\ DOMAIN files'[asked[c]] = DOMAIN files[asked[c]] \cup {index[c]}
         /\ files'[asked[c]][index[c]] = c
         /\ \A i \in DOMAIN files[asked[c]] :
              i # index[c] => files'[asked[c]][i] = files[asked[c]][i]
         /\ \A d \in Detectors \ {asked[c]} : files'[d] = files[d]
         /\ DOMAIN files' = Detectors
<1> DEFINE f == [i \in DOMAIN files[asked[c]] \cup {index[c]} |->
                   IF i = index[c] THEN c ELSE files[asked[c]][i]]
<1>1. asked[c] \in Detectors /\ index[c] \in Nat \ {0}
  BY DEF WriteFile, DetectionInv, Checking, Informed, TypeOK, ServiceTypeOK
<1>2. files' = [files EXCEPT ![asked[c]] = f] /\ DOMAIN files = Detectors
  BY DEF WriteFile, DetectionInv, TypeOK, ServiceTypeOK
<1>3. /\ DOMAIN f = DOMAIN files[asked[c]] \cup {index[c]} /\ f[index[c]] = c
      /\ \A i \in DOMAIN files[asked[c]] : i # index[c] => f[i] = files[asked[c]][i]
  OBVIOUS
<1> QED
  BY <1>1, <1>2, <1>3

LEMMA FileWritten ==
  ASSUME DetectionInv, NEW c \in Conn, WriteFile(c), UNCHANGED clientVars
  PROVE  DetectionInv'
<1> DEFINE d == asked[c]
<1>1. /\ stage[c] = "write" /\ Goto(c, "scan") /\ index' = [index EXCEPT ![c] = 0]
      /\ UNCHANGED <<wire, phase, threads, nameIndex, disturbed, upsets>>
  BY DEF WriteFile
<1>2. index \in [Conn -> Nat] /\ stage \in [Conn -> Stages]
  BY DEF DetectionInv, TypeOK, ServiceTypeOK
<1>3. TypeOK' /\ Fields' /\ Checking'
  <2>1. nameIndex' \in [Detectors -> Nat] /\ disturbed' \subseteq Detectors
    BY <1>1 DEF DetectionInv, TypeOK, ServiceTypeOK
  <2>2. ASSUME NEW b \in Detectors
        PROVE  IsFiniteSet(DOMAIN files'[b]) /\
               \A i \in DOMAIN files'[b] : i \in Nat \ {0} /\ files'[b][i] \in Conn
    <3>1. /\ IsFiniteSet(DOMAIN files[b])
          /\ \A i \in DOMAIN files[b] : i \in Nat \ {0} /\ files[b][i] \in Conn
      BY DEF DetectionInv, TypeOK, Fields
    <3>2. CASE b = d
      <4>1. IsFiniteSet(DOMAIN files[b] \cup {index[c]})
        BY <3>1, FS_AddElement
      <4>2. DOMAIN files'[b] = DOMAIN files[b] \cup {index[c]} /\ index[c] \in Nat \ {0}
        BY <3>2, FileAdded
      <4>3. ASSUME NEW i \in DOMAIN files'[b] PROVE i \in Nat \ {0} /\ files'[b][i] \in Conn
        <5>1. CASE i = index[c]
          BY <3>2, <5>1, <4>2, FileAdded
        <5>2. CASE i # index[c]
          BY <3>1, <3>2, <4>2, <4>3, <5>2, FileAdded
        <5> QED
          BY <5>1, <5>2
      <4> QED
        BY <4>1, <4>2, <4>3
    <3>3. CASE b # d
      BY <3>1, <3>3, FileAdded
    <3> QED
      BY <3>2, <3>3
  <2>3. "scan" \in Stages /\ "scan" # "fail" /\ "scan" \notin Storing
    BY DEF Stages, Storing
  <2> QED
    BY <1>1, <2>1, <2>2, <2>3, FileAdded, SaveFields
<1>4. ASSUME NEW b \in Detectors \ disturbed PROVE Numbered(b)'
  <2>1. CASE b # d
    <3>1. UNCHANGED asked /\ files'[b] = files[b] /\ nameIndex'[b] = nameIndex[b]
          /\ \A k \in Conn \ {c} : index'[k] = index[k]
      BY <1>1, <1>2, <2>1, FileAdded DEF wire
    <3> QED
      BY <1>1, <1>4, <2>1, <3>1, OtherDetector DEF Stages
  <2>2. CASE b = d
    <3>1. stage'[c] = "scan" /\ \A k \in Conn \ {c} : stage'[k] = stage[k]
      BY <1>1, <1>2 DEF Goto
    <3>2. c \in Saving(d)
      BY <1>1 DEF Saving
    <3>3. /\ Saving(d) = {c} /\ index[c] = Count(d) + 1
          /\ DOMAIN files[d] = 1..Count(d) /\ nameIndex[d] = Count(d) + 1
      BY <1>1, <1>4, <2>2, <3>2 DEF DetectionInv, Saved, Numbered
    <3>4. Saving(d)' = {}
      BY <1>1, <3>1, <3>3 DEF Saving, wire
    <3>5. Count(d) \in Nat
      BY FileAdded, FS_CardinalityType DEF Count, DetectionInv, Fields
    <3>6. DOMAIN files'[d] = 1..Count(d) + 1
      <4>1. DOMAIN files'[d] = 1..Count(d) \cup {Count(d) + 1}
        BY <3>3, FileAdded
      <4> QED
        BY <3>5, <4>1
    <3>7. Count(d)' = Count(d) + 1
      BY <1>1, <3>5, <3>6, FS_Interval DEF Count, wire
    <3>8. Numbered(d)'
      BY <1>1, <3>3, <3>4, <3>6, <3>7 DEF Numbered, wire
    <3> QED
      BY <1>1, <2>2, <3>8 DEF wire
  <2> QED
    BY <2>1, <2>2
<1> QED
  BY <1>1, <1>3, <1>4 DEF DetectionInv, Saved

LEMMA SaveFailed ==
  ASSUME DetectionInv, NEW c \in Conn, SaveFails(c), UNCHANGED clientVars
  PROVE  DetectionInv'
<1> DEFINE d == asked[c]
<1>1. /\ stage[c] = "write" /\ Goto(c, "scan") /\ index' = [index EXCEPT ![c] = 0]
      /\ UNCHANGED <<wire, phase, threads, nameIndex, files, upsets>>
      /\ disturbed' = disturbed \cup {d} /\ d \in Detectors
  BY DEF SaveFails, DetectionInv, Checking, Informed
<1>2. index \in [Conn -> Nat] /\ stage \in [Conn -> Stages]
  BY DEF DetectionInv, TypeOK, ServiceTypeOK
<1>3. TypeOK' /\ Fields' /\ Checking'
  <2>1. nameIndex' \in [Detectors -> Nat] /\ disturbed' \subseteq Detectors
    BY <1>1 DEF DetectionInv, TypeOK, ServiceTypeOK
  <2>2. "scan" \in Stages /\ "scan" # "fail" /\ "scan" \notin Storing
    BY DEF Stages, Storing
  <2> QED
    BY <1>1, <2>1, <2>2, SameFiles, SaveFields
<1>4. ASSUME NEW b \in Detectors \ disturbed' PROVE Numbered(b)'
  <2>1. b \in Detectors \ disturbed /\ b # d
    BY <1>1, <1>4
  <2>2. UNCHANGED asked /\ files'[b] = files[b] /\ nameIndex'[b] = nameIndex[b]
        /\ \A k \in Conn \ {c} : index'[k] = index[k]
    BY <1>1, <1>2 DEF wire
  <2> QED
    BY <1>1, <2>1, <2>2, OtherDetector DEF Stages
<1> QED
  BY <1>3, <1>4 DEF DetectionInv, Saved

LEMMA ServiceNext ==
  ASSUME DetectionInv, ServiceStep
  PROVE  DetectionInv'
<1>1. UNCHANGED clientVars
  BY DEF ServiceStep
<1>2. CASE Launch \/ Listen
  BY <1>1, <1>2, PhaseChanges
<1>3. CASE Die
  BY <1>1, <1>3, ProcessDies
<1>4. ASSUME NEW c \in Conn, Task(c) PROVE DetectionInv'
  BY <1>1, <1>4, Unsaved, NameChosen, IndexStored, FileWritten, SaveFailed, TaskAnswers DEF Task
<1> QED
  BY <1>2, <1>3, <1>4 DEF ServiceStep, Service

-----------------------------------------------------------------------------
(* The phones *)

LEMMA MoreDetectors ==
  ASSUME DetectionInv, NEW p \in Phones, HearServer(p) \/ ChangeBoard(p)
  PROVE  DetectionInv'
<1>1. /\ UNCHANGED <<wire, phase, tasks, saving, checks, step, result>>
      /\ upsets' \in 0..MaxUpsets
  BY ServiceAssumption
     DEF HearServer, ChangeBoard, serviceVars, DetectionInv, TypeOK, ServiceTypeOK
<1>2. /\ known' \in [Phones -> BOOLEAN] /\ board' \in [Phones -> Boards]
      /\ loaded' \in [Phones -> SUBSET Detectors]
  <2>1. /\ known \in [Phones -> BOOLEAN] /\ board \in [Phones -> Boards]
        /\ loaded \in [Phones -> SUBSET Detectors]
    BY DEF DetectionInv, TypeOK, ClientTypeOK
  <2>2. CASE HearServer(p)
    BY <2>1, <2>2 DEF HearServer
  <2>3. CASE ChangeBoard(p)
    <3>1. PICK b \in Boards, read \in SUBSET Detectors :
            /\ board' = [board EXCEPT ![p] = b]
            /\ loaded' = [loaded EXCEPT ![p] = @ \cup read]
      BY <2>3, ClientAssumption DEF ChangeBoard
    <3>2. loaded[p] \cup read \in SUBSET Detectors
      BY <2>1, <3>1
    <3> QED
      BY <2>1, <2>3, <3>1, <3>2 DEF ChangeBoard
  <2> QED
    BY <2>2, <2>3
<1>3. TypeOK' /\ Fields'
  <2>1. ServiceTypeOK'
    BY <1>1 DEF DetectionInv, TypeOK, ServiceTypeOK, wire, tasks, saving
  <2>2. ClientTypeOK'
    BY <1>1, <1>2 DEF DetectionInv, TypeOK, ClientTypeOK
  <2> QED
    BY <1>1, <2>1, <2>2 DEF DetectionInv, TypeOK, Fields, saving
<1>4. Checking'
  BY <1>1 DEF DetectionInv, Checking, Ahead, Untouched, Informed, UnderWay, Current, Verdict,
              wire, tasks, saving
<1>5. Saved'
  BY <1>1, SavedStays DEF DetectionInv, wire, tasks
<1> QED
  BY <1>3, <1>4, <1>5 DEF DetectionInv

LEMMA PictureTaken ==
  ASSUME DetectionInv, NEW p \in Phones, CheckPicture(p)
  PROVE  DetectionInv'
<1> DEFINE c == <<p, checks[p] + 1>>
<1>1. checks \in [Phones -> Nat] /\ MaxChecks \in [Phones -> Nat]
  BY ServiceAssumption DEF DetectionInv, Fields
<1>2. /\ step[p] = "idle" /\ checks[p] < MaxChecks[p]
      /\ checks' = [checks EXCEPT ![p] = @ + 1] /\ checks'[p] = checks[p] + 1
      /\ result' = [result EXCEPT ![p] = None]
      /\ UNCHANGED <<conn, sent, reply, detector, serviceVars>>
  BY <1>1 DEF CheckPicture
<1>3. PICK s \in {"connect", "local"} : step' = [step EXCEPT ![p] = s]
  BY DEF CheckPicture, At
<1>4. PICK d \in Detectors : asked' = [asked EXCEPT ![c] = d]
  BY <1>2, ClientAssumption DEF CheckPicture, DetectionInv, TypeOK, ClientTypeOK
<1>5. c \in Conn /\ Ahead(c) /\ Untouched(c)
  <2>1. c \in Conn
    BY <1>1, <1>2, ConnFacts
  <2>2. Ahead(c)
    BY <1>1 DEF Ahead
  <2> QED
    BY <2>1, <2>2 DEF DetectionInv, Checking
<1>6. UNCHANGED <<phase, tasks, saving, upsets, known, board, loaded>>
  BY <1>2 DEF serviceVars, detector
<1>7. TypeOK' /\ Fields'
  <2>1. ServiceTypeOK'
    BY <1>2, <1>4, <1>5, <1>6 DEF DetectionInv, TypeOK, ServiceTypeOK, tasks, saving
  <2>2. ASSUME NEW q \in Phones PROVE checks'[q] \in 0..MaxChecks[q]
    BY <1>1, <1>2, <2>2 DEF DetectionInv, TypeOK, ClientTypeOK
  <2>3. ClientTypeOK'
    BY <1>2, <1>3, <1>6, <2>2 DEF DetectionInv, TypeOK, ClientTypeOK, Steps
  <2> QED
    BY <1>1, <1>2, <1>6, <2>1, <2>3 DEF DetectionInv, TypeOK, Fields, saving
<1>8. ASSUME NEW k \in Conn PROVE (Ahead(k) => Untouched(k))'
  <2>1. PICK q \in Phones : \E n \in 1..MaxChecks[q] : k = <<q, n>>
    BY ConnFacts
  <2>2. Ahead(k)' => Ahead(k)
    BY <1>1, <1>2, <1>3, <2>1 DEF Ahead, Current, DetectionInv, TypeOK, ClientTypeOK
  <2> QED
    BY <1>2, <1>6, <2>2 DEF DetectionInv, Checking, Untouched, tasks
<1>9. ASSUME NEW k \in Conn PROVE Informed(k)'
  <2>1. CASE k = c
    BY <1>2, <1>5, <1>6, <2>1 DEF Informed, Untouched, tasks
  <2>2. CASE k # c
    <3>1. asked'[k] = asked[k]
      BY <1>4, <2>2 DEF DetectionInv, TypeOK, ServiceTypeOK
    <3> QED
      BY <1>2, <1>6, <3>1 DEF DetectionInv, Checking, Informed, Verdict, tasks, saving
  <2> QED
    BY <2>1, <2>2
<1>10. ASSUME NEW q \in Phones PROVE UnderWay(q)'
  <2>1. CASE q = p
    <3>1. Current(p)' = c /\ asked'[c] = d
      BY <1>2, <1>4, <1>5 DEF Current, DetectionInv, TypeOK, ServiceTypeOK
    <3> QED
      BY <1>1, <1>2, <2>1, <3>1 DEF UnderWay
  <2>2. CASE q # p
    <3>1. step'[q] = step[q] /\ checks'[q] = checks[q] /\ Current(q)' = Current(q)
      BY <1>1, <1>2, <1>3, <2>2 DEF Current, DetectionInv, TypeOK, ClientTypeOK
    <3>2. Current(q) # c
      BY <2>2 DEF Current
    <3>3. checks[q] > 0 => Current(q) \in Conn
      BY CurrentConn DEF DetectionInv
    <3>4. checks[q] > 0 => asked'[Current(q)] = asked[Current(q)]
      BY <1>4, <3>2, <3>3 DEF DetectionInv, TypeOK, ServiceTypeOK
    <3> QED
      BY <3>1, <3>4 DEF DetectionInv, Checking, UnderWay
  <2> QED
    BY <2>1, <2>2
<1>11. Saved'
  <2>1. \A k \in Conn : stage[k] \in Storing => asked'[k] = asked[k]
    BY <1>4, <1>5 DEF Untouched, Storing, DetectionInv, TypeOK, ServiceTypeOK
  <2> QED
    BY <1>6, <2>1, SavedStays DEF DetectionInv, tasks
<1> QED
  BY <1>7, <1>8, <1>9, <1>10, <1>11 DEF DetectionInv, Checking

(* A step of a check that is under way changes its connection only.        *)
LEMMA CheckMoves ==
  ASSUME DetectionInv, NEW p \in Phones, step[p] # "idle",
         NEW s \in Steps \ {"connect"}, At(p, s), UNCHANGED <<asked, checks, saving>>,
         \A k \in Conn \ {Current(p)} :
           conn'[k] = conn[k] /\ stage'[k] = stage[k] /\ reply'[k] = reply[k],
         Informed(Current(p))',
         LET c == Current(p) IN
           stage'[c] = stage[c] \/ (stage[c] \notin Storing /\ stage'[c] \notin Storing)
  PROVE  Checking' /\ Saved' /\ step' \in [Phones -> Steps]
<1>1. step'[p] = s /\ \A q \in Phones \ {p} : step'[q] = step[q]
  BY DEF At, DetectionInv, TypeOK, ClientTypeOK
<1>2. \A q \in Phones : Current(q)' = Current(q)
  BY DEF Current
<1>3. ASSUME NEW k \in Conn PROVE (Ahead(k) => Untouched(k))'
  <2>1. PICK q \in Phones : \E n \in 1..MaxChecks[q] : k = <<q, n>>
    BY ConnFacts
  <2>2. checks[p] \in Nat /\ checks[p] > 0
    BY DEF DetectionInv, Fields, Checking, UnderWay
  <2>3. Ahead(k)' => Ahead(k) /\ k # Current(p)
    BY <1>1, <1>2, <2>1, <2>2 DEF Ahead, Current
  <2> QED
    BY <2>3 DEF DetectionInv, Checking, Untouched
<1>4. ASSUME NEW k \in Conn PROVE Informed(k)'
  <2>1. CASE k = Current(p)
    BY <1>2, <2>1
  <2>2. CASE k # Current(p)
    BY <2>2 DEF DetectionInv, Checking, Informed, Verdict, saving
  <2> QED
    BY <2>1, <2>2
<1>5. ASSUME NEW q \in Phones PROVE UnderWay(q)'
  BY <1>1, <1>2 DEF DetectionInv, Checking, UnderWay
<1>6. Saved'
  BY SavedStays DEF DetectionInv
<1>7. step' \in [Phones -> Steps]
  BY DEF At, DetectionInv, TypeOK, ClientTypeOK
<1> QED
  BY <1>3, <1>4, <1>5, <1>6, <1>7 DEF Checking

(* The phone's variables keep their types when the step does, and the      *)
(* server's when the connection's do.                                      *)
LEMMA CheckFields ==
  ASSUME DetectionInv, UNCHANGED <<asked, checks, threads, phase, saving>>,
         conn' \in [Conn -> {"none", "open", "shut", "done", "rst"}],
         sent' \in [Conn -> {"part", "all"}],
         reply' \in [Conn -> Answers \cup {None}],
         stage' \in [Conn -> Stages], upsets' \in 0..MaxUpsets,
         known' \in [Phones -> BOOLEAN], step' \in [Phones -> Steps],
         result' \in [Phones -> Answers \cup {None}],
         board' \in [Phones -> Boards], loaded' \in [Phones -> SUBSET Detectors]
  PROVE  TypeOK' /\ Fields'
<1>1. ServiceTypeOK' /\ ClientTypeOK'
  BY DEF DetectionInv, TypeOK, ServiceTypeOK, ClientTypeOK, saving
<1> QED
  BY <1>1 DEF DetectionInv, TypeOK, Fields, saving

LEMMA UnderWayFacts ==
  ASSUME DetectionInv, NEW p \in Phones, step[p] # "idle"
  PROVE  Current(p) \in Conn /\ asked[Current(p)] \in Detectors /\ Informed(Current(p))
         /\ (step[p] = "connect" => Untouched(Current(p)))
<1>1. checks[p] > 0 /\ asked[Current(p)] \in Detectors
  BY DEF DetectionInv, Checking, UnderWay
<1>2. Current(p) \in Conn
  BY <1>1, CurrentConn DEF DetectionInv
<1>3. step[p] = "connect" => Ahead(Current(p))
  BY DEF Ahead, Current
<1> QED
  BY <1>1, <1>2, <1>3 DEF DetectionInv, Checking

LEMMA CheckConnects ==
  ASSUME DetectionInv, NEW p \in Phones, Connect(p)
  PROVE  DetectionInv'
<1> DEFINE c == Current(p)
<1>1. /\ step[p] = "connect" /\ At(p, "write") /\ Goto(c, "queued")
      /\ conn' = [conn EXCEPT ![c] = "open"]
      /\ UNCHANGED <<asked, sent, reply, detector, checks, result>>
      /\ UNCHANGED <<phase, threads, saving, upsets>>
  BY DEF Connect
<1>2. c \in Conn /\ asked[c] \in Detectors /\ Untouched(c)
  BY <1>1, UnderWayFacts
<1>3. /\ conn \in [Conn -> {"none", "open", "shut", "done", "rst"}]
      /\ stage \in [Conn -> Stages]
  BY DEF DetectionInv, TypeOK, ServiceTypeOK
<1>4. /\ conn'[c] = "open" /\ stage'[c] = "queued" /\ reply'[c] = None /\ stage[c] = "none"
      /\ \A k \in Conn \ {c} :
           conn'[k] = conn[k] /\ stage'[k] = stage[k] /\ reply'[k] = reply[k]
  BY <1>1, <1>2, <1>3 DEF Goto, Untouched
<1>5. Informed(c)'
  BY <1>1, <1>2, <1>4 DEF Informed, Current
<1>6. Checking' /\ Saved' /\ step' \in [Phones -> Steps]
  <2>1. "write" \in Steps \ {"connect"} /\ "none" \notin Storing /\ "queued" \notin Storing
    BY DEF Steps, Storing
  <2> QED
    BY <1>1, <1>4, <1>5, <2>1, CheckMoves
<1>7. TypeOK' /\ Fields'
  <2>1. stage' \in [Conn -> Stages]
    BY <1>1, <1>3 DEF Goto, Stages
  <2> QED
    BY <1>1, <1>3, <1>6, <2>1, CheckFields
       DEF DetectionInv, TypeOK, ServiceTypeOK, ClientTypeOK, detector
<1> QED
  BY <1>6, <1>7 DEF DetectionInv

(* The other steps leave the task of the check alone, open no connection   *)
(* and give no answer.                                                     *)
LEMMA CheckGoesOn ==
  ASSUME DetectionInv, NEW p \in Phones, step[p] # "idle", UNCHANGED <<asked, checks>>,
         UNCHANGED <<phase, tasks, saving>>, upsets' \in 0..MaxUpsets,
         NEW s \in Steps \ {"connect"}, At(p, s),
         NEW e \in {"none", "open", "shut", "done", "rst"},
         conn' = [conn EXCEPT ![Current(p)] = e],
         e = "open" => conn[Current(p)] = "open",
         reply' = reply \/ reply' = [reply EXCEPT ![Current(p)] = None],
         sent' \in [Conn -> {"part", "all"}], known' \in [Phones -> BOOLEAN],
         result' \in [Phones -> Answers \cup {None}],
         board' \in [Phones -> Boards], loaded' \in [Phones -> SUBSET Detectors]
  PROVE  DetectionInv'
<1> DEFINE c == Current(p)
<1>1. c \in Conn /\ Informed(c)
  BY UnderWayFacts
<1>2. /\ conn \in [Conn -> {"none", "open", "shut", "done", "rst"}]
      /\ stage' = stage /\ stage \in [Conn -> Stages]
      /\ reply \in [Conn -> Answers \cup {None}]
  BY DEF DetectionInv, TypeOK, ServiceTypeOK, tasks
<1>3. /\ conn'[c] = e /\ reply'[c] \in {reply[c], None}
      /\ \A k \in Conn \ {c} : conn'[k] = conn[k] /\ reply'[k] = reply[k]
  BY <1>1, <1>2
<1>4. Informed(c)'
  BY <1>1, <1>2, <1>3 DEF Informed, Verdict, Current, saving
<1>5. Checking' /\ Saved' /\ step' \in [Phones -> Steps]
  BY <1>2, <1>3, <1>4, CheckMoves
<1>6. /\ reply' \in [Conn -> Answers \cup {None}]
      /\ conn' \in [Conn -> {"none", "open", "shut", "done", "rst"}]
      /\ threads' = threads
  BY <1>2 DEF tasks
<1>7. TypeOK' /\ Fields'
  BY <1>2, <1>5, <1>6, CheckFields
<1> QED
  BY <1>5, <1>7 DEF DetectionInv

LEMMA CheckEnds ==
  ASSUME DetectionInv, NEW p \in Phones,
         Write(p) \/ ReadReply(p) \/ NetworkError(p) \/ LocalCheck(p) \/ AppVanishes(p)
  PROVE  DetectionInv'
<1> DEFINE c == Current(p)
<1>1. step[p] # "idle"
  BY DEF Write, ReadReply, NetworkError, Failing, LocalCheck, AppVanishes
<1>2. c \in Conn
  BY <1>1, UnderWayFacts
<1>3. /\ conn \in [Conn -> {"none", "open", "shut", "done", "rst"}]
      /\ reply \in [Conn -> Answers \cup {None}] /\ sent \in [Conn -> {"part", "all"}]
      /\ upsets \in 0..MaxUpsets /\ MaxUpsets \in Nat
      /\ known \in [Phones -> BOOLEAN] /\ result \in [Phones -> Answers \cup {None}]
      /\ board \in [Phones -> Boards] /\ loaded \in [Phones -> SUBSET Detectors]
  BY ServiceAssumption DEF DetectionInv, TypeOK, ServiceTypeOK, ClientTypeOK
<1>4. {"wait", "idle", "local"} \subseteq Steps \ {"connect"}
  BY DEF Steps
<1>5. CASE Write(p)
  <2>1. At(p, "wait") /\ conn' = [conn EXCEPT ![c] = conn[c]] /\ sent' \in [Conn -> {"part", "all"}]
    BY <1>2, <1>3, <1>5 DEF Write
  <2>2. /\ UNCHANGED <<asked, checks, reply, result, known, board, loaded>>
        /\ UNCHANGED <<phase, tasks, saving, upsets>>
    BY <1>5 DEF Write, detector, serviceVars
  <2> QED
    BY <1>1, <1>2, <1>3, <1>4, <2>1, <2>2, CheckGoesOn
<1>6. CASE ReadReply(p)
  <2>1. /\ At(p, "idle") /\ conn' = [conn EXCEPT ![c] = "none"]
        /\ reply' = [reply EXCEPT ![c] = None]
        /\ result' \in [Phones -> Answers \cup {None}]
    BY <1>2, <1>3, <1>6 DEF ReadReply
  <2>2. /\ UNCHANGED <<asked, checks, sent, known, board, loaded>>
        /\ UNCHANGED <<phase, tasks, saving, upsets>>
    BY <1>6 DEF ReadReply, detector, serviceVars
  <2> QED
    BY <1>1, <1>3, <1>4, <2>1, <2>2, CheckGoesOn
<1>7. CASE NetworkError(p)
  <2> DEFINE e == IF conn[c] = "open" THEN "shut" ELSE "none"
  <2>1. /\ At(p, "local") /\ conn' = [conn EXCEPT ![c] = e]
        /\ reply' = [reply EXCEPT ![c] = None] /\ known' \in [Phones -> BOOLEAN]
    BY <1>3, <1>7 DEF NetworkError
  <2>2. /\ UNCHANGED <<asked, checks, sent, result, board, loaded>>
        /\ UNCHANGED <<phase, tasks, saving, upsets>>
    BY <1>7 DEF NetworkError, serviceVars
  <2>3. e \in {"none", "open", "shut", "done", "rst"} /\ e # "open"
    OBVIOUS
  <2> HIDE DEF e
  <2> QED
    BY <1>1, <1>3, <1>4, <2>1, <2>2, <2>3, CheckGoesOn
<1>8. CASE LocalCheck(p)
  <2>1. At(p, "idle") /\ conn' = [conn EXCEPT ![c] = conn[c]]
        /\ result' \in [Phones -> Answers \cup {None}]
    BY <1>2, <1>3, <1>8 DEF LocalCheck, wire, Verdict, Answers
  <2>2. /\ UNCHANGED <<asked, checks, sent, reply, known, board, loaded>>
        /\ UNCHANGED <<phase, tasks, saving, upsets>>
    BY <1>8 DEF LocalCheck, wire, detector, serviceVars
  <2> QED
    BY <1>1, <1>2, <1>3, <1>4, <2>1, <2>2, CheckGoesOn
<1>9. CASE AppVanishes(p)
  <2>1. PICK end \in {"open", "shut", "rst"} :
          conn' = [conn EXCEPT ![c] = IF @ = "open" THEN end ELSE "none"]
    BY <1>9 DEF AppVanishes
  <2> DEFINE e == IF conn[c] = "open" THEN end ELSE "none"
  <2>2. /\ At(p, "idle") /\ conn' = [conn EXCEPT ![c] = e]
        /\ reply' = [reply EXCEPT ![c] = None] /\ known' \in [Phones -> BOOLEAN]
        /\ upsets' \in 0..MaxUpsets
        /\ board' \in [Phones -> Boards] /\ loaded' \in [Phones -> SUBSET Detectors]
    <3>1. Files[Shipped] \in SUBSET Detectors /\ Shipped \in Boards
      BY ClientAssumption
    <3>2. /\ loaded' = [loaded EXCEPT ![p] = Files[Shipped]]
          /\ board' = [board EXCEPT ![p] = Shipped]
          /\ upsets' = upsets + 1 /\ upsets < MaxUpsets
          /\ known' = [known EXCEPT ![p] = FALSE]
          /\ At(p, "idle") /\ reply' = [reply EXCEPT ![c] = None]
      BY <1>9 DEF AppVanishes
    <3>3. loaded' \in [Phones -> SUBSET Detectors] /\ board' \in [Phones -> Boards]
      BY <1>3, <3>1, <3>2
    <3>4. upsets' \in 0..MaxUpsets /\ known' \in [Phones -> BOOLEAN]
      BY <1>3, <3>2
    <3>5. conn' = [conn EXCEPT ![c] = e]
      BY <2>1
    <3> QED
      BY <3>2, <3>3, <3>4, <3>5
  <2>3. UNCHANGED <<asked, checks, sent, result, phase, tasks, saving>>
    BY <1>9 DEF AppVanishes
  <2>4. e \in {"none", "open", "shut", "done", "rst"} /\ (e = "open" => conn[c] = "open")
    OBVIOUS
  <2> HIDE DEF e
  <2> QED
    BY <1>1, <1>3, <1>4, <2>2, <2>3, <2>4, CheckGoesOn
<1> QED
  BY <1>5, <1>6, <1>7, <1>8, <1>9

LEMMA DetectionNext == DetectionInv /\ [Next]_vars => DetectionInv'
<1> SUFFICES ASSUME DetectionInv, [Next]_vars PROVE DetectionInv'
  OBVIOUS
<1>1. CASE ServiceStep
  BY <1>1, ServiceNext
<1>2. ASSUME NEW p \in Phones, Client(p) PROVE DetectionInv'
  BY <1>2, MoreDetectors, PictureTaken, CheckConnects, CheckEnds DEF Client, CheckStep
<1>3. CASE UNCHANGED vars
  <2>1. UNCHANGED <<wire, phase, threads, stage, saving, upsets, clientVars>>
    BY <1>3 DEF vars, serviceVars, tasks
  <2>2. TypeOK' /\ Fields'
    BY <2>1, TypesStay DEF DetectionInv, TypeOK, ServiceTypeOK
  <2>3. Checking'
    BY <2>1 DEF DetectionInv, Checking, Ahead, Untouched, Informed, UnderWay, Current, Verdict,
                wire, saving, clientVars, detector
  <2>4. Saved'
    BY <2>1, SavedStays DEF DetectionInv, wire
  <2> QED
    BY <2>2, <2>3, <2>4 DEF DetectionInv
<1> QED
  BY <1>1, <1>2, <1>3 DEF Next

(* Every variable keeps its type, whatever the number of phones, of checks *)
(* and of threads, and whatever dies or vanishes.                          *)
THEOREM Typed == Spec => []TypeOK
<1>1. DetectionInv => TypeOK
  BY DEF DetectionInv
<1> QED
  BY <1>1, DetectionInit, DetectionNext, PTL DEF Spec

(* Only a task that writes changes the files, and to a new name: as long   *)
(* as nobody saved at the same time, the name chosen is still free.        *)
LEMMA FilesKept ==
  ASSUME DetectionInv, [Next]_vars, NEW d \in Detectors \ disturbed
  PROVE  Kept(d)
<1>1. CASE \E c \in Conn : WriteFile(c)
  <2>1. PICK c \in Conn : WriteFile(c)
    BY <1>1
  <2>2. CASE asked[c] = d
    <3>1. c \in Saving(d)
      BY <2>1, <2>2 DEF WriteFile, Saving
    <3>2. index[c] = Count(d) + 1 /\ DOMAIN files[d] = 1..Count(d)
      BY <3>1 DEF DetectionInv, Saved, Numbered
    <3>3. Count(d) \in Nat
      BY FS_CardinalityType DEF Count, DetectionInv, Fields
    <3>4. index[c] \notin DOMAIN files[d]
      BY <3>2, <3>3
    <3> QED
      BY <2>1, <2>2, <3>4, FileAdded DEF Kept
  <2>3. CASE asked[c] # d
    BY <2>1, <2>3, FileAdded DEF Kept
  <2> QED
    BY <2>2, <2>3
<1>2. CASE ~ \E c \in Conn : WriteFile(c)
  <2>1. CASE ServiceStep
    <3>1. CASE Launch \/ Listen \/ Die
      BY <3>1 DEF Launch, Listen, Die, saving, Kept
    <3>2. ASSUME NEW c \in Conn, Task(c) PROVE Kept(d)
      BY <1>2, <3>2 DEF Task, Take, Read, ReadError, ChooseName, StoreIndex, SaveFails,
                        Scan, Refuse, Answer, saving, Kept
    <3> QED
      BY <2>1, <3>1, <3>2 DEF ServiceStep, Service
  <2>2. ASSUME NEW p \in Phones, Client(p) PROVE Kept(d)
    BY <2>2 DEF Client, HearServer, ChangeBoard, CheckPicture, CheckStep, Connect, Write,
                ReadReply, NetworkError, LocalCheck, AppVanishes, serviceVars, saving, Kept
  <2>3. CASE UNCHANGED vars
    BY <2>3 DEF vars, serviceVars, saving, Kept
  <2> QED
    BY <2>1, <2>2, <2>3 DEF Next
<1> QED
  BY <1>1, <1>2

(* A saved picture is never overwritten, by this server or by a later one, *)
(* unless two tasks were saving for its detector at a time or one failed   *)
(* to: the name that saveImage looks for once is the right one for the     *)
(* life of the process, and no file is missing below it.                   *)
THEOREM PicturesKept == Spec => SavedKept
<1>1. DetectionInv /\ [Next]_vars => [\A d \in Detectors : d \in disturbed \/ Kept(d)]_vars
  BY FilesKept
<1> QED
  BY <1>1, DetectionInit, DetectionNext, PTL DEF Spec, SavedKept

-----------------------------------------------------------------------------
(* The checks and what they promise *)

(* What is under examination, as ImageCheck sees it.                       *)
Pending == [p \in Phones |-> IF step[p] = "idle" THEN None ELSE UnderCheck(p)]

LEMMA PendingFacts ==
  ASSUME DetectionInv, NEW p \in Phones, step[p] # "idle"
  PROVE  /\ Pending[p] = [detector |-> asked[Current(p)], seen |-> Current(p) \in Seen]
         /\ Pending[p] # None
<1>1. Pending[p] = UnderCheck(p)
  BY DEF Pending
<1>2. UnderCheck(p) \in [detector : Detectors, seen : BOOLEAN]
  BY UnderWayFacts DEF UnderCheck
<1> QED
  BY <1>1, <1>2, ServiceAssumption DEF UnderCheck

LEMMA PendingMoves ==
  ASSUME DetectionInv, NEW p \in Phones, NEW s, At(p, s), UNCHANGED <<asked, checks>>
  PROVE  /\ s = "idle" => Pending' = [Pending EXCEPT ![p] = None]
         /\ s # "idle" /\ step[p] # "idle" => Pending' = Pending
<1>1. step'[p] = s /\ \A q \in Phones \ {p} : step'[q] = step[q]
  BY DEF At, DetectionInv, TypeOK, ClientTypeOK
<1>2. \A q \in Phones : UnderCheck(q)' = UnderCheck(q)
  BY DEF UnderCheck, Current
<1> QED
  BY <1>1, <1>2 DEF Pending

LEMMA CheckingStarts ==
  ASSUME DetectionInv, NEW p \in Phones, CheckPicture(p)
  PROVE  Check!Ask(p)
<1> DEFINE c == <<p, checks[p] + 1>>
<1>1. /\ step[p] = "idle" /\ checks \in [Phones -> Nat] /\ checks[p] < MaxChecks[p]
      /\ checks' = [checks EXCEPT ![p] = @ + 1] /\ MaxChecks \in [Phones -> Nat]
      /\ UNCHANGED loaded /\ result' = [result EXCEPT ![p] = None]
  BY ServiceAssumption DEF CheckPicture, DetectionInv, Fields, detector
<1>2. PICK d \in Detectors : asked' = [asked EXCEPT ![c] = d]
  BY <1>1, ClientAssumption DEF CheckPicture, DetectionInv, TypeOK, ClientTypeOK
<1>3. PICK s \in {"connect", "local"} : step' = [step EXCEPT ![p] = s]
  BY DEF CheckPicture, At
<1>4. c \in Conn /\ Current(p)' = c
  BY <1>1, ConnFacts DEF Current
<1>5. asked'[c] = d /\ \A k \in Conn \ {c} : asked'[k] = asked[k]
  BY <1>2, <1>4 DEF DetectionInv, TypeOK, ServiceTypeOK
<1>6. step'[p] = s /\ \A q \in Phones \ {p} : step'[q] = step[q]
  BY <1>3 DEF DetectionInv, TypeOK, ClientTypeOK
<1>7. UnderCheck(p)' = [detector |-> d, seen |-> c \in Seen]
  BY <1>4, <1>5 DEF UnderCheck
<1>8. ASSUME NEW q \in Phones \ {p}, step[q] # "idle" PROVE UnderCheck(q)' = UnderCheck(q)
  <2>1. Current(q) \in Conn /\ Current(q) # c /\ Current(q)' = Current(q)
    BY <1>1, <1>8, UnderWayFacts DEF Current
  <2> QED
    BY <1>5, <2>1 DEF UnderCheck
<1>9. Pending[p] = None /\ Pending' = [Pending EXCEPT ![p] = [detector |-> d, seen |-> c \in Seen]]
  BY <1>1, <1>6, <1>7, <1>8 DEF Pending
<1>10. (c \in Seen) \in BOOLEAN
  OBVIOUS
<1> QED
  BY <1>1, <1>9, <1>10 DEF Check!Ask, Pending

LEMMA CheckingEnds ==
  ASSUME DetectionInv, NEW p \in Phones, step[p] # "idle", At(p, "idle"),
         UNCHANGED <<asked, checks, loaded>>,
         NEW a, result' = [result EXCEPT ![p] = a],
         \/ a = Verdict(Current(p))
         \/ a = -1 /\ asked[Current(p)] \notin ServerDetectors \cap loaded[p]
  PROVE  Check!Reply(p)
<1>1. /\ Pending[p] = [detector |-> asked[Current(p)], seen |-> Current(p) \in Seen]
      /\ Pending[p] # None /\ Pending' = [Pending EXCEPT ![p] = None]
  BY PendingFacts, PendingMoves
<1>2. Check!Verdict(p) = Verdict(Current(p))
  <2>1. Check!Verdict(p) = IF Pending[p].seen THEN 1 ELSE 0
    BY DEF Check!Verdict, Pending
  <2>2. Pending[p].seen = (Current(p) \in Seen)
    BY <1>1
  <2>3. CASE Current(p) \in Seen
    <3>1. Pending[p].seen = TRUE
      BY <2>2, <2>3
    <3> QED
      BY <2>1, <2>3, <3>1 DEF Verdict
  <2>4. CASE Current(p) \notin Seen
    <3>1. ~ Pending[p].seen
      BY <2>2, <2>4
    <3> QED
      BY <2>1, <2>4, <3>1 DEF Verdict
  <2> QED
    BY <2>3, <2>4
<1>3. Check!Unknown(p) <=> asked[Current(p)] \notin ServerDetectors \cap loaded[p]
  BY <1>1 DEF Check!Unknown, Pending
<1> QED
  BY <1>1, <1>2, <1>3 DEF Check!Reply, Pending

LEMMA CheckStays ==
  ASSUME Pending' = Pending, UNCHANGED <<result, loaded>>
  PROVE  UNCHANGED Check!vars
BY DEF Check!vars, Pending

(* Only a step of the phone itself is seen in its check.                   *)
LEMMA ServiceUnseen ==
  ASSUME ServiceStep \/ UNCHANGED vars
  PROVE  UNCHANGED Check!vars
<1>1. UNCHANGED <<asked, checks, step, result, loaded>>
  BY DEF ServiceStep, Service, Launch, Listen, Die, Task, Take, Read, ReadError, ChooseName,
         StoreIndex, WriteFile, SaveFails, Scan, Refuse, Answer, wire, clientVars, detector, vars
<1>2. \A q \in Phones : UnderCheck(q)' = UnderCheck(q)
  BY <1>1 DEF UnderCheck, Current
<1>3. Pending' = Pending
  BY <1>1, <1>2 DEF Pending
<1> QED
  BY <1>1, <1>3, CheckStays

LEMMA DetectorsChange ==
  ASSUME DetectionInv, NEW p \in Phones, ChangeBoard(p) \/ HearServer(p)
  PROVE  Check!Load(p) \/ UNCHANGED Check!vars
<1>1. UNCHANGED <<asked, checks, step, result>>
  BY DEF ChangeBoard, HearServer, wire
<1>2. Pending' = Pending
  <2>1. \A q \in Phones : UnderCheck(q)' = UnderCheck(q)
    BY <1>1 DEF UnderCheck, Current
  <2> QED
    BY <1>1, <2>1 DEF Pending
<1>3. CASE HearServer(p)
  BY <1>1, <1>2, <1>3, CheckStays DEF HearServer
<1>4. CASE ChangeBoard(p)
  <2>1. Pending[p] = None
    BY <1>4 DEF ChangeBoard, Pending
  <2>2. PICK b \in Boards, read \in SUBSET Detectors :
          loaded' = [loaded EXCEPT ![p] = @ \cup read]
    BY <1>4, ClientAssumption DEF ChangeBoard
  <2>3. loaded[p] \cup read \in SUBSET Detectors
    BY <2>2 DEF DetectionInv, TypeOK, ClientTypeOK
  <2>4. \E l \in SUBSET Detectors : loaded' = [loaded EXCEPT ![p] = l]
    BY <2>2, <2>3
  <2> QED
    BY <1>1, <1>2, <2>1, <2>4 DEF Check!Load, Pending
<1> QED
  BY <1>3, <1>4

LEMMA CheckAbandoned ==
  ASSUME DetectionInv, NEW p \in Phones, AppVanishes(p)
  PROVE  Check!Abandon(p)
<1>1. /\ step[p] # "idle" /\ At(p, "idle") /\ UNCHANGED <<asked, checks, result>>
      /\ loaded' = [loaded EXCEPT ![p] = Files[Shipped]]
  BY DEF AppVanishes
<1>2. Pending[p] # None /\ Pending' = [Pending EXCEPT ![p] = None]
  BY <1>1, PendingFacts, PendingMoves
<1>3. Files[Shipped] \in SUBSET Detectors
  BY ClientAssumption
<1> QED
  BY <1>1, <1>2, <1>3 DEF Check!Abandon, Pending

(* The answer of the server or of the phone's own detectors.               *)
LEMMA CheckProceeds ==
  ASSUME DetectionInv, NEW p \in Phones, CheckStep(p)
  PROVE  Check!Reply(p) \/ UNCHANGED Check!vars
<1> DEFINE c == Current(p)
<1>1. step[p] # "idle"
  BY DEF CheckStep, Connect, Write, ReadReply, NetworkError, Failing, LocalCheck
<1>2. c \in Conn /\ Informed(c)
  BY <1>1, UnderWayFacts
<1>3. ASSUME Connect(p) \/ Write(p) \/ NetworkError(p) PROVE UNCHANGED Check!vars
  <2>1. PICK s \in {"write", "wait", "local"} : At(p, s)
    BY <1>3 DEF Connect, Write, NetworkError
  <2>2. UNCHANGED <<asked, checks, result, loaded>>
    BY <1>3 DEF Connect, Write, NetworkError, detector
  <2>3. Pending' = Pending
    BY <1>1, <2>1, <2>2, PendingMoves
  <2> QED
    BY <2>2, <2>3, CheckStays
<1>4. CASE ReadReply(p)
  <2>1. /\ At(p, "idle") /\ UNCHANGED <<asked, checks, loaded>>
        /\ result' = [result EXCEPT ![p] = reply[c]] /\ reply[c] # None
    BY <1>4 DEF ReadReply, detector
  <2>2. \/ reply[c] = Verdict(c)
        \/ reply[c] = -1 /\ asked[c] \notin ServerDetectors \cap loaded[p]
    BY <1>2, <2>1 DEF Informed
  <2> QED
    BY <1>1, <2>1, <2>2, CheckingEnds
<1>5. CASE LocalCheck(p)
  <2> DEFINE a == IF asked[c] \notin loaded[p] THEN -1 ELSE Verdict(c)
  <2>1. /\ At(p, "idle") /\ UNCHANGED <<asked, checks, loaded>>
        /\ result' = [result EXCEPT ![p] = a]
    BY <1>5 DEF LocalCheck, wire, detector
  <2>2. a = Verdict(c) \/ (a = -1 /\ asked[c] \notin ServerDetectors \cap loaded[p])
    OBVIOUS
  <2> HIDE DEF a
  <2> QED
    BY <1>1, <2>1, <2>2, CheckingEnds
<1> QED
  BY <1>3, <1>4, <1>5 DEF CheckStep

LEMMA CheckInit == Init => Check!Init
BY ClientAssumption DEF Init, ServiceInit, ClientInit, Check!Init

LEMMA CheckNext == DetectionInv /\ [Next]_vars => [Check!Next]_Check!vars
<1> SUFFICES ASSUME DetectionInv, [Next]_vars PROVE [Check!Next]_Check!vars
  OBVIOUS
<1>1. CASE ServiceStep \/ UNCHANGED vars
  BY <1>1, ServiceUnseen
<1>2. ASSUME NEW p \in Phones, Client(p) PROVE [Check!Next]_Check!vars
  <2>1. Check!Ask(p) \/ Check!Reply(p) \/ Check!Load(p) \/ Check!Abandon(p) \/ UNCHANGED Check!vars
    BY <1>2, CheckingStarts, DetectorsChange, CheckAbandoned, CheckProceeds DEF Client
  <2> QED
    BY <2>1 DEF Check!Next
<1> QED
  BY <1>1, <1>2 DEF Next

(* Phones and server implement what checkForObjects promises the camera:   *)
(* one answer per check, about the picture of that check and no other      *)
(* phone's, and -1 only for a detector that the server or the phone does   *)
(* not have, whatever dies, is lost, comes late or is asked again.         *)
THEOREM CheckImplemented == Spec => CheckSpec
<1>1. Init /\ [][Next]_vars => Check!Init /\ [][Check!Next]_Check!vars
  BY CheckInit, CheckNext, DetectionInit, DetectionNext, PTL
<1> QED
  BY <1>1, PTL DEF Spec, CheckSpec, Check!Spec
=============================================================================
