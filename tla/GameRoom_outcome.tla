-------------------------- MODULE GameRoom_outcome ---------------------------
(***************************************************************************)
(* The room implements RoomOutcome: proved for every number of phones, of  *)
(* connections and of finds.  What the steps of the room have to be told   *)
(* for that is where a thread is while it has a verdict or a find in hand, *)
(* and that a connection that gets a new player had nothing credited.      *)
(***************************************************************************)
EXTENDS GameRoom_joining

Announcing == {"open", "send", "join"}

(* A thread that has the end of the game to announce does so.              *)
VerdictTask(t) == task[t].after = "ended" => pc[t] \in Announcing

(* A thread that weighs a find knows whose it is.                          *)
FindOwner == \A h \in Conn : pc[h] \in {"credited", "maingame"} => ref[h] \in Conn

VerdictInv == (\A t \in Thread : VerdictTask(t)) /\ FindOwner

LEMMA TaskAfter ==
  /\ \A m, after : Task(m, after).after = after
  /\ NoTask.after = "loop" /\ PlayerList.after = "loop"
  /\ [PlayerList EXCEPT !.after = "exit"].after = "exit"
  /\ [NoTask EXCEPT !.next = 1].after = "loop"
BY DEF Task, NoTask, PlayerList

LEMMA VerdictInit == Init => VerdictInv
<1> SUFFICES ASSUME Init PROVE VerdictInv
  OBVIOUS
<1>1. /\ \A t \in Thread : task[t] = NoTask
      /\ \A h \in Conn : pc[h] = "off"
  BY ServerAssumption DEF Init, ServerInit, Thread
<1> QED
  BY <1>1, TaskAfter DEF VerdictInv, VerdictTask, FindOwner

LEMMA AfterKept ==
  ASSUME TypeOK, NEW t,
         \/ UNCHANGED task
         \/ task' = [task EXCEPT ![t].next = @ + 1]
         \/ task' = [task EXCEPT ![t].msg = Filled(@), ![t].next = 1, ![t].len = Len(clients)]
  PROVE  \A u \in Thread : task'[u].after = task[u].after
<1>a. task \in [Thread -> SendTask]
  BY DEF TypeOK, ServerTypeOK
<1>1. CASE task' = [task EXCEPT ![t].next = @ + 1]
  BY <1>a, <1>1 DEF SendTask
<1>2. CASE task' = [task EXCEPT ![t].msg = Filled(@), ![t].next = 1, ![t].len = Len(clients)]
  BY <1>a, <1>2 DEF SendTask
<1> QED
  BY <1>1, <1>2

(* The task of the thread that moves, group by group.                      *)
LEMMA VerdictBroadcast ==
  ASSUME TypeOK, NEW t \in Thread, Broadcast(t)
  PROVE  /\ \/ task'[t].after = task[t].after /\ pc[t] \in Announcing /\ pc'[t] \in Announcing
            \/ task'[t].after = "loop"
         /\ \A u \in Thread \ {t} : task'[u] = task[u]
<1>a. task \in [Thread -> SendTask] /\ pc \in [Thread -> Location]
  BY DEF TypeOK, ServerTypeOK
<1>1. CASE Throw(t)
  BY <1>a, <1>1, TaskAfter DEF Throw
<1>2. CASE Open(t) /\ ~Throw(t)
  BY <1>a, <1>2, AfterKept DEF Open, Goto, Announcing
<1>3. CASE SendNext(t) \/ SendFails(t) \/ JoinReturns(t)
  BY <1>a, <1>3, AfterKept DEF SendNext, SendFails, JoinReturns, Sending, Goto, Announcing
<1>4. CASE Done(t)
  BY <1>a, <1>4, TaskAfter DEF Done
<1> QED
  BY <1>1, <1>2, <1>3, <1>4 DEF Broadcast, IteratorFails

LEMMA VerdictAccept ==
  ASSUME TypeOK, AcceptThread, VerdictTask(Acceptor)
  PROVE  /\ task[Acceptor].after # "ended" /\ task'[Acceptor].after # "ended"
         /\ \A u \in Thread \ {Acceptor} : task'[u] = task[u]
<1>a. task \in [Thread -> SendTask] /\ Acceptor \in Thread
  BY DEF TypeOK, ServerTypeOK, Thread
<1>1. task[Acceptor].after # "ended"
  BY DEF AcceptThread, Accept, StopAccepting, CloseClient, ClientClosed, AcceptorEnds,
     ClearPlayers, AllSent, VerdictTask, Announcing
<1>2. CASE UNCHANGED task \/ task' = [task EXCEPT ![Acceptor].next = @ + 1]
  BY <1>a, <1>1, <1>2, AfterKept
<1>3. CASE \E m : task' = [task EXCEPT ![Acceptor] = Task(m, "clear")]
  BY <1>a, <1>1, <1>3, TaskAfter
<1>4. CASE task' = [task EXCEPT ![Acceptor] = NoTask] \/ task' = [task EXCEPT ![Acceptor] = [NoTask EXCEPT !.next = 1]]
  BY <1>a, <1>1, <1>4, TaskAfter
<1> QED
  BY <1>1, <1>2, <1>3, <1>4 DEF AcceptThread, Accept, StopAccepting, CloseClient,
     ClientClosed, AcceptorEnds, ClearPlayers

-----------------------------------------------------------------------------
(* The steps of RoomOutcome, in the words of the room. *)

ScoresKept ==
  \A id \in Conn : stats'[id].score = stats[id].score /\ stats'[id].found = stats[id].found

Failed == doomed # {} \/ crashed

Undecided(t) == pc[t] # "tie" /\ task[t].after # "ended"

VerdictsKept(J) == \A t \in Thread \ J : Verdict(t)' = Verdict(t)

LEMMA UndecidedNone == ASSUME NEW t, Undecided(t) PROVE Verdict(t) = "none"
BY DEF Undecided, Verdict

LEMMA MapReseat ==
  ASSUME UNCHANGED gameState, ScoresKept, VerdictsKept({}), Failed' <=> Failed
  PROVE  Outcome!Reseat
BY DEF Outcome!Reseat, ScoresKept, VerdictsKept, Failed

LEMMA MapStart ==
  ASSUME gameState' = "MAIN_GAME", UNCHANGED players, ScoresKept, VerdictsKept({}),
         Failed' <=> Failed
  PROVE  Outcome!Start
BY DEF Outcome!Start, ScoresKept, VerdictsKept, Failed

LEMMA MapFail ==
  ASSUME UNCHANGED <<gameState, players>>, ScoresKept, NEW t \in Thread,
         VerdictsKept({t}), Verdict(t)' = "none", Failed'
  PROVE  Outcome!Fail
BY DEF Outcome!Fail, ScoresKept, VerdictsKept, Failed

LEMMA MapCredit ==
  ASSUME TypeOK, UNCHANGED <<gameState, players>>, VerdictsKept({}), Failed' <=> Failed,
         NEW h \in Conn, Joined(h), NEW v \in Values,
         stats' = [stats EXCEPT ![players[h]].found = @ + 1, ![players[h]].score = @ + v]
  PROVE  Outcome!Credit(h)
<1>1. stats \in [Conn -> PlayerInfo] /\ players[h] \in Conn
  BY DEF TypeOK, ServerTypeOK, Joined
<1>2. \A id \in Conn :
        /\ stats'[id].found = IF id = players[h] THEN stats[id].found + 1 ELSE stats[id].found
        /\ stats'[id].score = IF id = players[h] THEN stats[id].score + v ELSE stats[id].score
  BY <1>1 DEF PlayerInfo
<1> QED
  BY <1>1, <1>2 DEF Outcome!Credit, VerdictsKept, Failed

LEMMA MapJudge ==
  ASSUME UNCHANGED <<gameState, players>>, ScoresKept, Failed' <=> Failed,
         NEW t \in Thread, VerdictsKept({t}), Verdict(t) = "none",
         \/ /\ Verdict(t)' = "over"
            /\ gameState = "DEATH_MATCH" \/ (gameState = "MAIN_GAME" /\ Winner)
         \/ /\ Verdict(t)' = "tie"
            /\ gameState = "MAIN_GAME" /\ Winner /\ Outcome!Tie
  PROVE  Outcome!Judge(t)
<1>1. Outcome!Winner <=> Winner
  BY DEF Outcome!Winner, Winner
<1> QED
  BY <1>1 DEF Outcome!Judge, ScoresKept, VerdictsKept, Failed

LEMMA MapCarryOut ==
  ASSUME UNCHANGED players, ScoresKept, Failed' <=> Failed,
         NEW t \in Thread, VerdictsKept({t}), Verdict(t)' = "none",
         \/ Verdict(t) = "tie" /\ gameState' = "DEATH_MATCH"
         \/ Verdict(t) = "over" /\ gameState' = "ENDED"
  PROVE  Outcome!CarryOut(t)
BY DEF Outcome!CarryOut, ScoresKept, VerdictsKept, Failed

(* The head of the standings has two rows only when two seats tie.         *)
LEMMA TieFound ==
  ASSUME TypeOK, NEW o \in Standings, Len(Equals(o)) > 1
  PROVE  Outcome!Tie
<1> DEFINE n == Cardinality(Entries)
           Same(i) == stats[o[i]].score = stats[o[1]].score
           head == {k \in DOMAIN o : \A i \in 1..k : Same(i)}
<1>1. PICK f \in [1..n -> Entries] : /\ o = [i \in 1..n |-> players[f[i]]]
                                     /\ \A i, j \in 1..n : f[i] = f[j] => i = j
  BY DEF Standings
<1>2. n \in Nat /\ DOMAIN o = 1..n /\ o \in Seq(Conn) /\ Len(o) = n
  BY <1>1, EntriesFinite, StandingsType
<1>3. IsFiniteSet(head) /\ Cardinality(head) \in Nat /\ Cardinality(head) <= n
  <2>1. IsFiniteSet(1..n) /\ Cardinality(1..n) = n
    BY <1>2, FS_Interval
  <2> QED
    BY <1>2, <2>1, FS_Subset, FS_CardinalityType
<1>4. \A i \in 1..Cardinality(head) : o[i] \in Conn
  BY <1>2, <1>3
<1>5. Cardinality(head) > 1
  <2> HIDE DEF head
  <2>1. Len(SubSeq(o, 1, Cardinality(head))) = Cardinality(head)
    BY <1>2, <1>3, <1>4, SubSeqProperties
  <2> QED
    BY <2>1 DEF Equals, head
<1>6. PICK k \in head : k # 1
  <2>1. ~(head \subseteq {1})
    <3> HIDE DEF head
    <3>1. \A T \in SUBSET {1} : Cardinality(T) <= 1
      <4>1. IsFiniteSet({1}) /\ Cardinality({1}) = 1
        BY FS_Singleton
      <4> QED
        BY <4>1, FS_Subset
    <3> QED
      BY <1>3, <1>5, <3>1
  <2> QED
    BY <2>1
<1>7. 1 \in 1..n /\ 2 \in 1..n /\ Same(2)
  BY <1>2, <1>6
<1>8. /\ f[1] \in Conn /\ f[2] \in Conn /\ f[1] # f[2]
      /\ players[f[1]] \in Conn /\ players[f[2]] \in Conn
      /\ stats[players[f[1]]].score = stats[players[f[2]]].score
  BY <1>1, <1>7 DEF Entries, Joined
<1> QED
  BY <1>8 DEF Outcome!Tie

-----------------------------------------------------------------------------
(* The steps of the room. *)

LEMMA BroadcastMaps ==
  ASSUME TypeOK, VerdictInv, NEW t \in Thread, Broadcast(t)
  PROVE  VerdictInv' /\ (Outcome!Reseat \/ Outcome!Fail)
<1> USE DEF wire, room
<1>a. /\ task \in [Thread -> SendTask] /\ pc \in [Thread -> Location]
      /\ VerdictTask(t) /\ Conn \subseteq Thread
  BY DEF TypeOK, ServerTypeOK, VerdictInv, Thread
<1>b. /\ \/ task'[t].after = task[t].after /\ pc[t] \in Announcing /\ pc'[t] \in Announcing
         \/ task'[t].after = "loop"
      /\ \A u \in Thread \ {t} : task'[u] = task[u]
  BY VerdictBroadcast
<1>c. /\ pc[t] \in Announcing /\ pc'[t] \notin {"tie", "credited", "maingame"}
      /\ \A u \in Thread \ {t} : pc'[u] = pc[u]
      /\ UNCHANGED <<gameState, players, stats, ref>>
  BY <1>a DEF Broadcast, Open, IteratorFails, SendNext, SendFails, JoinReturns, Done, Sending,
     AllSent, Announcing, Throw, Goto, Back
<1>1. VerdictInv'
  BY <1>a, <1>b, <1>c DEF VerdictInv, VerdictTask, FindOwner
<1>2. VerdictsKept({t}) /\ ScoresKept
  BY <1>b, <1>c DEF VerdictsKept, Verdict, ScoresKept
<1>3. CASE Throw(t)
  <2>1. Verdict(t)' = "none" /\ Failed'
    BY <1>3, <1>a, TaskAfter DEF Throw, Goto, Verdict, Failed
  <2> QED
    BY <1>1, <1>2, <1>c, <2>1, MapFail
<1>4. CASE ~Throw(t)
  <2>1. Failed' <=> Failed
    BY <1>4 DEF Broadcast, Open, IteratorFails, SendNext, SendFails, JoinReturns, Done, Failed
  <2>2. CASE Done(t)
    <3>1. Undecided(t) /\ Undecided(t)'
      BY <1>a, <1>c, <2>2, TaskAfter DEF Done, AllSent, Undecided
    <3> QED
      BY <1>1, <1>2, <1>c, <2>1, <3>1, MapReseat DEF VerdictsKept, Undecided, Verdict
  <2>3. CASE ~Done(t)
    <3>1. task'[t].after = task[t].after
      BY <1>4, <2>3, AfterKept DEF Broadcast, Open, IteratorFails, SendNext, SendFails, JoinReturns
    <3> QED
      BY <1>1, <1>2, <1>c, <2>1, <3>1, MapReseat DEF VerdictsKept, Verdict, Announcing
  <2> QED
    BY <2>2, <2>3
<1> QED
  BY <1>3, <1>4

LEMMA AcceptMaps ==
  ASSUME TypeOK, IdThreads, VerdictInv, AcceptThread
  PROVE  VerdictInv' /\ Outcome!Reseat
<1> USE DEF wire, room
<1>a. /\ pc \in [Thread -> Location] /\ Conn \subseteq Thread
      /\ Acceptor \in Thread /\ Acceptor \notin Conn /\ VerdictTask(Acceptor)
  BY ServerAssumption DEF TypeOK, ServerTypeOK, VerdictInv, Thread
<1>b. /\ task[Acceptor].after # "ended" /\ task'[Acceptor].after # "ended"
      /\ \A u \in Thread \ {Acceptor} : task'[u] = task[u]
  BY <1>a, VerdictAccept
<1>c. /\ pc[Acceptor] # "tie" /\ pc'[Acceptor] # "tie"
      /\ \A c \in Conn : pc'[c] = pc[c] \/ (pc[c] = "off" /\ pc'[c] = "read")
      /\ UNCHANGED <<gameState, stats, ref, doomed, crashed>>
  BY <1>a DEF AcceptThread, Accept, StopAccepting, CloseClient, ClientClosed, AcceptorEnds,
     ClearPlayers, AllSent, Goto, IdThreads
<1>1. VerdictInv'
  BY <1>a, <1>b, <1>c DEF VerdictInv, VerdictTask, FindOwner, Announcing, Thread
<1>2. VerdictsKept({})
  <2>1. Verdict(Acceptor)' = Verdict(Acceptor)
    BY <1>b, <1>c DEF Verdict
  <2>2. \A c \in Conn : Verdict(c)' = Verdict(c)
    BY <1>a, <1>b, <1>c DEF Verdict
  <2> QED
    BY <2>1, <2>2 DEF VerdictsKept, Thread
<1> QED
  BY <1>1, <1>2, <1>c, MapReseat DEF ScoresKept, Failed

(* A handler is decisive when it weighs a find or carries out a verdict.   *)
Decisive(h) == DeathMatchFind(h) \/ MainGameFind(h) \/ OpenDeathMatch(h) \/ GameEnds(h)

LEMMA HandlerUndecided ==
  ASSUME TypeOK, NEW h \in Conn, VerdictTask(h), HandlerThread(h), ~Decisive(h)
  PROVE  Undecided(h) /\ Undecided(h)'
<1> USE DEF wire, Undecided
<1>a. /\ task \in [Thread -> SendTask] /\ pc \in [Thread -> Location]
      /\ h \in Thread
  BY DEF TypeOK, ServerTypeOK, Thread
<1>b. \A l : Back(h) = l => l \notin {"tie"}
  BY DEF Back
<1>c. ASSUME NEW kind, Take(h, kind) PROVE Undecided(h)
  BY <1>c DEF Take, VerdictTask, Announcing
<1>d. ASSUME NEW msgs, NEW l, l # "tie", Reply(h, msgs, l) PROVE pc'[h] # "tie"
  BY <1>a, <1>d DEF Reply, Goto
<1>e. Throw(h) => Undecided(h)'
  BY <1>a, TaskAfter DEF Throw, Goto
<1>1. CASE ReceiveConnect(h)
  BY <1>1, <1>a, <1>b, <1>c, <1>d DEF ReceiveConnect, Goto
<1>2. CASE ReceiveReconnect(h)
  BY <1>2, <1>a, <1>b, <1>c, <1>d, <1>e, TaskAfter DEF ReceiveReconnect, Goto
<1>3. CASE ReceiveStart(h)
  BY <1>3, <1>a, <1>b, <1>c, <1>d, <1>e DEF ReceiveStart, Goto
<1>4. CASE Greet(h) \/ WelcomeBack(h)
  BY <1>4, <1>a, <1>b, <1>d, TaskAfter DEF Greet, WelcomeBack, VerdictTask, Announcing
<1>5. CASE Ignore(h) \/ ReceiveReady(h) \/ ReceiveRoomName(h) \/ ReceiveFound(h)
  BY <1>5, <1>a, <1>b, <1>c, TaskAfter DEF Ignore, ReceiveReady, ReceiveRoomName, ReceiveFound,
     Goto
<1>6. CASE \/ ReadFails(h) \/ LeaveLoop(h) \/ AddPlayer(h)
           \/ LookUpPlayer(h) \/ DropHandler(h) \/ AdoptPlayer(h)
  BY <1>6, <1>a DEF ReadFails, LeaveLoop, AddPlayer, LookUpPlayer, DropHandler, AdoptPlayer,
     Goto, VerdictTask, Announcing
<1>7. CASE Disconnected(h)
  BY <1>7, <1>a, TaskAfter DEF Disconnected, Ends, Goto, VerdictTask, Announcing
<1>8. CASE HandlerEnds(h) \/ Begin(h)
  BY <1>8, <1>a, TaskAfter DEF HandlerEnds, AllSent, Ends, Begin, Goto, VerdictTask, Announcing
<1> QED
  BY <1>1, <1>2, <1>3, <1>4, <1>5, <1>6, <1>7, <1>8 DEF HandlerThread, Decisive

(* What the other steps of a handler do to the game.                       *)
LEMMA HandlerFails ==
  ASSUME TypeOK, NEW h \in Conn, HandlerThread(h), ~Decisive(h)
  PROVE  \/ Failed' <=> Failed
         \/ /\ UNCHANGED room /\ Failed'
BY DEF HandlerThread, Decisive, Failed, Ignore, ReadFails, LeaveLoop, Disconnected, HandlerEnds,
   Ends, ReceiveConnect, AddPlayer, Greet, ReceiveReconnect, LookUpPlayer, DropHandler,
   AdoptPlayer, WelcomeBack, ReceiveReady, ReceiveStart, Begin, ReceiveRoomName, ReceiveFound,
   Throw, TypeOK, ServerTypeOK

LEMMA HandlerPlays ==
  ASSUME TypeOK, GreetInv, MapInv, NEW h \in Conn, HandlerThread(h), ~Decisive(h)
  PROVE  \/ gameState' = gameState /\ ScoresKept
         \/ gameState' = "MAIN_GAME" /\ ScoresKept /\ UNCHANGED players
         \/ ReceiveFound(h)
<1> USE DEF room
<1>1. CASE AddPlayer(h)
  <2>1. stats[h].score = 0 /\ stats[h].found = 0
    BY <1>1, AddOld DEF MapInv, NoGain
  <2> QED
    BY <1>1, <2>1 DEF AddPlayer, ScoresKept, NewPlayer, TypeOK, ServerTypeOK
<1>2. CASE ReceiveReady(h)
  BY <1>2 DEF ReceiveReady, ScoresKept, TypeOK, ServerTypeOK, PlayerInfo
<1>3. CASE Begin(h)
  BY <1>3 DEF Begin, ScoresKept
<1> QED
  BY <1>1, <1>2, <1>3 DEF HandlerThread, Decisive, ScoresKept, Ignore, ReadFails, LeaveLoop,
     Disconnected, HandlerEnds, ReceiveConnect, Greet, ReceiveReconnect, LookUpPlayer,
     DropHandler, AdoptPlayer, WelcomeBack, ReceiveStart, ReceiveRoomName

LEMMA HandlerFinds ==
  ASSUME TypeOK, NEW h \in Conn, HandlerThread(h), ~Decisive(h)
  PROVE  pc'[h] \in {"credited", "maingame"} => ref'[h] \in Conn
<1>a. pc \in [Thread -> Location] /\ ref \in [Thread -> Conn \cup {None, Null}] /\ h \in Thread
  BY DEF TypeOK, ServerTypeOK, Thread
<1>1. CASE ReceiveFound(h)
  BY <1>1, <1>a DEF ReceiveFound, Goto, Joined
<1>2. ASSUME ~ReceiveFound(h) PROVE pc'[h] \notin {"credited", "maingame"}
  <2>1. ASSUME NEW msgs, NEW l, l \notin {"credited", "maingame"}, Reply(h, msgs, l)
        PROVE  pc'[h] \notin {"credited", "maingame"}
    BY <1>a, <2>1 DEF Reply, Goto
  <2>2. Back(h) \notin {"credited", "maingame"}
    BY DEF Back
  <2>3. CASE ReceiveConnect(h) \/ ReceiveReconnect(h) \/ ReceiveStart(h)
    BY <1>a, <2>1, <2>2, <2>3 DEF ReceiveConnect, ReceiveReconnect, ReceiveStart, Goto, Throw
  <2>4. CASE Greet(h) \/ WelcomeBack(h)
    BY <2>1, <2>2, <2>4 DEF Greet, WelcomeBack
  <2> QED
    BY <1>2, <1>a, <2>2, <2>3, <2>4 DEF HandlerThread, Decisive, Ignore, ReadFails, LeaveLoop,
       Disconnected, HandlerEnds, Ends, AddPlayer, LookUpPlayer, DropHandler, AdoptPlayer,
       ReceiveReady, Begin, ReceiveRoomName, Goto
<1> QED
  BY <1>1, <1>2

LEMMA HandlerMaps ==
  ASSUME TypeOK, GreetInv, MapInv, VerdictInv, NEW h \in Conn, ServerStep(h), HandlerThread(h),
         ~Decisive(h)
  PROVE  VerdictInv' /\ Outcome!Next
<1>a. VerdictTask(h) /\ h \in Thread
  BY DEF VerdictInv, Thread
<1>b. \A u \in Thread \ {h} : pc'[u] = pc[u] /\ task'[u] = task[u] /\ ref'[u] = ref[u]
  BY OwnSteps DEF GreetInv
<1>c. Undecided(h) /\ Undecided(h)'
  BY <1>a, HandlerUndecided
<1>1. VerdictsKept({})
  <2>1. Verdict(h)' = Verdict(h)
    BY <1>c DEF Undecided, Verdict
  <2> QED
    BY <1>b, <2>1 DEF VerdictsKept, Verdict
<1>2. VerdictInv'
  <2>1. FindOwner'
    BY <1>b, HandlerFinds DEF VerdictInv, FindOwner, Thread
  <2>2. \A t \in Thread : VerdictTask(t)'
    BY <1>b, <1>c DEF VerdictInv, VerdictTask, Undecided
  <2> QED
    BY <2>1, <2>2 DEF VerdictInv
<1>3. CASE ReceiveFound(h)
  <2>1. Arg(h) \in Values /\ Joined(h)
    BY <1>3, TakeType, ArgType DEF ReceiveFound, Arg
  <2>2. Outcome!Credit(h)
    BY <1>3, <1>1, <2>1, MapCredit DEF ReceiveFound, Failed
  <2> QED
    BY <1>2, <2>2 DEF Outcome!Next
<1>4. CASE UNCHANGED room /\ Failed'
  <2>1. Outcome!Fail
    BY <1>1, <1>4, <1>a, <1>c, UndecidedNone, MapFail DEF room, ScoresKept, VerdictsKept
  <2> QED
    BY <1>2, <2>1 DEF Outcome!Next
<1>5. CASE ~ReceiveFound(h) /\ (Failed' <=> Failed)
  <2>1. CASE gameState' = gameState /\ ScoresKept
    BY <1>1, <1>2, <1>5, <2>1, MapReseat DEF Outcome!Next
  <2>2. CASE gameState' = "MAIN_GAME" /\ ScoresKept /\ UNCHANGED players
    BY <1>1, <1>2, <1>5, <2>2, MapStart DEF Outcome!Next
  <2> QED
    BY <1>5, <2>1, <2>2, HandlerPlays
<1> QED
  BY <1>3, <1>4, <1>5, HandlerFails

LEMMA DecisiveMaps ==
  ASSUME TypeOK, GreetInv, VerdictInv, NEW h \in Conn, ServerStep(h), Decisive(h)
  PROVE  VerdictInv' /\ Outcome!Next
<1> USE DEF room
<1>a. /\ pc \in [Thread -> Location] /\ task \in [Thread -> SendTask]
      /\ ref \in [Thread -> Conn \cup {None, Null}]
      /\ VerdictTask(h) /\ h \in Thread
  BY DEF VerdictInv, TypeOK, ServerTypeOK, Thread
<1>b. \A u \in Thread \ {h} : pc'[u] = pc[u] /\ task'[u] = task[u] /\ ref'[u] = ref[u]
  BY OwnSteps DEF GreetInv
<1>c. VerdictsKept({h}) /\ ScoresKept /\ UNCHANGED players
  BY <1>b DEF VerdictsKept, Verdict, ScoresKept, Decisive, DeathMatchFind, MainGameFind,
     OpenDeathMatch, GameEnds
<1>d. ASSUME VerdictTask(h)', pc'[h] \in {"credited", "maingame"} => ref'[h] \in Conn
      PROVE  VerdictInv'
  BY <1>a, <1>b, <1>d DEF VerdictInv, VerdictTask, FindOwner, Thread
<1>e. CASE Throw(h) /\ UNCHANGED gameState
  <2>1. Verdict(h)' = "none" /\ Failed'
    BY <1>e, <1>a, TaskAfter DEF Throw, Goto, Verdict, Failed
  <2>2. VerdictInv'
    BY <1>e, <1>a, <1>d, TaskAfter DEF Throw, Goto, VerdictTask
  <2>3. Outcome!Fail
    BY <1>a, <1>c, <1>e, <2>1, MapFail
  <2> QED
    BY <2>2, <2>3 DEF Outcome!Next
<1>1. CASE DeathMatchFind(h) /\ ~Throw(h)
  <2>1. CASE gameState = "DEATH_MATCH"
    <3>1. PICK m : /\ task' = [task EXCEPT ![h] = Task(m, "ended")]
                   /\ pc[h] = "credited" /\ Goto(h, "open")
                   /\ UNCHANGED <<gameState, doomed, crashed>>
      BY <1>1, <2>1 DEF DeathMatchFind
    <3>a. Verdict(h) = "none"
      BY <3>1, <1>a DEF Verdict, VerdictTask, Announcing
    <3>2. Verdict(h)' = "over"
      BY <3>1, <1>a, TaskAfter DEF Verdict, Goto
    <3>3. VerdictInv'
      BY <3>1, <1>a, <1>d DEF VerdictTask, Announcing, Goto
    <3>4. UNCHANGED <<gameState, doomed, crashed>>
      BY <3>1
    <3>5. Outcome!Judge(h)
      BY <1>a, <1>c, <2>1, <3>a, <3>2, <3>4
         DEF Outcome!Judge, ScoresKept, VerdictsKept, Failed
    <3> QED
      BY <1>a, <3>3, <3>5 DEF Outcome!Next
  <2>2. CASE gameState # "DEATH_MATCH"
    <3>1. /\ pc[h] = "credited" /\ Goto(h, "maingame")
          /\ UNCHANGED <<gameState, task, ref, doomed, crashed>>
      BY <1>1, <2>2 DEF DeathMatchFind
    <3>2. Verdict(h)' = Verdict(h) /\ (Failed' <=> Failed)
      BY <3>1, <1>a DEF Verdict, VerdictTask, Announcing, Goto, Failed
    <3>3. VerdictInv'
      BY <3>1, <1>a, <1>d DEF VerdictInv, VerdictTask, Announcing, Goto, FindOwner
    <3>4. Outcome!Reseat
      BY <1>a, <1>c, <3>1, <3>2, MapReseat DEF VerdictsKept
    <3> QED
      BY <3>3, <3>4 DEF Outcome!Next
  <2> QED
    BY <2>1, <2>2
<1>2. CASE MainGameFind(h) /\ ~Throw(h)
  <2>a. Undecided(h) /\ Verdict(h) = "none"
    BY <1>2, <1>a DEF MainGameFind, VerdictTask, Undecided, Announcing, Verdict
  <2>1. CASE Undecided(h)' /\ pc'[h] # "maingame" /\ pc'[h] # "credited" /\ UNCHANGED <<gameState, doomed, crashed>>
    <3>1. Verdict(h)' = Verdict(h)
      BY <2>a, <2>1 DEF Undecided, Verdict
    <3>2. VerdictInv'
      BY <1>d, <2>1 DEF Undecided, VerdictTask
    <3>3. Outcome!Reseat
      BY <1>c, <2>1, <3>1, MapReseat DEF VerdictsKept, Failed
    <3> QED
      BY <3>2, <3>3 DEF Outcome!Next
  <2>2. CASE gameState # "MAIN_GAME" \/ ~Winning(h)
    <3>1. Undecided(h)' /\ pc'[h] # "maingame" /\ pc'[h] # "credited" /\ UNCHANGED <<gameState, doomed, crashed>>
      BY <1>2, <1>a, <2>2, <2>a, TaskAfter DEF MainGameFind, Undecided, Goto, Back
    <3> QED
      BY <2>1, <3>1
  <2>3. CASE gameState = "MAIN_GAME" /\ Winning(h)
    <3>a. Winner
      BY <1>2, <2>3 DEF Winner, Winning, MainGameFind, VerdictInv, FindOwner
    <3>b. UNCHANGED <<gameState, doomed, crashed>>
      BY <1>2, <2>3 DEF MainGameFind
    <3>1. PICK o \in Standings :
            IF Len(Equals(o)) > 1
            THEN /\ task' = [task EXCEPT ![h] =
                              Task(TellPodium("DEATHMATCH", Equals(o)), "loop")]
                 /\ Goto(h, "tie")
            ELSE /\ task' = [task EXCEPT ![h] =
                              Task(TellPodium("FINISHED", o), "ended")]
                 /\ Goto(h, "open")
      BY <1>2, <2>3 DEF MainGameFind
    <3>2. CASE Len(Equals(o)) > 1
      <4>1. Verdict(h)' = "tie"
        BY <1>a, <3>1, <3>2 DEF Verdict, Goto
      <4>2. VerdictInv'
        BY <1>a, <1>d, <3>1, <3>2, TaskAfter DEF VerdictTask, Goto
      <4>3. Outcome!Judge(h)
        BY <1>a, <1>c, <2>3, <2>a, <3>a, <3>b, <3>2, <4>1, TieFound, MapJudge DEF Failed
      <4> QED
        BY <1>a, <4>2, <4>3 DEF Outcome!Next
    <3>3. CASE ~(Len(Equals(o)) > 1)
      <4>1. Verdict(h)' = "over"
        BY <1>a, <3>1, <3>3, TaskAfter DEF Verdict, Goto
      <4>2. VerdictInv'
        BY <1>a, <1>d, <3>1, <3>3 DEF VerdictTask, Goto, Announcing
      <4>3. Outcome!Judge(h)
        BY <1>a, <1>c, <2>3, <2>a, <3>a, <3>b, <4>1, MapJudge DEF Failed
      <4> QED
        BY <1>a, <4>2, <4>3 DEF Outcome!Next
    <3> QED
      BY <3>2, <3>3
  <2> QED
    BY <2>2, <2>3
<1>3. CASE OpenDeathMatch(h)
  <2>1. /\ pc[h] = "tie" /\ Verdict(h) = "tie" /\ Undecided(h)'
        /\ gameState' = "DEATH_MATCH" /\ pc'[h] = "open"
        /\ UNCHANGED <<task, doomed, crashed>>
    BY <1>3, <1>a DEF OpenDeathMatch, Verdict, VerdictTask, Announcing, Undecided, Goto
  <2>2. VerdictInv'
    BY <1>d, <2>1 DEF VerdictTask, Announcing
  <2>3. Verdict(h)' = "none" /\ (Failed' <=> Failed)
    BY <2>1 DEF Undecided, Verdict, Failed
  <2>4. Outcome!CarryOut(h)
    BY <1>a, <1>c, <2>1, <2>3, MapCarryOut
  <2> QED
    BY <1>a, <2>2, <2>4 DEF Outcome!Next
<1>4. CASE GameEnds(h)
  <2>1. /\ pc[h] = "send" /\ Verdict(h) = "over" /\ Undecided(h)'
        /\ gameState' = "ENDED" /\ pc'[h] \notin {"credited", "maingame"}
        /\ UNCHANGED <<doomed, crashed>>
    BY <1>4, <1>a, TaskAfter DEF GameEnds, AllSent, Verdict, Undecided, Goto, Back
  <2>2. VerdictInv'
    BY <1>d, <2>1 DEF VerdictTask, Undecided
  <2>3. Verdict(h)' = "none" /\ (Failed' <=> Failed)
    BY <2>1 DEF Undecided, Verdict, Failed
  <2>4. Outcome!CarryOut(h)
    BY <1>a, <1>c, <2>1, <2>3, MapCarryOut
  <2> QED
    BY <1>a, <2>2, <2>4 DEF Outcome!Next
<1>5. Throw(h) /\ (DeathMatchFind(h) \/ MainGameFind(h)) => UNCHANGED gameState
  BY DEF DeathMatchFind, MainGameFind
<1> QED
  BY <1>e, <1>1, <1>2, <1>3, <1>4, <1>5 DEF Decisive

-----------------------------------------------------------------------------
LEMMA OutcomeInit == Init => Outcome!Init
<1> SUFFICES ASSUME Init PROVE Outcome!Init
  OBVIOUS
<1>1. \A t \in Thread : Verdict(t) = "none"
  BY ServerAssumption, TaskAfter DEF Init, ServerInit, Verdict, Thread
<1> QED
  BY <1>1 DEF Init, ServerInit, Outcome!Init, NewPlayer

LEMMA OutcomeNext ==
  ASSUME TypeInv, IdInv, JoinInv, VerdictInv, [Next]_vars
  PROVE  VerdictInv' /\ [Outcome!Next]_Outcome!vars
<1>a. TypeOK /\ IdThreads /\ GreetInv /\ MapInv
  BY DEF TypeInv, IdInv, IdServer, JoinInv
<1>1. ASSUME NEW t \in Thread, ServerStep(t)
      PROVE  VerdictInv' /\ Outcome!Next
  BY <1>a, <1>1, BroadcastMaps, AcceptMaps, HandlerMaps, DecisiveMaps
     DEF ServerStep, ThreadStep, Outcome!Next
<1>2. CASE UNCHANGED <<room, pc, ref, task, doomed, crashed>>
  <2>1. VerdictInv'
    BY <1>2 DEF VerdictInv, VerdictTask, FindOwner
  <2>2. VerdictsKept({}) /\ ScoresKept /\ (Failed' <=> Failed)
    BY <1>2 DEF VerdictsKept, Verdict, ScoresKept, Failed, room
  <2>3. Outcome!Reseat
    BY <1>2, <2>2, MapReseat DEF room
  <2> QED
    BY <2>1, <2>3 DEF Outcome!Next
<1> QED
  BY <1>1, <1>2 DEF Next, HostStops, StopListening, vars, serverVars, threads, Connects, Hears,
     Plays, Fails

RoomInv == TypeInv /\ IdInv /\ JoinInv /\ VerdictInv

LEMMA RoomInit == Init => RoomInv
BY InitType, IdInit, JoinInit, VerdictInit DEF RoomInv

LEMMA RoomNext == RoomInv /\ [Next]_vars => RoomInv' /\ [Outcome!Next]_Outcome!vars
BY NextType, IdNext, JoinNext, OutcomeNext DEF RoomInv

(* The room implements RoomOutcome: whatever its threads, messages and     *)
(* connections do, a find is worth what it is worth and is never taken     *)
(* back, and gameState changes only at a start or by a verdict that was    *)
(* given on the scores of one moment (Server.java:214-277).                *)
THEOREM OutcomeImplemented == Spec => OutcomeSpec
<1> QED
  BY RoomInit, RoomNext, OutcomeInit, PTL DEF Spec, OutcomeSpec, Outcome!Spec

-----------------------------------------------------------------------------
(* A verdict is given only when somebody has found enough, and finds are   *)
(* never taken back: what RoomOutcome shows of itself.                     *)
Decided ==
  /\ gameState \in {"DEATH_MATCH", "ENDED"} => Winner
  /\ \A t \in Thread : Verdict(t) # "none" => Winner

LEMMA FindsStay ==
  ASSUME TypeOK, TypeOK', [Outcome!Next]_Outcome!vars
  PROVE  \A id \in Conn : stats'[id].found >= stats[id].found
<1> DEFINE count == [id \in Conn |-> stats[id].found]
<1>1. /\ \A id \in Conn : count[id] = stats[id].found /\ stats[id].found \in Nat
      /\ \A id \in Conn : count'[id] = stats'[id].found /\ stats'[id].found \in Nat
  BY DEF TypeOK, ServerTypeOK, PlayerInfo
<1>2. CASE count' = count
  BY <1>1, <1>2
<1>3. ASSUME NEW p, count' = [count EXCEPT ![p] = @ + 1]
      PROVE  \A id \in Conn : stats'[id].found >= stats[id].found
  <2> HIDE DEF count
  <2>1. \A id \in Conn : count[id] \in Nat
    BY <1>1
  <2>2. \A id \in Conn : count'[id] >= count[id]
    BY <1>1, <1>3, <2>1 DEF count
  <2> QED
    BY <1>1, <2>2
<1> HIDE DEF count
<1>4. count' = count \/ \E p : count' = [count EXCEPT ![p] = @ + 1]
  BY DEF count, Outcome!Next, Outcome!vars, Outcome!Start, Outcome!Reseat, Outcome!Fail,
     Outcome!Credit, Outcome!Judge, Outcome!CarryOut
<1> QED
  BY <1>2, <1>3, <1>4

LEMMA WinnerStays ==
  ASSUME TypeOK, TypeOK', [Outcome!Next]_Outcome!vars, Winner
  PROVE  Winner'
<1>1. PICK id \in Conn : stats[id].found >= FindsToWin
  BY DEF Winner
<1>2. stats'[id].found >= stats[id].found
  BY FindsStay
<1>3. stats[id].found \in Nat /\ stats'[id].found \in Nat /\ FindsToWin \in Nat
  BY ServerAssumption DEF TypeOK, ServerTypeOK, PlayerInfo
<1> QED
  BY <1>1, <1>2, <1>3 DEF Winner

LEMMA DecidedNext ==
  ASSUME TypeOK, TypeOK', Decided, [Outcome!Next]_Outcome!vars
  PROVE  Decided'
<1> DEFINE verdict == [t \in Thread |-> Verdict(t)]
<1>a. /\ \A t \in Thread : verdict[t] = Verdict(t)
      /\ \A t \in Thread : verdict'[t] = Verdict(t)'
  OBVIOUS
<1>b. Outcome!Winner <=> Winner
  BY DEF Outcome!Winner, Winner
<1>1. Winner => Decided'
  BY WinnerStays DEF Decided
<1>2. CASE ~Winner /\ verdict' = verdict /\ gameState' \in {gameState, "MAIN_GAME"}
  BY <1>2, <1>a DEF Decided
<1>3. CASE ~Winner
  <2>1. \A t \in Thread : verdict[t] = "none" /\ gameState \notin {"DEATH_MATCH", "ENDED"}
    BY <1>3, <1>a DEF Decided
  <2>2. ASSUME NEW t \in Thread PROVE ~Outcome!CarryOut(t) /\ ~Outcome!Judge(t)
    BY <1>3, <1>b, <2>1 DEF Decided, Outcome!CarryOut, Outcome!Judge
  <2>3. Outcome!Fail => verdict' = verdict
    <3>1. \A t \in Thread : [verdict EXCEPT ![t] = "none"] = verdict
      BY <2>1
    <3> QED
      BY <3>1 DEF Outcome!Fail
  <2>4. verdict' = verdict /\ gameState' \in {gameState, "MAIN_GAME"}
    BY <2>2, <2>3 DEF Outcome!Next, Outcome!vars, Outcome!Start, Outcome!Reseat, Outcome!Fail,
       Outcome!Credit
  <2> QED
    BY <1>2, <1>3, <2>4
<1> QED
  BY <1>1, <1>3

(* The game is in a death match or ended only when somebody has found      *)
(* enough (Server.java:240-272), whatever threads decide at the same time. *)
THEOREM OverIsWon == Spec => []OverHasWinner
<1>1. Init => Decided
  <2> SUFFICES ASSUME Init PROVE Decided
    OBVIOUS
  <2>1. \A t \in Thread : Verdict(t) = "none"
    BY ServerAssumption, TaskAfter DEF Init, ServerInit, Verdict, Thread
  <2> QED
    BY <2>1 DEF Init, ServerInit, Decided
<1>2. RoomInv /\ RoomInv' /\ Decided /\ [Outcome!Next]_Outcome!vars => Decided'
  BY DecidedNext DEF RoomInv, TypeInv
<1>3. Decided => OverHasWinner
  BY DEF Decided, OverHasWinner
<1> QED
  BY RoomInit, RoomNext, <1>1, <1>2, <1>3, PTL DEF Spec

=============================================================================
