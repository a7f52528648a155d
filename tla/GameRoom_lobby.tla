--------------------------- MODULE GameRoom_lobby ---------------------------
(***************************************************************************)
(* The type invariant of the room, that nobody scores in its lobby and     *)
(* that no phone plays as another: proved for every number of phones, of   *)
(* connections and of finds, and every FindsToWin.                         *)
(***************************************************************************)
EXTENDS GameRoom, FiniteSetTheorems, SequenceTheorems, TLAPS

(* A phone that has left its home screen has opened a connection: without  *)
(* it Sock(p) would not name one.                                          *)
TriesOK == \A p \in Phones : stage[p] # "home" => tries[p] # 0

TypeInv == TypeOK /\ TriesOK

-----------------------------------------------------------------------------
(* What the constructors of messages and tasks return. *)

LEMMA TellType ==
  ASSUME NEW kind \in InstructionKind \ {"ID"},
         NEW arg \in Conn \cup RoomNames \cup {None}
  PROVE  Tell(kind, arg) \in Instruction
<1>1. EmptyView \in View
  BY DEF EmptyView, View
<1>2. <<>> \in Seq(Conn)
  OBVIOUS
<1> QED
  BY <1>1, <1>2 DEF Tell, Instruction

LEMMA TellIdType ==
  ASSUME NEW c \in Conn
  PROVE  Tell("ID", c) \in Instruction
<1>1. EmptyView \in View
  BY DEF EmptyView, View
<1>2. <<>> \in Seq(Conn)
  OBVIOUS
<1> QED
  BY <1>1, <1>2 DEF Tell, Instruction, InstructionKind

LEMMA TellPodiumType ==
  ASSUME NEW kind \in InstructionKind \ {"ID"}, NEW podium0 \in Seq(Conn)
  PROVE  TellPodium(kind, podium0) \in Instruction
BY TellType DEF TellPodium, Instruction

LEMMA TaskType ==
  ASSUME NEW m \in Instruction, NEW after \in Continuation
  PROVE  Task(m, after) \in SendTask
BY DEF Task, NoTask, SendTask

LEMMA NoTaskType == NoTask \in SendTask /\ PlayerList \in SendTask
<1>1. Nothing \in Instruction
  BY TellType DEF Nothing, InstructionKind
<1>2. Tell("PLAYERS", None) \in Instruction
  BY TellType DEF InstructionKind
<1>3. NoTask \in SendTask
  BY <1>1 DEF NoTask, SendTask, Continuation
<1>4. PlayerList \in SendTask
  BY <1>2, TaskType DEF PlayerList, Continuation
<1> QED
  BY <1>3, <1>4

(* The changes the threads make to the task of one of them.                *)
LEMMA AdvanceType ==
  ASSUME NEW f \in [Thread -> SendTask], NEW t
  PROVE  [f EXCEPT ![t].next = @ + 1] \in [Thread -> SendTask]
<1>1. \A s \in SendTask : [s EXCEPT !.next = @ + 1] \in SendTask
  BY DEF SendTask
<1> QED
  BY <1>1

LEMMA StartSendingType ==
  ASSUME NEW f \in [Thread -> SendTask], NEW t \in Thread,
         NEW m \in Instruction, NEW n \in Nat
  PROVE  [f EXCEPT ![t].msg = m, ![t].next = 1, ![t].len = n]
           \in [Thread -> SendTask]
<1>1. \A s \in SendTask :
        [s EXCEPT !.msg = m, !.next = 1, !.len = n] \in SendTask
  BY DEF SendTask
<1> QED
  BY <1>1

LEMMA SayType ==
  /\ \A k \in {"CONNECT", "READY", "START"} : Say(k, None) \in ClientMessage
  /\ \A id \in Conn \cup {None} : Say("RECONNECT", id) \in ClientMessage
  /\ \A n \in RoomNames : Say("ROOM-NAME", n) \in ClientMessage
  /\ \A v \in Values : Say("ANAM-FOUND", v) \in ClientMessage
BY DEF Say, ClientMessage

LEMMA ArgType ==
  ASSUME NEW m \in ClientMessage
  PROVE  /\ m.kind = "ROOM-NAME" => m.arg \in RoomNames
         /\ m.kind = "ANAM-FOUND" => m.arg \in Values
         /\ m.kind = "RECONNECT" => m.arg \in Conn \cup {None}
BY DEF ClientMessage

LEMMA NewPlayerType == NewPlayer \in PlayerInfo
BY DEF NewPlayer, PlayerInfo

LEMMA CreditType ==
  ASSUME NEW s \in PlayerInfo, NEW n \in Nat
  PROVE  [s EXCEPT !.found = @ + 1, !.score = @ + n] \in PlayerInfo
<1>1. s.found + 1 \in Nat /\ s.score + n \in Nat
  BY DEF PlayerInfo
<1>2. \A a, b \in Nat : [s EXCEPT !.found = a, !.score = b] \in PlayerInfo
  BY Zenon DEF PlayerInfo
<1> QED
  BY <1>1, <1>2

LEMMA ConnFinite == IsFiniteSet(Conn)
<1>1. IsFiniteSet(Phones) /\ MaxTries \in Int /\ 1 \in Int
  BY ProtocolAssumption
<1>2. IsFiniteSet(1..MaxTries)
  BY <1>1, FS_Interval
<1> QED
  BY <1>1, <1>2, FS_Product DEF Conn

LEMMA EntriesFinite == IsFiniteSet(Entries) /\ Cardinality(Entries) \in Nat
BY ConnFinite, FS_Subset, FS_CardinalityType DEF Entries

LEMMA StandingsType ==
  ASSUME NEW o \in Standings
  PROVE  o \in Seq(Conn)
<1> DEFINE n == Cardinality(Entries)
<1>1. PICK f \in [1..n -> Entries] : o = [i \in 1..n |-> players[f[i]]]
  BY DEF Standings
<1>2. \A i \in 1..n : players[f[i]] \in Conn
  BY <1>1 DEF Entries, Joined
<1>3. n \in Nat
  BY EntriesFinite
<1> QED
  BY <1>1, <1>2, <1>3

LEMMA EqualsType ==
  ASSUME NEW o \in Seq(Conn)
  PROVE  Equals(o) \in Seq(Conn)
<1> DEFINE Same(i) == stats[o[i]].score = stats[o[1]].score
           head == {k \in DOMAIN o : \A i \in 1..k : Same(i)}
<1>1. Len(o) \in Nat /\ DOMAIN o = 1..Len(o)
  OBVIOUS
<1>2. IsFiniteSet(1..Len(o)) /\ Cardinality(1..Len(o)) = Len(o)
  BY <1>1, FS_Interval
<1>3. Cardinality(head) \in Nat /\ Cardinality(head) <= Len(o)
  BY <1>1, <1>2, FS_Subset, FS_CardinalityType
<1>4. \A i \in 1..Cardinality(head) : o[i] \in Conn
  BY <1>1, <1>3
<1> HIDE DEF head
<1>5. SubSeq(o, 1, Cardinality(head)) \in Seq(Conn)
  BY <1>3, <1>4, SubSeqProperties
<1> QED
  BY <1>5 DEF Equals, head

-----------------------------------------------------------------------------
(* What the parts of the server's actions preserve. *)

LEMMA TakeType ==
  ASSUME TypeOK, NEW h \in Conn, NEW kind, Take(h, kind)
  PROVE  /\ toServer' \in [Conn -> Seq(ClientMessage)]
         /\ Head(toServer[h]) \in ClientMessage
         /\ Head(toServer[h]).kind = kind
<1>1. toServer[h] \in Seq(ClientMessage) /\ toServer[h] # <<>>
  BY DEF TypeOK, WireTypeOK, Take
<1>2. Head(toServer[h]) \in ClientMessage /\ Tail(toServer[h]) \in Seq(ClientMessage)
  BY <1>1, HeadTailProperties
<1> QED
  BY <1>2 DEF TypeOK, WireTypeOK, Take

LEMMA GotoType ==
  ASSUME TypeOK, NEW t, NEW l \in Location, Goto(t, l)
  PROVE  pc' \in [Thread -> Location]
BY DEF TypeOK, ServerTypeOK, Goto

LEMMA WriteType ==
  ASSUME TypeOK, NEW c \in Conn, NEW msgs \in Seq(Instruction), Write(c, msgs)
  PROVE  /\ toClient' \in [Conn -> Seq(Instruction)]
         /\ link' \in [Conn -> LinkState]
<1>1. toClient[c] \o msgs \in Seq(Instruction)
  BY ConcatProperties DEF TypeOK, WireTypeOK
<1> QED
  BY <1>1 DEF TypeOK, WireTypeOK, Write, LinkState

LEMMA ReplyType ==
  ASSUME TypeOK, NEW h \in Conn, NEW msgs \in Seq(Instruction),
         NEW l \in Location, Reply(h, msgs, l)
  PROVE  /\ toClient' \in [Conn -> Seq(Instruction)]
         /\ link' \in [Conn -> LinkState]
         /\ pc' \in [Thread -> Location]
         /\ running' \in [Conn -> BOOLEAN]
         /\ who' \in [Thread -> Conn \cup {None}]
<1>1. CASE Write(h, msgs) /\ Goto(h, l) /\ UNCHANGED <<running, who>>
  BY <1>1, WriteType, GotoType DEF TypeOK, ServerTypeOK
<1>2. CASE /\ running' = [running EXCEPT ![h] = FALSE]
           /\ who' = [who EXCEPT ![h] = h]
           /\ Goto(h, "join")
           /\ UNCHANGED <<link, toClient>>
  <2>1. pc' \in [Thread -> Location]
    BY <1>2, GotoType DEF Location
  <2> QED
    BY <1>2, <2>1 DEF TypeOK, ServerTypeOK, WireTypeOK
<1> QED
  BY <1>1, <1>2 DEF Reply

LEMMA ThrowType ==
  ASSUME TypeOK, NEW t \in Thread, Throw(t)
  PROVE  /\ task' \in [Thread -> SendTask]
         /\ pc' \in [Thread -> Location]
         /\ doomed' \in SUBSET Thread
         /\ crashed' \in BOOLEAN
<1>1. task' \in [Thread -> SendTask]
  BY NoTaskType DEF Throw, TypeOK, ServerTypeOK
<1>2. pc' \in [Thread -> Location]
  BY GotoType DEF Throw, Location
<1> QED
  BY <1>1, <1>2 DEF Throw, TypeOK, ServerTypeOK

LEMMA BackType == \A h : Back(h) \in Location
BY DEF Back, Location

LEMMA ViewOfType ==
  ASSUME TypeOK, NEW ids
  PROVE  ViewOf(ids) \in View
BY DEF TypeOK, ServerTypeOK, ViewOf, View

LEMMA FilledType ==
  ASSUME TypeOK, NEW m \in Instruction
  PROVE  Filled(m) \in Instruction
<1>1. ViewOf(Ids) \in View /\ ViewOf({m.podium[i] : i \in DOMAIN m.podium}) \in View
  BY ViewOfType
<1> QED
  BY <1>1 DEF Filled, Instruction

-----------------------------------------------------------------------------
(* The actions of the server's threads. *)

LEMMA AcceptThreadType ==
  ASSUME TypeOK, AcceptThread, UNCHANGED phoneVars
  PROVE  TypeOK'
<1> USE NoTaskType DEF TypeOK, WireTypeOK, ServerTypeOK, PhoneTypeOK, wire, room,
        phoneVars
<1>0. Task(Tell("SERVER-STOPPED", None), "clear") \in SendTask
  BY TellType, TaskType DEF InstructionKind, Continuation
<1>1. ASSUME NEW c \in Conn, Accept(c) PROVE TypeOK'
  <2>1. clients' \in Seq(Conn)
    BY <1>1, AppendProperties DEF Accept
  <2>2. pc' \in [Thread -> Location]
    BY <1>1 DEF Accept, Location
  <2>3. task' \in [Thread -> SendTask]
    BY <1>1, <1>0 DEF Accept
  <2> QED
    BY <1>1, <2>1, <2>2, <2>3 DEF Accept
<1>2. CASE StopAccepting
  <2>1. pc' \in [Thread -> Location]
    BY <1>2, GotoType DEF StopAccepting, Location
  <2> QED
    BY <1>0, <1>2, <2>1 DEF StopAccepting
<1>3. CASE CloseClient
  <2>1. pc' \in [Thread -> Location]
    BY <1>3, GotoType DEF CloseClient, Location
  <2> QED
    BY <1>3, <2>1 DEF CloseClient
<1>4. CASE ClientClosed
  <2>1. pc' \in [Thread -> Location]
    BY <1>4, GotoType DEF ClientClosed, Location
  <2>2. task' \in [Thread -> SendTask]
    BY <1>4, AdvanceType DEF ClientClosed
  <2> QED
    BY <1>4, <2>1, <2>2 DEF ClientClosed
<1>5. CASE AcceptorEnds
  <2>1. pc' \in [Thread -> Location]
    BY <1>5, GotoType DEF AcceptorEnds, Location
  <2>2. link' \in [Conn -> LinkState]
    BY <1>5 DEF AcceptorEnds, LinkState
  <2> QED
    BY <1>5, <2>1, <2>2 DEF AcceptorEnds
<1>6. CASE ClearPlayers
  <2>1. pc' \in [Thread -> Location]
    BY <1>6, GotoType DEF ClearPlayers, Location
  <2>2. [NoTask EXCEPT !.next = 1] \in SendTask
    BY DEF SendTask, NoTask
  <2>3. players' \in [Conn -> Conn \cup {None, Null}]
    BY <1>6 DEF ClearPlayers
  <2> QED
    BY <1>6, <2>1, <2>2, <2>3 DEF ClearPlayers
<1> QED
  BY <1>1, <1>2, <1>3, <1>4, <1>5, <1>6 DEF AcceptThread

LEMMA BroadcastType ==
  ASSUME TypeOK, NEW t \in Thread, Broadcast(t), UNCHANGED phoneVars
  PROVE  TypeOK'
<1> USE NoTaskType DEF TypeOK, WireTypeOK, ServerTypeOK, PhoneTypeOK, wire, room,
        phoneVars
<1>1. CASE Open(t)
  <2>1. CASE Throw(t) /\ UNCHANGED <<wire, room, clients, running, listening, ref, who>>
    BY <2>1, ThrowType
  <2>2. CASE /\ task' = [task EXCEPT ![t].msg = Filled(@), ![t].next = 1,
                                     ![t].len = Len(clients)]
             /\ Goto(t, "send")
             /\ UNCHANGED <<doomed, crashed>>
             /\ UNCHANGED <<wire, room, clients, running, listening, ref, who>>
    <3>1. Filled(task[t].msg) \in Instruction
      BY FilledType DEF SendTask
    <3>2. Len(clients) \in Nat
      OBVIOUS
    <3>3. task' \in [Thread -> SendTask]
      BY <2>2, <3>1, <3>2, StartSendingType
    <3>4. pc' \in [Thread -> Location]
      BY <2>2, GotoType DEF Location
    <3> QED
      BY <2>2, <3>3, <3>4
  <2> QED
    BY <1>1, <2>1, <2>2 DEF Open
<1>2. CASE IteratorFails(t)
  BY <1>2, ThrowType DEF IteratorFails
<1>3. CASE SendNext(t)
  <2>1. clients[task[t].next] \in Conn
    BY <1>3 DEF SendNext, Sending
  <2>2. <<task[t].msg>> \in Seq(Instruction)
    BY DEF SendTask
  <2>3. /\ toClient' \in [Conn -> Seq(Instruction)]
        /\ link' \in [Conn -> LinkState]
    BY <1>3, <2>1, <2>2, WriteType DEF SendNext
  <2>4. task' \in [Thread -> SendTask]
    BY <1>3, AdvanceType DEF SendNext
  <2> QED
    BY <1>3, <2>3, <2>4 DEF SendNext
<1>4. CASE SendFails(t)
  <2>1. clients[task[t].next] \in Conn
    BY <1>4 DEF SendFails, Sending
  <2>2. pc' \in [Thread -> Location]
    BY <1>4, GotoType DEF SendFails, Location
  <2> QED
    BY <1>4, <2>1, <2>2 DEF SendFails
<1>5. CASE JoinReturns(t)
  <2>1. pc' \in [Thread -> Location]
    BY <1>5, GotoType DEF JoinReturns, Location
  <2>2. task' \in [Thread -> SendTask]
    BY <1>5, AdvanceType DEF JoinReturns
  <2> QED
    BY <1>5, <2>1, <2>2 DEF JoinReturns
<1>6. CASE Done(t)
  <2>1. pc' \in [Thread -> Location]
    BY <1>6, GotoType, BackType DEF Done
  <2> QED
    BY <1>6, <2>1 DEF Done
<1> QED
  BY <1>1, <1>2, <1>3, <1>4, <1>5, <1>6 DEF Broadcast

(* The end of a handler thread, and the messages that change no player.    *)
LEMMA EndsType ==
  ASSUME TypeOK, NEW h \in Conn, Ends(h)
  PROVE  /\ pc' \in [Thread -> Location]
         /\ link' \in [Conn -> LinkState]
         /\ crashed' \in BOOLEAN
<1>1. pc' \in [Thread -> Location]
  BY GotoType DEF Ends, Location
<1> QED
  BY <1>1 DEF Ends, TypeOK, WireTypeOK, ServerTypeOK, LinkState

LEMMA HandlerLoopType ==
  ASSUME TypeOK, NEW h \in Conn, UNCHANGED phoneVars,
         \/ Ignore(h) \/ ReadFails(h) \/ LeaveLoop(h)
         \/ Disconnected(h) \/ HandlerEnds(h)
  PROVE  TypeOK'
<1> USE NoTaskType DEF TypeOK, WireTypeOK, ServerTypeOK, PhoneTypeOK, wire, room,
        phoneVars
<1>1. CASE Ignore(h)
  <2>1. pc' \in [Thread -> Location]
    BY <1>1, GotoType, BackType DEF Ignore
  <2>2. toServer' \in [Conn -> Seq(ClientMessage)]
    BY <1>1, TakeType DEF Ignore
  <2> QED
    BY <1>1, <2>1, <2>2 DEF Ignore
<1>2. CASE ReadFails(h)
  <2>1. pc' \in [Thread -> Location]
    BY <1>2, GotoType DEF ReadFails, Location
  <2> QED
    BY <1>2, <2>1 DEF ReadFails
<1>3. CASE LeaveLoop(h)
  <2>1. pc' \in [Thread -> Location]
    BY <1>3, GotoType DEF LeaveLoop, Location
  <2> QED
    BY <1>3, <2>1 DEF LeaveLoop
<1>4. CASE Disconnected(h)
  <2>1. [PlayerList EXCEPT !.after = "exit"] \in SendTask
    BY DEF SendTask, Continuation
  <2>2. CASE /\ task' = [task EXCEPT ![h] = [PlayerList EXCEPT !.after = "exit"]]
             /\ Goto(h, "open")
             /\ UNCHANGED <<link, crashed>>
    <3>1. pc' \in [Thread -> Location]
      BY <2>2, GotoType DEF Location
    <3>2. task' \in [Thread -> SendTask]
      BY <2>1, <2>2
    <3> QED
      BY <1>4, <2>2, <3>1, <3>2 DEF Disconnected
  <2>3. CASE Ends(h) /\ UNCHANGED task
    BY <1>4, <2>3, EndsType DEF Disconnected
  <2> QED
    BY <1>4, <2>2, <2>3 DEF Disconnected
<1>5. CASE HandlerEnds(h)
  <2>1. task' \in [Thread -> SendTask]
    BY <1>5 DEF HandlerEnds
  <2> QED
    BY <1>5, <2>1, EndsType DEF HandlerEnds
<1> QED
  BY <1>1, <1>2, <1>3, <1>4, <1>5

(* CONNECT and RECONNECT.                                                  *)
LEMMA ConnectingType ==
  ASSUME TypeOK, NEW h \in Conn, UNCHANGED phoneVars,
         \/ ReceiveConnect(h) \/ AddPlayer(h) \/ Greet(h)
         \/ ReceiveReconnect(h) \/ LookUpPlayer(h) \/ DropHandler(h)
         \/ AdoptPlayer(h) \/ WelcomeBack(h)
  PROVE  TypeOK'
<1> USE NoTaskType DEF TypeOK, WireTypeOK, ServerTypeOK, PhoneTypeOK, wire, room,
        phoneVars
<1>a. <<Tell("GAME-STARTED", None)>> \in Seq(Instruction)
  BY TellType DEF InstructionKind
<1>b. h \in Thread
  BY DEF Thread
<1>1. CASE ReceiveConnect(h)
  <2>1. toServer' \in [Conn -> Seq(ClientMessage)]
    BY <1>1, TakeType DEF ReceiveConnect
  <2>2. CASE Goto(h, "put") /\ UNCHANGED <<link, toClient, running, who>>
    <3>1. pc' \in [Thread -> Location]
      BY <2>2, GotoType DEF Location
    <3> QED
      BY <1>1, <2>1, <2>2, <3>1 DEF ReceiveConnect
  <2>3. CASE Reply(h, <<Tell("GAME-STARTED", None)>>, Back(h))
    BY <1>1, <1>a, <2>1, <2>3, ReplyType, BackType DEF ReceiveConnect
  <2> QED
    BY <1>1, <2>2, <2>3 DEF ReceiveConnect
<1>2. CASE AddPlayer(h)
  <2>1. pc' \in [Thread -> Location]
    BY <1>2, GotoType DEF AddPlayer, Location
  <2>2. stats' \in [Conn -> PlayerInfo] /\ players' \in [Conn -> Conn \cup {None, Null}]
    BY <1>2, NewPlayerType DEF AddPlayer
  <2> QED
    BY <1>2, <2>1, <2>2 DEF AddPlayer
<1>3. CASE Greet(h)
  <2>1. Tell("ID", h) \in Instruction /\ Tell("ROOM-NAME", roomName) \in Instruction
    BY TellType, TellIdType DEF InstructionKind
  <2>2. <<Tell("ID", h), Tell("ROOM-NAME", roomName)>> \in Seq(Instruction)
    BY <2>1
  <2>3. "open" \in Location
    BY DEF Location
  <2>4. task' \in [Thread -> SendTask]
    BY <1>3 DEF Greet
  <2> QED
    BY <1>3, <2>2, <2>3, <2>4, ReplyType DEF Greet
<1>4. CASE ReceiveReconnect(h)
  <2>1. toServer' \in [Conn -> Seq(ClientMessage)]
    BY <1>4, TakeType DEF ReceiveReconnect
  <2>2. ASSUME NEW g \in Conn, players[g] = Arg(h), Joined(g),
               who' = [who EXCEPT ![h] = g],
               task' = [task EXCEPT ![h] = Task(Tell("ID", Arg(h)), "loop")],
               Goto(h, "lookup"),
               UNCHANGED <<link, toClient, running, doomed, crashed>>
        PROVE  TypeOK'
    <3>1. Task(Tell("ID", Arg(h)), "loop") \in SendTask
      BY <2>2, TellIdType, TaskType DEF Joined, Continuation
    <3>2. task' \in [Thread -> SendTask] /\ who' \in [Thread -> Conn \cup {None}]
      BY <2>2, <3>1
    <3>3. pc' \in [Thread -> Location]
      BY <2>2, GotoType DEF Location
    <3> QED
      BY <1>4, <2>1, <2>2, <3>2, <3>3 DEF ReceiveReconnect
  <2>3. CASE Throw(h) /\ UNCHANGED <<link, toClient, running, who>>
    BY <1>4, <1>b, <2>1, <2>3, ThrowType DEF ReceiveReconnect
  <2>4. CASE /\ Reply(h, <<Tell("GAME-STARTED", None)>>, Back(h))
             /\ UNCHANGED <<task, doomed, crashed>>
    BY <1>4, <1>a, <2>1, <2>4, ReplyType, BackType DEF ReceiveReconnect
  <2> QED
    BY <1>4, <2>2, <2>3, <2>4 DEF ReceiveReconnect
<1>5. CASE LookUpPlayer(h)
  <2>1. pc' \in [Thread -> Location]
    BY <1>5, GotoType DEF LookUpPlayer, Location
  <2>2. ref' \in [Thread -> Conn \cup {None, Null}]
    BY <1>5 DEF LookUpPlayer, Joined
  <2> QED
    BY <1>5, <2>1, <2>2 DEF LookUpPlayer
<1>6. CASE DropHandler(h)
  <2>1. pc' \in [Thread -> Location]
    BY <1>6, GotoType DEF DropHandler, Location
  <2> QED
    BY <1>6, <2>1 DEF DropHandler
<1>7. CASE AdoptPlayer(h)
  <2>1. pc' \in [Thread -> Location]
    BY <1>7, GotoType DEF AdoptPlayer, Location
  <2>2. players' \in [Conn -> Conn \cup {None, Null}]
    BY <1>7, <1>b DEF AdoptPlayer
  <2> QED
    BY <1>7, <2>1, <2>2 DEF AdoptPlayer
<1>8. CASE WelcomeBack(h)
  <2>1. <<task[h].msg>> \in Seq(Instruction)
    BY <1>b DEF SendTask
  <2>2. task' \in [Thread -> SendTask]
    BY <1>8 DEF WelcomeBack
  <2> QED
    BY <1>8, <2>1, <2>2, ReplyType, BackType DEF WelcomeBack
<1> QED
  BY <1>1, <1>2, <1>3, <1>4, <1>5, <1>6, <1>7, <1>8

(* READY, START and ROOM-NAME.                                             *)
LEMMA LobbyMessagesType ==
  ASSUME TypeOK, NEW h \in Conn, UNCHANGED phoneVars,
         \/ ReceiveReady(h) \/ ReceiveStart(h) \/ Begin(h) \/ ReceiveRoomName(h)
  PROVE  TypeOK'
<1> USE NoTaskType DEF TypeOK, WireTypeOK, ServerTypeOK, PhoneTypeOK, wire, room,
        phoneVars
<1>b. h \in Thread
  BY DEF Thread
<1>1. CASE ReceiveReady(h)
  <2>1. toServer' \in [Conn -> Seq(ClientMessage)]
    BY <1>1, TakeType DEF ReceiveReady
  <2>2. pc' \in [Thread -> Location]
    BY <1>1, GotoType DEF ReceiveReady, Location
  <2>3. players[h] \in Conn
    BY <1>1 DEF ReceiveReady, Joined
  <2>4. [stats[players[h]] EXCEPT !.ready = ~@] \in PlayerInfo
    BY <2>3, Zenon DEF PlayerInfo
  <2>5. stats' \in [Conn -> PlayerInfo]
    BY <1>1, <2>4 DEF ReceiveReady
  <2>6. task' \in [Thread -> SendTask]
    BY <1>1 DEF ReceiveReady
  <2> QED
    BY <1>1, <2>1, <2>2, <2>5, <2>6 DEF ReceiveReady
<1>2. CASE ReceiveStart(h)
  <2>1. toServer' \in [Conn -> Seq(ClientMessage)]
    BY <1>2, TakeType DEF ReceiveStart
  <2>2. CASE /\ Goto(h, "begin")
             /\ UNCHANGED <<link, toClient, running, who, task, doomed, crashed>>
    <3>1. pc' \in [Thread -> Location]
      BY <2>2, GotoType DEF Location
    <3> QED
      BY <1>2, <2>1, <2>2, <3>1 DEF ReceiveStart
  <2>3. CASE Throw(h) /\ UNCHANGED <<link, toClient, running, who>>
    BY <1>2, <1>b, <2>1, <2>3, ThrowType DEF ReceiveStart
  <2>4. CASE /\ Reply(h, <<Tell("NOTREADY", None)>>, Back(h))
             /\ UNCHANGED <<task, doomed, crashed>>
    <3>1. <<Tell("NOTREADY", None)>> \in Seq(Instruction)
      BY TellType DEF InstructionKind
    <3> QED
      BY <1>2, <2>1, <2>4, <3>1, ReplyType, BackType DEF ReceiveStart
  <2> QED
    BY <1>2, <2>2, <2>3, <2>4 DEF ReceiveStart
<1>3. CASE Begin(h)
  <2>1. pc' \in [Thread -> Location]
    BY <1>3, GotoType DEF Begin, Location
  <2>2. Task(Tell("START", None), "loop") \in SendTask
    BY TellType, TaskType DEF InstructionKind, Continuation
  <2> QED
    BY <1>3, <2>1, <2>2 DEF Begin, GameState
<1>4. CASE ReceiveRoomName(h)
  <2>1. toServer' \in [Conn -> Seq(ClientMessage)] /\ Arg(h) \in RoomNames
    <3>1. /\ toServer' \in [Conn -> Seq(ClientMessage)]
          /\ Head(toServer[h]) \in ClientMessage
          /\ Head(toServer[h]).kind = "ROOM-NAME"
      BY <1>4, TakeType DEF ReceiveRoomName
    <3> QED
      BY <3>1, ArgType DEF Arg
  <2>2. pc' \in [Thread -> Location]
    BY <1>4, GotoType DEF ReceiveRoomName, Location
  <2>3. Task(Tell("ROOM-NAME", Arg(h)), "loop") \in SendTask
    BY <2>1, TellType, TaskType DEF InstructionKind, Continuation
  <2>4. task' \in [Thread -> SendTask]
    BY <1>4, <2>3 DEF ReceiveRoomName
  <2> QED
    BY <1>4, <2>1, <2>2, <2>4 DEF ReceiveRoomName
<1> QED
  BY <1>1, <1>2, <1>3, <1>4

(* ANAM-FOUND.                                                             *)
LEMMA FindsType ==
  ASSUME TypeOK, NEW h \in Conn, UNCHANGED phoneVars,
         \/ ReceiveFound(h) \/ DeathMatchFind(h) \/ MainGameFind(h)
         \/ OpenDeathMatch(h) \/ GameEnds(h)
  PROVE  TypeOK'
<1> USE NoTaskType DEF TypeOK, WireTypeOK, ServerTypeOK, PhoneTypeOK, wire, room,
        phoneVars
<1>b. h \in Thread
  BY DEF Thread
<1>c. \A o \in Standings : Task(TellPodium("FINISHED", o), "ended") \in SendTask
  BY StandingsType, TellPodiumType, TaskType DEF InstructionKind, Continuation
<1>d. \A o \in Standings : Task(TellPodium("DEATHMATCH", Equals(o)), "loop") \in SendTask
  BY StandingsType, EqualsType, TellPodiumType, TaskType DEF InstructionKind, Continuation
<1>1. CASE ReceiveFound(h)
  <2>1. toServer' \in [Conn -> Seq(ClientMessage)]
    BY <1>1, TakeType DEF ReceiveFound
  <2>2. Arg(h) \in Nat
    <3>1. /\ Head(toServer[h]) \in ClientMessage
          /\ Head(toServer[h]).kind = "ANAM-FOUND"
      BY <1>1, TakeType DEF ReceiveFound
    <3> QED
      BY <3>1, ArgType, ProtocolAssumption DEF Arg
  <2>3. pc' \in [Thread -> Location]
    BY <1>1, GotoType DEF ReceiveFound, Location
  <2>4. players[h] \in Conn
    BY <1>1 DEF ReceiveFound, Joined
  <2>5. [stats[players[h]] EXCEPT !.found = @ + 1, !.score = @ + Arg(h)] \in PlayerInfo
    <3>1. stats[players[h]] \in PlayerInfo
      BY <2>4
    <3> QED
      BY <2>2, <3>1, CreditType
  <2>6. stats' \in [Conn -> PlayerInfo]
    BY <1>1, <2>4, <2>5 DEF ReceiveFound
  <2>7. ref' \in [Thread -> Conn \cup {None, Null}]
    BY <1>1, <2>4 DEF ReceiveFound
  <2> QED
    BY <1>1, <2>1, <2>3, <2>6, <2>7 DEF ReceiveFound
<1>2. CASE DeathMatchFind(h)
  <2>1. ref' \in [Thread -> Conn \cup {None, Null}]
    BY <1>2 DEF DeathMatchFind
  <2>2. ASSUME NEW o \in Standings,
               task' = [task EXCEPT ![h] = Task(TellPodium("FINISHED", o), "ended")],
               Goto(h, "open"), UNCHANGED <<doomed, crashed>>
        PROVE  TypeOK'
    <3>1. pc' \in [Thread -> Location]
      BY <2>2, GotoType DEF Location
    <3>2. task' \in [Thread -> SendTask]
      BY <1>c, <2>2
    <3> QED
      BY <1>2, <2>1, <2>2, <3>1, <3>2 DEF DeathMatchFind
  <2>3. CASE Throw(h)
    BY <1>2, <1>b, <2>1, <2>3, ThrowType DEF DeathMatchFind
  <2>4. CASE Goto(h, "maingame") /\ UNCHANGED <<ref, task, doomed, crashed>>
    <3>1. pc' \in [Thread -> Location]
      BY <2>4, GotoType DEF Location
    <3> QED
      BY <1>2, <2>1, <2>4, <3>1 DEF DeathMatchFind
  <2> QED
    BY <1>2, <2>2, <2>3, <2>4 DEF DeathMatchFind
<1>3. CASE MainGameFind(h)
  <2>1. ref' \in [Thread -> Conn \cup {None, Null}]
    BY <1>3 DEF MainGameFind
  <2>2. CASE Goto(h, Back(h)) /\ UNCHANGED <<task, doomed, crashed>>
    <3>1. pc' \in [Thread -> Location]
      BY <2>2, GotoType, BackType
    <3> QED
      BY <1>3, <2>1, <2>2, <3>1 DEF MainGameFind
  <2>3. ASSUME NEW s \in SendTask, NEW l \in {"open", "tie"},
               task' = [task EXCEPT ![h] = s], Goto(h, l),
               UNCHANGED <<doomed, crashed>>
        PROVE  TypeOK'
    <3>1. pc' \in [Thread -> Location]
      BY <2>3, GotoType DEF Location
    <3> QED
      BY <1>3, <2>1, <2>3, <3>1 DEF MainGameFind
  <2>4. CASE Throw(h)
    BY <1>3, <1>b, <2>1, <2>4, ThrowType DEF MainGameFind
  <2> QED
    BY <1>3, <1>c, <1>d, <2>2, <2>3, <2>4 DEF MainGameFind
<1>4. CASE OpenDeathMatch(h)
  <2>1. pc' \in [Thread -> Location]
    BY <1>4, GotoType DEF OpenDeathMatch, Location
  <2> QED
    BY <1>4, <2>1 DEF OpenDeathMatch, GameState
<1>5. CASE GameEnds(h)
  <2>1. pc' \in [Thread -> Location]
    BY <1>5, GotoType, BackType DEF GameEnds
  <2>2. task' \in [Thread -> SendTask]
    BY <1>5 DEF GameEnds
  <2> QED
    BY <1>5, <2>1, <2>2 DEF GameEnds, GameState
<1> QED
  BY <1>1, <1>2, <1>3, <1>4, <1>5

LEMMA ServerStepType ==
  ASSUME TypeOK, NEW t \in Thread, ServerStep(t)
  PROVE  TypeOK'
<1>1. UNCHANGED phoneVars /\ ThreadStep(t)
  BY DEF ServerStep
<1>2. CASE t \in Conn /\ HandlerThread(t)
  BY <1>1, <1>2, HandlerLoopType, ConnectingType, LobbyMessagesType, FindsType
     DEF HandlerThread
<1>3. CASE AcceptThread
  BY <1>1, <1>3, AcceptThreadType
<1>4. CASE Broadcast(t)
  BY <1>1, <1>4, BroadcastType
<1> QED
  BY <1>1, <1>2, <1>3, <1>4 DEF ThreadStep

-----------------------------------------------------------------------------
(* The phones. *)

LEMMA SockType ==
  ASSUME TypeInv, NEW p \in Phones, stage[p] # "home"
  PROVE  Sock(p) \in Conn
BY DEF TypeInv, TypeOK, PhoneTypeOK, TriesOK, Sock, Conn

LEMMA HearType ==
  ASSUME TypeInv, NEW p \in Phones, NEW kind, Hear(p, kind)
  PROVE  /\ Head(Inbox(p)) \in Instruction
         /\ Head(Inbox(p)).kind = kind
         /\ Inbox(p) \in Seq(Instruction)
         /\ Tail(Inbox(p)) \in Seq(Instruction)
         /\ stage[p] # "home"
<1>1. Sock(p) \in Conn
  BY SockType DEF Hear, Online
<1>2. Inbox(p) \in Seq(Instruction)
  BY <1>1 DEF TypeInv, TypeOK, WireTypeOK, Inbox
<1> QED
  BY <1>2, HeadTailProperties DEF Hear, Online

LEMMA ConsumeType ==
  ASSUME TypeInv, NEW p \in Phones, NEW kind, Hear(p, kind), Consume(p)
  PROVE  toClient' \in [Conn -> Seq(Instruction)]
BY HearType DEF TypeInv, TypeOK, WireTypeOK, Consume, Inbox

LEMMA EmptyInboxType ==
  ASSUME NEW f \in [Conn -> Seq(Instruction)], NEW c
  PROVE  [f EXCEPT ![c] = <<>>] \in [Conn -> Seq(Instruction)]
<1>1. <<>> \in Seq(Instruction)
  OBVIOUS
<1> QED
  BY <1>1, Zenon

LEMMA NetworkErrorType ==
  ASSUME TypeInv, NEW p \in Phones, NEW unread, NetworkError(p, unread)
  PROVE  /\ stage' \in [Phones -> Stage]
         /\ link' \in [Conn -> LinkState]
         /\ toClient' \in [Conn -> Seq(Instruction)]
         /\ screen' \in [Phones -> Screen]
<1> USE DEF TypeInv, TypeOK, WireTypeOK, PhoneTypeOK
<1>1. link' \in [Conn -> LinkState]
  BY DEF NetworkError, LinkState
<1>2. toClient' \in [Conn -> Seq(Instruction)]
  BY EmptyInboxType DEF NetworkError
<1> QED
  BY <1>1, <1>2 DEF NetworkError, Stage, Screen

LEMMA OpenSocketType ==
  ASSUME TypeInv, NEW p \in Phones, NEW hello \in ClientMessage, OpenSocket(p, hello)
  PROVE  /\ WireTypeOK'
         /\ stage' \in [Phones -> Stage]
         /\ tries' \in [Phones -> 0..MaxTries]
<1> USE DEF TypeInv, TypeOK, WireTypeOK, PhoneTypeOK
<1>1. link' \in [Conn -> LinkState]
  BY DEF OpenSocket, LinkState
<1>2. <<hello>> \in Seq(ClientMessage)
  OBVIOUS
<1>3. tries' \in [Phones -> 0..MaxTries]
  BY ProtocolAssumption DEF OpenSocket
<1> QED
  BY <1>1, <1>2, <1>3 DEF OpenSocket, Stage

LEMMA SendType ==
  ASSUME TypeInv, NEW p \in Phones, NEW m \in ClientMessage, Send(p, m)
  PROVE  toServer' \in [Conn -> Seq(ClientMessage)]
<1>1. \A s \in Seq(ClientMessage) : Append(s, m) \in Seq(ClientMessage)
  BY AppendProperties
<1> QED
  BY <1>1 DEF TypeInv, TypeOK, WireTypeOK, Send

LEMMA SpendType ==
  ASSUME TypeInv, NEW p \in Phones, NEW b, Spend(p, b)
  PROVE  used' \in [Phones -> [Bounded -> Nat]]
<1>1. ASSUME NEW f \in [Bounded -> Nat]
      PROVE  [f EXCEPT ![b] = @ + 1] \in [Bounded -> Nat]
  <2>1. CASE b \in Bounded
    <3>1. f[b] + 1 \in Nat
      BY <2>1
    <3> QED
      BY <3>1, Zenon
  <2>2. CASE b \notin Bounded
    BY <2>2
  <2> QED
    BY <2>1, <2>2
<1> QED
  BY <1>1 DEF TypeInv, TypeOK, PhoneTypeOK, Spend

LEMMA ConnectsType ==
  ASSUME TypeInv, NEW p \in Phones, Connects(p)
  PROVE  TypeOK'
<1> USE DEF TypeInv, TypeOK, ServerTypeOK, PhoneTypeOK, serverVars, room, threads
<1>1. CASE ConnectServer(p) /\ UNCHANGED serverVars
  <2>1. Say("CONNECT", None) \in ClientMessage
    BY SayType
  <2>2. WireTypeOK' /\ stage' \in [Phones -> Stage] /\ tries' \in [Phones -> 0..MaxTries]
    BY <1>1, <2>1, OpenSocketType DEF ConnectServer
  <2> QED
    BY <1>1, <2>2 DEF ConnectServer, Screen
<1>2. CASE Reconnect(p) /\ UNCHANGED serverVars
  <2>1. Say("RECONNECT", myId[p]) \in ClientMessage
    BY SayType
  <2>2. WireTypeOK' /\ stage' \in [Phones -> Stage] /\ tries' \in [Phones -> 0..MaxTries]
    BY <1>2, <2>1, OpenSocketType DEF Reconnect
  <2> QED
    BY <1>2, <2>2 DEF Reconnect
<1> QED
  BY <1>1, <1>2 DEF Connects

LEMMA PlaysType ==
  ASSUME TypeInv, NEW p \in Phones, Plays(p)
  PROVE  TypeOK'
<1> USE DEF TypeInv, TypeOK, WireTypeOK, ServerTypeOK, PhoneTypeOK, serverVars, room,
        threads
<1>1. ASSUME NEW m \in ClientMessage, NEW b, Send(p, m), Spend(p, b),
             UNCHANGED serverVars,
             UNCHANGED <<link, toClient, stage, tries, myId, shown, podium>>,
             screen' \in [Phones -> Screen]
      PROVE  TypeOK'
  BY <1>1, SendType, SpendType
<1>2. \A b : screen' = [screen EXCEPT ![p] = b] /\ b \in Screen
              => screen' \in [Phones -> Screen]
  OBVIOUS
<1>3. CASE ToggleReady(p)
  BY <1>1, <1>3, SayType DEF ToggleReady, Plays
<1>4. CASE StartGame(p)
  BY <1>1, <1>4, SayType DEF StartGame, Plays
<1>5. ASSUME NEW n \in RoomNames, SendRoomName(p, n) PROVE TypeOK'
  BY <1>1, <1>5, SayType DEF SendRoomName, Plays
<1>6. ASSUME NEW v \in Values, SetFound(p, v) PROVE TypeOK'
  <2>1. screen' \in [Phones -> Screen]
    BY <1>6 DEF SetFound, Screen
  <2> QED
    BY <1>1, <1>6, <2>1, SayType DEF SetFound, Plays
<1> QED
  BY <1>3, <1>4, <1>5, <1>6 DEF Plays, Player

LEMMA PrefixType ==
  ASSUME NEW S, NEW s \in Seq(S), NEW x \in Prefixes(s)
  PROVE  x \in Seq(S)
<1>1. PICK n \in 0..Len(s) : x = SubSeq(s, 1, n)
  BY DEF Prefixes
<1>2. n \in Int /\ 1 \in Int /\ \A i \in 1..n : s[i] \in S
  OBVIOUS
<1> QED
  BY <1>1, <1>2, SubSeqProperties

LEMMA FailsType ==
  ASSUME TypeInv, NEW p \in Phones, Fails(p)
  PROVE  TypeOK'
<1> USE DEF TypeInv, TypeOK, WireTypeOK, ServerTypeOK, PhoneTypeOK, serverVars, room,
        threads
<1>1. CASE LinkReset(p)
  <2>1. Sock(p) \in Conn
    BY <1>1, SockType DEF LinkReset, Online
  <2>2. toServer' \in [Conn -> Seq(ClientMessage)]
    BY <1>1, <2>1, PrefixType DEF LinkReset
  <2>3. toClient' \in [Conn -> Seq(Instruction)]
    BY <1>1, <2>1, PrefixType DEF LinkReset
  <2>4. used' \in [Phones -> [Bounded -> Nat]]
    BY <1>1, SpendType DEF LinkReset
  <2> QED
    BY <1>1, <2>2, <2>3, <2>4 DEF LinkReset, LinkState, Fails
<1>2. CASE PhoneKilled(p)
  <2>1. used' \in [Phones -> [Bounded -> Nat]]
    BY <1>2, SpendType DEF PhoneKilled
  <2>2. toClient' \in [Conn -> Seq(Instruction)]
    BY <1>2, EmptyInboxType DEF PhoneKilled
  <2>3. link' \in [Conn -> LinkState]
    BY <1>2 DEF PhoneKilled, LinkState
  <2> QED
    BY <1>2, <2>1, <2>2, <2>3 DEF PhoneKilled, Stage, Screen, Fails
<1> QED
  BY <1>1, <1>2 DEF Fails, Failure

LEMMA TailTailType ==
  ASSUME NEW S, NEW s \in Seq(S), Len(s) > 1
  PROVE  Tail(Tail(s)) \in Seq(S)
<1> DEFINE rest == Tail(s)
<1>1. Len(s) \in Nat /\ s # <<>>
  OBVIOUS
<1>2. rest \in Seq(S) /\ Len(rest) = Len(s) - 1
  BY <1>1, HeadTailProperties
<1> HIDE DEF rest
<1>3. rest # <<>>
  BY <1>1, <1>2
<1>4. Tail(rest) \in Seq(S)
  BY <1>2, <1>3, HeadTailProperties
<1> QED
  BY <1>4 DEF rest

(* What the client's thread does with each instruction. *)
LEMMA HearsType ==
  ASSUME TypeInv, NEW p \in Phones, Hears(p)
  PROVE  TypeOK'
<1> USE DEF TypeInv, TypeOK, WireTypeOK, ServerTypeOK, PhoneTypeOK, serverVars, room,
        threads
<1>a. ASSUME NEW kind, Hear(p, kind)
      PROVE  /\ Head(Inbox(p)) \in Instruction
             /\ Head(Inbox(p)).kind = kind
             /\ Head(Inbox(p)).view \in View
             /\ Head(Inbox(p)).podium \in Seq(Conn)
  BY <1>a, HearType DEF Instruction
<1>b. UNCHANGED serverVars
  BY DEF Hears
<1>1. CASE HearPlayers(p)
  <2>1. CASE Consume(p) /\ shown' = [shown EXCEPT ![p] = Head(Inbox(p)).view]
             /\ UNCHANGED <<link, stage, screen>>
    <3>1. toClient' \in [Conn -> Seq(Instruction)]
      BY <1>1, <2>1, ConsumeType DEF HearPlayers
    <3>2. shown' \in [Phones -> View]
      BY <1>1, <1>a, <2>1 DEF HearPlayers
    <3> QED
      BY <1>1, <1>b, <2>1, <3>1, <3>2 DEF HearPlayers
  <2>2. CASE NetworkError(p, Tail(Inbox(p))) /\ UNCHANGED shown
    BY <1>1, <1>b, <2>2, NetworkErrorType DEF HearPlayers
  <2> QED
    BY <1>1, <2>1, <2>2 DEF HearPlayers
<1>2. CASE HearId(p)
  <2>1. Head(Inbox(p)).arg \in Conn
    BY <1>2, <1>a DEF HearId, Instruction
  <2>2. toClient' \in [Conn -> Seq(Instruction)]
    BY <1>2, ConsumeType DEF HearId
  <2> QED
    BY <1>2, <1>b, <2>1, <2>2 DEF HearId
<1>3. CASE HearStart(p)
  <2>1. toClient' \in [Conn -> Seq(Instruction)]
    BY <1>3, ConsumeType DEF HearStart
  <2> QED
    BY <1>3, <1>b, <2>1 DEF HearStart, Screen
<1>4. CASE HearFinished(p)
  <2>1. toClient' \in [Conn -> Seq(Instruction)]
    BY <1>4, ConsumeType DEF HearFinished
  <2>2. shown' \in [Phones -> View] /\ podium' \in [Phones -> Seq(Conn) \cup {None}]
    BY <1>4, <1>a DEF HearFinished
  <2>3. screen' \in [Phones -> Screen]
    BY <1>4 DEF HearFinished, Screen
  <2> QED
    BY <1>4, <1>b, <2>1, <2>2, <2>3 DEF HearFinished
<1>5. CASE HearDeathMatch(p)
  <2>1. CASE NetworkError(p, Tail(Inbox(p)))
    BY <1>5, <1>b, <2>1, NetworkErrorType DEF HearDeathMatch
  <2>2. CASE Consume(p) /\ UNCHANGED <<link, stage, screen>>
    <3>1. toClient' \in [Conn -> Seq(Instruction)]
      BY <1>5, <2>2, ConsumeType DEF HearDeathMatch
    <3> QED
      BY <1>5, <1>b, <2>2, <3>1 DEF HearDeathMatch
  <2> QED
    BY <1>5, <2>1, <2>2 DEF HearDeathMatch
<1>6. CASE HearStopped(p)
  <2>1. toClient' \in [Conn -> Seq(Instruction)]
    BY <1>6, EmptyInboxType DEF HearStopped
  <2>2. EmptyView \in View
    BY DEF EmptyView, View
  <2>3. stage' \in [Phones -> Stage] /\ screen' \in [Phones -> Screen]
    BY <1>6 DEF HearStopped, Stage, Screen
  <2>4. link' \in [Conn -> LinkState]
    BY <1>6 DEF HearStopped, LinkState
  <2>5. shown' \in [Phones -> View]
    BY <1>6, <2>2 DEF HearStopped
  <2> QED
    BY <1>6, <1>b, <2>1, <2>3, <2>4, <2>5 DEF HearStopped
<1>7. CASE HearRoomName(p)
  <2>1. toClient' \in [Conn -> Seq(Instruction)]
    BY <1>7, ConsumeType DEF HearRoomName
  <2> QED
    BY <1>7, <1>b, <2>1 DEF HearRoomName, phoneVars
<1>8. CASE HearNotReady(p)
  <2>1. CASE NetworkError(p, Tail(Inbox(p)))
    BY <1>8, <1>b, <2>1, NetworkErrorType DEF HearNotReady
  <2>2. CASE Consume(p) /\ UNCHANGED <<link, stage, screen>>
    <3>1. toClient' \in [Conn -> Seq(Instruction)]
      BY <1>8, <2>2, ConsumeType DEF HearNotReady
    <3> QED
      BY <1>8, <1>b, <2>2, <3>1 DEF HearNotReady
  <2> QED
    BY <1>8, <2>1, <2>2 DEF HearNotReady
<1>9. CASE HearRefusal(p)
  <2>1. Inbox(p) \in Seq(Instruction) /\ Len(Inbox(p)) > 1
    BY <1>9, HearType DEF HearRefusal
  <2>2. Tail(Tail(Inbox(p))) \in Seq(Instruction)
    BY <2>1, TailTailType
  <2>3. toClient' \in [Conn -> Seq(Instruction)]
    BY <1>9, <2>2 DEF HearRefusal, Inbox
  <2> QED
    BY <1>9, <1>b, <2>3 DEF HearRefusal, phoneVars
<1>10. CASE Disconnection(p)
  BY <1>10, <1>b, NetworkErrorType DEF Disconnection
<1> QED
  BY <1>1, <1>2, <1>3, <1>4, <1>5, <1>6, <1>7, <1>8, <1>9, <1>10
     DEF Hears, ClientThread

-----------------------------------------------------------------------------
(* The room. *)

LEMMA InitType == Init => TypeInv
<1> SUFFICES ASSUME Init PROVE TypeInv
  OBVIOUS
<1>1. NoTask \in SendTask /\ NewPlayer \in PlayerInfo
  BY NoTaskType, NewPlayerType
<1>2. WireTypeOK
  BY DEF Init, WireInit, WireTypeOK, LinkState
<1>3. ServerTypeOK
  <2>1. pc \in [Thread -> Location]
    BY DEF Init, ServerInit, Location
  <2>2. task \in [Thread -> SendTask]
    BY <1>1 DEF Init, ServerInit
  <2>3. stats \in [Conn -> PlayerInfo]
    BY <1>1 DEF Init, ServerInit
  <2>4. clients \in Seq(Conn)
    BY DEF Init, ServerInit
  <2> QED
    BY <2>1, <2>2, <2>3, <2>4 DEF Init, ServerInit, ServerTypeOK, GameState
<1>4. PhoneTypeOK
  <2>1. EmptyView \in View
    BY DEF EmptyView, View
  <2> QED
    BY <2>1, ProtocolAssumption DEF Init, PhoneInit, PhoneTypeOK, Stage, Screen
<1>5. TriesOK
  BY DEF Init, PhoneInit, TriesOK
<1> QED
  BY <1>2, <1>3, <1>4, <1>5 DEF TypeInv, TypeOK

(* Only ConnectServer leaves the home screen, and it opens a connection.   *)
LEMMA TriesStep ==
  ASSUME TypeInv, [Next]_vars
  PROVE  TriesOK'
<1> USE DEF TypeInv, TypeOK, PhoneTypeOK, TriesOK
<1>1. ASSUME NEW p \in Phones, Connects(p) PROVE TriesOK'
  <2>1. PICK hello : OpenSocket(p, hello)
    BY <1>1 DEF Connects, ConnectServer, Reconnect
  <2>2. tries[p] + 1 # 0
    BY <1>1, ProtocolAssumption
  <2>3. tries' = [tries EXCEPT ![p] = @ + 1] /\ stage' = [stage EXCEPT ![p] = "run"]
    BY <2>1 DEF OpenSocket
  <2> QED
    BY <2>2, <2>3
<1>2. ASSUME NEW p \in Phones, Hears(p) PROVE TriesOK'
  BY <1>2 DEF Hears, ClientThread, HearPlayers, HearId, HearStart, HearFinished,
     HearDeathMatch, HearStopped, HearRoomName, HearNotReady, HearRefusal,
     Disconnection, NetworkError, Hear, Online, phoneVars
<1>3. ASSUME NEW p \in Phones, Plays(p) PROVE TriesOK'
  BY <1>3 DEF Plays, Player, ToggleReady, StartGame, SendRoomName, SetFound
<1>4. ASSUME NEW p \in Phones, Fails(p) PROVE TriesOK'
  BY <1>4 DEF Fails, Failure, LinkReset, PhoneKilled, Online
<1>5. CASE UNCHANGED phoneVars
  BY <1>5 DEF phoneVars
<1> QED
  BY <1>1, <1>2, <1>3, <1>4, <1>5 DEF Next, ServerStep, HostStops, vars

LEMMA NextType ==
  ASSUME TypeInv, [Next]_vars
  PROVE  TypeInv'
<1>1. TypeOK'
  <2>1. CASE HostStops
    BY <2>1 DEF HostStops, StopListening, TypeInv, TypeOK, WireTypeOK, ServerTypeOK,
       PhoneTypeOK, wire, room, phoneVars
  <2>2. CASE UNCHANGED vars
    BY <2>2 DEF vars, TypeInv, TypeOK, WireTypeOK, ServerTypeOK, PhoneTypeOK, wire,
       serverVars, room, threads, phoneVars
  <2> QED
    BY <2>1, <2>2, ServerStepType, ConnectsType, HearsType, PlaysType, FailsType
       DEF Next, TypeInv
<1> QED
  BY <1>1, TriesStep DEF TypeInv

(* Every field of the wire, of the server and of the phones keeps its      *)
(* type, and every message and instruction on the wire is one of the       *)
(* protocol's (Server.java:30-34, ServerBase.java:30-46,                   *)
(* ClientHandler.java:26-30, Client.java:27-43), in every room: whatever   *)
(* the phones, the connections and the finds.                              *)
THEOREM TypeCorrect == Spec => []TypeOK
<1>1. TypeInv => TypeOK
  BY DEF TypeInv
<1> QED
  BY <1>1, InitType, NextType, PTL DEF Spec

-----------------------------------------------------------------------------

(***************************************************************************)
(* While gameState is LOBBY nobody has a score, and nothing that would let *)
(* somebody score is under way: no START on the way or about to be sent,   *)
(* no phone in the game, no ANAM-FOUND on the way.                         *)
(***************************************************************************)
LobbyMessage == {m \in ClientMessage : m.kind # "ANAM-FOUND"}

LobbyInstruction == {m \in Instruction : m.kind # "START"}

LobbyWire ==
  /\ toServer \in [Conn -> Seq(LobbyMessage)]
  /\ toClient \in [Conn -> Seq(LobbyInstruction)]

NoScore == \A id \in Conn : stats[id].score = 0 /\ stats[id].found = 0

NoStart == \A t \in Thread : task[t].msg.kind # "START"

NobodyPlays == \A p \in Phones : screen[p] # "game"

LobbyInv == gameState = "LOBBY" => LobbyWire /\ NoScore /\ NoStart /\ NobodyPlays

-----------------------------------------------------------------------------
(* Sequences of messages of one set, on the connections: what reading,     *)
(* writing and losing do to them.                                          *)

LEMMA ReadKeeps ==
  ASSUME NEW M, NEW f \in [Conn -> Seq(M)], NEW c \in Conn, f[c] # <<>>
  PROVE  /\ Head(f[c]) \in M
         /\ [f EXCEPT ![c] = Tail(@)] \in [Conn -> Seq(M)]
<1>1. f[c] \in Seq(M)
  OBVIOUS
<1>2. Head(f[c]) \in M /\ Tail(f[c]) \in Seq(M)
  BY <1>1, HeadTailProperties
<1> QED
  BY <1>2

LEMMA WriteKeeps ==
  ASSUME NEW M, NEW f \in [Conn -> Seq(M)], NEW c \in Conn, NEW msgs \in Seq(M)
  PROVE  [f EXCEPT ![c] = @ \o msgs] \in [Conn -> Seq(M)]
<1>1. f[c] \o msgs \in Seq(M)
  BY ConcatProperties
<1> QED
  BY <1>1

LEMMA AppendKeeps ==
  ASSUME NEW M, NEW f \in [Conn -> Seq(M)], NEW c \in Conn, NEW m \in M
  PROVE  [f EXCEPT ![c] = Append(@, m)] \in [Conn -> Seq(M)]
<1>1. Append(f[c], m) \in Seq(M)
  BY AppendProperties
<1> QED
  BY <1>1

LEMMA LossKeeps ==
  ASSUME NEW M, NEW f \in [Conn -> Seq(M)], NEW c \in Conn,
         NEW s \in Prefixes(f[c])
  PROVE  [f EXCEPT ![c] = s] \in [Conn -> Seq(M)]
<1>1. f[c] \in Seq(M)
  OBVIOUS
<1>2. s \in Seq(M)
  BY <1>1, PrefixType
<1> QED
  BY <1>2

-----------------------------------------------------------------------------
(* The lobby: the server. *)

LEMMA LobbyTake ==
  ASSUME TypeOK, LobbyWire, NEW h \in Conn, NEW kind, Take(h, kind)
  PROVE  /\ toServer' \in [Conn -> Seq(LobbyMessage)]
         /\ kind # "ANAM-FOUND"
<1>1. Head(toServer[h]) \in LobbyMessage
  BY ReadKeeps DEF LobbyWire, Take
<1>2. toServer' \in [Conn -> Seq(LobbyMessage)]
  BY ReadKeeps DEF LobbyWire, Take
<1> QED
  BY <1>1, <1>2 DEF Take, LobbyMessage

LEMMA LobbyWrite ==
  ASSUME LobbyWire, NEW c \in Conn, NEW msgs \in Seq(LobbyInstruction), Write(c, msgs)
  PROVE  toClient' \in [Conn -> Seq(LobbyInstruction)]
BY WriteKeeps DEF LobbyWire, Write

LEMMA LobbyReply ==
  ASSUME LobbyWire, NEW h \in Conn, NEW msgs \in Seq(LobbyInstruction), NEW l,
         Reply(h, msgs, l)
  PROVE  toClient' \in [Conn -> Seq(LobbyInstruction)]
BY LobbyWrite DEF Reply, LobbyWire

(* The messages the server makes, START excepted.                          *)
LEMMA LobbyTell ==
  /\ \A kind \in InstructionKind \ {"ID", "START"} :
       \A arg \in Conn \cup RoomNames \cup {None} : Tell(kind, arg) \in LobbyInstruction
  /\ \A c \in Conn : Tell("ID", c) \in LobbyInstruction
<1>1. ASSUME NEW kind \in InstructionKind \ {"ID", "START"},
             NEW arg \in Conn \cup RoomNames \cup {None}
      PROVE  Tell(kind, arg) \in LobbyInstruction
  <2>1. Tell(kind, arg) \in Instruction
    BY TellType
  <2> QED
    BY <2>1 DEF LobbyInstruction, Tell
<1>2. ASSUME NEW c \in Conn PROVE Tell("ID", c) \in LobbyInstruction
  <2>1. Tell("ID", c) \in Instruction
    BY TellIdType
  <2> QED
    BY <2>1 DEF LobbyInstruction, Tell
<1> QED
  BY <1>1, <1>2

(* The message of a task that a thread is given.                           *)
LEMMA TaskKind ==
  /\ \A m, after : Task(m, after).msg = m
  /\ \A kind, arg : Tell(kind, arg).kind = kind /\ Tell(kind, arg).arg = arg
  /\ \A kind, o : TellPodium(kind, o).kind = kind
  /\ NoTask.msg.kind = "none"
  /\ PlayerList.msg.kind = "PLAYERS"
  /\ [PlayerList EXCEPT !.after = "exit"].msg.kind = "PLAYERS"
  /\ [NoTask EXCEPT !.next = 1].msg.kind = "none"
BY DEF Task, Tell, TellPodium, NoTask, PlayerList, Nothing

LEMMA FilledKind ==
  ASSUME NEW m \in Instruction
  PROVE  Filled(m).kind = m.kind /\ Filled(m).arg = m.arg
BY DEF Filled, Instruction

(* Tasks that change: given, advanced, or filled when the iterator opens.  *)
LEMMA LobbyTask ==
  ASSUME TypeOK, NoStart, NEW t, NEW x, x.msg.kind # "START",
         task' = [task EXCEPT ![t] = x]
  PROVE  NoStart'
BY DEF TypeOK, ServerTypeOK, NoStart

LEMMA LobbyAdvance ==
  ASSUME TypeOK, NoStart, NEW t, task' = [task EXCEPT ![t].next = @ + 1]
  PROVE  NoStart'
<1>1. \A x \in SendTask : [x EXCEPT !.next = @ + 1].msg = x.msg
  BY DEF SendTask
<1> QED
  BY <1>1 DEF TypeOK, ServerTypeOK, NoStart

LEMMA LobbyFill ==
  ASSUME TypeOK, NoStart, NEW t \in Thread,
         task' = [task EXCEPT ![t].msg = Filled(@), ![t].next = 1,
                              ![t].len = Len(clients)]
  PROVE  NoStart'
<1>1. Filled(task[t].msg).kind = task[t].msg.kind
  BY FilledKind DEF TypeOK, ServerTypeOK, SendTask
<1>2. \A x \in SendTask : \A m, n :
        [x EXCEPT !.msg = m, !.next = 1, !.len = n].msg = m
  BY DEF SendTask
<1>3. task'[t].msg = Filled(task[t].msg)
  BY <1>2 DEF TypeOK, ServerTypeOK
<1>4. \A u \in Thread \ {t} : task'[u] = task[u]
  BY DEF TypeOK, ServerTypeOK
<1> QED
  BY <1>1, <1>3, <1>4 DEF NoStart

LEMMA LobbyThrow ==
  ASSUME TypeOK, NoStart, NEW t \in Thread, Throw(t)
  PROVE  NoStart'
BY LobbyTask, TaskKind DEF Throw

(* The whole of the invariant but for the screens, which no thread of the  *)
(* server changes.                                                         *)
LobbyServer == LobbyWire /\ NoScore /\ NoStart

LEMMA LobbyAccept ==
  ASSUME TypeOK, LobbyServer, AcceptThread
  PROVE  LobbyServer'
<1> USE DEF LobbyServer, wire, room
<1>0. Task(Tell("SERVER-STOPPED", None), "clear").msg.kind # "START"
  BY TaskKind
<1>1. ASSUME NEW c \in Conn, Accept(c) PROVE LobbyServer'
  <2>1. NoStart'
    <3>1. CASE UNCHANGED task
      BY <3>1 DEF NoStart
    <3>2. CASE task' = [task EXCEPT ![Acceptor] =
                                    Task(Tell("SERVER-STOPPED", None), "clear")]
      BY <1>0, <3>2, LobbyTask
    <3> QED
      BY <1>1, <3>1, <3>2 DEF Accept
  <2> QED
    BY <1>1, <2>1 DEF Accept, LobbyWire, NoScore
<1>2. CASE StopAccepting
  <2>1. NoStart'
    BY <1>0, <1>2, LobbyTask DEF StopAccepting
  <2> QED
    BY <1>2, <2>1 DEF StopAccepting, LobbyWire, NoScore
<1>3. CASE CloseClient
  BY <1>3 DEF CloseClient, LobbyWire, NoScore, NoStart
<1>4. CASE ClientClosed
  <2>1. NoStart'
    BY <1>4, LobbyAdvance DEF ClientClosed
  <2> QED
    BY <1>4, <2>1 DEF ClientClosed, LobbyWire, NoScore
<1>5. CASE AcceptorEnds
  <2>1. NoStart'
    BY <1>5, LobbyTask, TaskKind DEF AcceptorEnds
  <2> QED
    BY <1>5, <2>1 DEF AcceptorEnds, LobbyWire, NoScore
<1>6. CASE ClearPlayers
  <2>1. NoStart'
    BY <1>6, LobbyTask, TaskKind DEF ClearPlayers
  <2> QED
    BY <1>6, <2>1 DEF ClearPlayers, LobbyWire, NoScore
<1> QED
  BY <1>1, <1>2, <1>3, <1>4, <1>5, <1>6 DEF AcceptThread

LEMMA LobbyBroadcast ==
  ASSUME TypeOK, LobbyServer, NEW t \in Thread, Broadcast(t)
  PROVE  LobbyServer'
<1> USE DEF LobbyServer, wire, room
<1>1. CASE Open(t)
  <2>1. NoStart'
    BY <1>1, LobbyThrow, LobbyFill DEF Open
  <2> QED
    BY <1>1, <2>1 DEF Open, LobbyWire, NoScore
<1>2. CASE IteratorFails(t)
  BY <1>2, LobbyThrow DEF IteratorFails, LobbyWire, NoScore
<1>3. CASE SendNext(t)
  <2>1. clients[task[t].next] \in Conn
    BY <1>3 DEF SendNext, Sending, TypeOK, ServerTypeOK
  <2>2. <<task[t].msg>> \in Seq(LobbyInstruction)
    <3>1. task[t].msg \in LobbyInstruction
      BY DEF NoStart, LobbyInstruction, TypeOK, ServerTypeOK, SendTask
    <3> QED
      BY <3>1
  <2>3. toClient' \in [Conn -> Seq(LobbyInstruction)]
    BY <1>3, <2>1, <2>2, LobbyWrite DEF SendNext
  <2>4. NoStart'
    BY <1>3, LobbyAdvance DEF SendNext
  <2> QED
    BY <1>3, <2>3, <2>4 DEF SendNext, LobbyWire, NoScore
<1>4. CASE SendFails(t)
  BY <1>4 DEF SendFails, LobbyWire, NoScore, NoStart
<1>5. CASE JoinReturns(t)
  <2>1. NoStart'
    BY <1>5, LobbyAdvance DEF JoinReturns
  <2> QED
    BY <1>5, <2>1 DEF JoinReturns, LobbyWire, NoScore
<1>6. CASE Done(t)
  <2>1. NoStart'
    BY <1>6, LobbyTask, TaskKind DEF Done
  <2> QED
    BY <1>6, <2>1 DEF Done, LobbyWire, NoScore
<1> QED
  BY <1>1, <1>2, <1>3, <1>4, <1>5, <1>6 DEF Broadcast

LEMMA LobbyHandler ==
  ASSUME TypeOK, LobbyServer, gameState = "LOBBY", gameState' = "LOBBY",
         NEW h \in Conn, HandlerThread(h)
  PROVE  LobbyServer'
<1> USE DEF LobbyServer, wire, room
<1>a. h \in Thread
  BY DEF Thread
<1>b. /\ <<Tell("GAME-STARTED", None)>> \in Seq(LobbyInstruction)
      /\ <<Tell("NOTREADY", None)>> \in Seq(LobbyInstruction)
      /\ <<Tell("ID", h), Tell("ROOM-NAME", roomName)>> \in Seq(LobbyInstruction)
      /\ <<task[h].msg>> \in Seq(LobbyInstruction)
  <2>1. /\ Tell("GAME-STARTED", None) \in LobbyInstruction
        /\ Tell("NOTREADY", None) \in LobbyInstruction
        /\ Tell("ID", h) \in LobbyInstruction
        /\ Tell("ROOM-NAME", roomName) \in LobbyInstruction
    BY LobbyTell DEF InstructionKind, TypeOK, ServerTypeOK
  <2>2. task[h].msg \in LobbyInstruction
    BY <1>a DEF NoStart, LobbyInstruction, TypeOK, ServerTypeOK, SendTask
  <2> QED
    BY <2>1, <2>2
<1>c. NoTask.msg.kind # "START" /\ PlayerList.msg.kind # "START"
  BY TaskKind
<1>1. CASE Ignore(h)
  BY <1>1, LobbyTake DEF Ignore, LobbyWire, NoScore, NoStart
<1>2. CASE ReadFails(h) \/ LeaveLoop(h)
  BY <1>2 DEF ReadFails, LeaveLoop, LobbyWire, NoScore, NoStart
<1>3. CASE Disconnected(h)
  <2>1. [PlayerList EXCEPT !.after = "exit"].msg.kind # "START"
    BY TaskKind
  <2>2. NoStart'
    BY <1>3, <2>1, LobbyTask DEF Disconnected, NoStart
  <2> QED
    BY <1>3, <2>2 DEF Disconnected, LobbyWire, NoScore
<1>4. CASE HandlerEnds(h)
  <2>1. NoStart'
    BY <1>4, <1>c, LobbyTask DEF HandlerEnds
  <2> QED
    BY <1>4, <2>1 DEF HandlerEnds, LobbyWire, NoScore
<1>5. CASE ReceiveConnect(h)
  <2>1. toClient' \in [Conn -> Seq(LobbyInstruction)]
    BY <1>5, <1>b, LobbyReply DEF ReceiveConnect, LobbyWire
  <2>2. toServer' \in [Conn -> Seq(LobbyMessage)]
    BY <1>5, LobbyTake DEF ReceiveConnect
  <2> QED
    BY <1>5, <2>1, <2>2 DEF ReceiveConnect, LobbyWire, NoScore, NoStart
<1>6. CASE AddPlayer(h)
  <2>1. NoScore'
    BY <1>6 DEF AddPlayer, NoScore, NewPlayer, TypeOK, ServerTypeOK
  <2> QED
    BY <1>6, <2>1 DEF AddPlayer, LobbyWire, NoStart
<1>7. CASE Greet(h)
  <2>1. toClient' \in [Conn -> Seq(LobbyInstruction)]
    BY <1>7, <1>b, LobbyReply DEF Greet
  <2>2. NoStart'
    BY <1>7, <1>c, LobbyTask DEF Greet
  <2> QED
    BY <1>7, <2>1, <2>2 DEF Greet, LobbyWire, NoScore
<1>8. CASE ReceiveReconnect(h)
  <2>1. toClient' \in [Conn -> Seq(LobbyInstruction)]
    BY <1>8, <1>b, LobbyReply DEF ReceiveReconnect, LobbyWire
  <2>2. toServer' \in [Conn -> Seq(LobbyMessage)]
    BY <1>8, LobbyTake DEF ReceiveReconnect
  <2>3. NoStart'
    <3>1. Task(Tell("ID", Arg(h)), "loop").msg.kind # "START"
      BY TaskKind
    <3>2. CASE task' = [task EXCEPT ![h] = Task(Tell("ID", Arg(h)), "loop")]
      BY <3>1, <3>2, LobbyTask
    <3>3. CASE Throw(h)
      BY <1>a, <3>3, LobbyThrow
    <3>4. CASE UNCHANGED task
      BY <3>4 DEF NoStart
    <3> QED
      BY <1>8, <3>2, <3>3, <3>4 DEF ReceiveReconnect
  <2> QED
    BY <1>8, <2>1, <2>2, <2>3 DEF ReceiveReconnect, LobbyWire, NoScore
<1>9. CASE LookUpPlayer(h) \/ DropHandler(h) \/ AdoptPlayer(h)
  BY <1>9 DEF LookUpPlayer, DropHandler, AdoptPlayer, LobbyWire, NoScore, NoStart
<1>10. CASE WelcomeBack(h)
  <2>1. toClient' \in [Conn -> Seq(LobbyInstruction)]
    BY <1>10, <1>b, LobbyReply DEF WelcomeBack
  <2>2. NoStart'
    BY <1>10, <1>c, LobbyTask DEF WelcomeBack
  <2> QED
    BY <1>10, <2>1, <2>2 DEF WelcomeBack, LobbyWire, NoScore
<1>11. CASE ReceiveReady(h)
  <2>1. toServer' \in [Conn -> Seq(LobbyMessage)]
    BY <1>11, LobbyTake DEF ReceiveReady
  <2>2. NoStart'
    BY <1>11, <1>c, LobbyTask DEF ReceiveReady
  <2>3. NoScore'
    <3>1. \A x \in PlayerInfo : /\ [x EXCEPT !.ready = ~@].score = x.score
                               /\ [x EXCEPT !.ready = ~@].found = x.found
      BY DEF PlayerInfo
    <3>2. \A id \in Conn : /\ stats'[id].score = stats[id].score
                           /\ stats'[id].found = stats[id].found
      BY <1>11, <3>1 DEF ReceiveReady, TypeOK, ServerTypeOK
    <3> QED
      BY <3>2 DEF NoScore
  <2> QED
    BY <1>11, <2>1, <2>2, <2>3 DEF ReceiveReady, LobbyWire
<1>12. CASE ReceiveStart(h)
  <2>1. toClient' \in [Conn -> Seq(LobbyInstruction)]
    BY <1>12, <1>b, LobbyReply DEF ReceiveStart, LobbyWire
  <2>2. toServer' \in [Conn -> Seq(LobbyMessage)]
    BY <1>12, LobbyTake DEF ReceiveStart
  <2>3. NoStart'
    BY <1>12, <1>a, LobbyThrow DEF ReceiveStart, NoStart
  <2> QED
    BY <1>12, <2>1, <2>2, <2>3 DEF ReceiveStart, LobbyWire, NoScore
<1>13. CASE ReceiveRoomName(h)
  <2>1. toServer' \in [Conn -> Seq(LobbyMessage)]
    BY <1>13, LobbyTake DEF ReceiveRoomName
  <2>2. Task(Tell("ROOM-NAME", Arg(h)), "loop").msg.kind # "START"
    BY TaskKind
  <2>3. NoStart'
    BY <1>13, <2>2, LobbyTask DEF ReceiveRoomName
  <2> QED
    BY <1>13, <2>1, <2>3 DEF ReceiveRoomName, LobbyWire, NoScore
<1>14. CASE DeathMatchFind(h)
  BY <1>14 DEF DeathMatchFind, LobbyWire, NoScore, NoStart
<1>15. CASE MainGameFind(h)
  BY <1>15 DEF MainGameFind, LobbyWire, NoScore, NoStart
<1>16. ~ReceiveFound(h)
  BY LobbyTake DEF ReceiveFound
<1>17. ~Begin(h) /\ ~OpenDeathMatch(h) /\ ~GameEnds(h)
  BY DEF Begin, OpenDeathMatch, GameEnds, TypeOK, ServerTypeOK
<1> QED
  BY <1>1, <1>2, <1>3, <1>4, <1>5, <1>6, <1>7, <1>8, <1>9, <1>10, <1>11, <1>12,
     <1>13, <1>14, <1>15, <1>16, <1>17 DEF HandlerThread

-----------------------------------------------------------------------------
(* The lobby: the phones. *)

LobbyPhones == LobbyWire /\ NobodyPlays

LEMMA LobbyEmpty ==
  ASSUME LobbyWire, NEW c, toClient' = [toClient EXCEPT ![c] = <<>>]
  PROVE  toClient' \in [Conn -> Seq(LobbyInstruction)]
<1>1. <<>> \in Seq(LobbyInstruction)
  OBVIOUS
<1> QED
  BY <1>1, Zenon DEF LobbyWire

LEMMA LobbyHear ==
  ASSUME TypeInv, LobbyWire, NEW p \in Phones, NEW kind, Hear(p, kind)
  PROVE  /\ kind # "START"
         /\ Consume(p) => toClient' \in [Conn -> Seq(LobbyInstruction)]
<1>1. Sock(p) \in Conn /\ toClient[Sock(p)] # <<>>
  BY SockType DEF Hear, Online, Inbox
<1>2. Head(toClient[Sock(p)]) \in LobbyInstruction
  BY <1>1, ReadKeeps DEF LobbyWire
<1>3. Consume(p) => toClient' \in [Conn -> Seq(LobbyInstruction)]
  BY <1>1, ReadKeeps DEF LobbyWire, Consume
<1> QED
  BY <1>2, <1>3 DEF LobbyInstruction, Hear, Inbox

LEMMA LobbyError ==
  ASSUME TypeOK, LobbyPhones, NEW p \in Phones, NEW unread, NetworkError(p, unread),
         UNCHANGED toServer
  PROVE  LobbyPhones'
<1>1. toClient' \in [Conn -> Seq(LobbyInstruction)]
  BY LobbyEmpty DEF NetworkError, LobbyPhones
<1>2. NobodyPlays'
  BY DEF NetworkError, LobbyPhones, NobodyPlays, TypeOK, PhoneTypeOK
<1> QED
  BY <1>1, <1>2 DEF LobbyPhones, LobbyWire

LEMMA LobbyHears ==
  ASSUME TypeInv, LobbyPhones, NEW p \in Phones, Hears(p)
  PROVE  LobbyPhones'
<1> USE DEF LobbyPhones
<1>a. TypeOK
  BY DEF TypeInv
<1>1. CASE HearPlayers(p)
  BY <1>1, <1>a, LobbyHear, LobbyError DEF HearPlayers, LobbyWire, NobodyPlays
<1>2. CASE HearId(p)
  BY <1>2, LobbyHear DEF HearId, LobbyWire, NobodyPlays
<1>3. ~HearStart(p)
  BY LobbyHear DEF HearStart
<1>4. CASE HearFinished(p)
  <2>1. NobodyPlays'
    BY <1>4 DEF HearFinished, NobodyPlays, TypeInv, TypeOK, PhoneTypeOK
  <2> QED
    BY <1>4, <2>1, LobbyHear DEF HearFinished, LobbyWire
<1>5. CASE HearDeathMatch(p)
  BY <1>5, <1>a, LobbyHear, LobbyError DEF HearDeathMatch, LobbyWire, NobodyPlays
<1>6. CASE HearStopped(p)
  <2>1. NobodyPlays'
    BY <1>6 DEF HearStopped, NobodyPlays, TypeInv, TypeOK, PhoneTypeOK
  <2>2. toClient' \in [Conn -> Seq(LobbyInstruction)]
    BY <1>6, LobbyEmpty DEF HearStopped
  <2> QED
    BY <1>6, <2>1, <2>2 DEF HearStopped, LobbyWire
<1>7. CASE HearRoomName(p)
  BY <1>7, LobbyHear DEF HearRoomName, LobbyWire, NobodyPlays, phoneVars
<1>8. CASE HearNotReady(p)
  BY <1>8, <1>a, LobbyHear, LobbyError DEF HearNotReady, LobbyWire, NobodyPlays
<1>9. CASE HearRefusal(p)
  <2>1. Sock(p) \in Conn
    BY <1>9, SockType DEF HearRefusal, Hear, Online
  <2>2. Inbox(p) \in Seq(LobbyInstruction) /\ Len(Inbox(p)) > 1
    BY <1>9, <2>1 DEF HearRefusal, LobbyWire, Inbox
  <2>3. Tail(Tail(Inbox(p))) \in Seq(LobbyInstruction)
    BY <2>2, TailTailType
  <2>4. toClient' \in [Conn -> Seq(LobbyInstruction)]
    BY <1>9, <2>3 DEF HearRefusal, Inbox, LobbyWire
  <2> QED
    BY <1>9, <2>4 DEF HearRefusal, LobbyWire, NobodyPlays, phoneVars
<1>10. CASE Disconnection(p)
  BY <1>10, <1>a, LobbyError DEF Disconnection
<1> QED
  BY <1>1, <1>2, <1>3, <1>4, <1>5, <1>6, <1>7, <1>8, <1>9, <1>10
     DEF Hears, ClientThread

LEMMA LobbyConnects ==
  ASSUME TypeInv, LobbyPhones, NEW p \in Phones, Connects(p)
  PROVE  LobbyPhones'
<1> USE DEF LobbyPhones
<1>1. ASSUME NEW hello \in LobbyMessage, OpenSocket(p, hello)
      PROVE  LobbyWire'
  <2>1. <<hello>> \in Seq(LobbyMessage)
    OBVIOUS
  <2> QED
    BY <1>1, <2>1 DEF OpenSocket, LobbyWire
<1>2. Say("CONNECT", None) \in LobbyMessage
  BY SayType DEF LobbyMessage, Say
<1>3. Say("RECONNECT", myId[p]) \in LobbyMessage
  BY SayType DEF LobbyMessage, Say, TypeInv, TypeOK, PhoneTypeOK
<1>4. CASE ConnectServer(p)
  <2>1. NobodyPlays'
    BY <1>4 DEF ConnectServer, NobodyPlays, TypeInv, TypeOK, PhoneTypeOK
  <2> QED
    BY <1>1, <1>2, <1>4, <2>1 DEF ConnectServer
<1>5. CASE Reconnect(p)
  BY <1>1, <1>3, <1>5 DEF Reconnect, NobodyPlays
<1> QED
  BY <1>4, <1>5 DEF Connects

LEMMA LobbyPlays ==
  ASSUME TypeInv, LobbyPhones, NEW p \in Phones, Plays(p)
  PROVE  LobbyPhones'
<1> USE DEF LobbyPhones
<1>1. ASSUME NEW m \in LobbyMessage, Send(p, m)
      PROVE  toServer' \in [Conn -> Seq(LobbyMessage)]
  <2>1. CASE Online(p) /\ link[Sock(p)] = "up"
    <3>1. Sock(p) \in Conn
      BY <2>1, SockType DEF Online
    <3> QED
      BY <1>1, <2>1, <3>1, AppendKeeps DEF Send, LobbyWire
  <2> QED
    BY <1>1, <2>1 DEF Send, LobbyWire
<1>2. Say("READY", None) \in LobbyMessage /\ Say("START", None) \in LobbyMessage
  BY SayType DEF LobbyMessage, Say
<1>3. \A n \in RoomNames : Say("ROOM-NAME", n) \in LobbyMessage
  BY SayType DEF LobbyMessage, Say
<1>4. CASE ToggleReady(p)
  BY <1>1, <1>2, <1>4 DEF ToggleReady, LobbyWire, NobodyPlays
<1>5. CASE StartGame(p)
  BY <1>1, <1>2, <1>5 DEF StartGame, LobbyWire, NobodyPlays
<1>6. ASSUME NEW n \in RoomNames, SendRoomName(p, n) PROVE LobbyPhones'
  BY <1>1, <1>3, <1>6 DEF SendRoomName, LobbyWire, NobodyPlays
<1>7. \A v \in Values : ~SetFound(p, v)
  BY DEF SetFound, NobodyPlays
<1> QED
  BY <1>4, <1>5, <1>6, <1>7 DEF Plays, Player

LEMMA LobbyFails ==
  ASSUME TypeInv, LobbyPhones, NEW p \in Phones, Fails(p)
  PROVE  LobbyPhones'
<1> USE DEF LobbyPhones
<1>1. CASE LinkReset(p)
  <2>1. Sock(p) \in Conn
    BY <1>1, SockType DEF LinkReset, Online
  <2>2. PICK s \in Prefixes(toServer[Sock(p)]) : toServer' = [toServer EXCEPT ![Sock(p)] = s]
    BY <1>1 DEF LinkReset
  <2>3. PICK r \in Prefixes(toClient[Sock(p)]) : toClient' = [toClient EXCEPT ![Sock(p)] = r]
    BY <1>1 DEF LinkReset
  <2>4. toServer' \in [Conn -> Seq(LobbyMessage)]
    BY <2>1, <2>2, LossKeeps DEF LobbyWire
  <2>5. toClient' \in [Conn -> Seq(LobbyInstruction)]
    BY <2>1, <2>3, LossKeeps DEF LobbyWire
  <2>6. NobodyPlays'
    BY <1>1 DEF LinkReset, NobodyPlays
  <2> QED
    BY <2>4, <2>5, <2>6 DEF LobbyWire
<1>2. CASE PhoneKilled(p)
  <2>1. toClient' \in [Conn -> Seq(LobbyInstruction)]
    BY <1>2, LobbyEmpty DEF PhoneKilled
  <2>2. NobodyPlays'
    BY <1>2 DEF PhoneKilled, NobodyPlays, TypeInv, TypeOK, PhoneTypeOK
  <2> QED
    BY <1>2, <2>1, <2>2 DEF PhoneKilled, LobbyWire
<1> QED
  BY <1>1, <1>2 DEF Fails, Failure

-----------------------------------------------------------------------------
LEMMA LobbyInit == Init => LobbyInv
<1> SUFFICES ASSUME Init PROVE LobbyInv
  OBVIOUS
<1>1. LobbyWire
  BY DEF Init, WireInit, LobbyWire
<1>2. NoScore
  BY DEF Init, ServerInit, NoScore, NewPlayer
<1>3. NoStart
  BY TaskKind DEF Init, ServerInit, NoStart
<1>4. NobodyPlays
  BY DEF Init, PhoneInit, NobodyPlays
<1> QED
  BY <1>1, <1>2, <1>3, <1>4 DEF LobbyInv

(* The game never goes back to the lobby. *)
LEMMA LobbyLeft ==
  ASSUME [Next]_vars, gameState' = "LOBBY"
  PROVE  gameState = "LOBBY"
<1>1. ASSUME NEW h \in Conn, HandlerThread(h) PROVE gameState = "LOBBY"
  BY <1>1 DEF HandlerThread, Ignore, ReadFails, LeaveLoop, Disconnected, HandlerEnds,
     ReceiveConnect, AddPlayer, Greet, ReceiveReconnect, LookUpPlayer, DropHandler,
     AdoptPlayer, WelcomeBack, ReceiveReady, ReceiveStart, Begin, ReceiveRoomName,
     ReceiveFound, DeathMatchFind, MainGameFind, OpenDeathMatch, GameEnds, room
<1>2. ASSUME NEW t \in Thread, Broadcast(t) PROVE gameState = "LOBBY"
  BY <1>2 DEF Broadcast, Open, IteratorFails, SendNext, SendFails, JoinReturns, Done,
     room
<1>3. CASE AcceptThread
  BY <1>3 DEF AcceptThread, Accept, StopAccepting, CloseClient, ClientClosed,
     AcceptorEnds, ClearPlayers, room
<1>4. CASE UNCHANGED room
  BY <1>4 DEF room
<1> QED
  BY <1>1, <1>2, <1>3, <1>4 DEF Next, ServerStep, ThreadStep, HostStops, StopListening,
     Connects, Hears, Plays, Fails, serverVars, vars

LEMMA LobbyNext ==
  ASSUME TypeInv, LobbyInv, [Next]_vars
  PROVE  LobbyInv'
<1> SUFFICES ASSUME gameState' = "LOBBY"
             PROVE  (LobbyWire /\ NoScore /\ NoStart /\ NobodyPlays)'
  BY DEF LobbyInv
<1>1. gameState = "LOBBY" /\ LobbyServer /\ LobbyPhones /\ TypeOK
  BY LobbyLeft DEF LobbyInv, LobbyServer, LobbyPhones, TypeInv
<1>2. ASSUME NEW t \in Thread, ServerStep(t)
      PROVE  (LobbyWire /\ NoScore /\ NoStart /\ NobodyPlays)'
  <2>1. LobbyServer'
    BY <1>1, <1>2, LobbyHandler, LobbyAccept, LobbyBroadcast DEF ServerStep, ThreadStep
  <2>2. NobodyPlays'
    BY <1>1, <1>2 DEF ServerStep, phoneVars, LobbyPhones, NobodyPlays
  <2> QED
    BY <2>1, <2>2 DEF LobbyServer
<1>3. ASSUME NEW p \in Phones, Connects(p) \/ Hears(p) \/ Plays(p) \/ Fails(p)
      PROVE  (LobbyWire /\ NoScore /\ NoStart /\ NobodyPlays)'
  <2>1. LobbyPhones'
    BY <1>1, <1>3, LobbyConnects, LobbyHears, LobbyPlays, LobbyFails
  <2>2. (NoScore /\ NoStart)'
    BY <1>1, <1>3 DEF Connects, Hears, Plays, Fails, serverVars, room, threads,
       LobbyServer, NoScore, NoStart
  <2> QED
    BY <2>1, <2>2 DEF LobbyPhones
<1>4. CASE HostStops
  BY <1>1, <1>4 DEF HostStops, StopListening, phoneVars, wire, room, LobbyServer,
     LobbyPhones, LobbyWire, NoScore, NoStart, NobodyPlays
<1>5. CASE UNCHANGED vars
  BY <1>1, <1>5 DEF vars, serverVars, phoneVars, wire, room, threads, LobbyServer,
     LobbyPhones, LobbyWire, NoScore, NoStart, NobodyPlays
<1> QED
  BY <1>2, <1>3, <1>4, <1>5 DEF Next

(* Nobody scores in the lobby, although the server credits an ANAM-FOUND in *)
(* every state (Server.java:235-238): whatever connections break and       *)
(* whatever is still on the way, no ANAM-FOUND reaches it there.           *)
THEOREM LobbyStaysZero == Spec => []LobbyScoresZero
<1>1. Init => TypeInv /\ LobbyInv
  BY InitType, LobbyInit
<1>2. TypeInv /\ LobbyInv /\ [Next]_vars => TypeInv' /\ LobbyInv'
  BY NextType, LobbyNext
<1>3. LobbyInv => LobbyScoresZero
  BY DEF LobbyInv, LobbyScoresZero, NoScore
<1> QED
  BY <1>1, <1>2, <1>3, PTL DEF Spec

-----------------------------------------------------------------------------
(* No phone plays as another.  An id travels only between a phone and the  *)
(* handlers of that phone's own connections: in RECONNECT and ID messages, *)
(* in the map, and in the hands of a handler that moves a player to its    *)
(* connection.                                                             *)

OwnMessage ==
  [c \in Conn |-> {m \in ClientMessage :
     m.kind = "RECONNECT" /\ m.arg # None => Owner(m.arg) = Owner(c)}]

OwnInstruction ==
  [c \in Conn |-> {m \in Instruction : m.kind = "ID" => Owner(m.arg) = Owner(c)}]

IdWire ==
  \A c \in Conn : /\ toServer[c] \in Seq(OwnMessage[c])
                  /\ toClient[c] \in Seq(OwnInstruction[c])

IdMap == \A h \in Conn : Joined(h) => Owner(players[h]) = Owner(h)

IdPhones == \A p \in Phones : myId[p] # None => Owner(myId[p]) = p

(* Where a handler is while it moves a player.                             *)
Moving == {"lookup", "drop", "adopt", "welcome"}

IdThread(h) ==
  /\ task[h].msg.kind = "ID" =>
       pc[h] \in Moving /\ Owner(task[h].msg.arg) = Owner(h)
  /\ pc[h] = "lookup" => who[h] \in Conn /\ Owner(who[h]) = Owner(h)
  /\ pc[h] \in {"drop", "adopt"} /\ ref[h] \in Conn => Owner(ref[h]) = Owner(h)

(* The accept thread never sends an id, and a connection it has not        *)
(* accepted yet has no thread.                                             *)
IdThreads ==
  /\ \A h \in Conn : IdThread(h)
  /\ task[Acceptor].msg.kind # "ID"
  /\ \A c \in Conn : c \notin Accepted => pc[c] = "off"

IdServer == IdWire /\ IdMap /\ IdThreads

IdInv == IdServer /\ IdPhones

LEMMA IdRead ==
  ASSUME IdWire, TypeOK, NEW c \in Conn
  PROVE  /\ toServer[c] # <<>> => /\ Head(toServer[c]) \in OwnMessage[c]
                                  /\ Tail(toServer[c]) \in Seq(OwnMessage[c])
         /\ toClient[c] # <<>> => /\ Head(toClient[c]) \in OwnInstruction[c]
                                  /\ Tail(toClient[c]) \in Seq(OwnInstruction[c])
<1>1. toServer[c] \in Seq(OwnMessage[c]) /\ toClient[c] \in Seq(OwnInstruction[c])
  BY DEF IdWire
<1> QED
  BY <1>1, HeadTailProperties

(* A step that changes the messages of one connection.                     *)
LEMMA IdWireStep ==
  ASSUME IdWire, TypeOK, NEW c \in Conn,
         toServer'[c] \in Seq(OwnMessage[c]),
         toClient'[c] \in Seq(OwnInstruction[c]),
         \A d \in Conn \ {c} : toServer'[d] = toServer[d] /\ toClient'[d] = toClient[d]
  PROVE  IdWire'
BY DEF IdWire, OwnMessage, OwnInstruction

LEMMA IdTake ==
  ASSUME IdWire, TypeOK, NEW h \in Conn, NEW kind, Take(h, kind), UNCHANGED toClient
  PROVE  IdWire'
<1>1. Tail(toServer[h]) \in Seq(OwnMessage[h])
  BY IdRead DEF Take
<1>2. toServer'[h] = Tail(toServer[h]) /\ \A d \in Conn \ {h} : toServer'[d] = toServer[d]
  BY DEF Take, TypeOK, WireTypeOK
<1>3. toClient'[h] \in Seq(OwnInstruction[h])
  BY DEF IdWire
<1> QED
  BY <1>1, <1>2, <1>3, IdWireStep

LEMMA IdWrite ==
  ASSUME IdWire, TypeOK, NEW c \in Conn, NEW msgs \in Seq(OwnInstruction[c]),
         Write(c, msgs)
  PROVE  /\ toClient'[c] \in Seq(OwnInstruction[c])
         /\ \A d \in Conn \ {c} : toClient'[d] = toClient[d]
<1>1. toClient[c] \o msgs \in Seq(OwnInstruction[c])
  BY ConcatProperties DEF IdWire
<1> QED
  BY <1>1 DEF Write, TypeOK, WireTypeOK

LEMMA IdReply ==
  ASSUME IdWire, TypeOK, NEW h \in Conn, NEW msgs \in Seq(OwnInstruction[h]), NEW l,
         Reply(h, msgs, l)
  PROVE  /\ toClient'[h] \in Seq(OwnInstruction[h])
         /\ \A d \in Conn \ {h} : toClient'[d] = toClient[d]
<1>1. toClient[h] \in Seq(OwnInstruction[h])
  BY DEF IdWire
<1> QED
  BY <1>1, IdWrite DEF Reply

(* A RECONNECT or any other message read, and the answer written.          *)
LEMMA IdAnswer ==
  ASSUME IdWire, TypeOK, NEW h \in Conn, NEW kind, Take(h, kind),
         NEW msgs \in Seq(OwnInstruction[h]), NEW l, Reply(h, msgs, l)
  PROVE  IdWire'
<1>1. Tail(toServer[h]) \in Seq(OwnMessage[h])
  BY IdRead DEF Take
<1>2. toServer'[h] = Tail(toServer[h]) /\ \A d \in Conn \ {h} : toServer'[d] = toServer[d]
  BY DEF Take, TypeOK, WireTypeOK
<1> QED
  BY <1>1, <1>2, IdReply, IdWireStep

LEMMA Single == ASSUME NEW S, NEW x \in S PROVE <<x>> \in Seq(S)
OBVIOUS

LEMMA IdTell ==
  ASSUME NEW c \in Conn, NEW kind \in InstructionKind \ {"ID"},
         NEW arg \in Conn \cup RoomNames \cup {None}
  PROVE  <<Tell(kind, arg)>> \in Seq(OwnInstruction[c])
<1>1. Tell(kind, arg) \in OwnInstruction[c]
  BY TellType DEF OwnInstruction, Tell
<1> QED
  BY <1>1, Single

(* A step of one thread.                                                   *)
LEMMA IdThreadStep ==
  ASSUME IdThreads, TypeOK, NEW t \in Thread, pc[t] # "off" \/ t = Acceptor,
         clients' = clients,
         t \in Conn => IdThread(t)',
         t = Acceptor => task'[t].msg.kind # "ID",
         \A u \in Thread \ {t} : /\ pc'[u] = pc[u] /\ task'[u] = task[u]
                                 /\ who'[u] = who[u] /\ ref'[u] = ref[u]
  PROVE  IdThreads'
<1>1. \A h \in Conn \ {t} : IdThread(h)'
  BY DEF IdThreads, IdThread, Thread
<1>2. task'[Acceptor].msg.kind # "ID"
  BY DEF IdThreads, Thread
<1>3. ASSUME NEW c \in Conn, c \notin Accepted' PROVE pc'[c] = "off"
  <2>1. c \notin Accepted
    BY <1>3 DEF Accepted
  <2>2. pc[c] = "off" /\ c \in Thread /\ c # Acceptor
    BY <2>1, ServerAssumption DEF IdThreads, Thread
  <2> QED
    BY <2>2
<1> QED
  BY <1>1, <1>2, <1>3 DEF IdThreads

(* A thread that is not moving a player, and sends no id.                  *)
LEMMA IdElsewhere ==
  ASSUME IdThreads, TypeOK, NEW t \in Thread, NEW l, l \notin Moving,
         pc[t] # "off" \/ t = Acceptor, clients' = clients,
         pc' = [pc EXCEPT ![t] = l],
         task'[t].msg.kind # "ID",
         \A u \in Thread \ {t} : task'[u] = task[u] /\ who'[u] = who[u] /\ ref'[u] = ref[u]
  PROVE  IdThreads'
<1>1. pc'[t] = l /\ \A u \in Thread \ {t} : pc'[u] = pc[u]
  BY DEF TypeOK, ServerTypeOK
<1>2. IdThread(t)'
  BY <1>1 DEF IdThread, Moving
<1> QED
  BY <1>1, <1>2, IdThreadStep

LEMMA IdGiven ==
  ASSUME IdThreads, TypeOK, NEW h \in Conn, NEW l, l \notin Moving, pc[h] # "off",
         pc' = [pc EXCEPT ![h] = l],
         NEW x, x.msg.kind # "ID", task' = [task EXCEPT ![h] = x],
         UNCHANGED <<clients, who>>,
         ref' = ref \/ \E r : ref' = [ref EXCEPT ![h] = r]
  PROVE  IdThreads'
<1>1. h \in Thread
  BY DEF Thread
<1>2. task'[h].msg.kind # "ID" /\ \A u \in Thread \ {h} : task'[u] = task[u]
  BY <1>1 DEF TypeOK, ServerTypeOK
<1>3. \A u \in Thread \ {h} : ref'[u] = ref[u]
  BY <1>1 DEF TypeOK, ServerTypeOK
<1> QED
  BY <1>1, <1>2, <1>3, IdElsewhere

(* A thread outside Moving holds no id to send. *)
LEMMA IdNone ==
  ASSUME IdThreads, NEW t \in Thread, pc[t] \notin Moving
  PROVE  task[t].msg.kind # "ID"
BY DEF IdThreads, IdThread, Thread

(* A thread that answers its phone.                                        *)
LEMMA IdReplies ==
  ASSUME IdThreads, TypeOK, NEW h \in Conn, NEW msgs, NEW l, l \notin Moving,
         pc[h] # "off", Reply(h, msgs, l), UNCHANGED <<clients, ref>>,
         task'[h].msg.kind # "ID", \A u \in Thread \ {h} : task'[u] = task[u]
  PROVE  IdThreads'
<1>1. h \in Thread
  BY DEF Thread
<1>2. \A u \in Thread \ {h} : who'[u] = who[u]
  BY <1>1 DEF Reply, TypeOK, ServerTypeOK
<1>3. CASE pc' = [pc EXCEPT ![h] = l]
  BY <1>1, <1>2, <1>3, IdElsewhere
<1>4. CASE pc' = [pc EXCEPT ![h] = "join"]
  BY <1>1, <1>2, <1>4, IdElsewhere DEF Moving
<1> QED
  BY <1>3, <1>4 DEF Reply, Goto

LEMMA BackMoves == \A h : Back(h) \notin Moving
BY DEF Back, Moving

LEMMA IdThrow ==
  ASSUME IdThreads, TypeOK, NEW t \in Thread, pc[t] # "off" \/ t = Acceptor, Throw(t),
         UNCHANGED <<clients, who>>, \A u \in Thread \ {t} : ref'[u] = ref[u]
  PROVE  IdThreads'
<1>1. NoTask.msg.kind # "ID"
  BY TaskKind
<1>2. task'[t].msg.kind # "ID" /\ \A u \in Thread \ {t} : task'[u] = task[u]
  BY <1>1 DEF Throw, TypeOK, ServerTypeOK
<1>3. pc' = [pc EXCEPT ![t] = "dead"] \/ pc' = [pc EXCEPT ![t] = "final"]
  BY DEF Throw, Goto
<1>4. "dead" \notin Moving /\ "final" \notin Moving
  BY DEF Moving
<1> QED
  BY <1>2, <1>3, <1>4, IdElsewhere

LEMMA IdAccept ==
  ASSUME TypeOK, IdServer, AcceptThread
  PROVE  IdServer'
<1> USE DEF IdServer, wire, room
<1>a. Acceptor \in Thread /\ Acceptor \notin Conn
  BY ServerAssumption DEF Thread
<1>b. /\ Task(Tell("SERVER-STOPPED", None), "clear").msg.kind # "ID"
      /\ NoTask.msg.kind # "ID" /\ [NoTask EXCEPT !.next = 1].msg.kind # "ID"
  BY TaskKind
<1>c. \A l \in {"open", "close", "closing", "dead"} : l \notin Moving
  BY DEF Moving
<1>d. \A x \in SendTask : [x EXCEPT !.next = @ + 1].msg = x.msg
  BY DEF SendTask
<1>1. ASSUME NEW c \in Conn, Accept(c) PROVE IdServer'
  <2>1. IdMap' /\ IdWire'
    BY <1>1 DEF Accept, IdMap, Joined, IdWire
  <2>2. pc[c] = "off" /\ c \in Thread
    BY <1>1 DEF Accept, IdThreads, Thread
  <2>3. task[c].msg.kind # "ID"
    BY <2>2, IdNone DEF Moving
  <2>4. /\ pc'[c] = "read"
        /\ \A u \in Conn \ {c} : pc'[u] = pc[u]
        /\ \A u \in Conn : task'[u] = task[u]
        /\ task'[Acceptor].msg.kind # "ID"
    <3>1. \A u \in Conn : u \in Thread /\ u # Acceptor
      BY <1>a DEF Thread
    <3>2. /\ pc \in [Thread -> Location] /\ task \in [Thread -> SendTask]
          /\ task[Acceptor].msg.kind # "ID"
      BY DEF TypeOK, ServerTypeOK, IdThreads
    <3>3. pc'[c] = "read" /\ \A u \in Conn \ {c} : pc'[u] = pc[u]
      BY <1>1, <2>2, <3>1, <3>2 DEF Accept
    <3>4. CASE listening
      BY <1>1, <3>2, <3>3, <3>4 DEF Accept
    <3>5. CASE ~listening
      BY <1>1, <1>a, <1>b, <3>1, <3>2, <3>3, <3>5 DEF Accept
    <3> QED
      BY <3>4, <3>5
  <2>5. \A h \in Conn : IdThread(h)'
    <3>1. who' = who /\ ref' = ref
      BY <1>1 DEF Accept
    <3>2. IdThread(c)'
      BY <2>3, <2>4 DEF IdThread
    <3>3. \A h \in Conn \ {c} : IdThread(h)'
      BY <2>4, <3>1 DEF IdThreads, IdThread
    <3> QED
      BY <3>2, <3>3
  <2>6. ASSUME NEW d \in Conn, d \notin Accepted' PROVE pc'[d] = "off"
    <3>1. clients' = Append(clients, c) /\ clients \in Seq(Conn)
      BY <1>1 DEF Accept, TypeOK, ServerTypeOK
    <3>2. Accepted \cup {c} \subseteq Accepted'
      BY <3>1, AppendProperties DEF Accepted
    <3> QED
      BY <2>4, <2>6, <3>2 DEF IdThreads
  <2> QED
    BY <2>1, <2>4, <2>5, <2>6 DEF IdThreads
<1>2. CASE StopAccepting
  <2>1. /\ task'[Acceptor].msg.kind # "ID"
        /\ \A u \in Thread \ {Acceptor} : task'[u] = task[u]
    BY <1>2, <1>a, <1>b DEF StopAccepting, TypeOK, ServerTypeOK
  <2>2. IdThreads'
    BY <1>2, <1>a, <1>c, <2>1, IdElsewhere DEF StopAccepting, Goto
  <2> QED
    BY <1>2, <2>2 DEF StopAccepting, IdMap, Joined, IdWire
<1>3. CASE CloseClient
  <2>1. IdThreads'
    BY <1>3, <1>a, <1>c, IdElsewhere DEF CloseClient, Goto, IdThreads
  <2> QED
    BY <1>3, <2>1 DEF CloseClient, IdMap, Joined, IdWire
<1>4. CASE ClientClosed
  <2>1. /\ task'[Acceptor].msg.kind # "ID"
        /\ \A u \in Thread \ {Acceptor} : task'[u] = task[u]
    BY <1>4, <1>a, <1>d DEF ClientClosed, TypeOK, ServerTypeOK, IdThreads
  <2>2. IdThreads'
    BY <1>4, <1>a, <1>c, <2>1, IdElsewhere DEF ClientClosed, Goto
  <2> QED
    BY <1>4, <2>2 DEF ClientClosed, IdMap, Joined, IdWire
<1>5. CASE AcceptorEnds
  <2>1. /\ task'[Acceptor].msg.kind # "ID"
        /\ \A u \in Thread \ {Acceptor} : task'[u] = task[u]
    BY <1>5, <1>a, <1>b DEF AcceptorEnds, TypeOK, ServerTypeOK
  <2>2. IdThreads'
    BY <1>5, <1>a, <1>c, <2>1, IdElsewhere DEF AcceptorEnds, Goto
  <2> QED
    BY <1>5, <2>2 DEF AcceptorEnds, IdMap, Joined, IdWire
<1>6. CASE ClearPlayers
  <2>1. /\ task'[Acceptor].msg.kind # "ID"
        /\ \A u \in Thread \ {Acceptor} : task'[u] = task[u]
    BY <1>6, <1>a, <1>b DEF ClearPlayers, TypeOK, ServerTypeOK
  <2>2. IdThreads'
    BY <1>6, <1>a, <1>c, <2>1, IdElsewhere DEF ClearPlayers, Goto
  <2>3. IdMap'
    BY <1>6, ProtocolAssumption DEF ClearPlayers, IdMap, Joined
  <2> QED
    BY <1>6, <2>2, <2>3 DEF ClearPlayers, IdWire
<1> QED
  BY <1>1, <1>2, <1>3, <1>4, <1>5, <1>6 DEF AcceptThread

LEMMA IdBroadcast ==
  ASSUME TypeOK, IdServer, NEW t \in Thread, Broadcast(t)
  PROVE  IdServer'
<1> USE DEF IdServer, wire, room
<1>a. \A l \in {"open", "send", "join"} : l \notin Moving /\ l # "off"
  BY DEF Moving
<1>b. pc[t] \in {"open", "send", "join"}
  BY DEF Broadcast, Open, IteratorFails, SendNext, SendFails, JoinReturns, Done, Sending,
     AllSent
<1>c. task[t].msg.kind # "ID"
  BY <1>a, <1>b, IdNone
<1>d. \A x \in SendTask : [x EXCEPT !.next = @ + 1].msg = x.msg
  BY DEF SendTask
<1>1. CASE Open(t)
  <2>1. CASE Throw(t)
    BY <1>1, <1>a, <1>b, <2>1, IdThrow DEF Open, IdMap, Joined, IdWire
  <2>2. CASE /\ task' = [task EXCEPT ![t].msg = Filled(@), ![t].next = 1,
                                     ![t].len = Len(clients)]
             /\ Goto(t, "send")
    <3>1. Filled(task[t].msg).kind = task[t].msg.kind
      BY FilledKind DEF TypeOK, ServerTypeOK, SendTask
    <3>2. \A x \in SendTask : \A m, n :
            [x EXCEPT !.msg = m, !.next = 1, !.len = n].msg = m
      BY DEF SendTask
    <3>3. task'[t].msg = Filled(task[t].msg)
      BY <2>2, <3>2 DEF TypeOK, ServerTypeOK
    <3>4. \A u \in Thread \ {t} : task'[u] = task[u]
      BY <2>2 DEF TypeOK, ServerTypeOK
    <3>5. task'[t].msg.kind # "ID"
      BY <1>c, <3>1, <3>3
    <3>6. IdThreads'
      BY <1>1, <1>a, <1>b, <2>2, <3>4, <3>5, IdElsewhere DEF Open, Goto
    <3> QED
      BY <1>1, <3>6 DEF Open, IdMap, Joined, IdWire
  <2> QED
    BY <1>1, <2>1, <2>2 DEF Open
<1>2. CASE IteratorFails(t)
  BY <1>2, <1>a, <1>b, IdThrow DEF IteratorFails, IdMap, Joined, IdWire
<1>3. CASE SendNext(t)
  <2> DEFINE c == clients[task[t].next]
  <2>1. c \in Conn
    BY <1>3 DEF SendNext, Sending, TypeOK, ServerTypeOK
  <2>2. <<task[t].msg>> \in Seq(OwnInstruction[c])
    <3>1. task[t].msg \in OwnInstruction[c]
      BY <1>c, <2>1 DEF OwnInstruction, TypeOK, ServerTypeOK, SendTask
    <3> QED
      BY <3>1, Single
  <2>3. Write(c, <<task[t].msg>>) /\ toServer' = toServer
    BY <1>3 DEF SendNext
  <2> HIDE DEF c
  <2>4. toServer[c] \in Seq(OwnMessage[c])
    BY <2>1 DEF IdWire
  <2>5. IdWire'
    BY <2>1, <2>2, <2>3, <2>4, IdWrite, IdWireStep
  <2>6. task'[t].msg.kind # "ID" /\ \A u \in Thread \ {t} : task'[u] = task[u]
    BY <1>3, <1>c, <1>d DEF SendNext, TypeOK, ServerTypeOK
  <2>7. IdThreads'
    <3>1. t \in Conn => IdThread(t)'
      BY <1>3, <1>a, <1>b, <2>6 DEF SendNext, IdThread, Moving
    <3> QED
      BY <1>3, <1>a, <1>b, <2>6, <3>1, IdThreadStep DEF SendNext
  <2> QED
    BY <1>3, <2>5, <2>7 DEF SendNext, IdMap, Joined
<1>4. CASE SendFails(t)
  <2>1. \A u \in Thread \ {t} : who'[u] = who[u]
    BY <1>4 DEF SendFails, TypeOK, ServerTypeOK
  <2>2. IdThreads'
    BY <1>4, <1>a, <1>b, <1>c, <2>1, IdElsewhere DEF SendFails, Goto
  <2> QED
    BY <1>4, <2>2 DEF SendFails, IdMap, Joined, IdWire
<1>5. CASE JoinReturns(t)
  <2>1. /\ task'[t].msg.kind # "ID"
        /\ \A u \in Thread \ {t} : who'[u] = who[u] /\ task'[u] = task[u]
    BY <1>5, <1>c, <1>d DEF JoinReturns, TypeOK, ServerTypeOK
  <2>2. IdThreads'
    BY <1>5, <1>a, <1>b, <2>1, IdElsewhere DEF JoinReturns, Goto
  <2> QED
    BY <1>5, <2>2 DEF JoinReturns, IdMap, Joined, IdWire
<1>6. CASE Done(t)
  <2>1. NoTask.msg.kind # "ID"
    BY TaskKind
  <2>2. task'[t].msg.kind # "ID" /\ \A u \in Thread \ {t} : task'[u] = task[u]
    BY <1>6, <2>1 DEF Done, TypeOK, ServerTypeOK
  <2>3. IdThreads'
    BY <1>6, <1>a, <1>b, <2>2, BackMoves, IdElsewhere DEF Done, Goto
  <2> QED
    BY <1>6, <2>3 DEF Done, IdMap, Joined, IdWire
<1> QED
  BY <1>1, <1>2, <1>3, <1>4, <1>5, <1>6 DEF Broadcast

(* CONNECT, and what RECONNECT does until the player is welcomed back.     *)
LEMMA IdConnecting ==
  ASSUME TypeOK, IdServer, NEW h \in Conn,
         \/ ReceiveConnect(h) \/ AddPlayer(h) \/ Greet(h)
         \/ ReceiveReconnect(h) \/ LookUpPlayer(h) \/ DropHandler(h)
         \/ AdoptPlayer(h) \/ WelcomeBack(h)
  PROVE  IdServer'
<1> USE DEF IdServer, wire, room
<1>a. h \in Thread
  BY DEF Thread
<1>b. \A l \in {"read", "put", "hello", "open", "join", "final"} : l \notin Moving /\ l # "off"
  BY DEF Moving
<1>c. NoTask.msg.kind # "ID" /\ PlayerList.msg.kind # "ID"
  BY TaskKind
<1>d. <<Tell("GAME-STARTED", None)>> \in Seq(OwnInstruction[h])
  BY IdTell DEF InstructionKind
<1>e. IdThread(h)
  BY DEF IdThreads
<1>f. \A m : [task EXCEPT ![h] = m][h] = m
             /\ \A u \in Thread \ {h} : [task EXCEPT ![h] = m][u] = task[u]
  BY <1>a DEF TypeOK, ServerTypeOK
<1>g. \A l : [pc EXCEPT ![h] = l][h] = l
             /\ \A u \in Thread \ {h} : [pc EXCEPT ![h] = l][u] = pc[u]
  BY <1>a DEF TypeOK, ServerTypeOK
<1>h. \A x : [who EXCEPT ![h] = x][h] = x
             /\ \A u \in Thread \ {h} : [who EXCEPT ![h] = x][u] = who[u]
  BY <1>a DEF TypeOK, ServerTypeOK
<1>i. \A x : [ref EXCEPT ![h] = x][h] = x
             /\ \A u \in Thread \ {h} : [ref EXCEPT ![h] = x][u] = ref[u]
  BY <1>a DEF TypeOK, ServerTypeOK
<1>1. CASE ReceiveConnect(h)
  <2>1. pc[h] = "read" /\ task[h].msg.kind # "ID"
    BY <1>1, <1>a, <1>b, IdNone DEF ReceiveConnect, Take
  <2>2. CASE Goto(h, "put") /\ UNCHANGED <<link, toClient, running, who>>
    <3>1. IdWire'
      BY <1>1, <2>2, IdTake DEF ReceiveConnect
    <3>2. IdThreads'
      BY <1>1, <1>a, <1>b, <2>1, <2>2, IdElsewhere DEF ReceiveConnect, Goto
    <3> QED
      BY <1>1, <3>1, <3>2 DEF ReceiveConnect, IdMap, Joined
  <2>3. CASE Reply(h, <<Tell("GAME-STARTED", None)>>, Back(h))
    <3>1. IdWire'
      BY <1>1, <1>d, <2>3, IdAnswer DEF ReceiveConnect
    <3>3. IdThreads'
      BY <1>1, <1>b, <2>1, <2>3, BackMoves, IdReplies DEF ReceiveConnect
    <3> QED
      BY <1>1, <3>1, <3>3 DEF ReceiveConnect, IdMap, Joined
  <2> QED
    BY <1>1, <2>2, <2>3 DEF ReceiveConnect
<1>2. CASE AddPlayer(h)
  <2>1. pc[h] = "put" /\ task[h].msg.kind # "ID"
    BY <1>2, <1>a, <1>b, IdNone DEF AddPlayer
  <2>2. IdThreads'
    BY <1>2, <1>a, <1>b, <2>1, IdElsewhere DEF AddPlayer, Goto
  <2>3. IdMap'
    BY <1>2 DEF AddPlayer, IdMap, Joined, TypeOK, ServerTypeOK
  <2> QED
    BY <1>2, <2>2, <2>3 DEF AddPlayer, IdWire
<1>3. CASE Greet(h)
  <2>1. <<Tell("ID", h), Tell("ROOM-NAME", roomName)>> \in Seq(OwnInstruction[h])
    <3>1. Tell("ID", h) \in OwnInstruction[h]
      BY TellIdType DEF OwnInstruction, Tell
    <3>2. Tell("ROOM-NAME", roomName) \in OwnInstruction[h]
      BY TellType DEF OwnInstruction, Tell, InstructionKind, TypeOK, ServerTypeOK
    <3>3. \A S, x, y : x \in S /\ y \in S => <<x, y>> \in Seq(S)
      OBVIOUS
    <3> QED
      BY <3>1, <3>2, <3>3
  <2>2. /\ toClient'[h] \in Seq(OwnInstruction[h])
        /\ \A d \in Conn \ {h} : toClient'[d] = toClient[d]
    BY <1>3, <2>1, IdReply DEF Greet
  <2>3. IdWire'
    BY <1>3, <2>2, IdWireStep DEF Greet, IdWire
  <2>4. IdThreads'
    BY <1>3, <1>b, <1>c, <1>f, IdReplies DEF Greet
  <2> QED
    BY <1>3, <2>3, <2>4 DEF Greet, IdMap, Joined
<1>4. CASE ReceiveReconnect(h)
  <2>1. pc[h] = "read" /\ task[h].msg.kind # "ID"
    BY <1>4, <1>a, <1>b, IdNone DEF ReceiveReconnect, Take
  <2>2. Arg(h) \in Conn => Owner(Arg(h)) = Owner(h)
    <3>1. Head(toServer[h]) \in OwnMessage[h] /\ Head(toServer[h]).kind = "RECONNECT"
      BY <1>4, IdRead DEF ReceiveReconnect, Take
    <3> QED
      BY <3>1, ProtocolAssumption DEF OwnMessage, Arg
  <2>3. ASSUME NEW g \in Conn, players[g] = Arg(h), Joined(g),
               who' = [who EXCEPT ![h] = g],
               task' = [task EXCEPT ![h] = Task(Tell("ID", Arg(h)), "loop")],
               Goto(h, "lookup"), UNCHANGED toClient
        PROVE  IdServer'
    <3>1. Owner(g) = Owner(h) /\ Owner(Arg(h)) = Owner(h)
      BY <2>2, <2>3 DEF IdMap, Joined
    <3>2. IdWire'
      BY <1>4, <2>3, IdTake DEF ReceiveReconnect
    <3>3. task'[h].msg = Tell("ID", Arg(h))
      <4>1. task'[h] = Task(Tell("ID", Arg(h)), "loop")
        BY <1>f, <2>3
      <4> QED
        BY <4>1, TaskKind
    <3>4. task'[h].msg.arg = Arg(h)
      BY <3>3, TaskKind
    <3>5. pc'[h] = "lookup" /\ who'[h] = g
      BY <1>g, <1>h, <2>3 DEF Goto
    <3>6. IdThread(h)'
      BY <2>3, <3>1, <3>4, <3>5 DEF IdThread, Moving
    <3>7. \A u \in Thread \ {h} : /\ pc'[u] = pc[u] /\ task'[u] = task[u]
                                  /\ who'[u] = who[u] /\ ref'[u] = ref[u]
      BY <1>4, <1>f, <1>g, <1>h, <2>3 DEF ReceiveReconnect, Goto
    <3>8. h # Acceptor
      BY ServerAssumption
    <3>9. clients' = clients
      BY <1>4 DEF ReceiveReconnect
    <3>10. IdThreads'
      BY <1>a, <2>1, <3>6, <3>7, <3>8, <3>9, IdThreadStep
    <3> QED
      BY <1>4, <3>2, <3>10 DEF ReceiveReconnect, IdMap, Joined
  <2>4. CASE Throw(h) /\ UNCHANGED <<link, toClient, running, who>>
    <3>1. IdWire'
      BY <1>4, <2>4, IdTake DEF ReceiveReconnect
    <3>2. IdThreads'
      BY <1>4, <1>a, <1>b, <2>1, <2>4, IdThrow DEF ReceiveReconnect
    <3> QED
      BY <1>4, <3>1, <3>2 DEF ReceiveReconnect, IdMap, Joined
  <2>5. CASE Reply(h, <<Tell("GAME-STARTED", None)>>, Back(h)) /\ UNCHANGED task
    <3>1. IdWire'
      BY <1>4, <1>d, <2>5, IdAnswer DEF ReceiveReconnect
    <3>3. IdThreads'
      BY <1>4, <1>b, <2>1, <2>5, BackMoves, IdReplies DEF ReceiveReconnect
    <3> QED
      BY <1>4, <3>1, <3>3 DEF ReceiveReconnect, IdMap, Joined
  <2> QED
    BY <1>4, <2>3, <2>4, <2>5 DEF ReceiveReconnect
<1>5. CASE LookUpPlayer(h)
  <2>1. pc[h] = "lookup" /\ who[h] \in Conn /\ Owner(who[h]) = Owner(h)
    BY <1>5, <1>e DEF LookUpPlayer, IdThread
  <2>2. ref'[h] \in Conn => Owner(ref'[h]) = Owner(h)
    BY <1>5, <1>i, <2>1, ProtocolAssumption DEF LookUpPlayer, IdMap, Joined
  <2>3. pc'[h] = "drop" /\ task' = task
    BY <1>5, <1>g DEF LookUpPlayer, Goto
  <2>4. IdThread(h)'
    BY <1>e, <2>1, <2>2, <2>3 DEF IdThread, Moving
  <2>5. IdThreads'
    BY <1>5, <1>a, <1>g, <1>i, <2>1, <2>4, ServerAssumption, IdThreadStep
       DEF LookUpPlayer, Goto
  <2> QED
    BY <1>5, <2>5 DEF LookUpPlayer, IdMap, Joined, IdWire
<1>6. CASE DropHandler(h)
  <2>1. pc[h] = "drop" /\ pc'[h] = "adopt" /\ ref' = ref /\ task' = task
    BY <1>6, <1>g DEF DropHandler, Goto
  <2>2. IdThread(h)'
    BY <1>e, <2>1 DEF IdThread, Moving
  <2>3. IdThreads'
    BY <1>6, <1>a, <1>g, <1>h, <2>1, <2>2, ServerAssumption, IdThreadStep
       DEF DropHandler, Goto
  <2>4. IdMap'
    BY <1>6, ProtocolAssumption DEF DropHandler, IdMap, Joined, TypeOK, ServerTypeOK
  <2> QED
    BY <1>6, <2>3, <2>4 DEF DropHandler, IdWire
<1>7. CASE AdoptPlayer(h)
  <2>1. /\ pc[h] = "adopt" /\ pc'[h] = "welcome" /\ task' = task
        /\ ref[h] \in Conn => Owner(ref[h]) = Owner(h)
    BY <1>7, <1>e, <1>g DEF AdoptPlayer, Goto, IdThread
  <2>2. IdThread(h)'
    BY <1>e, <2>1 DEF IdThread, Moving
  <2>3. IdThreads'
    BY <1>7, <1>a, <1>g, <1>i, <2>1, <2>2, ServerAssumption, IdThreadStep
       DEF AdoptPlayer, Goto
  <2>4. IdMap'
    BY <1>7, <2>1 DEF AdoptPlayer, IdMap, Joined, TypeOK, ServerTypeOK
  <2> QED
    BY <1>7, <2>3, <2>4 DEF AdoptPlayer, IdWire
<1>8. CASE WelcomeBack(h)
  <2>1. <<task[h].msg>> \in Seq(OwnInstruction[h])
    <3>1. task[h].msg \in OwnInstruction[h]
      BY <1>a, <1>e DEF IdThread, OwnInstruction, TypeOK, ServerTypeOK, SendTask
    <3> QED
      BY <3>1, Single
  <2>2. /\ toClient'[h] \in Seq(OwnInstruction[h])
        /\ \A d \in Conn \ {h} : toClient'[d] = toClient[d]
    BY <1>8, <2>1, IdReply DEF WelcomeBack
  <2>3. IdWire'
    BY <1>8, <2>2, IdWireStep DEF WelcomeBack, IdWire
  <2>4. IdThreads'
    BY <1>8, <1>b, <1>c, <1>f, BackMoves, IdReplies DEF WelcomeBack
  <2> QED
    BY <1>8, <2>3, <2>4 DEF WelcomeBack, IdMap, Joined
<1> QED
  BY <1>1, <1>2, <1>3, <1>4, <1>5, <1>6, <1>7, <1>8

(* The rest of the handler: no id is read, stored or sent.                 *)
LEMMA IdHandling ==
  ASSUME TypeOK, IdServer, NEW h \in Conn, HandlerThread(h),
         ~ (\/ ReceiveConnect(h) \/ AddPlayer(h) \/ Greet(h)
            \/ ReceiveReconnect(h) \/ LookUpPlayer(h) \/ DropHandler(h)
            \/ AdoptPlayer(h) \/ WelcomeBack(h))
  PROVE  IdServer'
<1> USE DEF IdServer, wire, room
<1>a. h \in Thread
  BY DEF Thread
<1>b. \A l \in {"read", "credited", "maingame", "begin", "tie", "send", "join", "open",
                "final", "dead"} : l \notin Moving /\ l # "off"
  BY DEF Moving
<1>c. /\ NoTask.msg.kind # "ID" /\ PlayerList.msg.kind # "ID"
      /\ [PlayerList EXCEPT !.after = "exit"].msg.kind # "ID"
      /\ \A arg, after : /\ Task(Tell("START", arg), after).msg.kind # "ID"
                         /\ Task(Tell("ROOM-NAME", arg), after).msg.kind # "ID"
      /\ \A o, after : /\ Task(TellPodium("FINISHED", o), after).msg.kind # "ID"
                       /\ Task(TellPodium("DEATHMATCH", o), after).msg.kind # "ID"
  BY TaskKind
<1>f. \A m : [task EXCEPT ![h] = m][h] = m
             /\ \A u \in Thread \ {h} : [task EXCEPT ![h] = m][u] = task[u]
  BY <1>a DEF TypeOK, ServerTypeOK
<1>i. \A x : \A u \in Thread \ {h} : [ref EXCEPT ![h] = x][u] = ref[u]
  BY <1>a DEF TypeOK, ServerTypeOK
<1>n. pc[h] \notin Moving => task[h].msg.kind # "ID"
  BY <1>a, IdNone
<1>1. CASE Ignore(h)
  <2>1. PICK kind : Take(h, kind)
    BY <1>1 DEF Ignore
  <2>2. IdWire'
    BY <1>1, <2>1, IdTake DEF Ignore
  <2>3. IdThreads'
    BY <1>1, <1>a, <1>b, <1>n, <2>1, BackMoves, IdElsewhere DEF Ignore, Goto, Take
  <2> QED
    BY <1>1, <2>2, <2>3 DEF Ignore, IdMap, Joined
<1>2. CASE ReadFails(h) \/ LeaveLoop(h)
  <2>1. IdThreads'
    BY <1>2, <1>a, <1>b, <1>n, IdElsewhere DEF ReadFails, LeaveLoop, Goto
  <2> QED
    BY <1>2, <2>1 DEF ReadFails, LeaveLoop, IdMap, Joined, IdWire
<1>3. CASE Disconnected(h)
  <2>1. CASE /\ task' = [task EXCEPT ![h] = [PlayerList EXCEPT !.after = "exit"]]
             /\ Goto(h, "open")
    BY <1>3, <1>a, <1>b, <1>c, <1>f, <2>1, IdElsewhere
       DEF Disconnected, Goto, IdMap, Joined, IdWire
  <2>2. CASE Ends(h) /\ UNCHANGED task
    BY <1>3, <1>a, <1>b, <1>n, <2>2, IdElsewhere
       DEF Disconnected, Ends, Goto, IdMap, Joined, IdWire
  <2> QED
    BY <1>3, <2>1, <2>2 DEF Disconnected
<1>4. CASE HandlerEnds(h)
  <2>1. IdThreads'
    BY <1>4, <1>b, <1>c, IdGiven DEF HandlerEnds, Ends, Goto, AllSent
  <2> QED
    BY <1>4, <2>1 DEF HandlerEnds, IdMap, Joined, IdWire
<1>5. CASE ReceiveReady(h)
  <2>1. IdWire'
    BY <1>5, IdTake DEF ReceiveReady
  <2>2. IdThreads'
    BY <1>5, <1>b, <1>c, IdGiven DEF ReceiveReady, Goto, Take
  <2> QED
    BY <1>5, <2>1, <2>2 DEF ReceiveReady, IdMap, Joined
<1>6. CASE ReceiveStart(h)
  <2>1. pc[h] = "read" /\ task[h].msg.kind # "ID" /\ players' = players
    BY <1>6, <1>b, <1>n DEF ReceiveStart, Take
  <2>2. CASE Goto(h, "begin") /\ UNCHANGED <<link, toClient, running, who, task>>
    <3>1. IdWire'
      BY <1>6, <2>2, IdTake DEF ReceiveStart
    <3>2. IdThreads'
      BY <1>6, <1>a, <1>b, <2>1, <2>2, IdElsewhere DEF ReceiveStart, Goto
    <3> QED
      BY <2>1, <3>1, <3>2 DEF IdMap, Joined
  <2>3. CASE Throw(h) /\ UNCHANGED <<link, toClient, running, who>>
    <3>1. IdWire'
      BY <1>6, <2>3, IdTake DEF ReceiveStart
    <3>2. IdThreads'
      BY <1>6, <1>a, <1>b, <2>1, <2>3, IdThrow DEF ReceiveStart
    <3> QED
      BY <2>1, <3>1, <3>2 DEF IdMap, Joined
  <2>4. CASE Reply(h, <<Tell("NOTREADY", None)>>, Back(h)) /\ UNCHANGED task
    <3>1. <<Tell("NOTREADY", None)>> \in Seq(OwnInstruction[h])
      BY IdTell DEF InstructionKind
    <3>2. IdWire'
      BY <1>6, <2>4, <3>1, IdAnswer DEF ReceiveStart
    <3>3. IdThreads'
      BY <1>6, <1>b, <2>1, <2>4, BackMoves, IdReplies DEF ReceiveStart
    <3> QED
      BY <2>1, <3>2, <3>3 DEF IdMap, Joined
  <2> QED
    BY <1>6, <2>2, <2>3, <2>4 DEF ReceiveStart
<1>7. CASE Begin(h)
  <2>1. IdThreads'
    <3>1. Task(Tell("START", None), "loop").msg.kind # "ID"
      BY <1>c
    <3> QED
      BY <1>7, <1>b, <3>1, IdGiven DEF Begin, Goto
  <2> QED
    BY <1>7, <2>1 DEF Begin, IdMap, Joined, IdWire
<1>8. CASE ReceiveRoomName(h)
  <2>1. IdWire'
    BY <1>8, IdTake DEF ReceiveRoomName
  <2>2. IdThreads'
    <3>1. Task(Tell("ROOM-NAME", Arg(h)), "loop").msg.kind # "ID"
      BY <1>c
    <3> QED
      BY <1>8, <1>b, <3>1, IdGiven DEF ReceiveRoomName, Goto, Take
  <2> QED
    BY <1>8, <2>1, <2>2 DEF ReceiveRoomName, IdMap, Joined
<1>9. CASE ReceiveFound(h)
  <2>1. IdWire'
    BY <1>9, IdTake DEF ReceiveFound
  <2>2. IdThreads'
    BY <1>9, <1>a, <1>b, <1>i, <1>n, IdElsewhere DEF ReceiveFound, Goto, Take
  <2> QED
    BY <1>9, <2>1, <2>2 DEF ReceiveFound, IdMap, Joined
<1>10. CASE DeathMatchFind(h)
  <2>1. pc[h] = "credited" /\ task[h].msg.kind # "ID" /\ UNCHANGED <<wire, room, clients, who>>
    BY <1>10, <1>b, <1>n DEF DeathMatchFind
  <2>2. ref' = ref \/ ref' = [ref EXCEPT ![h] = None]
    BY <1>10 DEF DeathMatchFind
  <2>3. ASSUME NEW o, Goto(h, "open"),
               task' = [task EXCEPT ![h] = Task(TellPodium("FINISHED", o), "ended")]
        PROVE  IdThreads'
    <3>1. Task(TellPodium("FINISHED", o), "ended").msg.kind # "ID"
      BY <1>c
    <3> QED
      BY <1>b, <2>1, <2>2, <2>3, <3>1, IdGiven DEF Goto
  <2>4. \A u \in Thread \ {h} : ref'[u] = ref[u]
    BY <1>i, <2>2
  <2>5. ASSUME Throw(h) PROVE IdThreads'
    BY <1>a, <1>b, <2>1, <2>4, <2>5, IdThrow
  <2>6. ASSUME pc' = [pc EXCEPT ![h] = "maingame"] /\ UNCHANGED task PROVE IdThreads'
    BY <1>a, <1>b, <2>1, <2>4, <2>6, IdElsewhere
  <2> QED
    BY <1>10, <2>1, <2>3, <2>5, <2>6 DEF DeathMatchFind, Goto, IdMap, Joined, IdWire
<1>11. CASE MainGameFind(h)
  <2>1. pc[h] = "maingame" /\ task[h].msg.kind # "ID" /\ UNCHANGED <<wire, room, clients, who>>
    BY <1>11, <1>b, <1>n DEF MainGameFind
  <2>2. ref' = [ref EXCEPT ![h] = None]
    BY <1>11 DEF MainGameFind
  <2>a. \A u \in Thread \ {h} : ref'[u] = ref[u]
    BY <1>i, <2>2
  <2>3. ASSUME pc' = [pc EXCEPT ![h] = Back(h)] /\ UNCHANGED task PROVE IdThreads'
    BY <1>a, <1>b, <2>1, <2>a, <2>3, BackMoves, IdElsewhere
  <2>4. ASSUME task' = [task EXCEPT ![h] = PlayerList] /\ Goto(h, "open") PROVE IdThreads'
    BY <1>b, <1>c, <2>1, <2>2, <2>4, IdGiven DEF Goto
  <2>5. ASSUME NEW o, Goto(h, "tie"),
               task' = [task EXCEPT ![h] = Task(TellPodium("DEATHMATCH", Equals(o)), "loop")]
        PROVE  IdThreads'
    <3>1. Task(TellPodium("DEATHMATCH", Equals(o)), "loop").msg.kind # "ID"
      BY <1>c
    <3> QED
      BY <1>b, <2>1, <2>2, <2>5, <3>1, IdGiven DEF Goto
  <2>6. ASSUME NEW o, Goto(h, "open"),
               task' = [task EXCEPT ![h] = Task(TellPodium("FINISHED", o), "ended")]
        PROVE  IdThreads'
    <3>1. Task(TellPodium("FINISHED", o), "ended").msg.kind # "ID"
      BY <1>c
    <3> QED
      BY <1>b, <2>1, <2>2, <2>6, <3>1, IdGiven DEF Goto
  <2>7. ASSUME Throw(h) PROVE IdThreads'
    BY <1>a, <1>b, <2>1, <2>a, <2>7, IdThrow
  <2> QED
    BY <1>11, <2>1, <2>3, <2>4, <2>5, <2>6, <2>7 DEF MainGameFind, Goto, IdMap, Joined, IdWire
<1>12. CASE OpenDeathMatch(h)
  <2>1. IdThreads'
    BY <1>12, <1>a, <1>b, <1>n, IdElsewhere DEF OpenDeathMatch, Goto
  <2> QED
    BY <1>12, <2>1 DEF OpenDeathMatch, IdMap, Joined, IdWire
<1>13. CASE GameEnds(h)
  <2>1. IdThreads'
    BY <1>13, <1>b, <1>c, BackMoves, IdGiven DEF GameEnds, Goto, AllSent
  <2> QED
    BY <1>13, <2>1 DEF GameEnds, IdMap, Joined, IdWire
<1> QED
  BY <1>1, <1>2, <1>3, <1>4, <1>5, <1>6, <1>7, <1>8, <1>9, <1>10, <1>11, <1>12, <1>13
     DEF HandlerThread

-----------------------------------------------------------------------------
(* Identity: the phones. *)

IdPhone == IdWire /\ IdPhones

LEMMA IdToClient ==
  ASSUME IdWire, TypeOK, NEW c \in Conn, NEW s \in Seq(OwnInstruction[c]),
         toClient' = [toClient EXCEPT ![c] = s], UNCHANGED toServer
  PROVE  IdWire'
<1>1. toServer[c] \in Seq(OwnMessage[c])
  BY DEF IdWire
<1>2. toClient'[c] = s /\ \A d \in Conn \ {c} : toClient'[d] = toClient[d]
  BY DEF TypeOK, WireTypeOK
<1> QED
  BY <1>1, <1>2, IdWireStep

LEMMA IdEmpty ==
  ASSUME IdWire, TypeOK, NEW c \in Conn, toClient' = [toClient EXCEPT ![c] = <<>>],
         UNCHANGED toServer
  PROVE  IdWire'
<1>1. \A S : <<>> \in Seq(S)
  OBVIOUS
<1> QED
  BY <1>1, IdToClient

LEMMA IdConsume ==
  ASSUME IdWire, TypeInv, NEW p \in Phones, NEW kind, Hear(p, kind)
  PROVE  /\ Sock(p) \in Conn /\ Owner(Sock(p)) = p
         /\ Inbox(p) # <<>> /\ Head(Inbox(p)) \in OwnInstruction[Sock(p)]
         /\ Consume(p) /\ UNCHANGED toServer => IdWire'
<1>1. Sock(p) \in Conn /\ Inbox(p) # <<>>
  BY SockType DEF Hear, Online
<1>2. Owner(Sock(p)) = p
  BY DEF Owner, Sock
<1>3. /\ Head(Inbox(p)) \in OwnInstruction[Sock(p)]
      /\ Tail(toClient[Sock(p)]) \in Seq(OwnInstruction[Sock(p)])
  BY <1>1, IdRead DEF Inbox, TypeInv
<1>4. Consume(p) => toClient' = [toClient EXCEPT ![Sock(p)] = Tail(toClient[Sock(p)])]
  BY DEF Consume
<1> QED
  BY <1>1, <1>2, <1>3, <1>4, IdToClient DEF TypeInv

LEMMA IdHears ==
  ASSUME TypeInv, IdPhone, NEW p \in Phones, Hears(p)
  PROVE  IdPhone'
<1> USE DEF IdPhone
<1>a. TypeOK
  BY DEF TypeInv
<1>b. ASSUME NEW unread, Online(p), NetworkError(p, unread), UNCHANGED toServer
      PROVE  IdWire'
  BY <1>a, <1>b, SockType, IdEmpty DEF NetworkError, Online
<1>1. CASE HearPlayers(p)
  BY <1>1, <1>b, IdConsume DEF HearPlayers, Hear, IdPhones
<1>2. CASE HearId(p)
  <2>1. Owner(Head(Inbox(p)).arg) = p
    BY <1>2, IdConsume DEF HearId, Hear, OwnInstruction
  <2>2. IdPhones'
    BY <1>2, <1>a, <2>1 DEF HearId, IdPhones, TypeOK, PhoneTypeOK
  <2> QED
    BY <1>2, <2>2, IdConsume DEF HearId
<1>3. CASE HearStart(p)
  BY <1>3, IdConsume DEF HearStart, IdPhones
<1>4. CASE HearFinished(p)
  BY <1>4, IdConsume DEF HearFinished, IdPhones
<1>5. CASE HearDeathMatch(p)
  BY <1>5, <1>b, IdConsume DEF HearDeathMatch, Hear, IdPhones
<1>6. CASE HearStopped(p)
  <2>1. Sock(p) \in Conn
    BY <1>6, SockType DEF HearStopped, Hear, Online
  <2>2. IdWire'
    BY <1>6, <1>a, <2>1, IdEmpty DEF HearStopped
  <2> QED
    BY <1>6, <2>2 DEF HearStopped, IdPhones
<1>7. CASE HearRoomName(p)
  BY <1>7, IdConsume DEF HearRoomName, IdPhones, phoneVars
<1>8. CASE HearNotReady(p)
  BY <1>8, <1>b, IdConsume DEF HearNotReady, Hear, IdPhones
<1>9. CASE HearRefusal(p)
  <2>1. Sock(p) \in Conn
    BY <1>9, SockType DEF HearRefusal, Hear, Online
  <2>2. Inbox(p) \in Seq(OwnInstruction[Sock(p)]) /\ Len(Inbox(p)) > 1
    BY <1>9, <2>1 DEF HearRefusal, IdWire, Inbox
  <2>3. Tail(Tail(toClient[Sock(p)])) \in Seq(OwnInstruction[Sock(p)])
    BY <2>2, TailTailType DEF Inbox
  <2>4. toClient' = [toClient EXCEPT ![Sock(p)] = Tail(Tail(toClient[Sock(p)]))]
    BY <1>9 DEF HearRefusal
  <2>5. IdWire'
    BY <1>9, <1>a, <2>1, <2>3, <2>4, IdToClient DEF HearRefusal
  <2> QED
    BY <1>9, <2>5 DEF HearRefusal, IdPhones, phoneVars
<1>10. CASE Disconnection(p)
  BY <1>10, <1>b DEF Disconnection, IdPhones
<1> QED
  BY <1>1, <1>2, <1>3, <1>4, <1>5, <1>6, <1>7, <1>8, <1>9, <1>10
     DEF Hears, ClientThread

LEMMA IdConnects ==
  ASSUME TypeInv, IdPhone, NEW p \in Phones, Connects(p)
  PROVE  IdPhone'
<1> USE DEF IdPhone
<1>1. ASSUME NEW hello \in OwnMessage[NewSock(p)], OpenSocket(p, hello)
      PROVE  IdWire'
  <2>1. <<hello>> \in Seq(OwnMessage[NewSock(p)])
    BY Single
  <2>2. NewSock(p) \in Conn
    BY <1>1, ProtocolAssumption DEF OpenSocket, NewSock, Conn, TypeInv, TypeOK, PhoneTypeOK
  <2>3. /\ toServer'[NewSock(p)] = <<hello>>
        /\ \A d \in Conn \ {NewSock(p)} : toServer'[d] = toServer[d]
        /\ toClient' = toClient
    BY <1>1, <2>2 DEF OpenSocket, TypeInv, TypeOK, WireTypeOK
  <2>4. toClient'[NewSock(p)] \in Seq(OwnInstruction[NewSock(p)])
    BY <2>2, <2>3 DEF IdWire
  <2> QED
    BY <2>1, <2>2, <2>3, <2>4, IdWireStep DEF TypeInv
<1>2. tries[p] < MaxTries => NewSock(p) \in Conn /\ Owner(NewSock(p)) = p
  BY ProtocolAssumption DEF NewSock, Conn, Owner, TypeInv, TypeOK, PhoneTypeOK
<1>3. CASE ConnectServer(p)
  <2>1. Say("CONNECT", None) \in OwnMessage[NewSock(p)]
    BY <1>2, <1>3, SayType DEF ConnectServer, OpenSocket, OwnMessage, Say
  <2> QED
    BY <1>1, <1>3, <2>1 DEF ConnectServer, IdPhones
<1>4. CASE Reconnect(p)
  <2>1. Say("RECONNECT", myId[p]) \in ClientMessage
    BY SayType DEF TypeInv, TypeOK, PhoneTypeOK
  <2>2. Say("RECONNECT", myId[p]) \in OwnMessage[NewSock(p)]
    BY <1>2, <1>4, <2>1 DEF Reconnect, OpenSocket, OwnMessage, Say, IdPhones
  <2> QED
    BY <1>1, <1>4, <2>2 DEF Reconnect, IdPhones
<1> QED
  BY <1>3, <1>4 DEF Connects

LEMMA IdPlays ==
  ASSUME TypeInv, IdPhone, NEW p \in Phones, Plays(p)
  PROVE  IdPhone'
<1> USE DEF IdPhone
<1>1. ASSUME NEW m \in ClientMessage, m.kind # "RECONNECT", Send(p, m), UNCHANGED toClient
      PROVE  IdWire'
  <2>1. CASE Online(p) /\ link[Sock(p)] = "up"
    <3> DEFINE c == Sock(p)
    <3>1. c \in Conn
      BY <2>1, SockType DEF Online
    <3>2. m \in OwnMessage[c]
      BY <1>1, <3>1 DEF OwnMessage
    <3>3. toServer[c] \in Seq(OwnMessage[c])
      BY <3>1 DEF IdWire
    <3>4. Append(toServer[c], m) \in Seq(OwnMessage[c])
      BY <3>2, <3>3, AppendProperties
    <3>5. /\ toServer'[c] = Append(toServer[c], m)
          /\ \A d \in Conn \ {c} : toServer'[d] = toServer[d]
      BY <1>1, <2>1, <3>1 DEF Send, TypeInv, TypeOK, WireTypeOK
    <3>6. toClient'[c] \in Seq(OwnInstruction[c])
      BY <1>1, <3>1 DEF IdWire
    <3> QED
      BY <1>1, <3>1, <3>4, <3>5, <3>6, IdWireStep DEF TypeInv
  <2> QED
    BY <1>1, <2>1 DEF Send, IdWire
<1>2. /\ Say("READY", None) \in ClientMessage /\ Say("START", None) \in ClientMessage
      /\ \A n \in RoomNames : Say("ROOM-NAME", n) \in ClientMessage
      /\ \A v \in Values : Say("ANAM-FOUND", v) \in ClientMessage
  BY SayType
<1>3. \A kind, arg : Say(kind, arg).kind = kind
  BY DEF Say
<1>4. CASE ToggleReady(p)
  BY <1>1, <1>2, <1>3, <1>4 DEF ToggleReady, IdPhones
<1>5. CASE StartGame(p)
  BY <1>1, <1>2, <1>3, <1>5 DEF StartGame, IdPhones
<1>6. ASSUME NEW n \in RoomNames, SendRoomName(p, n) PROVE IdPhone'
  BY <1>1, <1>2, <1>3, <1>6 DEF SendRoomName, IdPhones
<1>7. ASSUME NEW v \in Values, SetFound(p, v) PROVE IdPhone'
  BY <1>1, <1>2, <1>3, <1>7 DEF SetFound, IdPhones
<1> QED
  BY <1>4, <1>5, <1>6, <1>7 DEF Plays, Player

LEMMA IdFails ==
  ASSUME TypeInv, IdPhone, NEW p \in Phones, Fails(p)
  PROVE  IdPhone'
<1> USE DEF IdPhone
<1>1. Sock(p) \in Conn
  BY SockType DEF Fails, Failure, LinkReset, PhoneKilled, Online
<1>2. CASE LinkReset(p)
  <2>1. \A s : /\ s \in Prefixes(toServer[Sock(p)]) => s \in Seq(OwnMessage[Sock(p)])
               /\ s \in Prefixes(toClient[Sock(p)]) => s \in Seq(OwnInstruction[Sock(p)])
    BY <1>1, PrefixType DEF IdWire
  <2>2. /\ toServer'[Sock(p)] \in Prefixes(toServer[Sock(p)])
        /\ toClient'[Sock(p)] \in Prefixes(toClient[Sock(p)])
        /\ \A d \in Conn \ {Sock(p)} : toServer'[d] = toServer[d] /\ toClient'[d] = toClient[d]
    BY <1>1, <1>2 DEF LinkReset, TypeInv, TypeOK, WireTypeOK
  <2>3. IdWire'
    BY <1>1, <2>1, <2>2, IdWireStep DEF TypeInv
  <2> QED
    BY <1>2, <2>3 DEF LinkReset, IdPhones
<1>3. CASE PhoneKilled(p)
  <2>1. IdWire'
    BY <1>1, <1>3, IdEmpty DEF PhoneKilled, TypeInv
  <2> QED
    BY <1>3, <2>1 DEF PhoneKilled, IdPhones
<1> QED
  BY <1>2, <1>3 DEF Fails, Failure

LEMMA IdInit == Init => IdInv
<1> SUFFICES ASSUME Init PROVE IdInv
  OBVIOUS
<1>1. IdWire
  <2>1. \A S : <<>> \in Seq(S)
    OBVIOUS
  <2> QED
    BY <2>1 DEF Init, WireInit, IdWire
<1>2. IdMap
  BY ProtocolAssumption DEF Init, ServerInit, IdMap, Joined
<1>3. IdThreads
  <2>1. \A t \in Thread : task[t].msg.kind # "ID"
    BY TaskKind DEF Init, ServerInit
  <2>2. \A h \in Conn : pc[h] = "off"
    BY ServerAssumption DEF Init, ServerInit, Thread
  <2> QED
    BY <2>1, <2>2 DEF IdThreads, IdThread, Thread
<1>4. IdPhones
  BY DEF Init, PhoneInit, IdPhones
<1> QED
  BY <1>1, <1>2, <1>3, <1>4 DEF IdInv, IdServer

LEMMA IdNext ==
  ASSUME TypeInv, IdInv, [Next]_vars
  PROVE  IdInv'
<1>1. IdServer /\ IdPhone /\ TypeOK
  BY DEF IdInv, IdServer, IdPhone, TypeInv
<1>2. ASSUME NEW t \in Thread, ServerStep(t) PROVE IdInv'
  <2>1. IdServer'
    BY <1>1, <1>2, IdAccept, IdBroadcast, IdConnecting, IdHandling
       DEF ServerStep, ThreadStep
  <2>2. IdPhones'
    BY <1>1, <1>2 DEF ServerStep, phoneVars, IdPhone, IdPhones
  <2> QED
    BY <2>1, <2>2 DEF IdInv
<1>3. ASSUME NEW p \in Phones, Connects(p) \/ Hears(p) \/ Plays(p) \/ Fails(p)
      PROVE  IdInv'
  <2>1. IdPhone'
    BY <1>1, <1>3, IdConnects, IdHears, IdPlays, IdFails
  <2>2. UNCHANGED serverVars
    BY <1>3 DEF Connects, Hears, Plays, Fails
  <2>3. (IdMap /\ IdThreads)'
    BY <1>1, <2>2 DEF IdServer, IdMap, IdThreads, IdThread, Joined, Accepted,
       serverVars, room, threads
  <2> QED
    BY <2>1, <2>3 DEF IdInv, IdServer, IdPhone
<1>4. CASE HostStops
  BY <1>1, <1>4 DEF HostStops, StopListening, IdInv, IdServer, IdPhone, IdWire, IdMap,
     IdThreads, IdThread, IdPhones, Joined, Accepted, phoneVars, wire, room
<1>5. CASE UNCHANGED vars
  BY <1>1, <1>5 DEF vars, IdInv, IdServer, IdPhone, IdWire, IdMap, IdThreads, IdThread,
     IdPhones, Joined, Accepted, serverVars, phoneVars, wire, room, threads
<1> QED
  BY <1>2, <1>3, <1>4, <1>5 DEF Next

(* No phone plays as another: a connection carries a player that a         *)
(* connection of the same phone created, and a phone knows no id but its   *)
(* own (Server.java:120-136, 184, 195-204), however many handler threads   *)
(* look players up and move them at the same time.                         *)
THEOREM IdentityOwned == Spec => []OwnIdentity
<1>1. Init => TypeInv /\ IdInv
  BY InitType, IdInit
<1>2. TypeInv /\ IdInv /\ [Next]_vars => TypeInv' /\ IdInv'
  BY NextType, IdNext
<1>3. IdInv => OwnIdentity
  BY DEF IdInv, IdServer, IdMap, IdPhones, OwnIdentity
<1> QED
  BY <1>1, <1>2, <1>3, PTL DEF Spec

=============================================================================
