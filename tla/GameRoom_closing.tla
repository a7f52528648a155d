-------------------------- MODULE GameRoom_closing ---------------------------
(***************************************************************************)
(* How a room closes: proved for every number of phones, of connections    *)
(* and of breaks.  The accept thread tells every client that the server    *)
(* stops, empties the map, and then closes the clients one by one, each    *)
(* once its thread is dead; what is shown here is that nothing escapes     *)
(* this round, whatever the handlers and the phones do in the meantime.    *)
(***************************************************************************)
EXTENDS GameRoom_outcome

(* The accept thread sends to all only to tell that the server stops, and  *)
(* clients does not grow under its iterator.                               *)
AccTask ==
  pc[Acceptor] \in Announcing =>
    LET k == task[Acceptor] IN
    /\ k.msg.kind = "SERVER-STOPPED" /\ k.after = "clear"
    /\ pc[Acceptor] # "open" => k.len = Len(clients) /\ k.next > 0

(* A connection that was accepted has a thread.                            *)
Served == \A c \in Accepted : pc[c] # "off"

(* A handler that ends closes its socket, or takes the process with it.    *)
DeadLink == \A c \in Conn : pc[c] = "dead" => crashed \/ link[c] \in {"closed", "rst"}

(* The accept thread leaves no living thread behind it.                    *)
CloseProgress ==
  pc[Acceptor] \in {"close", "closing"} =>
    LET n == task[Acceptor].next IN
    /\ n > 0
    /\ \A i \in DOMAIN clients : i < n => pc[clients[i]] = "dead"
    /\ pc[Acceptor] = "closing" => n \in DOMAIN clients

CloseInv == AccTask /\ Served /\ DeadLink /\ CloseProgress /\ NothingOutlivesRoom

-----------------------------------------------------------------------------
(* The steps of the server, by what they do to threads and to connections. *)

LEMMA ThreadActs ==
  ASSUME NEW t \in Thread, ServerStep(t)
  PROVE  pc[t] \notin {"off", "dead"}
<1>1. CASE Broadcast(t)
  BY <1>1 DEF Broadcast, Open, IteratorFails, SendNext, SendFails, JoinReturns, Done, Sending,
     AllSent
<1>2. CASE t = Acceptor /\ AcceptThread
  BY <1>2 DEF AcceptThread, Accept, StopAccepting, CloseClient, ClientClosed, AcceptorEnds,
     ClearPlayers, AllSent
<1>3. CASE HandlerThread(t)
  BY <1>3 DEF HandlerThread, Ignore, ReadFails, LeaveLoop, Disconnected, HandlerEnds,
     ReceiveConnect, AddPlayer, Greet, ReceiveReconnect, LookUpPlayer, DropHandler, AdoptPlayer,
     WelcomeBack, ReceiveReady, ReceiveStart, Begin, ReceiveRoomName, ReceiveFound,
     DeathMatchFind, MainGameFind, OpenDeathMatch, GameEnds, Take, AllSent
<1> QED
  BY <1>1, <1>2, <1>3 DEF ServerStep, ThreadStep

(* How a thread dies.                                                      *)
LEMMA ThreadDies ==
  ASSUME TypeOK, NEW t \in Thread, ServerStep(t), pc'[t] = "dead"
  PROVE  \/ t = Acceptor /\ AcceptorEnds
         \/ t \in Conn /\ Ends(t)
         \/ crashed' /\ (t = Acceptor => task[t].after = "exit" /\ pc[t] \in Announcing)
<1>a. /\ pc \in [Thread -> Location] /\ task \in [Thread -> SendTask]
      /\ Back(t) # "dead" /\ pc[t] # "dead"
      /\ Acceptor \notin Conn /\ Conn \subseteq Thread
  BY ThreadActs, ServerAssumption DEF TypeOK, ServerTypeOK, Back, Thread
<1>b. ASSUME NEW l, pc' = [pc EXCEPT ![t] = l] PROVE l = "dead"
  BY <1>a, <1>b
<1>1. CASE Broadcast(t)
  BY <1>1, <1>a, <1>b DEF Broadcast, Open, IteratorFails, SendNext, SendFails, JoinReturns, Done,
     Sending, Goto, Throw, Announcing
<1>2. CASE t = Acceptor /\ AcceptThread
  BY <1>2, <1>a DEF AcceptThread, Accept, StopAccepting, CloseClient, ClientClosed,
     ClearPlayers, Goto
<1>3. CASE t \in Conn /\ HandlerThread(t)
  <2>1. ASSUME NEW msgs, NEW l, l # "dead", Reply(t, msgs, l) PROVE FALSE
    BY <2>1, <1>b DEF Reply, Goto
  <2>2. ASSUME Throw(t) PROVE task[t].after = "exit" /\ crashed'
    BY <2>2, <1>b DEF Throw, Goto
  <2> QED
    BY <1>3, <1>a, <1>b, <2>1, <2>2 DEF HandlerThread, Ignore, ReadFails, LeaveLoop,
       Disconnected, HandlerEnds,
       ReceiveConnect, AddPlayer, Greet, ReceiveReconnect, LookUpPlayer, DropHandler, AdoptPlayer,
       WelcomeBack, ReceiveReady, ReceiveStart, Begin, ReceiveRoomName, ReceiveFound,
       DeathMatchFind, MainGameFind, OpenDeathMatch, GameEnds, Goto
<1> QED
  BY <1>1, <1>2, <1>3 DEF ServerStep, ThreadStep

(* What the server does to a connection.                                   *)
LinkStep(t) ==
  \A c \in Conn : \/ link'[c] = link[c]
                  \/ link[c] = "fin" /\ link'[c] = "gone"
                  \/ /\ c = t /\ Ends(t)
                     /\ pc[t] = "final" \/ task[t].after = "exit"

LEMMA LinkServer ==
  ASSUME TypeOK, NEW t \in Thread, ServerStep(t)
  PROVE  LinkStep(t) \/ (t = Acceptor /\ AcceptorEnds)
<1> USE DEF LinkStep
<1>a. link \in [Conn -> LinkState] /\ Acceptor \notin Conn /\ Conn \subseteq Thread
  BY ServerAssumption DEF TypeOK, WireTypeOK, Thread
<1>1. ASSUME NEW c, NEW msgs, Write(c, msgs) PROVE LinkStep(t)
  BY <1>a, <1>1 DEF Write
<1>2. CASE UNCHANGED link
  BY <1>2
<1>3. CASE Broadcast(t)
  <2>1. CASE SendNext(t)
    BY <1>1, <2>1 DEF SendNext
  <2> QED
    BY <1>2, <1>3, <2>1 DEF Broadcast, Open, IteratorFails, SendFails, JoinReturns, Done, wire
<1>4. CASE t = Acceptor /\ AcceptThread
  BY <1>2, <1>4 DEF AcceptThread, Accept, StopAccepting, CloseClient, ClientClosed,
     ClearPlayers, wire
<1>5. CASE t \in Conn /\ HandlerThread(t)
  <2>1. ASSUME NEW msgs, NEW l, Reply(t, msgs, l) PROVE LinkStep(t)
    BY <1>1, <1>2, <2>1 DEF Reply
  <2>2. CASE Disconnected(t) \/ HandlerEnds(t)
    <3>1. CASE UNCHANGED link
      BY <1>2, <3>1
    <3>2. CASE Ends(t)
      <4>1. \A c \in Conn \ {t} : link'[c] = link[c]
        BY <1>a, <3>2 DEF Ends
      <4>2. pc[t] = "final" \/ task[t].after = "exit"
        BY <2>2 DEF Disconnected, HandlerEnds, AllSent
      <4> QED
        BY <3>2, <4>1, <4>2
    <3> QED
      BY <2>2, <3>1, <3>2 DEF Disconnected, HandlerEnds
  <2> HIDE DEF LinkStep
  <2> QED
    BY <1>2, <1>5, <2>1, <2>2 DEF HandlerThread, Ignore, ReadFails, LeaveLoop,
       ReceiveConnect, AddPlayer, Greet, ReceiveReconnect, LookUpPlayer, DropHandler, AdoptPlayer,
       WelcomeBack, ReceiveReady, ReceiveStart, Begin, ReceiveRoomName, ReceiveFound,
       DeathMatchFind, MainGameFind, OpenDeathMatch, GameEnds, wire
<1> QED
  BY <1>3, <1>4, <1>5 DEF ServerStep, ThreadStep

LEMMA EndsLink ==
  ASSUME TypeOK, NEW h \in Conn, Ends(h)
  PROVE  /\ link'[h] \in {"closed", "rst"}
         /\ link[h] = "rst" => link'[h] = "rst"
         /\ h \in doomed => crashed'
BY DEF Ends, TypeOK, WireTypeOK

(* Only the accept thread moves another thread: it starts it.              *)
LEMMA OnlyOwn ==
  ASSUME TypeOK, Unopened, NEW t \in Thread, ServerStep(t)
  PROVE  \/ \E c \in Conn : t = Acceptor /\ Accept(c)
         \/ /\ UNCHANGED clients
            /\ t \in Conn => pc'[t] # "off"
            /\ \A u \in Thread \ {t} : pc'[u] = pc[u] /\ task'[u] = task[u]
<1>a. /\ pc \in [Thread -> Location] /\ task \in [Thread -> SendTask]
      /\ Acceptor \notin Conn /\ Conn \subseteq Thread
  BY ServerAssumption DEF TypeOK, ServerTypeOK, Thread
<1>1. CASE Quiet(t)
  BY <1>1, <1>a DEF Quiet, Others
<1>2. CASE t \in Conn
  <2>1. UNCHANGED clients
    BY <1>a, <1>2, ServerSteps DEF Quiet, Enters, ReceiveConnect, AddPlayer, ReceiveReconnect,
       LookUpPlayer, DropHandler, AdoptPlayer, ReceiveFound
  <2>2. pc'[t] # "off"
    <3>1. CASE Quiet(t)
      BY <3>1 DEF Quiet
    <3>2. CASE ReceiveConnect(t) \/ ReceiveReconnect(t)
      BY <1>a, <1>2, <3>2, BackFrom, QuietReply DEF ReceiveConnect, ReceiveReconnect, Goto, Throw
    <3>3. CASE AddPlayer(t) \/ LookUpPlayer(t) \/ DropHandler(t) \/ AdoptPlayer(t) \/ ReceiveFound(t)
      BY <1>a, <1>2, <3>3 DEF AddPlayer, LookUpPlayer, DropHandler, AdoptPlayer, ReceiveFound, Goto
    <3> QED
      BY <1>a, <1>2, <3>1, <3>2, <3>3, ServerSteps DEF Enters
  <2> QED
    BY <1>2, <2>1, <2>2, OwnSteps
<1>3. CASE t = Acceptor /\ ClearPlayers
  BY <1>3, <1>a DEF ClearPlayers, Goto
<1> QED
  BY <1>a, <1>1, <1>2, <1>3, ServerSteps

(* The connection a phone is using.                                        *)
Attached(c) == Online(Owner(c)) /\ c = Sock(Owner(c))

(* What a phone does to a connection: it opens one that has no thread, and *)
(* closes the one it is using only by leaving it.                          *)
Opens(p, c) ==
  /\ Connects(p) /\ c = NewSock(p)
  /\ link[c] = "none" /\ link'[c] = "up" /\ pc[c] = "off"

PhoneLink(p, c) ==
  \/ Opens(p, c)
  \/ /\ Attached(c)' => Attached(c)
     /\ \/ link'[c] = link[c]
        \/ /\ link[c] = "up" /\ link'[c] \in {"fin", "rst"}
           /\ link'[c] = "fin" => ~Attached(c)'

LEMMA LinkPhone ==
  ASSUME TypeInv, GreetInv, NEW p \in Phones,
         Connects(p) \/ Hears(p) \/ Plays(p) \/ Fails(p)
  PROVE  UNCHANGED serverVars /\ \A c \in Conn : PhoneLink(p, c)
<1> USE DEF PhoneLink
<1>a. /\ link \in [Conn -> LinkState] /\ tries \in [Phones -> 0..MaxTries]
      /\ stage \in [Phones -> Stage] /\ MaxTries \in Nat
  BY ProtocolAssumption DEF TypeInv, TypeOK, WireTypeOK, PhoneTypeOK
<1>b. Owner(Sock(p)) = p
  BY DEF Owner, Sock
<1>c. ASSUME UNCHANGED tries, \A q \in Phones : stage'[q] = "run" => stage[q] = "run"
      PROVE  \A c \in Conn : Attached(c)' => Attached(c)
  BY <1>c DEF Attached, Online, Sock, Owner, Conn
<1>d. Hears(p) \/ Plays(p) \/ Fails(p) => \A c \in Conn : Attached(c)' => Attached(c)
  <2> SUFFICES ASSUME Hears(p) \/ Plays(p) \/ Fails(p)
               PROVE  UNCHANGED tries /\ \A q \in Phones : stage'[q] = "run" => stage[q] = "run"
    BY <1>c
  <2>1. UNCHANGED tries
    BY CalmPhone
  <2>2. ASSUME NEW unread, NetworkError(p, unread)
        PROVE  \A q \in Phones : stage'[q] = "run" => stage[q] = "run"
    BY <1>a, <2>2 DEF NetworkError
  <2> QED
    BY <1>a, <2>1, <2>2 DEF Hears, ClientThread, HearPlayers, HearId, HearStart,
       HearFinished, HearDeathMatch, HearStopped, HearRoomName, HearNotReady, HearRefusal,
       Disconnection, Plays, Player, ToggleReady, StartGame, SendRoomName, SetFound, Fails,
       Failure, LinkReset, PhoneKilled, phoneVars
<1>1. CASE UNCHANGED link /\ ~Connects(p)
  BY <1>1, <1>d DEF Hears, Plays, Fails
<1>2. CASE Connects(p)
  <2>1. PICK hello : OpenSocket(p, hello) /\ UNCHANGED serverVars
    BY <1>2 DEF Connects, ConnectServer, Reconnect
  <2> DEFINE n == NewSock(p)
  <2>2. n \in Conn /\ link[n] = "none" /\ pc[n] = "off"
    BY <1>a, <2>1 DEF OpenSocket, NewSock, Conn, GreetInv, NextTry, Unopened
  <2>3. link' = [link EXCEPT ![n] = "up"]
    BY <2>1 DEF OpenSocket
  <2> HIDE DEF n
  <2>4. \A c \in Conn \ {n} : link'[c] = link[c]
    BY <1>a, <2>3
  <2>5. link'[n] = "up"
    BY <1>a, <2>2, <2>3
  <2>6. n = NewSock(p)
    BY DEF n
  <2>7. \A c \in Conn \ {n} : Attached(c)' => Attached(c)
    <3>1. /\ tries'[p] = tries[p] + 1
          /\ \A q \in Phones \ {p} : tries'[q] = tries[q] /\ stage'[q] = stage[q]
      BY <1>a, <2>1 DEF OpenSocket
    <3> QED
      BY <3>1, <2>6 DEF Attached, Online, Sock, NewSock, Owner, Conn
  <2> QED
    BY <1>2, <2>1, <2>2, <2>4, <2>5, <2>6, <2>7 DEF Opens
<1>3. ASSUME \A c \in Conn \ {Sock(p)} : link'[c] = link[c],
             \/ link'[Sock(p)] = link[Sock(p)]
             \/ link[Sock(p)] = "up" /\ link'[Sock(p)] \in {"fin", "rst"},
             stage'[p] # "run" \/ link'[Sock(p)] # "fin",
             Hears(p) \/ Fails(p)
      PROVE  \A c \in Conn : PhoneLink(p, c)
  <2> SUFFICES ASSUME NEW c \in Conn, c = Sock(p) PROVE PhoneLink(p, c)
    BY <1>3, <1>d
  <2>1. stage'[p] # "run" => ~Attached(c)'
    BY <1>b DEF Attached, Online
  <2> QED
    BY <1>3, <1>d, <2>1
<1>4. ASSUME NEW unread, NetworkError(p, unread), Hears(p) PROVE \A c \in Conn : PhoneLink(p, c)
  <2>1. stage'[p] # "run" /\ \A c \in Conn \ {Sock(p)} : link'[c] = link[c]
    BY <1>a, <1>4 DEF NetworkError
  <2>2. Sock(p) \in Conn =>
           \/ link'[Sock(p)] = link[Sock(p)]
           \/ link[Sock(p)] = "up" /\ link'[Sock(p)] \in {"fin", "rst"}
    BY <1>a, <1>4 DEF NetworkError
  <2>3. CASE Sock(p) \in Conn
    BY <1>3, <1>4, <2>1, <2>2, <2>3
  <2> QED
    BY <1>4, <1>d, <2>1, <2>3
<1>5. ASSUME HearStopped(p) \/ LinkReset(p) \/ PhoneKilled(p), Hears(p) \/ Fails(p)
      PROVE  \A c \in Conn : PhoneLink(p, c)
  <2>1. Sock(p) \in Conn
    BY <1>5, SockType DEF HearStopped, LinkReset, PhoneKilled, Hear, Online
  <2>2. \A c \in Conn \ {Sock(p)} : link'[c] = link[c]
    BY <1>a, <1>5 DEF HearStopped, LinkReset, PhoneKilled
  <2>3. \/ link'[Sock(p)] = link[Sock(p)]
        \/ link[Sock(p)] = "up" /\ link'[Sock(p)] \in {"fin", "rst"}
    BY <1>a, <1>5, <2>1 DEF HearStopped, LinkReset, PhoneKilled
  <2>4. stage'[p] # "run" \/ link'[Sock(p)] # "fin"
    BY <1>a, <1>5, <2>1 DEF HearStopped, LinkReset, PhoneKilled
  <2> QED
    BY <1>3, <1>5, <2>2, <2>3, <2>4
<1> HIDE DEF PhoneLink
<1>6. CASE UNCHANGED serverVars
  BY <1>1, <1>2, <1>4, <1>5, <1>6 DEF Connects, Hears, ClientThread, HearPlayers, HearId,
     HearStart, HearFinished, HearDeathMatch, HearRoomName, HearNotReady, HearRefusal,
     Disconnection, Plays, Player, ToggleReady, StartGame, SendRoomName, SetFound, Fails, Failure
<1> QED
  BY <1>6 DEF Connects, Hears, Plays, Fails

-----------------------------------------------------------------------------
LEMMA ClosingServer ==
  ASSUME TypeOK, IdThreads, GreetInv, CloseInv, NEW t \in Thread, ServerStep(t)
  PROVE  CloseInv'
<1> USE DEF CloseInv
<1>a. /\ pc \in [Thread -> Location] /\ task \in [Thread -> SendTask]
      /\ clients \in Seq(Conn) /\ link \in [Conn -> LinkState]
      /\ Acceptor \notin Conn /\ Conn \subseteq Thread /\ Acceptor \in Thread
      /\ Thread = Conn \cup {Acceptor}
  BY ServerAssumption DEF TypeOK, WireTypeOK, ServerTypeOK, Thread
<1>b. pc[t] \notin {"off", "dead"} /\ ~crashed /\ Unopened
  BY ThreadActs DEF ServerStep, GreetInv
<1>c. \/ \E c \in Conn : t = Acceptor /\ Accept(c)
      \/ /\ UNCHANGED clients
         /\ t \in Conn => pc'[t] # "off"
         /\ \A u \in Thread \ {t} : pc'[u] = pc[u] /\ task'[u] = task[u]
  BY <1>b, OnlyOwn
<1>d. t = Acceptor => AcceptThread \/ Broadcast(Acceptor)
  BY <1>a DEF ServerStep, ThreadStep
<1>1. AccTask'
  <2>1. CASE t # Acceptor
    BY <2>1, <1>a, <1>c DEF AccTask
  <2>2. CASE AcceptThread
    <3>1. ASSUME NEW c \in Conn, Accept(c) PROVE AccTask'
      <4>1. c # Acceptor /\ pc'[Acceptor] \in {"accept", "open"}
        BY <3>1, <1>a DEF Accept
      <4>2. pc'[Acceptor] = "open" =>
              task' = [task EXCEPT ![Acceptor] = Task(Tell("SERVER-STOPPED", None), "clear")]
        BY <3>1, <1>a DEF Accept
      <4> QED
        BY <4>1, <4>2, <1>a, TaskKind, TaskAfter DEF AccTask, Announcing
    <3>2. CASE StopAccepting
      BY <3>2, <1>a, TaskKind, TaskAfter DEF StopAccepting, Goto, AccTask
    <3>3. CASE CloseClient \/ ClientClosed \/ AcceptorEnds \/ ClearPlayers
      BY <3>3, <1>a DEF CloseClient, ClientClosed, AcceptorEnds, ClearPlayers, Goto, AccTask,
         Announcing
    <3> QED
      BY <2>2, <3>1, <3>2, <3>3 DEF AcceptThread
  <2>3. CASE Broadcast(Acceptor)
    <3>a. /\ task[Acceptor].msg.kind = "SERVER-STOPPED" /\ task[Acceptor].after = "clear"
          /\ pc[Acceptor] # "open" =>
               task[Acceptor].len = Len(clients) /\ task[Acceptor].next > 0
          /\ UNCHANGED clients
      BY <2>3 DEF AccTask, Announcing, Broadcast, Open, IteratorFails, SendNext, SendFails,
         JoinReturns, Done, Sending, AllSent
    <3>1. CASE Throw(Acceptor)
      BY <3>1, <1>a DEF Throw, Goto, AccTask, Announcing
    <3>2. CASE Open(Acceptor) /\ ~Throw(Acceptor)
      <4>1. /\ task' = [task EXCEPT ![Acceptor].msg = Filled(@), ![Acceptor].next = 1,
                                    ![Acceptor].len = Len(clients)]
        BY <3>2 DEF Open
      <4>2. Filled(task[Acceptor].msg).kind = "SERVER-STOPPED"
        BY <1>a, <3>a, FilledKind DEF SendTask
      <4> QED
        BY <4>1, <4>2, <3>a, <1>a DEF AccTask, SendTask
    <3>3. CASE SendNext(Acceptor) \/ JoinReturns(Acceptor)
      <4>1. task' = [task EXCEPT ![Acceptor].next = @ + 1] /\ pc[Acceptor] # "open"
        BY <3>3 DEF SendNext, JoinReturns, Sending
      <4> QED
        BY <4>1, <3>a, <1>a DEF AccTask, SendTask
    <3>4. CASE SendFails(Acceptor)
      BY <3>4, <3>a, <1>a DEF SendFails, Sending, Goto, AccTask
    <3> QED
      BY <2>3, <3>a, <3>1, <3>2, <3>3, <3>4 DEF Broadcast, IteratorFails, Done, AllSent
  <2> QED
    BY <2>1, <2>2, <2>3, <1>d
<1>2. Served'
  <2>a. Accepted \subseteq Conn
    BY <1>a DEF Accepted
  <2>1. ASSUME NEW c \in Conn, Accept(c) PROVE Served'
    <3>1. Accepted' = Accepted \cup {c}
      BY <2>1, <1>a DEF Accept, Accepted
    <3> QED
      BY <2>1, <2>a, <3>1, <1>a DEF Accept, Served
  <2>2. CASE UNCHANGED clients
    BY <2>2, <2>a, <1>a, <1>b, <1>c DEF Served, Accepted, Accept
  <2> QED
    BY <2>1, <2>2, <1>c
<1>3. DeadLink'
  <2>1. ASSUME NEW c \in Conn, pc'[c] = "dead", ~crashed'
        PROVE  link'[c] \in {"closed", "rst"}
    <3>1. CASE c = t
      BY <2>1, <3>1, <1>a, ThreadDies, EndsLink
    <3>2. CASE c # t
      <4>1. pc[c] = "dead"
        BY <2>1, <3>2, <1>a, <1>c DEF Accept
      <4>2. link[c] \in {"closed", "rst"}
        BY <4>1, <1>b DEF DeadLink
      <4> QED
        BY <3>2, <4>2, <1>a, LinkServer DEF LinkStep, AcceptorEnds
    <3> QED
      BY <3>1, <3>2
  <2> QED
    BY <2>1 DEF DeadLink
<1>4. CloseProgress'
  <2>a. \A u \in Thread : pc[u] = "dead" => pc'[u] = "dead"
    BY <1>a, <1>b, <1>c DEF Accept, IdThreads
  <2>b. \A i \in DOMAIN clients : clients[i] \in Conn
    BY <1>a
  <2>1. CASE t # Acceptor
    BY <2>1, <2>a, <2>b, <1>a, <1>c DEF CloseProgress
  <2>2. CASE (\E c \in Conn : Accept(c)) \/ StopAccepting \/ AcceptorEnds
    BY <2>2, <1>a DEF Accept, StopAccepting, AcceptorEnds, Goto, CloseProgress
  <2>3. CASE CloseClient
    BY <2>3, <2>a, <2>b, <1>a DEF CloseClient, Goto, CloseProgress
  <2>4. CASE ClientClosed
    <3>1. /\ task'[Acceptor].next = task[Acceptor].next + 1 /\ pc'[Acceptor] = "close"
          /\ UNCHANGED clients /\ pc[clients[task[Acceptor].next]] = "dead"
      BY <2>4, <1>a DEF ClientClosed, Goto, SendTask
    <3>2. task[Acceptor].next \in Nat /\ DOMAIN clients = 1..Len(clients) /\ Len(clients) \in Nat
      BY <1>a DEF SendTask
    <3> QED
      BY <2>4, <3>1, <3>2, <2>a, <2>b, <1>a DEF ClientClosed, CloseProgress
  <2>5. CASE ClearPlayers
    <3>1. task'[Acceptor].next = 1 /\ pc'[Acceptor] = "close" /\ UNCHANGED clients
      BY <2>5, <1>a DEF ClearPlayers, Goto, NoTask
    <3> QED
      BY <3>1, <1>a DEF CloseProgress
  <2>6. CASE Broadcast(Acceptor)
    BY <2>6, <1>a DEF Broadcast, Open, IteratorFails, SendNext, SendFails, JoinReturns, Done,
       Sending, AllSent, Goto, Throw, AccTask, CloseProgress, Announcing
  <2> QED
    BY <1>d, <2>1, <2>2, <2>3, <2>4, <2>5, <2>6 DEF AcceptThread
<1>5. NothingOutlivesRoom'
  <2>1. CASE pc[Acceptor] = "dead"
    BY <2>1, <1>a, <1>b DEF NothingOutlivesRoom
  <2>2. CASE t = Acceptor /\ AcceptorEnds
    <3>1. \A c \in Accepted : pc[c] = "dead"
      BY <2>2, <1>a DEF AcceptorEnds, CloseProgress, Accepted, SendTask
    <3>2. \A c \in Conn : pc'[c] = pc[c]
      BY <2>2, <1>a DEF AcceptorEnds, Goto
    <3>3. \A c \in Conn : c \notin Accepted => pc[c] = "off"
      BY DEF IdThreads
    <3>4. \A c \in Conn : link'[c] # "up"
      BY <2>2, <3>1, <1>a, <1>b DEF AcceptorEnds, DeadLink
    <3> QED
      BY <3>1, <3>2, <3>3, <3>4 DEF NothingOutlivesRoom
  <2>3. ASSUME pc[Acceptor] # "dead", pc'[Acceptor] = "dead" PROVE t = Acceptor /\ AcceptorEnds
    <3>1. t = Acceptor
      BY <2>3, <1>a, <1>c
    <3> QED
      BY <2>3, <3>1, <1>a, ThreadDies DEF AccTask
  <2> QED
    BY <2>1, <2>2, <2>3 DEF NothingOutlivesRoom
<1> QED
  BY <1>1, <1>2, <1>3, <1>4, <1>5

LEMMA ClosingPhone ==
  ASSUME TypeInv, GreetInv, CloseInv, NEW p \in Phones,
         Connects(p) \/ Hears(p) \/ Plays(p) \/ Fails(p)
  PROVE  CloseInv'
<1> USE DEF CloseInv
<1>1. UNCHANGED serverVars /\ \A c \in Conn : PhoneLink(p, c)
  BY LinkPhone
<1>2. AccTask' /\ Served' /\ CloseProgress'
  BY <1>1 DEF AccTask, Served, CloseProgress, Accepted, serverVars, threads
<1>3. DeadLink'
  BY <1>1 DEF DeadLink, PhoneLink, Opens, serverVars, threads
<1>4. NothingOutlivesRoom'
  BY <1>1 DEF NothingOutlivesRoom, PhoneLink, Opens, Connects, Reachable, serverVars, threads
<1> QED
  BY <1>2, <1>3, <1>4

LEMMA ClosingInit == Init => CloseInv
<1> SUFFICES ASSUME Init PROVE CloseInv
  OBVIOUS
<1>1. /\ \A c \in Conn : pc[c] = "off"
      /\ pc[Acceptor] = "accept" /\ clients = <<>>
  BY ServerAssumption DEF Init, ServerInit, Thread
<1> QED
  BY <1>1 DEF CloseInv, AccTask, Served, DeadLink, CloseProgress, NothingOutlivesRoom, Announcing,
     Accepted

LEMMA ClosingNext ==
  ASSUME TypeInv, IdInv, GreetInv, CloseInv, [Next]_vars
  PROVE  CloseInv'
<1>1. TypeOK /\ IdThreads
  BY DEF TypeInv, IdInv, IdServer
<1>2. CASE UNCHANGED <<link, clients, pc, task, crashed>>
  BY <1>2 DEF CloseInv, AccTask, Served, DeadLink, CloseProgress, NothingOutlivesRoom, Accepted
<1> QED
  BY <1>1, <1>2, ClosingServer, ClosingPhone DEF Next, HostStops, StopListening, vars, wire,
     serverVars, threads

(* Once the room has stopped no thread of the server is left, and no       *)
(* connection it had accepted is open (ServerBase.java:105-108), whatever  *)
(* connections came, broke or were lost while it was closing.              *)
THEOREM RoomCloses == Spec => []NothingOutlivesRoom
<1>1. Init => TypeInv /\ IdInv /\ JoinInv /\ CloseInv
  BY InitType, IdInit, JoinInit, ClosingInit
<1>2. TypeInv /\ IdInv /\ JoinInv /\ CloseInv /\ [Next]_vars
        => TypeInv' /\ IdInv' /\ JoinInv' /\ CloseInv'
  BY NextType, IdNext, JoinNext, ClosingNext DEF JoinInv
<1>3. CloseInv => NothingOutlivesRoom
  BY DEF CloseInv
<1> QED
  BY <1>1, <1>2, <1>3, PTL DEF Spec

-----------------------------------------------------------------------------
(* What is kept of a set of connections by every step.  A connection that  *)
(* was refused its player never gives its name to one: no id it could be   *)
(* told is its own.                                                        *)
Never(c) == c \in Old /\ Held(Conn \ {c}) /\ Named(Conn \ {c})

LEMMA SetKept ==
  ASSUME TypeInv, IdThreads, GreetInv, NEW S, Held(S), Named(S), [Next]_vars,
         \A h \in Conn : AddPlayer(h) => h \in S
  PROVE  Held(S)' /\ Named(S)'
<1>a. TypeOK /\ Unopened /\ Ids \subseteq S
  BY ProtocolAssumption DEF TypeInv, GreetInv, Held, Ids, Entries, Joined
<1>1. ASSUME NEW t \in Thread, ServerStep(t) PROVE Held(S)' /\ Named(S)'
  BY <1>a, <1>1, HeldServer, NamedServer
<1>2. ASSUME NEW p \in Phones, Connects(p) \/ Hears(p) \/ Plays(p) \/ Fails(p)
      PROVE  Held(S)' /\ Named(S)'
  <2>1. UNCHANGED <<players, ref>>
    BY <1>2 DEF Connects, Hears, Plays, Fails, serverVars, threads, room
  <2> QED
    BY <1>2, <2>1, NamedPhone DEF Held
<1>3. CASE UNCHANGED <<wire, players, ref, pc, task, myId>>
  BY <1>3 DEF Held, Named, Spoken, wire
<1> QED
  BY <1>1, <1>2, <1>3 DEF Next, HostStops, StopListening, room, vars, serverVars, threads, phoneVars

LEMMA NeverStays ==
  ASSUME TypeInv, IdThreads, GreetInv, NewOnce, NEW c \in Conn, Never(c), [Next]_vars
  PROVE  Never(c)'
<1>1. PICK S : S = Conn \ {c}
  OBVIOUS
<1>2. \A h \in Conn : AddPlayer(h) => h \in S
  BY <1>1, AddOld DEF Never, Old, TypeInv
<1>3. Held(S) /\ Named(S)
  BY <1>1 DEF Never
<1>4. Held(S)' /\ Named(S)'
  BY <1>2, <1>3, SetKept
<1>5. c \in Old'
  BY DEF Never, Old, NewOnce
<1> QED
  BY <1>1, <1>4, <1>5 DEF Never

(* Only a connection that was accepted gives its name to a player.         *)
Known == Held(Accepted) /\ Named(Accepted)

LEMMA KnownStays ==
  ASSUME TypeInv, IdThreads, GreetInv, Known, [Next]_vars
  PROVE  Known'
<1>1. PICK S : S = Accepted'
  OBVIOUS
<1>2. Accepted \subseteq S
  <2>1. UNCHANGED clients \/ \E c \in Conn : clients' = Append(clients, c)
    <3>1. \A t \in Thread : ServerStep(t) => UNCHANGED clients \/ \E c \in Conn : Accept(c)
      BY OnlyOwn DEF TypeInv, GreetInv
    <3> QED
      BY <3>1 DEF Accept, Next, HostStops, StopListening, vars, serverVars, threads, Connects,
         Hears, Plays, Fails
  <2>2. clients \in Seq(Conn)
    BY DEF TypeInv, TypeOK, ServerTypeOK
  <2> QED
    BY <1>1, <2>1, <2>2 DEF Accepted
<1>3. \A h \in Conn : AddPlayer(h) => h \in S
  BY <1>2 DEF AddPlayer, IdThreads
<1>4. Held(S) /\ Named(S)
  BY <1>2, HeldMore, NamedMore DEF Known
<1>5. Held(S)' /\ Named(S)'
  BY <1>3, <1>4, SetKept
<1> QED
  BY <1>1, <1>5 DEF Known, Held, Named, Spoken, Names

-----------------------------------------------------------------------------
(* What is on its way to a phone. *)

Among(s, kind) == \E i \in DOMAIN s : s[i].kind = kind

Has(c, kind) == Among(toClient[c], kind)

(* A refusal is no task: only the handler that refuses sends it.           *)
NoRefusal == \A t \in Thread : task[t].msg.kind # "GAME-STARTED"

LEMMA TaskMade ==
  /\ \A arg, after : /\ Task(Tell("SERVER-STOPPED", arg), after).msg.kind # "GAME-STARTED"
                     /\ Task(Tell("START", arg), after).msg.kind # "GAME-STARTED"
                     /\ Task(Tell("ID", arg), after).msg.kind # "GAME-STARTED"
                     /\ Task(Tell("ROOM-NAME", arg), after).msg.kind # "GAME-STARTED"
                     /\ Task(TellPodium("FINISHED", arg), after).msg.kind # "GAME-STARTED"
                     /\ Task(TellPodium("DEATHMATCH", arg), after).msg.kind # "GAME-STARTED"
  /\ NoTask.msg.kind # "GAME-STARTED" /\ PlayerList.msg.kind # "GAME-STARTED"
  /\ [NoTask EXCEPT !.next = 1].msg.kind # "GAME-STARTED"
  /\ [PlayerList EXCEPT !.after = "exit"].msg.kind # "GAME-STARTED"
BY TaskKind

LEMMA RefusalServer ==
  ASSUME TypeOK, NoRefusal, NEW t \in Thread, ServerStep(t)
  PROVE  NoRefusal'
<1>a. task \in [Thread -> SendTask]
  BY DEF TypeOK, ServerTypeOK
<1>1. ASSUME NEW x, x.msg.kind # "GAME-STARTED", task' = [task EXCEPT ![t] = x]
      PROVE  NoRefusal'
  BY <1>a, <1>1 DEF NoRefusal
<1>2. CASE UNCHANGED task
  BY <1>2 DEF NoRefusal
<1>3. CASE task' = [task EXCEPT ![t].next = @ + 1]
  BY <1>a, <1>3 DEF NoRefusal, SendTask
<1>4. CASE Throw(t)
  BY <1>1, <1>4, TaskMade DEF Throw
<1>5. CASE task' = [task EXCEPT ![t].msg = Filled(@), ![t].next = 1, ![t].len = Len(clients)]
  <2>1. Filled(task[t].msg).kind # "GAME-STARTED"
    BY <1>a, FilledKind DEF NoRefusal, SendTask
  <2> QED
    BY <1>a, <1>5, <2>1 DEF NoRefusal, SendTask
<1>6. CASE Broadcast(t)
  BY <1>1, <1>2, <1>3, <1>4, <1>5, <1>6, TaskMade DEF Broadcast, Open, IteratorFails, SendNext,
     SendFails, JoinReturns, Done
<1>7. CASE t = Acceptor /\ AcceptThread
  <2>1. ASSUME task' = [task EXCEPT ![Acceptor] = Task(Tell("SERVER-STOPPED", None), "clear")]
        PROVE  NoRefusal'
    BY <1>1, <1>7, <2>1, TaskMade
  <2>2. CASE (\E c \in Conn : Accept(c)) \/ StopAccepting
    BY <1>2, <2>1, <2>2 DEF Accept, StopAccepting
  <2>3. CASE CloseClient \/ ClientClosed
    BY <1>2, <1>3, <1>7, <2>3 DEF CloseClient, ClientClosed
  <2>4. CASE AcceptorEnds \/ ClearPlayers
    BY <1>1, <1>7, <2>4, TaskMade DEF AcceptorEnds, ClearPlayers
  <2> QED
    BY <1>7, <2>2, <2>3, <2>4 DEF AcceptThread
<1>8. CASE HandlerThread(t)
  <2>1. CASE ReceiveReconnect(t)
    <3>1. ASSUME NEW x, task' = [task EXCEPT ![t] = Task(Tell("ID", x), "loop")]
          PROVE  NoRefusal'
      BY <1>1, <3>1, TaskMade
    <3> QED
      BY <1>2, <1>4, <2>1, <3>1 DEF ReceiveReconnect
  <2>2. CASE ReceiveRoomName(t) \/ Begin(t)
    <3>1. ASSUME NEW x, \/ task' = [task EXCEPT ![t] = Task(Tell("ROOM-NAME", x), "loop")]
                        \/ task' = [task EXCEPT ![t] = Task(Tell("START", x), "loop")]
          PROVE  NoRefusal'
      BY <1>1, <3>1, TaskMade
    <3> QED
      BY <2>2, <3>1 DEF ReceiveRoomName, Begin
  <2>3. CASE MainGameFind(t) \/ DeathMatchFind(t)
    <3>1. ASSUME NEW o, NEW after,
                 \/ task' = [task EXCEPT ![t] = Task(TellPodium("FINISHED", o), after)]
                 \/ task' = [task EXCEPT ![t] = Task(TellPodium("DEATHMATCH", o), after)]
          PROVE  NoRefusal'
      BY <1>1, <3>1, TaskMade
    <3>2. CASE task' = [task EXCEPT ![t] = PlayerList]
      BY <1>1, <3>2, TaskMade
    <3> QED
      BY <1>2, <1>4, <2>3, <3>1, <3>2 DEF MainGameFind, DeathMatchFind
  <2>4. CASE \/ Disconnected(t) \/ HandlerEnds(t) \/ Greet(t) \/ WelcomeBack(t)
             \/ ReceiveReady(t) \/ ReceiveStart(t) \/ GameEnds(t)
    BY <1>1, <1>2, <1>4, <2>4, TaskMade DEF Disconnected, HandlerEnds, Greet, WelcomeBack,
       ReceiveReady, ReceiveStart, GameEnds
  <2> QED
    BY <1>2, <1>8, <2>1, <2>2, <2>3, <2>4 DEF HandlerThread, Ignore, ReadFails, LeaveLoop,
       ReceiveConnect, AddPlayer, LookUpPlayer, DropHandler, AdoptPlayer, ReceiveFound,
       OpenDeathMatch
<1> QED
  BY <1>6, <1>7, <1>8 DEF ServerStep, ThreadStep

LEMMA AmongConcat ==
  ASSUME NEW S, NEW s \in Seq(S), NEW m \in Seq(S), NEW kind
  PROVE  Among(s \o m, kind) <=> Among(s, kind) \/ Among(m, kind)
<1> DEFINE x == s \o m
<1>1. /\ DOMAIN s = 1..Len(s) /\ DOMAIN m = 1..Len(m) /\ DOMAIN x = 1..Len(x)
      /\ Len(x) = Len(s) + Len(m) /\ Len(s) \in Nat /\ Len(m) \in Nat
      /\ \A i \in 1..Len(s) : x[i] = s[i]
      /\ \A i \in 1..Len(m) : x[Len(s) + i] = m[i]
  OBVIOUS
<1>2. \A i \in DOMAIN x : i \in DOMAIN s \/ \E j \in DOMAIN m : i = Len(s) + j
  <2> HIDE DEF x
  <2> SUFFICES ASSUME NEW i \in DOMAIN x, i \notin DOMAIN s
               PROVE  \E j \in DOMAIN m : i = Len(s) + j
    OBVIOUS
  <2>1. i - Len(s) \in DOMAIN m /\ i = Len(s) + (i - Len(s))
    BY <1>1
  <2> QED
    BY <2>1
<1>3. \A j \in DOMAIN m : Len(s) + j \in DOMAIN x
  <2> HIDE DEF x
  <2> QED
    BY <1>1
<1>4. \A i \in DOMAIN s : i \in DOMAIN x
  <2> HIDE DEF x
  <2> QED
    BY <1>1
<1> HIDE DEF x
<1>5. Among(x, kind) <=> Among(s, kind) \/ Among(m, kind)
  BY <1>1, <1>2, <1>3, <1>4 DEF Among
<1> QED
  BY <1>5 DEF x

LEMMA AmongOne ==
  ASSUME NEW m, NEW n, NEW kind
  PROVE  /\ Among(<<m>>, kind) <=> m.kind = kind
         /\ Among(<<m, n>>, kind) <=> m.kind = kind \/ n.kind = kind
BY DEF Among

LEMMA AmongTail ==
  ASSUME NEW S, NEW s \in Seq(S), s # <<>>, NEW kind
  PROVE  Among(s, kind) <=> Head(s).kind = kind \/ Among(Tail(s), kind)
<1>1. /\ Tail(s) \in Seq(S) /\ Head(s) \in S /\ s = <<Head(s)>> \o Tail(s) /\ <<Head(s)>> \in Seq(S)
  OBVIOUS
<1>2. Among(<<Head(s)>> \o Tail(s), kind) <=> Among(<<Head(s)>>, kind) \/ Among(Tail(s), kind)
  BY <1>1, AmongConcat
<1>3. Among(<<Head(s)>>, kind) <=> Head(s).kind = kind
  BY AmongOne
<1> QED
  BY <1>1, <1>2, <1>3

LEMMA AmongPrefix ==
  ASSUME NEW S, NEW s \in Seq(S), NEW x \in Prefixes(s), NEW kind, Among(x, kind)
  PROVE  Among(s, kind)
<1>1. PICK n \in 0..Len(s) : x = SubSeq(s, 1, n)
  BY DEF Prefixes
<1>2. Len(x) = n /\ \A i \in 1..n : x[i] = s[i]
  <2>1. n \in Int /\ 1 \in Int /\ \A i \in 1..n : s[i] \in S
    OBVIOUS
  <2> QED
    BY <1>1, <2>1, SubSeqProperties
<1>3. DOMAIN x = 1..n /\ DOMAIN s = 1..Len(s)
  BY <1>1
<1> QED
  BY <1>2, <1>3 DEF Among

LEMMA AmongWrite ==
  ASSUME TypeOK, NEW d \in Conn, NEW msgs \in Seq(Instruction), Write(d, msgs), NEW c \in Conn,
         NEW kind
  PROVE  Has(c, kind)' <=> Has(c, kind) \/ (c = d /\ Among(msgs, kind))
<1>1. toClient'[c] = IF c = d THEN toClient[c] \o msgs ELSE toClient[c]
  BY DEF Write, TypeOK, WireTypeOK
<1>2. toClient[c] \in Seq(Instruction)
  BY DEF TypeOK, WireTypeOK
<1> QED
  BY <1>1, <1>2, AmongConcat DEF Has

(* What is being sent to a phone is not lost on the way, and a refusal is  *)
(* sent only to a connection that asked for its player for the first time. *)
SaysPlain ==
  \A c \in Conn : /\ \A kind : Has(c, kind) => Has(c, kind)'
                  /\ Has(c, "GAME-STARTED")' => Has(c, "GAME-STARTED")

LEMMA PlainWrite ==
  ASSUME TypeOK, NEW d \in Conn, NEW msgs \in Seq(Instruction), Write(d, msgs),
         ~Among(msgs, "GAME-STARTED")
  PROVE  SaysPlain
BY AmongWrite DEF SaysPlain

LEMMA PlainReply ==
  ASSUME TypeOK, NEW h \in Conn, NEW m \in Instruction, NEW l, Reply(h, <<m>>, l),
         m.kind # "GAME-STARTED"
  PROVE  SaysPlain
<1>1. <<m>> \in Seq(Instruction) /\ ~Among(<<m>>, "GAME-STARTED")
  <2>1. <<m>> \in Seq(Instruction)
    OBVIOUS
  <2>2. Among(<<m>>, "GAME-STARTED") <=> m.kind = "GAME-STARTED"
    BY AmongOne
  <2> QED
    BY <2>1, <2>2
<1>2. CASE UNCHANGED toClient
  BY <1>2 DEF SaysPlain, Has
<1> QED
  BY <1>1, <1>2, PlainWrite DEF Reply

LEMMA SaidServer ==
  ASSUME TypeOK, GreetInv, NoRefusal, NEW t \in Thread, ServerStep(t)
  PROVE  \A c \in Conn : /\ \A kind : Has(c, kind) => Has(c, kind)'
                         /\ Has(c, "GAME-STARTED")'
                              => Has(c, "GAME-STARTED") \/ (New(c) /\ ~New(c)')
<1>a. /\ task \in [Thread -> SendTask] /\ clients \in Seq(Conn) /\ t \in Thread
      /\ roomName \in RoomNames /\ pc \in [Thread -> Location]
  BY DEF TypeOK, ServerTypeOK
<1> SUFFICES ASSUME ~SaysPlain
             PROVE  \A c \in Conn : /\ \A kind : Has(c, kind) => Has(c, kind)'
                                    /\ Has(c, "GAME-STARTED")'
                                         => Has(c, "GAME-STARTED") \/ (New(c) /\ ~New(c)')
  BY DEF SaysPlain
<1>1. UNCHANGED toClient => SaysPlain
  BY DEF SaysPlain, Has
<1>2. CASE Broadcast(t)
  <2>1. CASE SendNext(t)
    <3>1. clients[task[t].next] \in Conn /\ task[t].msg \in Instruction
      BY <1>a, <2>1 DEF SendNext, Sending, SendTask
    <3>2. <<task[t].msg>> \in Seq(Instruction) /\ ~Among(<<task[t].msg>>, "GAME-STARTED")
      <4>1. <<task[t].msg>> \in Seq(Instruction)
        BY <3>1, Single
      <4>2. Among(<<task[t].msg>>, "GAME-STARTED") <=> task[t].msg.kind = "GAME-STARTED"
        BY AmongOne
      <4> QED
        BY <1>a, <4>1, <4>2 DEF NoRefusal
    <3> QED
      BY <2>1, <3>1, <3>2, PlainWrite DEF SendNext
  <2> QED
    BY <1>1, <1>2, <2>1 DEF Broadcast, Open, IteratorFails, SendFails, JoinReturns, Done, wire
<1>3. CASE t = Acceptor /\ AcceptThread
  BY <1>1, <1>3 DEF AcceptThread, Accept, StopAccepting, CloseClient, ClientClosed,
     AcceptorEnds, ClearPlayers, wire
<1>4. CASE t \in Conn /\ Greet(t)
  <2> DEFINE msgs == <<Tell("ID", t), Tell("ROOM-NAME", roomName)>>
  <2>1. Tell("ID", t) \in Instruction /\ Tell("ROOM-NAME", roomName) \in Instruction
    BY <1>4, <1>a, TellType, TellIdType DEF InstructionKind
  <2>2. msgs \in Seq(Instruction)
    BY <2>1
  <2>3. ~Among(msgs, "GAME-STARTED")
    <3>1. Among(msgs, "GAME-STARTED") <=> \/ Tell("ID", t).kind = "GAME-STARTED"
                                          \/ Tell("ROOM-NAME", roomName).kind = "GAME-STARTED"
      BY AmongOne
    <3> QED
      BY <3>1, TaskKind
  <2> HIDE DEF msgs
  <2>4. Write(t, msgs) \/ UNCHANGED toClient
    BY <1>4 DEF Greet, Reply, msgs
  <2> QED
    BY <1>1, <1>4, <2>2, <2>3, <2>4, PlainWrite
<1>5. CASE t \in Conn /\ (WelcomeBack(t) \/ ReceiveStart(t))
  <2>1. task[t].msg \in Instruction /\ task[t].msg.kind # "GAME-STARTED"
    BY <1>a DEF SendTask, NoRefusal
  <2>2. Tell("NOTREADY", None) \in Instruction /\ Tell("NOTREADY", None).kind # "GAME-STARTED"
    BY TellType, TaskKind DEF InstructionKind
  <2> QED
    BY <1>1, <1>5, <2>1, <2>2, PlainReply DEF WelcomeBack, ReceiveStart
<1>6. CASE t \in Conn /\ (ReceiveConnect(t) \/ ReceiveReconnect(t))
  <2>1. PICK l : l = Back(t) /\ Reply(t, <<Tell("GAME-STARTED", None)>>, l)
    BY <1>1, <1>6 DEF ReceiveConnect, ReceiveReconnect
  <2>2. New(t) /\ toServer[t] # <<>> /\ toServer'[t] = Tail(toServer[t])
    BY <1>6 DEF ReceiveConnect, ReceiveReconnect, Take, New, Hello, Greeting, TypeOK, WireTypeOK
  <2>3. ~Hello(t)'
    BY <1>6, <2>2, TailGreets DEF Hello, GreetInv, PlainTail, TypeOK, WireTypeOK
  <2>4. pc'[t] \notin Entering /\ link[t] # "none" /\ link'[t] # "none"
    <3>1. pc[t] = "read"
      BY <1>6 DEF ReceiveConnect, ReceiveReconnect, Take
    <3>2. link[t] # "none"
      BY <1>6, <3>1 DEF GreetInv, Unopened
    <3> QED
      BY <1>6, <2>1, <3>2, BackFrom, QuietReply
  <2>5. ~New(t)'
    BY <2>3, <2>4 DEF New
  <2>6. <<Tell("GAME-STARTED", None)>> \in Seq(Instruction)
    BY TellType, Single DEF InstructionKind
  <2>7. Write(t, <<Tell("GAME-STARTED", None)>>)
    BY <1>1, <2>1 DEF Reply
  <2> QED
    BY <1>6, <2>2, <2>5, <2>6, <2>7, AmongWrite
<1>7. CASE t \in Conn /\ HandlerThread(t)
  BY <1>1, <1>4, <1>5, <1>6, <1>7 DEF HandlerThread, Ignore, ReadFails, LeaveLoop,
     Disconnected, HandlerEnds, AddPlayer, LookUpPlayer, DropHandler, AdoptPlayer, ReceiveReady,
     Begin, ReceiveRoomName, ReceiveFound, DeathMatchFind, MainGameFind, OpenDeathMatch,
     GameEnds, wire
<1> QED
  BY <1>2, <1>3, <1>7 DEF ServerStep, ThreadStep

(* A phone reads its messages in order.  It can lose one only with the     *)
(* connection, or behind a refusal, which is not closed by a newline; and  *)
(* when it hears that the server stops, it leaves.                         *)
Heard(p, c) ==
  /\ \A kind : Has(c, kind)' => Has(c, kind)
  /\ \A kind : Has(c, kind) =>
       \/ Has(c, kind)' \/ Has(c, "GAME-STARTED")
       \/ ~Attached(c)' \/ link'[c] = "rst"
       \/ c = Sock(p) /\ Hear(p, kind) /\ kind # "SERVER-STOPPED"

LEMMA HeardPhone ==
  ASSUME TypeInv, NEW p \in Phones, Connects(p) \/ Hears(p) \/ Plays(p) \/ Fails(p)
  PROVE  \A c \in Conn : Heard(p, c)
<1>a. /\ toClient \in [Conn -> Seq(Instruction)] /\ link \in [Conn -> LinkState]
      /\ stage \in [Phones -> Stage]
  BY DEF TypeInv, TypeOK, WireTypeOK, PhoneTypeOK
<1>1. CASE UNCHANGED toClient
  BY <1>1 DEF Heard, Has
<1>2. ASSUME toClient' = [toClient EXCEPT ![Sock(p)] = <<>>], stage'[p] # "run"
      PROVE  \A c \in Conn : Heard(p, c)
  <2> SUFFICES ASSUME NEW c \in Conn PROVE Heard(p, c)
    OBVIOUS
  <2>1. CASE c # Sock(p)
    <3>1. toClient'[c] = toClient[c]
      BY <1>2, <2>1, <1>a
    <3> QED
      BY <3>1 DEF Heard, Has
  <2>2. CASE c = Sock(p)
    <3>1. toClient'[c] = <<>> /\ ~Attached(c)'
      BY <1>2, <2>2, <1>a DEF Attached, Online, Owner, Sock
    <3>2. \A kind : ~Among(<<>>, kind)
      BY DEF Among
    <3> QED
      BY <3>1, <3>2 DEF Heard, Has
  <2> QED
    BY <2>1, <2>2
<1>3. ASSUME NEW unread, NetworkError(p, unread) PROVE \A c \in Conn : Heard(p, c)
  BY <1>2, <1>3, <1>a DEF NetworkError
<1>4. CASE HearStopped(p) \/ PhoneKilled(p)
  BY <1>2, <1>4, <1>a DEF HearStopped, PhoneKilled
<1>5. ASSUME NEW kind \in InstructionKind \ {"SERVER-STOPPED"}, Hear(p, kind), Consume(p)
      PROVE  \A c \in Conn : Heard(p, c)
  <2> SUFFICES ASSUME NEW c \in Conn PROVE Heard(p, c)
    OBVIOUS
  <2>1. CASE c # Sock(p)
    <3>1. toClient'[c] = toClient[c]
      BY <1>5, <2>1, <1>a DEF Consume
    <3> QED
      BY <3>1 DEF Heard, Has
  <2>2. CASE c = Sock(p)
    <3>1. /\ toClient[c] # <<>> /\ Head(toClient[c]).kind = kind /\ kind # "SERVER-STOPPED"
          /\ toClient'[c] = Tail(toClient[c])
      BY <1>5, <2>2, <1>a DEF Hear, Consume, Inbox
    <3>2. \A k : Among(toClient[c], k) <=> Head(toClient[c]).kind = k \/ Among(Tail(toClient[c]), k)
      BY <1>a, <3>1, AmongTail
    <3> QED
      BY <1>5, <2>2, <3>1, <3>2 DEF Heard, Has
  <2> QED
    BY <2>1, <2>2
<1>6. CASE HearRefusal(p)
  <2> SUFFICES ASSUME NEW c \in Conn PROVE Heard(p, c)
    OBVIOUS
  <2>1. CASE c # Sock(p)
    <3>1. toClient'[c] = toClient[c]
      BY <1>6, <2>1, <1>a DEF HearRefusal
    <3> QED
      BY <3>1 DEF Heard, Has
  <2>2. CASE c = Sock(p)
    <3> DEFINE s == toClient[c]
               r == Tail(s)
    <3>1. /\ s \in Seq(Instruction) /\ s # <<>> /\ Len(s) > 1 /\ Head(s).kind = "GAME-STARTED"
          /\ toClient'[c] = Tail(Tail(s))
      BY <1>6, <2>2, <1>a DEF Hear, HearRefusal, Inbox
    <3> HIDE DEF s
    <3>2. r \in Seq(Instruction) /\ r # <<>>
      BY <3>1
    <3>3. \A k : Among(s, k) <=> Head(s).kind = k \/ Among(r, k)
      BY <3>1, AmongTail
    <3> HIDE DEF r
    <3>4. \A k : Among(r, k) <=> Head(r).kind = k \/ Among(Tail(r), k)
      BY <3>2, AmongTail
    <3> QED
      BY <3>1, <3>3, <3>4 DEF Heard, Has, s, r
  <2> QED
    BY <2>1, <2>2
<1>7. CASE LinkReset(p)
  <2> SUFFICES ASSUME NEW c \in Conn PROVE Heard(p, c)
    OBVIOUS
  <2>1. CASE c # Sock(p)
    <3>1. toClient'[c] = toClient[c]
      BY <1>7, <2>1, <1>a DEF LinkReset
    <3> QED
      BY <3>1 DEF Heard, Has
  <2>2. CASE c = Sock(p)
    <3>1. toClient'[c] \in Prefixes(toClient[c]) /\ link'[c] = "rst"
      BY <1>7, <2>2, <1>a DEF LinkReset
    <3>2. \A k : Among(toClient'[c], k) => Among(toClient[c], k)
      BY <1>a, <3>1, AmongPrefix
    <3> QED
      BY <3>1, <3>2 DEF Heard, Has
  <2> QED
    BY <2>1, <2>2
<1>8. CASE Hears(p)
  <2>1. InstructionKind \ {"SERVER-STOPPED"} =
          {"PLAYERS", "ID", "START", "FINISHED", "NOTREADY", "GAME-STARTED", "DEATHMATCH",
           "ROOM-NAME", "none"}
    BY DEF InstructionKind
  <2> QED
    BY <1>3, <1>4, <1>5, <1>6, <1>8, <2>1 DEF Hears, ClientThread, HearPlayers, HearId,
       HearStart, HearFinished, HearDeathMatch, HearRoomName, HearNotReady, Disconnection
<1> QED
  BY <1>1, <1>4, <1>7, <1>8 DEF Connects, ConnectServer, Reconnect, OpenSocket, Plays, Player,
     ToggleReady, StartGame, SendRoomName, SetFound, Fails, Failure

-----------------------------------------------------------------------------
(* A phone that has not been told and has not lost its connection is       *)
(* served: its handler does not stop before the room closes, unless it     *)
(* takes the process with it.                                              *)
Working(c) ==
  /\ link[c] = "up" /\ running[c]
  /\ pc[c] = "final" \/ task[c].after = "exit" => c \in doomed

Hosted(c) ==
  Attached(c) => \/ link[c] = "rst"
                 \/ (Closing \/ crashed) /\ link[c] \in {"up", "closed"}
                 \/ Working(c)

(* Nothing has happened yet to a connection without a thread.              *)
Fresh == \A c \in Conn : pc[c] = "off" => running[c] /\ task[c].after # "exit"

(* The loop of a handler is ended by a failed write, or by the accept      *)
(* thread.                                                                 *)
LEMMA RunningKept ==
  ASSUME TypeOK, NEW t \in Thread, ServerStep(t)
  PROVE  /\ doomed \subseteq doomed'
         /\ \A c \in Conn : \/ running'[c] = running[c]
                            \/ c \in Accepted \cup {t} /\ (Closing \/ ~Writable(c))
<1>a. running \in [Conn -> BOOLEAN] /\ clients \in Seq(Conn) /\ task \in [Thread -> SendTask]
  BY DEF TypeOK, ServerTypeOK
<1>1. doomed \subseteq doomed'
  <2>1. Throw(t) => doomed \subseteq doomed'
    BY DEF Throw
  <2> QED
    BY <2>1 DEF ServerStep, ThreadStep, Broadcast, Open, IteratorFails, SendNext,
     SendFails, JoinReturns, Done, AcceptThread, Accept, StopAccepting, CloseClient,
     ClientClosed, AcceptorEnds, ClearPlayers, HandlerThread, Ignore, ReadFails, LeaveLoop,
     Disconnected, HandlerEnds, ReceiveConnect, AddPlayer, Greet, ReceiveReconnect, LookUpPlayer,
     DropHandler, AdoptPlayer, WelcomeBack, ReceiveReady, ReceiveStart, Begin, ReceiveRoomName,
     ReceiveFound, DeathMatchFind, MainGameFind, OpenDeathMatch, GameEnds
<1>2. CASE UNCHANGED running
  BY <1>1, <1>2
<1>3. CASE CloseClient \/ SendFails(t)
  BY <1>1, <1>3, <1>a DEF CloseClient, SendFails, Sending, Accepted, Closing
<1>4. ASSUME NEW msgs, NEW l, t \in Conn, Reply(t, msgs, l)
      PROVE  \A c \in Conn : \/ running'[c] = running[c]
                             \/ c \in Accepted \cup {t} /\ (Closing \/ ~Writable(c))
  BY <1>4, <1>a DEF Reply
<1>5. CASE t \in Conn /\ HandlerThread(t)
  BY <1>1, <1>2, <1>4, <1>5 DEF HandlerThread, Ignore, ReadFails, LeaveLoop,
     Disconnected, HandlerEnds, ReceiveConnect, AddPlayer, Greet, ReceiveReconnect, LookUpPlayer,
     DropHandler, AdoptPlayer, WelcomeBack, ReceiveReady, ReceiveStart, Begin, ReceiveRoomName,
     ReceiveFound, DeathMatchFind, MainGameFind, OpenDeathMatch, GameEnds
<1> QED
  BY <1>2, <1>3, <1>5 DEF ServerStep, ThreadStep, Broadcast, Open, IteratorFails, SendNext,
     JoinReturns, Done, AcceptThread, Accept, StopAccepting, ClientClosed, AcceptorEnds,
     ClearPlayers

(* A handler that works goes on working.                                   *)
LEMMA WorkingOwn ==
  ASSUME TypeOK, NEW h \in Conn, ServerStep(h), Working(h)
  PROVE  \/ pc'[h] = "final" \/ task'[h].after = "exit" => h \in doomed'
         \/ crashed'
<1>a. /\ pc \in [Thread -> Location] /\ task \in [Thread -> SendTask]
      /\ h \in Thread /\ h # Acceptor /\ link[h] = "up" /\ Writable(h)
      /\ Back(h) = "read" /\ doomed \in SUBSET Thread
  BY ServerAssumption DEF TypeOK, ServerTypeOK, Working, Writable, Back, Thread
<1>b. doomed \subseteq doomed'
  BY <1>a, RunningKept
<1> DEFINE Goal == \/ pc'[h] = "final" \/ task'[h].after = "exit" => h \in doomed'
                   \/ crashed'
<1>c. CASE h \in doomed
  BY <1>b, <1>c
<1>d. ASSUME Throw(h) PROVE Goal
  BY <1>a, <1>d, TaskAfter DEF Throw, Goto
<1>e. ASSUME h \notin doomed, NEW msgs, NEW l, l # "final", Reply(h, msgs, l) PROVE pc'[h] # "final"
  BY <1>a, <1>e DEF Reply, Goto
<1>f. ASSUME h \notin doomed PROVE task[h].after # "exit" /\ pc[h] # "final"
  BY <1>f DEF Working
<1>1. CASE Broadcast(h) /\ h \notin doomed
  <2>1. CASE Throw(h)
    BY <1>d, <2>1
  <2>2. CASE ~Throw(h)
    <3>1. pc'[h] # "final"
      BY <1>1, <1>a, <2>2 DEF Broadcast, Open, IteratorFails, SendNext, SendFails, JoinReturns,
         Done, Sending, Goto
    <3>2. task'[h].after # "exit"
      BY <1>1, <1>a, <1>f, <2>2, VerdictBroadcast
    <3> QED
      BY <3>1, <3>2
  <2> QED
    BY <2>1, <2>2
<1>2. CASE HandlerThread(h) /\ h \notin doomed
  <2>1. ASSUME NEW x, x.after # "exit", task' = [task EXCEPT ![h] = x] PROVE task'[h].after # "exit"
    BY <1>a, <2>1
  <2>2. \A m, after : after # "exit" => Task(m, after).after # "exit"
    BY TaskAfter
  <2>3. NoTask.after # "exit" /\ PlayerList.after # "exit"
    BY TaskAfter
  <2>4. CASE ReceiveConnect(h) \/ ReceiveReconnect(h) \/ ReceiveStart(h)
    <3>1. CASE Throw(h)
      BY <1>d, <3>1
    <3>2. CASE ~Throw(h)
      <4>1. pc'[h] # "final"
        BY <1>2, <1>a, <1>e, <2>4, <3>2 DEF ReceiveConnect, ReceiveReconnect, ReceiveStart, Goto
      <4>2. task'[h].after # "exit"
        BY <1>2, <1>a, <1>f, <2>2, <2>4, <3>2 DEF ReceiveConnect, ReceiveReconnect, ReceiveStart
      <4> QED
        BY <4>1, <4>2
    <3> QED
      BY <3>1, <3>2
  <2>5. CASE Greet(h) \/ WelcomeBack(h)
    <3>1. pc'[h] # "final"
      BY <1>2, <1>a, <1>e, <2>5 DEF Greet, WelcomeBack
    <3>2. task'[h].after # "exit"
      BY <1>a, <2>3, <2>5 DEF Greet, WelcomeBack
    <3> QED
      BY <3>1, <3>2
  <2>6. CASE DeathMatchFind(h) \/ MainGameFind(h)
    <3>1. CASE Throw(h)
      BY <1>d, <3>1
    <3>2. CASE ~Throw(h)
      <4>1. pc'[h] # "final"
        BY <1>a, <2>6, <3>2 DEF DeathMatchFind, MainGameFind, Goto
      <4>2. task'[h].after # "exit"
        BY <1>2, <1>a, <1>f, <2>2, <2>3, <2>6, <3>2 DEF DeathMatchFind, MainGameFind
      <4> QED
        BY <4>1, <4>2
    <3> QED
      BY <3>1, <3>2
  <2>7. CASE \/ Ignore(h) \/ AddPlayer(h) \/ LookUpPlayer(h) \/ DropHandler(h) \/ AdoptPlayer(h)
             \/ ReceiveFound(h) \/ OpenDeathMatch(h)
    BY <1>2, <1>a, <1>f, <2>7 DEF Ignore, AddPlayer, LookUpPlayer, DropHandler, AdoptPlayer,
       ReceiveFound, OpenDeathMatch, Goto
  <2>8. CASE ReceiveReady(h) \/ Begin(h) \/ ReceiveRoomName(h) \/ GameEnds(h)
    BY <1>a, <2>2, <2>3, <2>8 DEF ReceiveReady, Begin, ReceiveRoomName, GameEnds, Goto
  <2>9. CASE \/ ReadFails(h) \/ LeaveLoop(h) \/ Disconnected(h) \/ HandlerEnds(h)
    BY <1>2, <1>a, <1>f, <2>9 DEF ReadFails, LeaveLoop, Disconnected, HandlerEnds, AllSent,
       Working
  <2> QED
    BY <1>2, <2>4, <2>5, <2>6, <2>7, <2>8, <2>9 DEF HandlerThread
<1> QED
  BY <1>a, <1>c, <1>1, <1>2 DEF ServerStep, ThreadStep

LEMMA HostedServer ==
  ASSUME TypeOK, GreetInv, CloseInv, NEW t \in Thread, ServerStep(t), NEW c \in Conn, Hosted(c)
  PROVE  Hosted(c)'
<1>a. /\ link \in [Conn -> LinkState] /\ c \in Thread /\ Acceptor \notin Conn /\ ~crashed
      /\ Unopened
  BY ServerAssumption DEF TypeOK, WireTypeOK, Thread, ServerStep, GreetInv
<1>b. Attached(c)' <=> Attached(c)
  BY DEF ServerStep, phoneVars, Attached, Online, Sock
<1>c. Closing => Closing'
  BY <1>a, ClosingStays
<1>d. t = Acceptor /\ AcceptorEnds => Closing /\ Closing'
  BY <1>c DEF AcceptorEnds, Closing
<1>1. CASE ~Attached(c)
  BY <1>1, <1>b DEF Hosted
<1>2. CASE link[c] = "rst"
  <2>1. link'[c] = "rst"
    BY <1>2, <1>a, LinkServer, EndsLink DEF LinkStep, AcceptorEnds
  <2> QED
    BY <2>1 DEF Hosted
<1>3. CASE Closing /\ link[c] \in {"up", "closed"}
  <2>1. link'[c] \in {"up", "closed", "rst"}
    BY <1>3, <1>a, LinkServer, EndsLink DEF LinkStep, AcceptorEnds
  <2> QED
    BY <1>3, <1>c, <2>1 DEF Hosted
<1>4. CASE Working(c) /\ ~Closing
  <2>1. link[c] = "up" /\ Writable(c) /\ running'[c]
    BY <1>4, RunningKept DEF Working, Writable
  <2>2. \/ link'[c] = "up"
        \/ c = t /\ Ends(t) /\ (pc[t] = "final" \/ task[t].after = "exit")
    BY <1>4, <1>d, <2>1, LinkServer DEF LinkStep
  <2>3. CASE c = t /\ Ends(t) /\ (pc[t] = "final" \/ task[t].after = "exit")
    <3>1. crashed' /\ link'[c] \in {"closed", "rst"}
      BY <1>4, <2>3, EndsLink DEF Working
    <3> QED
      BY <3>1 DEF Hosted
  <2>4. CASE c = t /\ link'[c] = "up"
    <3>1. crashed' \/ Working(c)'
      BY <1>4, <2>1, <2>4, WorkingOwn DEF Working
    <3> QED
      BY <2>4, <3>1 DEF Hosted
  <2>5. CASE c # t /\ link'[c] = "up"
    <3>1. task'[c] = task[c] /\ pc'[c] \in {pc[c], "read"}
      BY <1>a, <2>5, OnlyOwn DEF Accept, TypeOK, ServerTypeOK
    <3> QED
      BY <1>4, <2>1, <2>5, <3>1, RunningKept DEF Hosted, Working
  <2> QED
    BY <2>2, <2>3, <2>4, <2>5
<1> QED
  BY <1>a, <1>1, <1>2, <1>3, <1>4 DEF Hosted, Working

LEMMA HostedPhone ==
  ASSUME TypeInv, GreetInv, Fresh, NEW p \in Phones,
         Connects(p) \/ Hears(p) \/ Plays(p) \/ Fails(p),
         NEW c \in Conn, Hosted(c)
  PROVE  Hosted(c)'
<1>1. UNCHANGED <<clients, running, pc, task, doomed, crashed>> /\ PhoneLink(p, c)
  BY LinkPhone DEF serverVars, threads
<1>2. CASE Opens(p, c)
  BY <1>1, <1>2 DEF Opens, Fresh, Hosted, Working
<1>3. CASE ~Opens(p, c)
  <2>1. Closing' <=> Closing
    BY <1>1 DEF Closing
  <2> QED
    BY <1>1, <1>3, <2>1 DEF PhoneLink, Hosted, Working
<1> QED
  BY <1>2, <1>3

LEMMA FreshServer ==
  ASSUME TypeOK, IdThreads, GreetInv, CloseInv, Fresh, NEW t \in Thread, ServerStep(t)
  PROVE  Fresh'
<1> SUFFICES ASSUME NEW c \in Conn, pc'[c] = "off"
             PROVE  running'[c] /\ task'[c].after # "exit"
  BY DEF Fresh
<1>a. Unopened /\ pc \in [Thread -> Location] /\ Acceptor \notin Conn /\ Conn \subseteq Thread
  BY ServerAssumption DEF GreetInv, TypeOK, ServerTypeOK, Thread
<1>1. c # t /\ pc[c] = "off" /\ task'[c] = task[c]
  BY <1>a, OnlyOwn DEF Accept, TypeOK, ServerTypeOK
<1>2. c \notin Accepted
  BY <1>1 DEF CloseInv, Served
<1>3. running'[c] = running[c]
  BY <1>1, <1>2, RunningKept
<1> QED
  BY <1>1, <1>3 DEF Fresh

-----------------------------------------------------------------------------
(* What a phone can still count on: it has been told, or it has no player  *)
(* and will have none, or it is no longer there to be told.                *)
Safe(c) ==
  Attached(c) /\ link[c] # "rst" => Has(c, "SERVER-STOPPED") \/ Never(c)

(* Whoever is refused never gets a player by this connection.              *)
Refused == \A c \in Conn : Has(c, "GAME-STARTED") => Never(c)

LEMMA RefusedServer ==
  ASSUME TypeInv, IdThreads, JoinInv, NewOnce, NoRefusal, Refused, NEW t \in Thread, ServerStep(t)
  PROVE  Refused'
<1>a. [Next]_vars /\ GreetInv /\ TypeOK
  BY DEF Next, JoinInv, TypeInv
<1> SUFFICES ASSUME NEW c \in Conn, Has(c, "GAME-STARTED")'
             PROVE  Never(c)'
  BY DEF Refused
<1>1. CASE Has(c, "GAME-STARTED")
  BY <1>1, <1>a, NeverStays DEF Refused
<1>2. CASE ~Has(c, "GAME-STARTED")
  <2>1. New(c) /\ ~New(c)'
    BY <1>2, <1>a, SaidServer
  <2>2. PICK S : S = Conn \ {c}
    OBVIOUS
  <2>3. Old \subseteq S
    BY <2>1, <2>2 DEF Old
  <2>4. Held(S) /\ Named(S)
    BY <2>3, HeldMore, NamedMore DEF JoinInv, MapInv
  <2>5. \A h \in Conn : ~AddPlayer(h)
    BY <1>2 DEF AddPlayer, Has, wire
  <2>6. Held(S)' /\ Named(S)'
    BY <1>a, <2>4, <2>5, SetKept
  <2>7. c \in Old'
    BY <2>1 DEF Old
  <2> QED
    BY <2>2, <2>6, <2>7 DEF Never
<1> QED
  BY <1>1, <1>2

LEMMA RefusedPhone ==
  ASSUME TypeInv, IdThreads, GreetInv, NewOnce, Refused, NEW p \in Phones,
         Connects(p) \/ Hears(p) \/ Plays(p) \/ Fails(p)
  PROVE  Refused'
<1>1. [Next]_vars
  BY DEF Next
<1>2. \A c \in Conn : Has(c, "GAME-STARTED")' => Has(c, "GAME-STARTED")
  BY HeardPhone DEF Heard
<1> QED
  BY <1>1, <1>2, NeverStays DEF Refused

LEMMA SafeServer ==
  ASSUME TypeInv, IdThreads, GreetInv, NewOnce, NoRefusal, NEW t \in Thread, ServerStep(t),
         NEW c \in Conn, Safe(c)
  PROVE  Safe(c)'
<1>1. [Next]_vars /\ TypeOK
  BY DEF Next, TypeInv
<1>2. Attached(c)' => Attached(c)
  BY DEF ServerStep, phoneVars, Attached, Online, Sock
<1>3. link[c] = "rst" => link'[c] = "rst"
  <2>1. link \in [Conn -> LinkState]
    BY <1>1 DEF TypeOK, WireTypeOK
  <2> QED
    BY <1>1, <2>1, LinkServer, EndsLink DEF LinkStep, AcceptorEnds
<1>4. Has(c, "SERVER-STOPPED") => Has(c, "SERVER-STOPPED")'
  BY <1>1, SaidServer
<1> QED
  BY <1>1, <1>2, <1>3, <1>4, NeverStays DEF Safe

LEMMA SafePhone ==
  ASSUME TypeInv, IdThreads, GreetInv, NewOnce, Refused, NEW p \in Phones,
         Connects(p) \/ Hears(p) \/ Plays(p) \/ Fails(p),
         NEW c \in Conn, pc[c] # "off", Safe(c)
  PROVE  Safe(c)'
<1>1. [Next]_vars
  BY DEF Next
<1>2. PhoneLink(p, c) /\ Heard(p, c)
  BY LinkPhone, HeardPhone
<1>3. /\ Attached(c)' => Attached(c)
      /\ link[c] = "rst" => link'[c] = "rst"
  BY <1>2 DEF PhoneLink, Opens
<1> QED
  BY <1>1, <1>2, <1>3, NeverStays DEF Safe, Heard, Refused

-----------------------------------------------------------------------------
(* The clients behind the accept thread in its round are safe, and then    *)
(* they all are.                                                           *)
Behind(n) == \A i \in DOMAIN clients : i < n => Safe(clients[i])

SafeSent ==
  /\ pc[Acceptor] \in {"send", "join"} => Behind(task[Acceptor].next)
  /\ pc[Acceptor] = "join" => Behind(task[Acceptor].next + 1)
  /\ Closing => \A c \in Accepted : Safe(c)

ToldInv ==
  Known /\ NoRefusal /\ Refused /\ (\A c \in Conn : Hosted(c)) /\ Fresh /\ SafeSent

LEMMA SentServer ==
  ASSUME TypeInv, IdThreads, GreetInv, NewOnce, CloseInv, ToldInv, NEW t \in Thread, ServerStep(t)
  PROVE  SafeSent'
<1> USE DEF ToldInv
<1>a. /\ pc \in [Thread -> Location] /\ task \in [Thread -> SendTask]
      /\ clients \in Seq(Conn) /\ Acceptor \in Thread /\ Acceptor \notin Conn
      /\ TypeOK /\ Unopened /\ ~crashed /\ Accepted \subseteq Conn
  BY ServerAssumption DEF TypeInv, TypeOK, ServerTypeOK, Thread, GreetInv, ServerStep, Accepted
<1>b. \A c \in Conn : Safe(c) => Safe(c)'
  BY SafeServer
<1>c. \/ \E c \in Conn : t = Acceptor /\ Accept(c)
      \/ /\ UNCHANGED clients
         /\ \A u \in Thread \ {t} : pc'[u] = pc[u] /\ task'[u] = task[u]
  BY <1>a, OnlyOwn
<1>d. task[Acceptor].next \in Nat
      /\ \A i \in DOMAIN clients : i \in Nat \ {0} /\ clients[i] \in Conn
  BY <1>a DEF SendTask
<1>e. ASSUME NEW n \in Nat, UNCHANGED clients, Behind(n), NEW m,
             m = n + 1 => (n \in DOMAIN clients => Safe(clients[n])'), m \in {n, n + 1}
      PROVE  Behind(m)'
  BY <1>b, <1>d, <1>e DEF Behind
<1>1. CASE t # Acceptor
  <2>1. /\ UNCHANGED clients /\ Accepted' = Accepted /\ (Closing' <=> Closing)
        /\ pc'[Acceptor] = pc[Acceptor] /\ task'[Acceptor] = task[Acceptor]
    BY <1>1, <1>a, <1>c DEF Closing, Accepted
  <2> QED
    BY <2>1, <1>a, <1>b, <1>d DEF SafeSent, Behind
<1>2. CASE pc'[Acceptor] \notin {"send", "join", "close", "closing", "dead"}
  BY <1>2 DEF SafeSent, Closing
<1>3. CASE t = Acceptor /\ Closing
  <2>1. CloseClient \/ ClientClosed \/ AcceptorEnds
    BY <1>3, <1>a DEF Closing, ServerStep, ThreadStep, AcceptThread, Accept, StopAccepting,
       ClearPlayers, AllSent, Broadcast, Open, IteratorFails, SendNext, SendFails, JoinReturns,
       Done, Sending
  <2>2. pc'[Acceptor] \in {"close", "closing", "dead"} /\ UNCHANGED clients
    BY <2>1, <1>a DEF CloseClient, ClientClosed, AcceptorEnds, Goto
  <2> QED
    BY <1>3, <2>2, <1>a, <1>b DEF SafeSent, Accepted, Closing
<1>4. CASE ClearPlayers
  <2>1. /\ \A i \in DOMAIN clients : i < task[Acceptor].next
        /\ pc[Acceptor] = "send" /\ pc'[Acceptor] = "close" /\ UNCHANGED clients
    BY <1>4, <1>a, <1>d DEF ClearPlayers, AllSent, Goto
  <2> QED
    BY <2>1, <1>b, <1>d DEF SafeSent, Behind, Accepted, Closing
<1>5. CASE Broadcast(Acceptor)
  <2>a. /\ task[Acceptor].msg.kind = "SERVER-STOPPED" /\ task[Acceptor].after = "clear"
        /\ UNCHANGED clients /\ ~Closing
    BY <1>5 DEF CloseInv, AccTask, Announcing, Broadcast, Open, IteratorFails, SendNext, SendFails,
       JoinReturns, Done, Sending, AllSent, Closing
  <2>1. CASE Throw(Acceptor)
    BY <2>1, <2>a, <1>2, <1>a DEF Throw, Goto
  <2>2. CASE Open(Acceptor) /\ ~Throw(Acceptor)
    <3>1. pc'[Acceptor] = "send" /\ task'[Acceptor].next = 1
      BY <2>2, <1>a DEF Open, Goto, SendTask
    <3> QED
      BY <3>1, <2>a, <1>d DEF SafeSent, Behind, Closing
  <2>3. CASE SendNext(Acceptor)
    <3>1. PICK n, c : n = task[Acceptor].next /\ c = clients[n]
      OBVIOUS
    <3>2. /\ n \in DOMAIN clients /\ c \in Conn /\ n \in Nat /\ pc'[Acceptor] = "send"
          /\ task'[Acceptor].next = n + 1 /\ pc[Acceptor] = "send"
      BY <2>3, <3>1, <1>a, <1>d DEF SendNext, Sending, SendTask
    <3>3. Has(c, "SERVER-STOPPED")'
      <4>1. <<task[Acceptor].msg>> \in Seq(Instruction)
        BY <1>a, Single DEF SendTask
      <4>2. Among(<<task[Acceptor].msg>>, "SERVER-STOPPED")
        BY <2>a, AmongOne
      <4>3. Write(c, <<task[Acceptor].msg>>)
        BY <2>3, <3>1 DEF SendNext
      <4> QED
        BY <3>2, <4>1, <4>2, <4>3, <1>a, AmongWrite
    <3>4. Safe(clients[n])'
      BY <3>1, <3>3, <2>a DEF Safe
    <3> QED
      BY <3>1, <3>2, <3>4, <2>a, <1>e DEF SafeSent, Closing
  <2>4. CASE SendFails(Acceptor)
    <3>1. PICK n, c : n = task[Acceptor].next /\ c = clients[n]
      OBVIOUS
    <3>2. /\ n \in DOMAIN clients /\ c \in Conn /\ n \in Nat /\ pc'[Acceptor] = "join"
          /\ task'[Acceptor].next = n /\ pc[Acceptor] = "send" /\ ~Writable(c)
      BY <2>4, <3>1, <1>a, <1>d DEF SendFails, Sending, SendTask, Goto
    <3>3. Safe(clients[n])'
      <4>1. Safe(c)
        BY <3>2, <2>a, <1>a DEF Hosted, Working, Writable, Safe
      <4>2. Safe(c)'
        BY <3>2, <4>1, <1>b
      <4> QED
        BY <3>1, <4>2, <2>a DEF Safe
    <3> QED
      BY <3>1, <3>2, <3>3, <2>a, <1>e DEF SafeSent, Closing
  <2>5. CASE JoinReturns(Acceptor)
    <3>1. /\ pc'[Acceptor] = "send" /\ pc[Acceptor] = "join"
          /\ task'[Acceptor].next = task[Acceptor].next + 1
      BY <2>5, <1>a DEF JoinReturns, Goto, SendTask
    <3> QED
      BY <3>1, <2>a, <1>d, <1>e DEF SafeSent, Closing
  <2> QED
    BY <1>5, <2>a, <2>1, <2>2, <2>3, <2>4, <2>5 DEF Broadcast, IteratorFails, Done, AllSent
<1>6. CASE t = Acceptor /\ ~Closing /\ AcceptThread /\ ~ClearPlayers
  <2>1. (\E c \in Conn : Accept(c)) \/ StopAccepting
    BY <1>6 DEF AcceptThread, CloseClient, ClientClosed, AcceptorEnds, Closing
  <2>2. pc'[Acceptor] \in {"accept", "open"}
    BY <2>1, <1>a DEF Accept, StopAccepting, Goto
  <2> QED
    BY <2>2, <1>2
<1> QED
  BY <1>1, <1>3, <1>4, <1>5, <1>6, <1>a DEF ServerStep, ThreadStep

LEMMA SentPhone ==
  ASSUME TypeInv, IdThreads, GreetInv, NewOnce, CloseInv, ToldInv, NEW p \in Phones,
         Connects(p) \/ Hears(p) \/ Plays(p) \/ Fails(p)
  PROVE  SafeSent'
<1>1. UNCHANGED <<clients, pc, task>>
  BY LinkPhone DEF serverVars, threads
<1>2. Accepted \subseteq Conn /\ clients \in Seq(Conn)
  BY DEF TypeInv, TypeOK, ServerTypeOK, Accepted
<1>3. \A c \in Accepted : Safe(c) => Safe(c)'
  BY <1>2, SafePhone DEF ToldInv, CloseInv, Served
<1> QED
  BY <1>1, <1>2, <1>3 DEF ToldInv, SafeSent, Behind, Accepted, Closing

LEMMA ToldInit == Init => ToldInv
<1> SUFFICES ASSUME Init PROVE ToldInv
  OBVIOUS
<1>1. /\ \A c \in Conn : pc[c] = "off" /\ players[c] = None /\ running[c] /\ link[c] = "none"
      /\ pc[Acceptor] = "accept" /\ clients = <<>>
      /\ toClient = [c \in Conn |-> <<>>] /\ \A c \in Conn : toClient[c] = <<>>
      /\ \A t \in Thread : task[t] = NoTask /\ ref[t] = None
      /\ \A p \in Phones : myId[p] = None /\ stage[p] = "home"
  BY ServerAssumption DEF Init, WireInit, ServerInit, PhoneInit, Thread
<1>2. Known
  <2>1. PICK S : S = Accepted
    OBVIOUS
  <2>2. <<>> \in Seq(Names(S))
    OBVIOUS
  <2>3. toClient \in [Conn -> Seq(Names(S))]
    BY <1>1, <2>2, Zenon
  <2>4. Named(S)
    BY <1>1, <2>3, NamesTell DEF Named, Spoken
  <2>5. Held(S)
    BY <1>1 DEF Held
  <2> QED
    BY <2>1, <2>4, <2>5 DEF Known
<1>3. NoRefusal
  BY <1>1, TaskMade DEF NoRefusal
<1>4. Refused /\ SafeSent
  BY <1>1 DEF Refused, Has, Among, SafeSent, Closing
<1>5. \A c \in Conn : Hosted(c)
  BY <1>1 DEF Hosted, Attached, Online, Owner, Conn
<1>6. Fresh
  BY <1>1, TaskAfter DEF Fresh, Thread
<1> QED
  BY <1>2, <1>3, <1>4, <1>5, <1>6 DEF ToldInv

LEMMA ToldNext ==
  ASSUME TypeInv, IdInv, JoinInv, CloseInv, ToldInv, [Next]_vars
  PROVE  ToldInv'
<1> USE DEF ToldInv
<1>a. TypeOK /\ IdThreads /\ GreetInv /\ NewOnce
  BY GreetNext DEF TypeInv, IdInv, IdServer, JoinInv
<1>1. Known'
  BY <1>a, KnownStays
<1>2. ASSUME NEW t \in Thread, ServerStep(t) PROVE ToldInv'
  <2>1. NoRefusal' /\ Refused'
    BY <1>2, <1>a, RefusalServer, RefusedServer
  <2>2. (\A c \in Conn : Hosted(c))' /\ Fresh'
    BY <1>2, <1>a, HostedServer, FreshServer
  <2>3. SafeSent'
    BY <1>2, <1>a, SentServer
  <2> QED
    BY <1>1, <2>1, <2>2, <2>3
<1>3. ASSUME NEW p \in Phones, Connects(p) \/ Hears(p) \/ Plays(p) \/ Fails(p) PROVE ToldInv'
  <2>1. NoRefusal' /\ Fresh'
    <3>1. UNCHANGED <<pc, running, task>>
      BY <1>3, LinkPhone, <1>a DEF serverVars, threads
    <3> QED
      BY <3>1 DEF NoRefusal, Fresh
  <2>2. Refused' /\ (\A c \in Conn : Hosted(c))'
    BY <1>3, <1>a, RefusedPhone, HostedPhone
  <2>3. SafeSent'
    BY <1>3, <1>a, SentPhone
  <2> QED
    BY <1>1, <2>1, <2>2, <2>3
<1>4. CASE UNCHANGED <<wire, phoneVars, clients, running, pc, task, doomed, crashed>>
  <2> USE <1>4 DEF wire, phoneVars
  <2>1. NoRefusal' /\ Fresh'
    BY DEF NoRefusal, Fresh
  <2>2. Refused'
    BY <1>a, NeverStays DEF Refused, Has
  <2>3. \A c \in Conn : Hosted(c)'
    BY DEF Hosted, Working, Attached, Online, Sock, Closing
  <2>4. \A c \in Conn : Safe(c) => Safe(c)'
    BY <1>a, NeverStays DEF Safe, Attached, Online, Sock, Has
  <2>5. clients \in Seq(Conn)
    BY <1>a DEF TypeOK, ServerTypeOK
  <2>6. SafeSent'
    BY <2>4, <2>5 DEF SafeSent, Behind, Accepted, Closing
  <2> QED
    BY <1>1, <2>1, <2>2, <2>3, <2>6
<1> QED
  BY <1>2, <1>3, <1>4 DEF Next, HostStops, StopListening, vars, serverVars, threads

(* A player of a room that is being closed has been told before its        *)
(* connection is closed (ServerBase.java:105, Server.java:143), unless the *)
(* connection was reset: a phone that still has its connection is served   *)
(* until the round of the accept thread has passed it, and no refusal      *)
(* swallows the news, for who was refused is not a player.                 *)
THEOREM StopIsTold == Spec => []StopTold
<1>1. Init => TypeInv /\ IdInv /\ JoinInv /\ CloseInv /\ ToldInv
  BY InitType, IdInit, JoinInit, ClosingInit, ToldInit
<1>2. TypeInv /\ IdInv /\ JoinInv /\ CloseInv /\ ToldInv /\ [Next]_vars
        => TypeInv' /\ IdInv' /\ JoinInv' /\ CloseInv' /\ ToldInv'
  BY NextType, IdNext, JoinNext, ClosingNext, ToldNext DEF JoinInv
<1>3. TypeInv /\ ToldInv => StopTold
  <2> SUFFICES ASSUME TypeInv, ToldInv, Closing, NEW p \in Phones, Online(p),
                      myId[p] = Sock(p), link[Sock(p)] # "rst"
               PROVE  Has(Sock(p), "SERVER-STOPPED")
    BY DEF StopTold, Closing, Has, Among, Inbox
  <2>1. Sock(p) \in Conn /\ None \notin Conn
    BY SockType, ProtocolAssumption DEF Online
  <2>2. Sock(p) \in Accepted
    BY <2>1 DEF ToldInv, Known, Named
  <2>3. Attached(Sock(p))
    BY DEF Attached, Owner, Sock
  <2>4. ~Never(Sock(p))
    BY <2>1 DEF Never, Named
  <2> QED
    BY <2>1, <2>2, <2>3, <2>4 DEF ToldInv, SafeSent, Safe
<1> QED
  BY <1>1, <1>2, <1>3, PTL DEF Spec

=============================================================================
