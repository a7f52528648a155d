-------------------------- MODULE GameRoom_joining ---------------------------
(***************************************************************************)
(* How a connection comes by its player: proved for every number of        *)
(* phones, of connections and of finds.                                    *)
(*                                                                         *)
(* A connection greets the server once, with CONNECT or RECONNECT, and     *)
(* until its handler has dealt with the greeting it is new: it has no      *)
(* player, nobody knows an id of its name, and nothing was credited to     *)
(* one.  From this follow that a handler that moves a player takes it from *)
(* a connection that will never get another, so that no move loses one.    *)
(***************************************************************************)
EXTENDS GameRoom_lobby

Greeting == {"CONNECT", "RECONNECT"}

(* Where a handler is between its greeting and its player.                 *)
Entering == {"put", "lookup", "drop", "adopt"}

Hello(c) == toServer[c] # <<>> /\ Head(toServer[c]).kind \in Greeting

New(c) == link[c] = "none" \/ Hello(c) \/ pc[c] \in Entering

Old == {c \in Conn : ~New(c)}

(* The control of greetings: a connection is opened once, the greeting is  *)
(* its first message, and is read before anything else happens.            *)
NextTry ==
  \A p \in Phones : \A n \in 1..MaxTries :
    n > tries[p] => link[<<p, n>>] = "none"

GreetsFirst(s) == \A i \in 1..Len(s) : s[i].kind \in Greeting => i = 1

PlainTail == \A c \in Conn : GreetsFirst(toServer[c])

Unopened == \A c \in Conn : link[c] = "none" => pc[c] = "off"

HelloUnread == \A c \in Conn : Hello(c) => pc[c] \in {"off", "read"}

GreetInv == NextTry /\ PlainTail /\ Unopened /\ HelloUnread

-----------------------------------------------------------------------------
(* The steps of the server, by what they do to greetings and players. *)

Others(t) ==
  \A u \in Thread \ {t} : /\ pc'[u] = pc[u] /\ task'[u] = task[u]
                          /\ ref'[u] = ref[u] /\ who'[u] = who[u]

(* A message other than a greeting is read, or none.                       *)
ReadsPlain(t) ==
  \/ /\ toServer' = toServer
     /\ t \in Conn /\ pc[t] = "read" => toServer[t] = <<>>
  \/ /\ t \in Conn /\ toServer[t] # <<>> /\ ~Hello(t)
     /\ toServer' = [toServer EXCEPT ![t] = Tail(@)]

(* Most steps: no player moves, no score changes.                          *)
Quiet(t) ==
  /\ UNCHANGED <<players, clients, phoneVars>>
  /\ Others(t) /\ ReadsPlain(t)
  /\ ref'[t] \in {ref[t], None}
  /\ pc[t] \notin Entering \cup {"off"}
  /\ pc'[t] \notin Entering \cup {"off", "hello"}
  /\ \A id \in Conn : stats'[id].score = stats[id].score /\ stats'[id].found = stats[id].found
  /\ \A c \in Conn : link'[c] = "none" <=> link[c] = "none"

LEMMA BackFrom == \A h : Back(h) \notin Entering \cup {"off", "hello"}
BY DEF Back, Entering

(* Writing opens no connection.                                            *)
LEMMA WriteOpens ==
  ASSUME TypeOK, NEW c \in Conn, NEW msgs, Write(c, msgs) \/ UNCHANGED link
  PROVE  \A d \in Conn : link'[d] = "none" <=> link[d] = "none"
BY DEF Write, TypeOK, WireTypeOK

LEMMA QuietBroadcast ==
  ASSUME TypeOK, NEW t \in Thread, Broadcast(t), UNCHANGED phoneVars
  PROVE  Quiet(t)
<1> USE DEF Quiet, Others, ReadsPlain, Entering, wire, room
<1>a. /\ pc \in [Thread -> Location] /\ task \in [Thread -> SendTask]
      /\ who \in [Thread -> Conn \cup {None}] /\ clients \in Seq(Conn)
  BY DEF TypeOK, ServerTypeOK
<1>1. CASE Open(t)
  BY <1>1, <1>a DEF Open, Throw, Goto
<1>2. CASE IteratorFails(t)
  BY <1>2, <1>a DEF IteratorFails, Sending, Throw, Goto
<1>3. CASE SendNext(t)
  <2> DEFINE c == clients[task[t].next]
  <2>1. c \in Conn /\ Write(c, <<task[t].msg>>)
    BY <1>3, <1>a DEF SendNext, Sending
  <2> HIDE DEF c
  <2>2. \A d \in Conn : link'[d] = "none" <=> link[d] = "none"
    BY <2>1, WriteOpens
  <2> QED
    BY <1>3, <1>a, <2>2 DEF SendNext, Sending
<1>4. CASE SendFails(t)
  BY <1>4, <1>a DEF SendFails, Sending, Goto
<1>5. CASE JoinReturns(t)
  BY <1>5, <1>a DEF JoinReturns, Goto
<1>6. CASE Done(t)
  BY <1>6, <1>a, BackFrom DEF Done, AllSent, Goto
<1> QED
  BY <1>1, <1>2, <1>3, <1>4, <1>5, <1>6 DEF Broadcast

LEMMA QuietAccept ==
  ASSUME TypeOK, UNCHANGED phoneVars,
         StopAccepting \/ CloseClient \/ ClientClosed \/ AcceptorEnds
  PROVE  Quiet(Acceptor)
<1> USE DEF Quiet, Others, ReadsPlain, Entering, wire, room
<1>a. /\ pc \in [Thread -> Location] /\ task \in [Thread -> SendTask]
      /\ Acceptor \in Thread /\ Acceptor \notin Conn
  BY ServerAssumption DEF TypeOK, ServerTypeOK, Thread
<1>1. CASE StopAccepting
  BY <1>1, <1>a DEF StopAccepting, Goto
<1>2. CASE CloseClient
  BY <1>2, <1>a DEF CloseClient, Goto
<1>3. CASE ClientClosed
  BY <1>3, <1>a DEF ClientClosed, Goto
<1>4. CASE AcceptorEnds
  BY <1>4, <1>a DEF AcceptorEnds, Goto
<1> QED
  BY <1>1, <1>2, <1>3, <1>4

LEMMA QuietEnds ==
  ASSUME TypeOK, Unopened, NEW h \in Conn, pc[h] # "off", Ends(h)
  PROVE  \A c \in Conn : link'[c] = "none" <=> link[c] = "none"
BY DEF Ends, Unopened, TypeOK, WireTypeOK

LEMMA QuietReply ==
  ASSUME TypeOK, NEW h \in Conn, NEW msgs, NEW l,
         l \notin Entering \cup {"off", "hello"},
         Reply(h, msgs, l)
  PROVE  /\ \A c \in Conn : link'[c] = "none" <=> link[c] = "none"
         /\ pc'[h] \notin Entering \cup {"off", "hello"}
         /\ \A u \in Thread \ {h} : pc'[u] = pc[u] /\ who'[u] = who[u]
<1>1. h \in Thread
  BY DEF Thread
<1>2. \A c \in Conn : link'[c] = "none" <=> link[c] = "none"
  BY WriteOpens DEF Reply
<1> QED
  BY <1>1, <1>2 DEF Reply, Goto, Entering, TypeOK, ServerTypeOK

LEMMA QuietLoop ==
  ASSUME TypeOK, Unopened, NEW h \in Conn, UNCHANGED phoneVars,
         \/ Ignore(h) \/ ReadFails(h) \/ LeaveLoop(h)
         \/ Disconnected(h) \/ HandlerEnds(h)
  PROVE  Quiet(h)
<1> USE DEF Quiet, Others, ReadsPlain, Entering, wire, room
<1>a. /\ pc \in [Thread -> Location] /\ task \in [Thread -> SendTask]
      /\ h \in Thread
  BY DEF TypeOK, ServerTypeOK, Thread
<1>1. CASE Ignore(h)
  BY <1>1, <1>a, BackFrom DEF Ignore, Take, Hello, Greeting, Goto
<1>2. CASE ReadFails(h)
  BY <1>2, <1>a DEF ReadFails, Goto
<1>3. CASE LeaveLoop(h)
  BY <1>3, <1>a DEF LeaveLoop, Goto
<1>4. CASE Disconnected(h)
  <2>1. \A c \in Conn : link'[c] = "none" <=> link[c] = "none"
    BY <1>4, QuietEnds DEF Disconnected
  <2> QED
    BY <1>4, <1>a, <2>1 DEF Disconnected, Ends, Goto
<1>5. CASE HandlerEnds(h)
  <2>1. \A c \in Conn : link'[c] = "none" <=> link[c] = "none"
    BY <1>5, QuietEnds DEF HandlerEnds, AllSent
  <2> QED
    BY <1>5, <1>a, <2>1 DEF HandlerEnds, AllSent, Ends, Goto
<1> QED
  BY <1>1, <1>2, <1>3, <1>4, <1>5

LEMMA QuietMessages ==
  ASSUME TypeOK, NEW h \in Conn, UNCHANGED phoneVars,
         \/ Greet(h) \/ WelcomeBack(h) \/ ReceiveReady(h) \/ ReceiveStart(h)
         \/ Begin(h) \/ ReceiveRoomName(h)
  PROVE  Quiet(h)
<1> USE DEF Quiet, Others, ReadsPlain, Entering, wire, room
<1>a. /\ pc \in [Thread -> Location] /\ task \in [Thread -> SendTask]
      /\ h \in Thread
  BY DEF TypeOK, ServerTypeOK, Thread
<1>1. CASE Greet(h)
  <2>1. PICK msgs : Reply(h, msgs, "open") /\ pc[h] = "hello"
    BY <1>1 DEF Greet
  <2> QED
    BY <1>1, <1>a, <2>1, QuietReply DEF Greet
<1>2. CASE WelcomeBack(h)
  BY <1>2, <1>a, BackFrom, QuietReply DEF WelcomeBack
<1>3. CASE ReceiveReady(h)
  BY <1>3, <1>a DEF ReceiveReady, Take, Hello, Greeting, Goto, TypeOK, ServerTypeOK,
     PlayerInfo
<1>4. CASE ReceiveStart(h)
  <2>1. CASE Reply(h, <<Tell("NOTREADY", None)>>, Back(h)) /\ UNCHANGED <<task, doomed, crashed>>
    BY <1>4, <1>a, <2>1, BackFrom, QuietReply DEF ReceiveStart, Take, Hello, Greeting
  <2>2. CASE Throw(h) /\ UNCHANGED <<link, toClient, running, who>>
    BY <1>4, <1>a, <2>2 DEF ReceiveStart, Take, Hello, Greeting, Throw, Goto
  <2>3. CASE Goto(h, "begin") /\ UNCHANGED <<link, toClient, running, who, task, doomed, crashed>>
    BY <1>4, <1>a, <2>3 DEF ReceiveStart, Take, Hello, Greeting, Goto
  <2> QED
    BY <1>4, <2>1, <2>2, <2>3 DEF ReceiveStart
<1>5. CASE Begin(h)
  BY <1>5, <1>a DEF Begin, Goto
<1>6. CASE ReceiveRoomName(h)
  BY <1>6, <1>a DEF ReceiveRoomName, Take, Hello, Greeting, Goto
<1> QED
  BY <1>1, <1>2, <1>3, <1>4, <1>5, <1>6

LEMMA QuietFinds ==
  ASSUME TypeOK, NEW h \in Conn, UNCHANGED phoneVars,
         DeathMatchFind(h) \/ MainGameFind(h) \/ OpenDeathMatch(h) \/ GameEnds(h)
  PROVE  Quiet(h)
<1> USE DEF Quiet, Others, ReadsPlain, Entering, wire, room
<1>a. /\ pc \in [Thread -> Location] /\ task \in [Thread -> SendTask]
      /\ ref \in [Thread -> Conn \cup {None, Null}] /\ h \in Thread
  BY DEF TypeOK, ServerTypeOK, Thread
<1>1. CASE DeathMatchFind(h)
  BY <1>1, <1>a DEF DeathMatchFind, Throw, Goto
<1>2. CASE MainGameFind(h)
  BY <1>2, <1>a, BackFrom DEF MainGameFind, Throw, Goto
<1>3. CASE OpenDeathMatch(h)
  BY <1>3, <1>a DEF OpenDeathMatch, Goto
<1>4. CASE GameEnds(h)
  BY <1>4, <1>a, BackFrom DEF GameEnds, AllSent, Goto
<1> QED
  BY <1>1, <1>2, <1>3, <1>4

(* The rest: a connection is accepted, a player comes, moves, scores or    *)
(* goes.                                                                   *)
Enters(h) ==
  \/ ReceiveConnect(h) \/ AddPlayer(h)
  \/ ReceiveReconnect(h) \/ LookUpPlayer(h) \/ DropHandler(h) \/ AdoptPlayer(h)

LEMMA ServerSteps ==
  ASSUME TypeOK, Unopened, NEW t \in Thread, ServerStep(t)
  PROVE  \/ Quiet(t)
         \/ t \in Conn /\ (Enters(t) \/ ReceiveFound(t))
         \/ t = Acceptor /\ (ClearPlayers \/ \E c \in Conn : Accept(c))
<1>1. UNCHANGED phoneVars /\ ThreadStep(t)
  BY DEF ServerStep
<1>2. CASE t \in Conn /\ HandlerThread(t)
  BY <1>1, <1>2, QuietLoop, QuietMessages, QuietFinds DEF HandlerThread, Enters
<1>3. CASE t = Acceptor /\ AcceptThread
  BY <1>1, <1>3, QuietAccept DEF AcceptThread
<1>4. CASE Broadcast(t)
  BY <1>1, <1>4, QuietBroadcast
<1> QED
  BY <1>1, <1>2, <1>3, <1>4 DEF ThreadStep

-----------------------------------------------------------------------------
(* The steps of the phones: only a connection that is opened greets. *)

LEMMA AppendGreets ==
  ASSUME NEW s \in Seq(ClientMessage), GreetsFirst(s), NEW m \in ClientMessage,
         m.kind \notin Greeting
  PROVE  /\ GreetsFirst(Append(s, m))
         /\ Append(s, m)[1].kind \in Greeting => s # <<>> /\ s[1].kind \in Greeting
<1>1. /\ Len(Append(s, m)) = Len(s) + 1 /\ Len(s) \in Nat
      /\ \A i \in 1..Len(s) : Append(s, m)[i] = s[i]
      /\ Append(s, m)[Len(s) + 1] = m
  BY AppendProperties
<1> QED
  BY <1>1 DEF GreetsFirst

LEMMA TailGreets ==
  ASSUME NEW s \in Seq(ClientMessage), GreetsFirst(s), s # <<>>
  PROVE  /\ GreetsFirst(Tail(s))
         /\ Tail(s) # <<>> => Head(Tail(s)).kind \notin Greeting
<1>1. /\ Tail(s) \in Seq(ClientMessage)
      /\ Len(Tail(s)) = Len(s) - 1 /\ Len(s) \in Nat
      /\ \A i \in 1..Len(Tail(s)) : Tail(s)[i] = s[i + 1]
  BY HeadTailProperties
<1>2. \A i \in 1..Len(Tail(s)) : Tail(s)[i].kind \notin Greeting
  BY <1>1 DEF GreetsFirst
<1> HIDE DEF Greeting
<1>3. Tail(s) # <<>> => 1 \in 1..Len(Tail(s)) /\ Head(Tail(s)) = Tail(s)[1]
  BY <1>1
<1> QED
  BY <1>2, <1>3 DEF GreetsFirst

LEMMA PrefixGreets ==
  ASSUME NEW s \in Seq(ClientMessage), GreetsFirst(s), NEW x \in Prefixes(s)
  PROVE  /\ GreetsFirst(x)
         /\ x # <<>> => s # <<>> /\ Head(x) = Head(s)
<1>1. PICK n \in 0..Len(s) : x = SubSeq(s, 1, n)
  BY DEF Prefixes
<1>2. x \in Seq(ClientMessage) /\ Len(x) = n /\ \A i \in 1..n : x[i] = s[i]
  <2>1. n \in Int /\ 1 \in Int /\ \A i \in 1..n : s[i] \in ClientMessage
    OBVIOUS
  <2> QED
    BY <1>1, <2>1, SubSeqProperties
<1>3. GreetsFirst(x)
  BY <1>2 DEF GreetsFirst
<1>4. x # <<>> => s # <<>> /\ Head(x) = Head(s)
  BY <1>2
<1> QED
  BY <1>3, <1>4

(* What a phone does to one connection, but for opening it.                *)
Calm(c) ==
  /\ link'[c] = "none" <=> link[c] = "none"
  /\ \/ toServer'[c] = toServer[c]
     \/ \E m \in ClientMessage : /\ m.kind \notin Greeting
                                 /\ toServer'[c] = Append(toServer[c], m)
     \/ toServer'[c] \in Prefixes(toServer[c])

LEMMA CalmSend ==
  ASSUME TypeOK, NEW p \in Phones, NEW m \in ClientMessage, m.kind \notin Greeting,
         Send(p, m), UNCHANGED link
  PROVE  \A c \in Conn : Calm(c)
BY DEF Send, Calm, TypeOK, WireTypeOK

LEMMA CalmPhone ==
  ASSUME TypeInv, NEW p \in Phones, Hears(p) \/ Plays(p) \/ Fails(p)
  PROVE  UNCHANGED serverVars /\ UNCHANGED tries /\ \A c \in Conn : Calm(c)
<1> USE DEF TypeInv, TypeOK, WireTypeOK
<1>1. CASE Hears(p)
  <2>1. UNCHANGED <<toServer, tries>>
    BY <1>1 DEF Hears, ClientThread, HearPlayers, HearId, HearStart, HearFinished,
       HearDeathMatch, HearStopped, HearRoomName, HearNotReady, HearRefusal,
       Disconnection, phoneVars
  <2>2. ASSUME NEW unread, NetworkError(p, unread)
        PROVE  \A c \in Conn : link'[c] = "none" <=> link[c] = "none"
    BY <2>2 DEF NetworkError
  <2>3. \A c \in Conn : link'[c] = "none" <=> link[c] = "none"
    BY <1>1, <2>2 DEF Hears, ClientThread, HearPlayers, HearId, HearStart,
       HearFinished, HearDeathMatch, HearStopped, HearRoomName, HearNotReady,
       HearRefusal, Disconnection
  <2> QED
    BY <1>1, <2>1, <2>3 DEF Calm, Hears
<1>2. CASE Plays(p)
  <2>1. \A x : /\ Say("READY", x).kind \notin Greeting
               /\ Say("START", x).kind \notin Greeting
               /\ Say("ROOM-NAME", x).kind \notin Greeting
               /\ Say("ANAM-FOUND", x).kind \notin Greeting
    BY DEF Say, Greeting
  <2>2. PICK m \in ClientMessage : m.kind \notin Greeting /\ Send(p, m)
    BY <1>2, <2>1, SayType DEF Plays, Player, ToggleReady, StartGame, SendRoomName,
       SetFound
  <2>3. UNCHANGED <<link, tries>>
    BY <1>2 DEF Plays, Player, ToggleReady, StartGame, SendRoomName, SetFound
  <2>4. \A c \in Conn : Calm(c)
    BY <2>2, <2>3, CalmSend
  <2> QED
    BY <1>2, <2>3, <2>4 DEF Plays
<1>3. CASE Fails(p)
  BY <1>3 DEF Fails, Failure, LinkReset, PhoneKilled, Calm
<1> QED
  BY <1>1, <1>2, <1>3

-----------------------------------------------------------------------------
(* The control of greetings is kept, and no connection is new again. *)

NewOnce == \A c \in Conn : New(c)' => New(c)

(* It is enough to know of each connection what happened to its first      *)
(* message and where its thread went.                                      *)
LEMMA GreetServer ==
  ASSUME TypeOK, GreetInv, UNCHANGED phoneVars,
         \A c \in Conn :
           /\ link'[c] = "none" <=> link[c] = "none"
           /\ \/ toServer'[c] = toServer[c] /\ (pc'[c] = pc[c] \/ ~Hello(c))
              \/ toServer[c] # <<>> /\ toServer'[c] = Tail(toServer[c])
           /\ pc'[c] \in Entering => New(c)
           /\ pc[c] # "off" => pc'[c] # "off"
           /\ pc[c] = "off" => pc'[c] = "off"
  PROVE  GreetInv' /\ NewOnce
<1> USE DEF GreetInv, TypeOK, WireTypeOK
<1>1. NextTry'
  BY DEF NextTry, phoneVars, Conn
<1>2. PlainTail'
  BY TailGreets DEF PlainTail
<1>3. \A c \in Conn : Hello(c)' => Hello(c) /\ pc'[c] = pc[c]
  BY TailGreets DEF PlainTail, Hello
<1>4. HelloUnread'
  BY <1>3 DEF HelloUnread
<1>5. Unopened'
  BY DEF Unopened
<1>6. NewOnce
  BY <1>3 DEF NewOnce, New
<1> QED
  BY <1>1, <1>2, <1>4, <1>5, <1>6

LEMMA GreetSteps ==
  ASSUME TypeOK, GreetInv, IdThreads, NEW t \in Thread, ServerStep(t)
  PROVE  GreetInv' /\ NewOnce
<1> USE DEF GreetInv, wire, room
<1>a. /\ pc \in [Thread -> Location] /\ toServer \in [Conn -> Seq(ClientMessage)]
      /\ link \in [Conn -> LinkState]
      /\ Conn \subseteq Thread /\ Acceptor \notin Conn
  BY ServerAssumption DEF TypeOK, WireTypeOK, ServerTypeOK, Thread
<1>b. UNCHANGED phoneVars
  BY DEF ServerStep
<1>1. CASE Quiet(t)
  <2>1. pc[t] # "off" /\ pc'[t] \notin Entering \cup {"off"}
    BY <1>1 DEF Quiet
  <2>2. \A c \in Conn \ {t} : pc'[c] = pc[c] /\ toServer'[c] = toServer[c]
    BY <1>1, <1>a DEF Quiet, Others, ReadsPlain
  <2>3. t \in Conn => \/ toServer'[t] = toServer[t] /\ ~Hello(t)
                      \/ toServer[t] # <<>> /\ toServer'[t] = Tail(toServer[t])
    BY <1>1, <1>a, <2>1 DEF Quiet, ReadsPlain, HelloUnread, Hello
  <2> QED
    BY <1>1, <1>b, <2>1, <2>2, <2>3, GreetServer DEF Quiet, New
<1>2. CASE t \in Conn /\ ReceiveConnect(t)
  <2>1. pc[t] = "read" /\ Hello(t) /\ toServer' = [toServer EXCEPT ![t] = Tail(@)]
    BY <1>2 DEF ReceiveConnect, Take, Hello, Greeting
  <2>2. /\ \A c \in Conn : link'[c] = "none" <=> link[c] = "none"
        /\ pc'[t] # "off" /\ \A c \in Conn \ {t} : pc'[c] = pc[c]
    <3>1. CASE Goto(t, "put") /\ UNCHANGED link
      BY <1>2, <1>a, <3>1 DEF Goto
    <3>2. CASE Reply(t, <<Tell("GAME-STARTED", None)>>, Back(t))
      BY <1>2, <1>a, <3>2, BackFrom, QuietReply
    <3> QED
      BY <1>2, <3>1, <3>2 DEF ReceiveConnect
  <2> QED
    BY <1>2, <1>a, <1>b, <2>1, <2>2, GreetServer DEF New, Hello
<1>3. CASE t \in Conn /\ ReceiveReconnect(t)
  <2>1. pc[t] = "read" /\ Hello(t) /\ toServer' = [toServer EXCEPT ![t] = Tail(@)]
    BY <1>3 DEF ReceiveReconnect, Take, Hello, Greeting
  <2>2. /\ \A c \in Conn : link'[c] = "none" <=> link[c] = "none"
        /\ pc'[t] # "off" /\ \A c \in Conn \ {t} : pc'[c] = pc[c]
    <3>1. CASE (Goto(t, "lookup") \/ Throw(t)) /\ UNCHANGED link
      BY <1>3, <1>a, <3>1 DEF Goto, Throw
    <3>2. CASE Reply(t, <<Tell("GAME-STARTED", None)>>, Back(t))
      BY <1>3, <1>a, <3>2, BackFrom, QuietReply
    <3> QED
      BY <1>3, <3>1, <3>2 DEF ReceiveReconnect
  <2> QED
    BY <1>3, <1>a, <1>b, <2>1, <2>2, GreetServer DEF New, Hello
<1>4. CASE t \in Conn /\ (AddPlayer(t) \/ LookUpPlayer(t) \/ DropHandler(t) \/ AdoptPlayer(t))
  <2>1. /\ pc[t] \in Entering /\ pc'[t] # "off" /\ UNCHANGED <<link, toServer>>
        /\ \A c \in Conn \ {t} : pc'[c] = pc[c]
    BY <1>4, <1>a DEF AddPlayer, LookUpPlayer, DropHandler, AdoptPlayer, Goto, Entering
  <2>2. New(t) /\ ~Hello(t) /\ pc[t] # "off"
    BY <1>4, <2>1 DEF New, HelloUnread, Entering
  <2> QED
    BY <1>a, <1>b, <2>1, <2>2, GreetServer DEF New
<1>5. CASE t \in Conn /\ ReceiveFound(t)
  <2>1. /\ pc'[t] = "credited" /\ pc[t] = "read" /\ UNCHANGED link
        /\ \A c \in Conn \ {t} : pc'[c] = pc[c]
        /\ toServer[t] # <<>> /\ toServer' = [toServer EXCEPT ![t] = Tail(@)]
    BY <1>5, <1>a DEF ReceiveFound, Goto, Take
  <2> QED
    BY <1>a, <1>b, <2>1, GreetServer DEF New, Entering
<1>6. CASE ClearPlayers
  BY <1>6, <1>a, <1>b, GreetServer DEF ClearPlayers, Goto, New
<1>7. ASSUME NEW c \in Conn, Accept(c) PROVE GreetInv' /\ NewOnce
  <2>1. /\ UNCHANGED <<link, toServer, tries>> /\ link[c] # "none"
        /\ pc'[c] = "read" /\ \A d \in Conn \ {c} : pc'[d] = pc[d]
    BY <1>7, <1>a, <1>b DEF Accept, phoneVars
  <2>2. NewOnce
    BY <2>1 DEF NewOnce, New, Hello, Entering
  <2>3. NextTry' /\ PlainTail'
    BY <2>1 DEF NextTry, PlainTail
  <2>4. Unopened' /\ HelloUnread'
    BY <2>1 DEF Unopened, HelloUnread, Hello
  <2> QED
    BY <2>2, <2>3, <2>4
<1> QED
  BY <1>1, <1>2, <1>3, <1>4, <1>5, <1>6, <1>7, ServerSteps DEF Enters

LEMMA GreetPhones ==
  ASSUME TypeInv, GreetInv, NEW p \in Phones,
         Connects(p) \/ Hears(p) \/ Plays(p) \/ Fails(p)
  PROVE  GreetInv' /\ NewOnce
<1> USE DEF GreetInv
<1>a. /\ toServer \in [Conn -> Seq(ClientMessage)] /\ link \in [Conn -> LinkState]
      /\ tries \in [Phones -> 0..MaxTries] /\ MaxTries \in Nat
  BY ProtocolAssumption DEF TypeInv, TypeOK, WireTypeOK, PhoneTypeOK
<1>1. CASE Hears(p) \/ Plays(p) \/ Fails(p)
  <2>1. UNCHANGED serverVars /\ UNCHANGED tries /\ \A c \in Conn : Calm(c)
    BY <1>1, CalmPhone
  <2>2. pc' = pc
    BY <2>1 DEF serverVars, threads
  <2>3. \A c \in Conn : GreetsFirst(toServer'[c]) /\ (Hello(c)' => Hello(c))
    <3> SUFFICES ASSUME NEW c \in Conn
                 PROVE  GreetsFirst(toServer'[c]) /\ (Hello(c)' => Hello(c))
      OBVIOUS
    <3>1. Calm(c) /\ GreetsFirst(toServer[c]) /\ toServer[c] \in Seq(ClientMessage)
      BY <1>a, <2>1 DEF PlainTail
    <3>2. CASE toServer'[c] = toServer[c]
      BY <3>1, <3>2 DEF Hello
    <3>3. ASSUME NEW m \in ClientMessage, m.kind \notin Greeting,
                 toServer'[c] = Append(toServer[c], m)
          PROVE  GreetsFirst(toServer'[c]) /\ (Hello(c)' => Hello(c))
      <4>1. Head(toServer'[c]) = toServer'[c][1] /\ (toServer[c] # <<>> => Head(toServer[c]) = toServer[c][1])
        BY <3>1, <3>3, AppendProperties
      <4> QED
        BY <3>1, <3>3, <4>1, AppendGreets DEF Hello
    <3>4. CASE toServer'[c] \in Prefixes(toServer[c])
      BY <3>1, <3>4, PrefixGreets DEF Hello
    <3> QED
      BY <3>1, <3>2, <3>3, <3>4 DEF Calm
  <2>4. NextTry'
    BY <2>1 DEF NextTry, Calm, Conn
  <2>5. Unopened' /\ HelloUnread' /\ NewOnce
    BY <2>1, <2>2, <2>3 DEF Unopened, HelloUnread, NewOnce, New, Calm
  <2> QED
    BY <2>3, <2>4, <2>5 DEF PlainTail
<1>2. CASE Connects(p)
  <2>1. PICK hello : OpenSocket(p, hello) /\ UNCHANGED serverVars
    BY <1>2 DEF Connects, ConnectServer, Reconnect
  <2> DEFINE n == NewSock(p)
  <2>2. /\ n \in Conn /\ n = <<p, tries[p] + 1>> /\ link[n] = "none" /\ pc[n] = "off"
        /\ tries[p] + 1 \in 1..MaxTries
    BY <1>a, <2>1 DEF OpenSocket, NewSock, Conn, NextTry, Unopened
  <2>3. /\ pc' = pc /\ toServer'[n] = <<hello>> /\ link'[n] = "up"
        /\ \A c \in Conn \ {n} : toServer'[c] = toServer[c] /\ link'[c] = link[c]
        /\ tries' = [tries EXCEPT ![p] = @ + 1]
    BY <1>a, <2>1, <2>2 DEF OpenSocket, serverVars, threads
  <2> HIDE DEF n
  <2>4. NextTry'
    BY <1>a, <2>2, <2>3 DEF NextTry, Conn
  <2>5. PlainTail'
    BY <2>3 DEF PlainTail, GreetsFirst
  <2>6. Unopened' /\ HelloUnread' /\ NewOnce
    BY <2>2, <2>3 DEF Unopened, HelloUnread, NewOnce, New, Hello
  <2> QED
    BY <2>4, <2>5, <2>6
<1> QED
  BY <1>1, <1>2

LEMMA GreetInit == Init => GreetInv
<1> SUFFICES ASSUME Init PROVE GreetInv
  OBVIOUS
<1>1. \A c \in Conn : link[c] = "none" /\ toServer[c] = <<>> /\ pc[c] = "off"
  BY ServerAssumption DEF Init, WireInit, ServerInit, Thread
<1>2. \A p \in Phones : \A n \in 1..MaxTries : <<p, n>> \in Conn
  BY DEF Conn
<1> QED
  BY <1>1, <1>2 DEF GreetInv, NextTry, PlainTail, GreetsFirst, Unopened, HelloUnread, Hello

LEMMA GreetNext ==
  ASSUME TypeInv, GreetInv, IdInv, [Next]_vars
  PROVE  GreetInv' /\ NewOnce
<1>a. TypeOK /\ IdThreads
  BY DEF TypeInv, IdInv, IdServer
<1>1. CASE UNCHANGED <<wire, pc, tries>>
  BY <1>1 DEF wire, GreetInv, NextTry, PlainTail, Unopened, HelloUnread, Hello, NewOnce, New
<1> QED
  BY <1>1, <1>a, GreetSteps, GreetPhones DEF Next, HostStops, StopListening, phoneVars, vars,
     serverVars, threads

-----------------------------------------------------------------------------
(* Who has a player.  Every player in the map, or in the hands of a thread, *)
(* is of a connection that is no longer new; and a handler that moves a    *)
(* player holds the very player it takes out of the map.                   *)

Held(S) ==
  /\ \A h \in Conn : players[h] \in S \cup {None, Null}
  /\ \A t \in Thread : ref[t] \in S \cup {None, Null}

Empty == \A c \in Conn : New(c) => players[c] = None

Targets == \A h \in Conn : pc[h] \in {"lookup", "drop"} => who[h] \in Old

Moves == \A h \in Conn : pc[h] = "drop" /\ Joined(who[h]) => ref[h] = players[who[h]]

NoGain == \A c \in Conn : New(c) => stats[c].score = 0 /\ stats[c].found = 0

MapInv == Empty /\ Targets /\ Moves /\ NoGain /\ Held(Old)

LEMMA HeldServer ==
  ASSUME TypeOK, IdThreads, Unopened, NEW S, Held(S), NEW t \in Thread, ServerStep(t),
         \A h \in Conn : AddPlayer(h) => h \in S
  PROVE  Held(S)'
<1> USE DEF Held, wire, room
<1>a. /\ players \in [Conn -> Conn \cup {None, Null}]
      /\ ref \in [Thread -> Conn \cup {None, Null}]
      /\ who \in [Thread -> Conn \cup {None}]
      /\ Conn \subseteq Thread
  BY DEF TypeOK, ServerTypeOK, Thread
<1>1. CASE Quiet(t)
  BY <1>1, <1>a DEF Quiet, Others
<1>2. CASE t \in Conn /\ (ReceiveConnect(t) \/ ReceiveReconnect(t))
  BY <1>2 DEF ReceiveConnect, ReceiveReconnect
<1>3. CASE t \in Conn /\ AddPlayer(t)
  BY <1>3, <1>a DEF AddPlayer
<1>4. CASE t \in Conn /\ LookUpPlayer(t)
  BY <1>4, <1>a DEF LookUpPlayer, Joined, IdThreads, IdThread
<1>5. CASE t \in Conn /\ DropHandler(t)
  BY <1>5, <1>a DEF DropHandler
<1>6. CASE t \in Conn /\ AdoptPlayer(t)
  BY <1>6, <1>a DEF AdoptPlayer
<1>7. CASE t \in Conn /\ ReceiveFound(t)
  BY <1>7, <1>a DEF ReceiveFound
<1>8. CASE ClearPlayers \/ \E c \in Conn : Accept(c)
  BY <1>8, <1>a DEF ClearPlayers, Accept
<1> QED
  BY <1>1, <1>2, <1>3, <1>4, <1>5, <1>6, <1>7, <1>8, ServerSteps DEF Enters

(* No connection becomes new again, so the old ones only grow in number.   *)
LEMMA HeldMore == ASSUME NEW S, NEW T, S \subseteq T, Held(S) PROVE Held(T)
BY DEF Held

LEMMA AddOld ==
  ASSUME TypeOK, GreetInv, NEW h \in Conn, AddPlayer(h)
  PROVE  New(h) /\ ~New(h)'
BY DEF GreetInv, Unopened, HelloUnread, AddPlayer, New, Entering, Hello, Goto, TypeOK,
   ServerTypeOK, Thread, wire

LEMMA MapServer ==
  ASSUME TypeOK, IdThreads, GreetInv, NewOnce, MapInv, NEW t \in Thread, ServerStep(t)
  PROVE  MapInv'
<1> USE DEF MapInv, wire, room
<1>a. /\ players \in [Conn -> Conn \cup {None, Null}]
      /\ ref \in [Thread -> Conn \cup {None, Null}]
      /\ who \in [Thread -> Conn \cup {None}]
      /\ pc \in [Thread -> Location]
      /\ stats \in [Conn -> PlayerInfo]
      /\ Conn \subseteq Thread /\ None # Null /\ None \notin Conn /\ Null \notin Conn
  BY ProtocolAssumption DEF TypeOK, ServerTypeOK, Thread
<1>b. Old \subseteq Old' /\ Unopened
  BY DEF Old, NewOnce, GreetInv
<1>c. \A h \in Conn : AddPlayer(h) => New(h) /\ ~New(h)' /\ h \in Old'
  BY AddOld DEF Old
<1>d. \A h \in Conn : AdoptPlayer(h) => New(h) /\ ~New(h)'
  BY <1>a DEF GreetInv, Unopened, HelloUnread, AdoptPlayer, New, Entering, Hello, Goto
<1>1. Held(Old)'
  <2>1. PICK S : S = Old'
    OBVIOUS
  <2>2. Held(S)
    BY <1>b, <2>1, HeldMore
  <2>3. Held(S)'
    BY <1>b, <1>c, <2>1, <2>2, HeldServer
  <2> QED
    BY <2>1, <2>3 DEF Held
<1>2. Empty'
  <2>1. \A c \in Conn : players'[c] \in {players[c], None} \/ ~New(c)'
    <3>1. CASE UNCHANGED players
      BY <3>1
    <3>2. CASE t \in Conn /\ (AddPlayer(t) \/ AdoptPlayer(t) \/ DropHandler(t))
      BY <3>2, <1>a, <1>c, <1>d DEF AddPlayer, AdoptPlayer, DropHandler
    <3>3. CASE ClearPlayers
      BY <3>3 DEF ClearPlayers
    <3> QED
      BY <1>b, <3>1, <3>2, <3>3, ServerSteps DEF Quiet, Enters, ReceiveConnect,
         ReceiveReconnect, LookUpPlayer, ReceiveFound, Accept
  <2> QED
    BY <2>1 DEF Empty, NewOnce
<1>3. Targets' /\ Moves'
  <2>1. CASE Quiet(t)
    BY <2>1, <1>a, <1>b DEF Quiet, Others, Targets, Moves, Entering, Joined
  <2>2. CASE t \in Conn /\ (ReceiveConnect(t) \/ ReceiveFound(t) \/ AddPlayer(t) \/ AdoptPlayer(t))
    <3>1. /\ pc'[t] \notin {"lookup", "drop"}
          /\ \A h \in Conn \ {t} : pc'[h] = pc[h] /\ who'[h] = who[h] /\ ref'[h] = ref[h]
          /\ \A c \in Old : players'[c] = players[c]
      BY <2>2, <1>a, <1>c, <1>d, BackFrom, QuietReply DEF ReceiveConnect, ReceiveFound, AddPlayer,
         AdoptPlayer, Old, Goto, Entering
    <3> QED
      BY <3>1, <1>b DEF Targets, Moves, Joined
  <2>3. CASE t \in Conn /\ ReceiveReconnect(t)
    <3>1. /\ pc'[t] # "drop"
          /\ pc'[t] = "lookup" => who'[t] \in Old
          /\ \A h \in Conn \ {t} : pc'[h] = pc[h] /\ who'[h] = who[h]
      BY <2>3, <1>a, BackFrom, QuietReply DEF ReceiveReconnect, Goto, Throw, Joined, Empty, Old, Entering
    <3>2. UNCHANGED <<players, ref>>
      BY <2>3 DEF ReceiveReconnect
    <3> QED
      BY <2>3, <3>1, <3>2, <1>b DEF Targets, Moves, Joined
  <2>4. CASE t \in Conn /\ LookUpPlayer(t)
    BY <2>4, <1>a, <1>b DEF LookUpPlayer, Targets, Moves, Joined, Goto
  <2>5. CASE t \in Conn /\ DropHandler(t)
    BY <2>5, <1>a, <1>b DEF DropHandler, Targets, Moves, Joined, Goto, Old
  <2>6. CASE ClearPlayers
    BY <2>6, <1>a, <1>b DEF ClearPlayers, Targets, Moves, Joined, Goto, Old
  <2>7. ASSUME NEW c \in Conn, Accept(c) PROVE Targets' /\ Moves'
    BY <2>7, <1>a, <1>b DEF Accept, Targets, Moves, Joined, Old
  <2> QED
    BY <1>b, <2>1, <2>2, <2>3, <2>4, <2>5, <2>6, <2>7, ServerSteps DEF Enters
<1>4. NoGain'
  <2>1. CASE Quiet(t)
    BY <2>1 DEF Quiet, NoGain, NewOnce
  <2>2. CASE t \in Conn /\ AddPlayer(t)
    BY <2>2, <1>a, <1>c DEF AddPlayer, NoGain, NewOnce
  <2>3. CASE t \in Conn /\ ReceiveFound(t)
    <3>1. players[t] \in Old
      BY <2>3, <1>a DEF ReceiveFound, Joined, Held
    <3> QED
      BY <2>3, <3>1, <1>a, <1>b DEF ReceiveFound, NoGain, NewOnce, Old
  <2>4. CASE UNCHANGED stats
    BY <2>4 DEF NoGain, NewOnce
  <2> QED
    BY <1>b, <2>1, <2>2, <2>3, <2>4, ServerSteps DEF Enters, ReceiveConnect, ReceiveReconnect,
       LookUpPlayer, DropHandler, AdoptPlayer, ClearPlayers, Accept
<1> QED
  BY <1>1, <1>2, <1>3, <1>4

LEMMA MapInit == Init => MapInv
<1> SUFFICES ASSUME Init PROVE MapInv
  OBVIOUS
<1>1. /\ \A c \in Conn : players[c] = None /\ stats[c] = NewPlayer /\ pc[c] = "off"
      /\ \A t \in Thread : ref[t] = None
  BY ServerAssumption DEF Init, ServerInit, Thread
<1> QED
  BY <1>1 DEF MapInv, Empty, Targets, Moves, NoGain, Held, NewPlayer

LEMMA MapNext ==
  ASSUME TypeInv, IdInv, GreetInv, NewOnce, MapInv, [Next]_vars
  PROVE  MapInv'
<1>a. TypeOK /\ IdThreads
  BY DEF TypeInv, IdInv, IdServer
<1>1. CASE UNCHANGED <<players, ref, who, pc, stats>>
  BY <1>1 DEF MapInv, Empty, Targets, Moves, NoGain, Held, NewOnce, Old, Joined
<1> QED
  BY <1>1, <1>a, MapServer DEF Next, HostStops, StopListening, room, vars, serverVars, threads,
     Connects, Hears, Plays, Fails

-----------------------------------------------------------------------------
(* Who knows an id.  An id is told to a phone only when its player is in   *)
(* the map, or in the hands of the thread that moves it there.             *)

Names(S) == {m \in Instruction : m.kind = "ID" => m.arg \in S}

Spoken(S) ==
  /\ toClient \in [Conn -> Seq(Names(S))]
  /\ \A t \in Thread : task[t].msg \in Names(S)

Named(S) ==
  /\ Spoken(S)
  /\ \A h \in Conn : pc[h] = "hello" => h \in S
  /\ \A p \in Phones : myId[p] \in S \cup {None}

LEMMA NamesMore ==
  ASSUME NEW S, NEW T, S \subseteq T
  PROVE  Names(S) \subseteq Names(T) /\ \A s \in Seq(Names(S)) : s \in Seq(Names(T))
<1>1. Names(S) \subseteq Names(T)
  BY DEF Names
<1> QED
  BY <1>1

LEMMA NamedMore == ASSUME NEW S, NEW T, S \subseteq T, Named(S) PROVE Named(T)
BY NamesMore DEF Named, Spoken

(* The messages the server makes.                                          *)
LEMMA NamesTell ==
  ASSUME NEW S
  PROVE  /\ \A kind \in InstructionKind \ {"ID"} :
              /\ \A arg \in Conn \cup RoomNames \cup {None} : Tell(kind, arg) \in Names(S)
              /\ \A o \in Seq(Conn) : TellPodium(kind, o) \in Names(S)
         /\ \A c \in Conn : c \in S => Tell("ID", c) \in Names(S)
         /\ NoTask.msg \in Names(S) /\ PlayerList.msg \in Names(S)
<1>1. \A kind \in InstructionKind \ {"ID"} :
        \A arg \in Conn \cup RoomNames \cup {None} : Tell(kind, arg) \in Names(S)
  BY TellType, TaskKind DEF Names
<1>2. \A kind \in InstructionKind \ {"ID"} :
        \A o \in Seq(Conn) : TellPodium(kind, o) \in Names(S)
  BY TellPodiumType, TaskKind DEF Names
<1>3. \A c \in Conn : c \in S => Tell("ID", c) \in Names(S)
  BY TellIdType, TaskKind DEF Names
<1>4. NoTask.msg \in Names(S) /\ PlayerList.msg \in Names(S)
  BY <1>1, TaskKind DEF NoTask, PlayerList, Nothing, InstructionKind
<1> QED
  BY <1>1, <1>2, <1>3, <1>4

(* What becomes of the tasks, and of what is on the wire.                  *)
LEMMA NamesTask ==
  ASSUME TypeOK, NEW S, Spoken(S), NEW t,
         \/ UNCHANGED task
         \/ \E x : x.msg \in Names(S) /\ task' = [task EXCEPT ![t] = x]
         \/ task' = [task EXCEPT ![t].next = @ + 1]
         \/ Throw(t)
         \/ task' = [task EXCEPT ![t].msg = Filled(@), ![t].next = 1, ![t].len = Len(clients)]
  PROVE  \A u \in Thread : task'[u].msg \in Names(S)
<1>a. task \in [Thread -> SendTask]
  BY DEF TypeOK, ServerTypeOK
<1>1. CASE \E x : x.msg \in Names(S) /\ task' = [task EXCEPT ![t] = x]
  BY <1>1, <1>a DEF Spoken
<1>2. CASE task' = [task EXCEPT ![t].next = @ + 1]
  BY <1>2, <1>a DEF Spoken, SendTask
<1>3. CASE Throw(t)
  BY <1>3, <1>a, NamesTell DEF Throw, Spoken
<1>4. CASE task' = [task EXCEPT ![t].msg = Filled(@), ![t].next = 1, ![t].len = Len(clients)]
  <2>1. \A u \in Thread : Filled(task[u].msg) \in Names(S)
    BY <1>a, FilledKind, FilledType DEF Spoken, Names, SendTask
  <2> QED
    BY <1>4, <1>a, <2>1 DEF Spoken, SendTask
<1> QED
  BY <1>1, <1>2, <1>3, <1>4 DEF Spoken

LEMMA NamesWritten ==
  ASSUME NEW S, Spoken(S), NEW c \in Conn, NEW msgs \in Seq(Names(S)),
         UNCHANGED toClient \/ Write(c, msgs) \/ \E l : Reply(c, msgs, l)
  PROVE  toClient' \in [Conn -> Seq(Names(S))]
<1>1. toClient \in [Conn -> Seq(Names(S))]
  BY DEF Spoken
<1>2. [toClient EXCEPT ![c] = @ \o msgs] \in [Conn -> Seq(Names(S))]
  BY <1>1, WriteKeeps
<1> QED
  BY <1>1, <1>2 DEF Write, Reply

LEMMA SpokenAccept ==
  ASSUME TypeOK, NEW S, Spoken(S), AcceptThread
  PROVE  Spoken(S)'
<1> USE DEF wire
<1>a. \A x : x.msg \in Names(S) /\ task' = [task EXCEPT ![Acceptor] = x]
              => \A u \in Thread : task'[u].msg \in Names(S)
  BY NamesTask
<1>b. /\ Task(Tell("SERVER-STOPPED", None), "clear").msg \in Names(S)
      /\ NoTask.msg \in Names(S) /\ [NoTask EXCEPT !.next = 1].msg \in Names(S)
  <2>1. Tell("SERVER-STOPPED", None) \in Names(S) /\ NoTask.msg \in Names(S)
    BY NamesTell DEF InstructionKind
  <2>2. [NoTask EXCEPT !.next = 1].msg = NoTask.msg
    BY DEF NoTask
  <2> QED
    BY <2>1, <2>2, TaskKind
<1>1. \A u \in Thread : task'[u].msg \in Names(S)
  <2>1. CASE UNCHANGED task \/ task' = [task EXCEPT ![Acceptor].next = @ + 1]
    BY <2>1, NamesTask
  <2> QED
    BY <1>a, <1>b, <2>1 DEF AcceptThread, Accept, StopAccepting, CloseClient, ClientClosed,
       AcceptorEnds, ClearPlayers
<1>2. UNCHANGED toClient
  BY DEF AcceptThread, Accept, StopAccepting, CloseClient, ClientClosed, AcceptorEnds,
     ClearPlayers
<1> QED
  BY <1>1, <1>2 DEF Spoken

LEMMA SpokenBroadcast ==
  ASSUME TypeOK, NEW S, Spoken(S), NEW t \in Thread, Broadcast(t)
  PROVE  Spoken(S)'
<1> USE DEF wire
<1>1. \A u \in Thread : task'[u].msg \in Names(S)
  <2>1. CASE Done(t)
    BY <2>1, NamesTask, NamesTell DEF Done
  <2> QED
    BY <2>1, NamesTask DEF Broadcast, Open, IteratorFails, SendNext, SendFails, JoinReturns
<1>2. CASE SendNext(t)
  <2>1. clients[task[t].next] \in Conn
    BY <1>2 DEF SendNext, Sending, TypeOK, ServerTypeOK
  <2>2. <<task[t].msg>> \in Seq(Names(S))
    BY Single DEF Spoken
  <2>3. toClient' \in [Conn -> Seq(Names(S))]
    BY <1>2, <2>1, <2>2, NamesWritten DEF SendNext
  <2> QED
    BY <1>1, <2>3 DEF Spoken
<1>3. CASE UNCHANGED toClient
  BY <1>1, <1>3 DEF Spoken
<1> QED
  BY <1>2, <1>3 DEF Broadcast, Open, IteratorFails, SendFails, JoinReturns, Done

LEMMA SpokenHandler ==
  ASSUME TypeOK, NEW S, Spoken(S), Ids \subseteq S, NEW h \in Conn, pc[h] = "hello" => h \in S,
         HandlerThread(h)
  PROVE  Spoken(S)'
<1> USE DEF wire
<1>a. h \in Thread
  BY DEF Thread
<1>1. \A u \in Thread : task'[u].msg \in Names(S)
  <2>1. ASSUME NEW x, x.msg \in Names(S), task' = [task EXCEPT ![h] = x]
        PROVE  \A u \in Thread : task'[u].msg \in Names(S)
    BY <2>1, NamesTask
  <2>2. CASE UNCHANGED task \/ Throw(h)
    BY <2>2, NamesTask
  <2>3. /\ NoTask.msg \in Names(S) /\ PlayerList.msg \in Names(S)
        /\ [PlayerList EXCEPT !.after = "exit"].msg \in Names(S)
    BY NamesTell DEF PlayerList, Task, NoTask
  <2>4. /\ \A m, after : Task(m, after).msg = m
        /\ Tell("START", None) \in Names(S)
        /\ \A o \in Seq(Conn) : /\ TellPodium("FINISHED", o) \in Names(S)
                                /\ TellPodium("DEATHMATCH", o) \in Names(S)
        /\ \A n \in RoomNames : Tell("ROOM-NAME", n) \in Names(S)
        /\ \A c \in Conn : c \in S => Tell("ID", c) \in Names(S)
    BY TaskKind, NamesTell DEF InstructionKind
  <2>5. CASE ReceiveReconnect(h)
    <3>1. CASE UNCHANGED task \/ Throw(h)
      BY <2>2, <3>1
    <3>2. CASE Arg(h) \in Ids /\ task' = [task EXCEPT ![h] = Task(Tell("ID", Arg(h)), "loop")]
      <4>1. Arg(h) \in Conn /\ Arg(h) \in S
        BY <3>2 DEF Ids, Entries, Joined
      <4>2. Task(Tell("ID", Arg(h)), "loop").msg \in Names(S)
        BY <2>4, <4>1
      <4> QED
        BY <2>1, <3>2, <4>2
    <3> QED
      BY <2>5, <3>1, <3>2 DEF ReceiveReconnect, Ids, Entries
  <2>6. CASE ReceiveRoomName(h)
    <3>1. Arg(h) \in RoomNames
      BY <2>6, TakeType, ArgType DEF ReceiveRoomName, Arg
    <3>2. Task(Tell("ROOM-NAME", Arg(h)), "loop").msg \in Names(S)
      BY <2>4, <3>1
    <3> QED
      BY <2>1, <2>6, <3>2 DEF ReceiveRoomName
  <2>7. CASE MainGameFind(h) \/ DeathMatchFind(h)
    BY <2>1, <2>2, <2>3, <2>4, <2>7, StandingsType, EqualsType DEF MainGameFind, DeathMatchFind
  <2>8. CASE Disconnected(h) \/ HandlerEnds(h) \/ Greet(h) \/ WelcomeBack(h) \/ ReceiveReady(h)
             \/ ReceiveStart(h) \/ GameEnds(h)
    BY <2>1, <2>2, <2>3, <2>8 DEF Disconnected, HandlerEnds, Greet, WelcomeBack, ReceiveReady,
       ReceiveStart, GameEnds
  <2>9. CASE Begin(h)
    <3>1. Task(Tell("START", None), "loop").msg \in Names(S)
      BY <2>4
    <3> QED
      BY <2>1, <2>9, <3>1 DEF Begin
  <2> QED
    BY <2>2, <2>5, <2>6, <2>7, <2>8, <2>9 DEF HandlerThread, Ignore, ReadFails, LeaveLoop,
       ReceiveConnect, AddPlayer, LookUpPlayer, DropHandler, AdoptPlayer, ReceiveFound,
       OpenDeathMatch
<1>2. toClient' \in [Conn -> Seq(Names(S))]
  <2>1. /\ <<Tell("GAME-STARTED", None)>> \in Seq(Names(S))
        /\ <<Tell("NOTREADY", None)>> \in Seq(Names(S))
        /\ <<task[h].msg>> \in Seq(Names(S))
    BY <1>a, NamesTell, Single DEF InstructionKind, Spoken
  <2>2. pc[h] = "hello" => <<Tell("ID", h), Tell("ROOM-NAME", roomName)>> \in Seq(Names(S))
    <3>1. Tell("ROOM-NAME", roomName) \in Names(S)
      BY NamesTell DEF InstructionKind, TypeOK, ServerTypeOK
    <3>2. pc[h] = "hello" => Tell("ID", h) \in Names(S)
      BY NamesTell
    <3> QED
      BY <3>1, <3>2
  <2>3. ASSUME NEW msgs \in Seq(Names(S)), NEW l, Reply(h, msgs, l)
        PROVE  toClient' \in [Conn -> Seq(Names(S))]
    BY <2>3, NamesWritten
  <2>4. CASE UNCHANGED toClient
    BY <2>4 DEF Spoken
  <2> QED
    BY <2>1, <2>2, <2>3, <2>4 DEF HandlerThread, Ignore, ReadFails, LeaveLoop, Disconnected,
       HandlerEnds, ReceiveConnect, AddPlayer, Greet, ReceiveReconnect, LookUpPlayer, DropHandler,
       AdoptPlayer, WelcomeBack, ReceiveReady, ReceiveStart, Begin, ReceiveRoomName,
       ReceiveFound, DeathMatchFind, MainGameFind, OpenDeathMatch, GameEnds
<1> QED
  BY <1>1, <1>2 DEF Spoken

LEMMA NamedServer ==
  ASSUME TypeOK, Unopened, NEW S, Named(S), Ids \subseteq S, NEW t \in Thread, ServerStep(t),
         \A h \in Conn : AddPlayer(h) => h \in S
  PROVE  Named(S)'
<1>1. Spoken(S)'
  BY SpokenAccept, SpokenBroadcast, SpokenHandler DEF Named, ServerStep, ThreadStep
<1>2. \A h \in Conn : pc'[h] = "hello" => h \in S
  <2>a. pc \in [Thread -> Location] /\ Conn \subseteq Thread
    BY DEF TypeOK, ServerTypeOK, Thread
  <2>1. CASE Quiet(t)
    BY <2>1 DEF Quiet, Others, Named, Thread
  <2>2. CASE t \in Conn /\ ReceiveConnect(t)
    <3>1. CASE Goto(t, "put")
      BY <3>1, <2>a DEF Goto, Named
    <3>2. CASE Reply(t, <<Tell("GAME-STARTED", None)>>, Back(t))
      BY <3>2, <2>2, <2>a, BackFrom, QuietReply DEF Named
    <3> QED
      BY <2>2, <3>1, <3>2 DEF ReceiveConnect
  <2>3. CASE t \in Conn /\ ReceiveReconnect(t)
    <3>1. CASE Goto(t, "lookup") \/ Throw(t)
      BY <3>1, <2>a DEF Goto, Throw, Named
    <3>2. CASE Reply(t, <<Tell("GAME-STARTED", None)>>, Back(t))
      BY <3>2, <2>3, <2>a, BackFrom, QuietReply DEF Named
    <3> QED
      BY <2>3, <3>1, <3>2 DEF ReceiveReconnect
  <2>4. CASE t \in Conn /\ (AddPlayer(t) \/ LookUpPlayer(t) \/ DropHandler(t) \/ AdoptPlayer(t)
                            \/ ReceiveFound(t))
    BY <2>4, <2>a DEF AddPlayer, LookUpPlayer, DropHandler, AdoptPlayer, ReceiveFound, Goto, Named
  <2>5. CASE ClearPlayers \/ \E c \in Conn : Accept(c)
    BY <2>5, <2>a, ServerAssumption DEF ClearPlayers, Accept, Goto, Named
  <2> QED
    BY <2>1, <2>2, <2>3, <2>4, <2>5, ServerSteps DEF Enters
<1>3. UNCHANGED myId
  BY DEF ServerStep, phoneVars
<1> QED
  BY <1>1, <1>2, <1>3 DEF Named

(* A phone learns its id from what it is told, and loses messages.         *)
LEMMA NamesHear ==
  ASSUME TypeInv, NEW S, Spoken(S), NEW p \in Phones, NEW kind, Hear(p, kind)
  PROVE  /\ Head(Inbox(p)) \in Names(S)
         /\ Consume(p) => toClient' \in [Conn -> Seq(Names(S))]
<1>1. Sock(p) \in Conn /\ toClient[Sock(p)] # <<>>
  BY SockType DEF Hear, Online, Inbox
<1>2. toClient \in [Conn -> Seq(Names(S))]
  BY DEF Spoken
<1>3. /\ Head(toClient[Sock(p)]) \in Names(S)
      /\ [toClient EXCEPT ![Sock(p)] = Tail(@)] \in [Conn -> Seq(Names(S))]
  BY <1>1, <1>2, ReadKeeps
<1> QED
  BY <1>3 DEF Consume, Inbox

LEMMA NamedPhone ==
  ASSUME TypeInv, NEW S, Named(S), NEW p \in Phones,
         Connects(p) \/ Hears(p) \/ Plays(p) \/ Fails(p)
  PROVE  Named(S)'
<1> USE DEF Named
<1>a. UNCHANGED <<pc, task>>
  BY DEF Connects, Hears, Plays, Fails, serverVars, threads
<1>b. \A c : toClient' = [toClient EXCEPT ![c] = <<>>] => toClient' \in [Conn -> Seq(Names(S))]
  <2>1. <<>> \in Seq(Names(S))
    OBVIOUS
  <2> QED
    BY <2>1, Zenon DEF Spoken
<1>1. toClient' \in [Conn -> Seq(Names(S))]
  <2>1. CASE UNCHANGED toClient
    BY <2>1 DEF Spoken
  <2>2. ASSUME NEW kind, Hear(p, kind), Consume(p)
        PROVE  toClient' \in [Conn -> Seq(Names(S))]
    BY <2>2, NamesHear
  <2>3. CASE HearRefusal(p)
    <3>1. Sock(p) \in Conn
      BY <2>3, SockType DEF HearRefusal, Hear, Online
    <3>2. Inbox(p) \in Seq(Names(S)) /\ Len(Inbox(p)) > 1
      BY <2>3, <3>1 DEF HearRefusal, Spoken, Inbox
    <3>3. Tail(Tail(Inbox(p))) \in Seq(Names(S))
      BY <3>2, TailTailType
    <3> QED
      BY <2>3, <3>3 DEF HearRefusal, Inbox, Spoken
  <2>4. ASSUME NEW unread, NetworkError(p, unread)
        PROVE  toClient' \in [Conn -> Seq(Names(S))]
    BY <1>b, <2>4 DEF NetworkError
  <2>5. CASE LinkReset(p)
    <3>1. Sock(p) \in Conn
      BY <2>5, SockType DEF LinkReset, Online
    <3> QED
      BY <2>5, <3>1, LossKeeps DEF LinkReset, Spoken
  <2>6. CASE HearStopped(p) \/ PhoneKilled(p)
    BY <1>b, <2>6 DEF HearStopped, PhoneKilled
  <2>7. CASE Hears(p)
    BY <2>2, <2>3, <2>4, <2>6, <2>7 DEF Hears, ClientThread, HearPlayers, HearId, HearStart,
       HearFinished, HearDeathMatch, HearRoomName, HearNotReady, Disconnection
  <2> QED
    BY <2>1, <2>5, <2>6, <2>7 DEF Connects, ConnectServer, Reconnect, OpenSocket, Plays, Player,
       ToggleReady, StartGame, SendRoomName, SetFound, Fails, Failure
<1>2. myId'[p] \in S \cup {None} /\ \A q \in Phones \ {p} : myId'[q] = myId[q]
  <2>1. CASE UNCHANGED myId
    BY <2>1
  <2>2. CASE HearId(p)
    <3>1. Head(Inbox(p)) \in Names(S) /\ Head(Inbox(p)).kind = "ID"
      BY <2>2, NamesHear DEF HearId, Hear
    <3> QED
      BY <2>2, <3>1 DEF HearId, Names, TypeInv, TypeOK, PhoneTypeOK
  <2> QED
    BY <2>1, <2>2 DEF Connects, ConnectServer, Reconnect, Hears, ClientThread, HearPlayers,
       HearStart, HearFinished, HearDeathMatch, HearStopped, HearRoomName, HearNotReady,
       HearRefusal, Disconnection, Plays, Player, ToggleReady, StartGame, SendRoomName,
       SetFound, Fails, Failure, LinkReset, PhoneKilled, phoneVars
<1> QED
  BY <1>a, <1>1, <1>2 DEF Spoken

-----------------------------------------------------------------------------
(* What is present: the players of the map and those on their way to it.   *)
(* Until the map is cleared no player leaves, so that every id a phone has *)
(* heard of, or will hear of, is still there.                              *)
Present == Ids \cup {id \in Conn : Carried(id)}

Closing == pc[Acceptor] \in {"close", "closing", "dead"}

JoinInv == /\ GreetInv /\ MapInv /\ Named(Old)
           /\ Closing \/ Named(Present)

LEMMA NamedOld ==
  ASSUME TypeOK, GreetInv, NewOnce, MapInv, Named(Old), NEW t \in Thread, ServerStep(t)
  PROVE  Named(Old)'
<1>1. PICK S : S = Old'
  OBVIOUS
<1>2. Old \subseteq S /\ Ids \subseteq S
  BY <1>1, ProtocolAssumption DEF Old, NewOnce, MapInv, Held, Ids, Entries, Joined
<1>3. \A h \in Conn : AddPlayer(h) => h \in S
  BY <1>1, AddOld DEF Old
<1>4. Named(S)
  BY <1>2, NamedMore
<1>5. Named(S)'
  BY <1>2, <1>3, <1>4, NamedServer DEF GreetInv
<1> QED
  BY <1>1, <1>5 DEF Named, Spoken, Names

LEMMA PresentStays ==
  ASSUME TypeOK, IdThreads, GreetInv, MapInv, NEW t \in Thread, ServerStep(t)
  PROVE  \/ Present \subseteq Present' /\ (\A h \in Conn : AddPlayer(h) => h \in Present')
         \/ Closing'
<1> USE DEF wire, room
<1>a. /\ players \in [Conn -> Conn \cup {None, Null}]
      /\ ref \in [Thread -> Conn \cup {None, Null}]
      /\ pc \in [Thread -> Location]
      /\ Conn \subseteq Thread /\ None # Null /\ None \notin Conn /\ Null \notin Conn
  BY ProtocolAssumption DEF TypeOK, ServerTypeOK, Thread
<1>b. \A h \in Conn : AddPlayer(h) => h \in Present'
  BY <1>a DEF AddPlayer, Present, Ids, Entries, Joined
<1>c. Unopened /\ \A h \in Conn : pc[h] \in Entering => players[h] = None
  BY DEF MapInv, Empty, New, GreetInv
<1> USE DEF Present, Ids, Entries, Joined, Carried
<1>1. CASE Quiet(t)
  BY <1>1, <1>a, <1>b DEF Quiet, Others, Entering
<1>2. CASE t \in Conn /\ (ReceiveConnect(t) \/ ReceiveReconnect(t) \/ ReceiveFound(t))
  <2>1. pc[t] = "read" /\ \A h \in Conn \ {t} : pc'[h] = pc[h] /\ ref'[h] = ref[h]
    BY <1>2, <1>a, BackFrom, QuietReply DEF ReceiveConnect, ReceiveReconnect, ReceiveFound, Take,
       Goto, Throw
  <2>2. UNCHANGED players
    BY <1>2 DEF ReceiveConnect, ReceiveReconnect, ReceiveFound
  <2> QED
    BY <1>a, <1>b, <2>1, <2>2
<1>3. CASE t \in Conn /\ (AddPlayer(t) \/ LookUpPlayer(t))
  BY <1>3, <1>a, <1>b, <1>c DEF AddPlayer, LookUpPlayer, Goto, Entering
<1>4. CASE t \in Conn /\ DropHandler(t)
  <2>1. who[t] \in Conn /\ (Joined(who[t]) => ref[t] = players[who[t]])
    BY <1>4 DEF DropHandler, MapInv, Targets, Moves, Old
  <2> QED
    BY <1>4, <1>a, <1>b, <2>1 DEF DropHandler, Goto
<1>5. CASE t \in Conn /\ AdoptPlayer(t)
  BY <1>5, <1>a, <1>b, <1>c DEF AdoptPlayer, Goto, Entering
<1>6. CASE ClearPlayers
  BY <1>6, <1>a, ServerAssumption DEF ClearPlayers, Closing, Goto, Thread
<1>7. ASSUME NEW c \in Conn, Accept(c) PROVE Present \subseteq Present'
  BY <1>7, <1>a, ServerAssumption DEF Accept, IdThreads
<1> QED
  BY <1>b, <1>c, <1>1, <1>2, <1>3, <1>4, <1>5, <1>6, <1>7, ServerSteps DEF Enters

(* A handler moves no thread but its own.                                  *)
LEMMA OwnSteps ==
  ASSUME TypeOK, Unopened, NEW h \in Conn, ServerStep(h)
  PROVE  \A u \in Thread \ {h} : pc'[u] = pc[u] /\ task'[u] = task[u] /\ ref'[u] = ref[u]
<1>a. /\ pc \in [Thread -> Location] /\ task \in [Thread -> SendTask]
      /\ ref \in [Thread -> Conn \cup {None, Null}] /\ h \in Thread /\ h # Acceptor
  BY ServerAssumption DEF TypeOK, ServerTypeOK, Thread
<1>1. CASE Quiet(h)
  BY <1>1 DEF Quiet, Others
<1>2. CASE ReceiveConnect(h) \/ ReceiveReconnect(h)
  BY <1>2, <1>a, BackFrom, QuietReply DEF ReceiveConnect, ReceiveReconnect, Goto, Throw
<1>3. CASE AddPlayer(h) \/ LookUpPlayer(h) \/ DropHandler(h) \/ AdoptPlayer(h) \/ ReceiveFound(h)
  BY <1>3, <1>a DEF AddPlayer, LookUpPlayer, DropHandler, AdoptPlayer, ReceiveFound, Goto
<1> QED
  BY <1>a, <1>1, <1>2, <1>3, ServerSteps DEF Enters

LEMMA ClosingStays ==
  ASSUME TypeOK, Unopened, Closing, NEW t \in Thread, ServerStep(t)
  PROVE  Closing'
<1> USE DEF Closing, wire, room
<1>a. pc \in [Thread -> Location] /\ Acceptor \in Thread /\ Acceptor \notin Conn
  BY ServerAssumption DEF TypeOK, ServerTypeOK, Thread
<1>1. CASE t = Acceptor /\ AcceptThread
  BY <1>1, <1>a DEF AcceptThread, Accept, StopAccepting, CloseClient, ClientClosed,
     AcceptorEnds, ClearPlayers, AllSent, Goto
<1>2. CASE Broadcast(t)
  BY <1>2, <1>a DEF Broadcast, Open, IteratorFails, SendNext, SendFails, JoinReturns, Done,
     Sending, AllSent, Goto, Throw
<1>3. CASE t \in Conn
  BY <1>3, <1>a, OwnSteps
<1> QED
  BY <1>1, <1>2, <1>3 DEF ServerStep, ThreadStep

LEMMA JoinInit == Init => JoinInv
<1> SUFFICES ASSUME Init PROVE JoinInv
  OBVIOUS
<1>1. \A S : Named(S)
  <2> SUFFICES ASSUME NEW S PROVE Named(S)
    OBVIOUS
  <2>1. /\ \A c \in Conn : toClient[c] = <<>> /\ pc[c] = "off"
        /\ toClient = [c \in Conn |-> <<>>]
        /\ \A t \in Thread : task[t] = NoTask
        /\ \A p \in Phones : myId[p] = None
    BY ServerAssumption DEF Init, WireInit, ServerInit, PhoneInit, Thread
  <2>2. <<>> \in Seq(Names(S))
    OBVIOUS
  <2>3. toClient \in [Conn -> Seq(Names(S))]
    BY <2>1, <2>2, Zenon
  <2> QED
    BY <2>1, <2>3, NamesTell DEF Named, Spoken
<1>2. PICK S, T : S = Old /\ T = Present
  OBVIOUS
<1> QED
  BY <1>1, <1>2, GreetInit, MapInit DEF JoinInv, Named, Spoken, Names

LEMMA JoinServer ==
  ASSUME TypeOK, IdThreads, JoinInv, GreetInv', NewOnce, MapInv', NEW t \in Thread, ServerStep(t)
  PROVE  JoinInv'
<1> USE DEF JoinInv
<1>1. Named(Old)'
  BY NamedOld
<1>2. CASE Closing
  BY <1>1, <1>2, ClosingStays DEF GreetInv
<1>3. CASE Named(Present) /\ Present \subseteq Present' /\ (\A h \in Conn : AddPlayer(h) => h \in Present')
  <2>1. PICK T : T = Present'
    OBVIOUS
  <2>2. Named(T)
    BY <1>3, <2>1, NamedMore
  <2>3. Ids \subseteq T
    BY <1>3, <2>1 DEF Present
  <2>4. Named(T)'
    BY <1>3, <2>1, <2>2, <2>3, NamedServer DEF GreetInv
  <2> QED
    BY <1>1, <2>1, <2>4 DEF Named, Spoken, Names
<1> QED
  BY <1>1, <1>2, <1>3, PresentStays

LEMMA JoinPhone ==
  ASSUME TypeInv, JoinInv, GreetInv', NewOnce, MapInv', NEW p \in Phones,
         Connects(p) \/ Hears(p) \/ Plays(p) \/ Fails(p)
  PROVE  JoinInv'
<1> USE DEF JoinInv
<1>1. UNCHANGED <<players, ref, pc>>
  BY DEF Connects, Hears, Plays, Fails, serverVars, threads, room
<1>2. PICK S, T : S = Old' /\ T = Present /\ T = Present'
  BY <1>1 DEF Present, Ids, Entries, Joined, Carried
<1>3. Old \subseteq S
  BY <1>2 DEF Old, NewOnce
<1>4. Named(S)
  BY <1>3, NamedMore
<1>5. Named(S)' /\ (Named(T) => Named(T)')
  BY <1>4, NamedPhone
<1>6. Named(Old)'
  BY <1>2, <1>5 DEF Named, Spoken, Names
<1>7. Named(Present) => Named(Present)'
  BY <1>2, <1>5 DEF Named, Spoken, Names
<1> QED
  BY <1>1, <1>6, <1>7 DEF Closing

LEMMA JoinNext ==
  ASSUME TypeInv, IdInv, JoinInv, [Next]_vars
  PROVE  JoinInv'
<1>1. TypeOK /\ IdThreads /\ GreetInv' /\ NewOnce /\ MapInv'
  BY GreetNext, MapNext DEF TypeInv, IdInv, IdServer, JoinInv
<1>2. CASE UNCHANGED <<wire, players, ref, pc, task, myId>>
  <2>1. Old' = Old /\ Present' = Present /\ Closing' = Closing
    BY <1>2 DEF Old, New, Hello, wire, Present, Ids, Entries, Joined, Carried, Closing
  <2>2. /\ Named(Old) => Named(Old)'
        /\ Named(Present) => Named(Present)'
    BY <1>2, <2>1 DEF Named, Spoken, Names, wire
  <2> QED
    BY <1>1, <2>1, <2>2 DEF JoinInv
<1> QED
  BY <1>1, <1>2, JoinServer, JoinPhone DEF Next, HostStops, StopListening, room, vars, serverVars,
     threads, phoneVars

(* A player who knows its id is not lost by reconnections (Server.java:191-204), *)
(* however many of its connections are moving it at once: it is in players,   *)
(* or in the hands of a thread that will put it there.                     *)
THEOREM PlayersKept == Spec => []PlayerKept
<1>1. Init => TypeInv /\ IdInv /\ JoinInv
  BY InitType, IdInit, JoinInit
<1>2. TypeInv /\ IdInv /\ JoinInv /\ [Next]_vars => TypeInv' /\ IdInv' /\ JoinInv'
  BY NextType, IdNext, JoinNext
<1>3. TypeInv /\ JoinInv => PlayerKept
  BY DEF TypeInv, TypeOK, PhoneTypeOK, JoinInv, Named, Present, Closing, PlayerKept
<1> QED
  BY <1>1, <1>2, <1>3, PTL DEF Spec

=============================================================================
