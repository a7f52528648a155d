----------------------------- MODULE GameServer -----------------------------
(***************************************************************************)
(* The room's server: Server.java on ServerBase.java, with one             *)
(* ClientHandler thread per connection and one accept thread.  Nothing in  *)
(* these classes is locked: every handler thread runs onMessageReceived on *)
(* the shared gameState, players and clients, and writes on the sockets of *)
(* all the others.                                                         *)
(*                                                                         *)
(* A step is what a thread does between two points where another thread    *)
(* can change the outcome: a read or write of a shared field, a write on a *)
(* socket, a wait.  One call on a HashMap or an ArrayList, and one pass    *)
(* over players that makes no call out, is one step; a pass over clients   *)
(* writes on a socket at each element and is interleaved.                  *)
(***************************************************************************)
EXTENDS RoomProtocol

CONSTANTS
  Acceptor,    (* the accept thread, ServerBase.run                        *)
  FindsToWin   (* 4 in the code: finds that stop the main game             *)

Thread == Conn \cup {Acceptor}

ASSUME ServerAssumption ==
  /\ Acceptor \notin Conn
  /\ FindsToWin \in Nat \ {0}

VARIABLES
  gameState,   (* Server.gameState                                         *)
  players,     (* Server.players: the id of the handler's Player, Null for *)
               (* an entry that holds null, None when there is no entry    *)
  stats,       (* the fields of every Player ever created, by id           *)
  roomName,    (* the name held by the RoomNotifier                        *)
  clients,     (* ServerBase.clients, in order of acceptance               *)
  running,     (* ClientHandler.running                                    *)
  listening,   (* ServerBase.listening                                     *)
  pc,          (* where every thread is                                    *)
  ref,         (* local: the Player a handler thread works on              *)
  who,         (* local: the handler it looks at, or joins                 *)
  task,        (* local: what it sends to all, how far it is, what follows *)
  doomed,      (* handler threads unwinding a RuntimeException             *)
  crashed      (* a RuntimeException left a thread: the process is dead    *)

room == <<gameState, players, stats, roomName>>
threads == <<clients, running, listening, pc, ref, who, task, doomed, crashed>>
serverVars == <<room, threads>>

GameState == {"LOBBY", "MAIN_GAME", "DEATH_MATCH", "ENDED"}

Location ==
  {"off", "accept", "close", "closing",
   "read", "put", "hello", "lookup", "drop", "adopt", "welcome", "begin",
   "credited", "maingame", "tie", "open", "send", "join", "final", "dead"}

Continuation == {"loop", "ended", "clear", "exit"}

(* Bug: a new player has the score -1 that sortPlayersByScore looks for.   *)
NewPlayerUnscored == [ready |-> FALSE, score |-> 0 - 1, found |-> 0]

NewPlayer == [ready |-> FALSE, score |-> 0, found |-> 0]

SendTask == [msg : Instruction, next : Nat, len : Nat, after : Continuation]

NoTask == [msg |-> Nothing, next |-> 0, len |-> 0, after |-> "loop"]

Task(m, after) == [NoTask EXCEPT !.msg = m, !.after = after]

PlayerList == Task(Tell("PLAYERS", None), "loop")

ServerInit ==
  /\ gameState = "LOBBY"
  /\ players = [c \in Conn |-> None]
  /\ stats = [c \in Conn |-> NewPlayer]
  /\ roomName \in RoomNames
  /\ clients = <<>>
  /\ running = [c \in Conn |-> TRUE]
  /\ listening = TRUE
  /\ pc = [t \in Thread |-> IF t = Acceptor THEN "accept" ELSE "off"]
  /\ ref = [t \in Thread |-> None]
  /\ who = [t \in Thread |-> None]
  /\ task = [t \in Thread |-> NoTask]
  /\ doomed = {}
  /\ crashed = FALSE

-----------------------------------------------------------------------------
(* Helpers *)

Accepted == {clients[i] : i \in DOMAIN clients}

Joined(h) == players[h] \in Conn

Entries == {h \in Conn : Joined(h)}

Ids == {players[h] : h \in Entries}

(* Some entry of players holds null: a pass that uses the Player throws.   *)
NullEntry == \E h \in Conn : players[h] = Null

(* The rows of these players in an instruction.                            *)
ViewOf(ids) == [id \in Conn |-> IF id \in ids THEN stats[id] ELSE None]

(* The message a thread is about to send to all, from the fields as they   *)
(* are now.                                                                *)
Filled(m) ==
  CASE m.kind = "PLAYERS"  -> [m EXCEPT !.view = ViewOf(Ids)]
    [] m.kind = "FINISHED" -> [m EXCEPT !.view =
                                ViewOf({m.podium[i] : i \in DOMAIN m.podium})]
    [] OTHER               -> m

AllReady == \A id \in Ids : stats[id].ready

(* A handler thread is back at the head of its loop.                       *)
Back(h) == IF running[h] THEN "read" ELSE "final"

Goto(t, l) == pc' = [pc EXCEPT ![t] = l]

(* A write on a connection the phone has closed succeeds, until the reset  *)
(* that answers an earlier one is known.                                   *)
Write(c, msgs) ==
  /\ toClient' = [toClient EXCEPT ![c] = @ \o msgs]
  /\ \/ UNCHANGED link
     \/ link[c] = "fin" /\ link' = [link EXCEPT ![c] = "gone"]

(* sendMessage to its own phone.  When the write fails, close() makes the  *)
(* thread join itself.                                                     *)
Reply(h, msgs, l) ==
  \/ /\ Writable(h)
     /\ Write(h, msgs)
     /\ Goto(h, l)
     /\ UNCHANGED <<running, who>>
  \/ /\ ~Writable(h)
     /\ running' = [running EXCEPT ![h] = FALSE]
     /\ who' = [who EXCEPT ![h] = h]
     /\ Goto(h, "join")
     /\ UNCHANGED <<link, toClient>>

(* A RuntimeException: the finally block runs, then the process dies; from *)
(* inside the finally block it dies at once.                               *)
Throw(h) ==
  /\ task' = [task EXCEPT ![h] = NoTask]
  /\ IF task[h].after = "exit"
     THEN crashed' = TRUE /\ Goto(h, "dead") /\ UNCHANGED doomed
     ELSE doomed' = doomed \cup {h} /\ Goto(h, "final") /\ UNCHANGED crashed

-----------------------------------------------------------------------------
(* The accept thread: ServerBase.run *)

Accept(c) ==
  /\ pc[Acceptor] = "accept"
  /\ link[c] # "none"
  /\ c \notin Accepted
  /\ clients' = Append(clients, c)
  /\ pc' = [pc EXCEPT ![c] = "read",
                      ![Acceptor] = IF listening THEN "accept" ELSE "open"]
  /\ task' = IF listening THEN task
             ELSE [task EXCEPT ![Acceptor] =
                               Task(Tell("SERVER-STOPPED", None), "clear")]
  /\ UNCHANGED <<wire, room, running, listening, ref, who, doomed, crashed>>

(* accept() timed out: the loop sees that stopListening was called.        *)
StopAccepting ==
  /\ pc[Acceptor] = "accept"
  /\ ~listening
  /\ \A c \in Conn : link[c] # "none" => c \in Accepted
  /\ Goto(Acceptor, "open")
  /\ task' = [task EXCEPT ![Acceptor] =
                          Task(Tell("SERVER-STOPPED", None), "clear")]
  /\ UNCHANGED <<wire, room, clients, running, listening, ref, who, doomed,
                 crashed>>

(* After onServerStopped: close() every client in turn, and join its       *)
(* thread.                                                                 *)
(* Bug: close() joins the thread and leaves running true.                  *)
CloseStillRunning ==
  /\ pc[Acceptor] = "close"
  /\ task[Acceptor].next \in DOMAIN clients
  /\ Goto(Acceptor, "closing")
  /\ UNCHANGED <<wire, room, clients, running, listening, ref, who, task,
                 doomed, crashed>>

CloseClient ==
  /\ pc[Acceptor] = "close"
  /\ task[Acceptor].next \in DOMAIN clients
  /\ running' = [running EXCEPT ![clients[task[Acceptor].next]] = FALSE]
  /\ Goto(Acceptor, "closing")
  /\ UNCHANGED <<wire, room, clients, listening, ref, who, task, doomed,
                 crashed>>

(* Bug: close() does not join the thread.                                  *)
ClientNotJoined ==
  /\ pc[Acceptor] = "closing"
  /\ Goto(Acceptor, "close")
  /\ task' = [task EXCEPT ![Acceptor].next = @ + 1]
  /\ UNCHANGED <<wire, room, clients, running, listening, ref, who, doomed,
                 crashed>>

ClientClosed ==
  /\ pc[Acceptor] = "closing"
  /\ pc[clients[task[Acceptor].next]] = "dead"
  /\ Goto(Acceptor, "close")
  /\ task' = [task EXCEPT ![Acceptor].next = @ + 1]
  /\ UNCHANGED <<wire, room, clients, running, listening, ref, who, doomed,
                 crashed>>

(* The listening socket is closed; connections never accepted are reset.   *)
AcceptorEnds ==
  /\ pc[Acceptor] = "close"
  /\ task[Acceptor].next > Len(clients)
  /\ Goto(Acceptor, "dead")
  /\ task' = [task EXCEPT ![Acceptor] = NoTask]
  /\ link' = [c \in Conn |-> IF link[c] = "none" \/ c \in Accepted
                             THEN link[c] ELSE "rst"]
  /\ UNCHANGED <<toServer, toClient, room, clients, running, listening, ref,
                 who, doomed, crashed>>

(* stopListening, called by the host's user interface, which then joins    *)
(* the accept thread.                                                      *)
StopListening ==
  /\ listening
  /\ listening' = FALSE
  /\ UNCHANGED <<wire, room, clients, running, pc, ref, who, task, doomed,
                 crashed>>

-----------------------------------------------------------------------------
(* sendMessageToAll *)

(* The message is built from the fields as they are now, and an iterator   *)
(* is opened on clients.                                                   *)
Open(t) ==
  /\ pc[t] = "open"
  /\ \/ /\ task[t].msg.kind = "PLAYERS" /\ NullEntry
        /\ Throw(t)
     \/ /\ ~(task[t].msg.kind = "PLAYERS" /\ NullEntry)
        /\ task' = [task EXCEPT
             ![t].msg = Filled(@), ![t].next = 1, ![t].len = Len(clients)]
        /\ Goto(t, "send")
        /\ UNCHANGED <<doomed, crashed>>
  /\ UNCHANGED <<wire, room, clients, running, listening, ref, who>>

Sending(t) == pc[t] = "send" /\ task[t].next \in DOMAIN clients

(* clients grew since the iterator was opened: next() throws a             *)
(* ConcurrentModificationException.                                        *)
IteratorFails(t) ==
  /\ Sending(t)
  /\ task[t].len # Len(clients)
  /\ Throw(t)
  /\ UNCHANGED <<wire, room, clients, running, listening, ref, who>>

SendNext(t) ==
  LET c == clients[task[t].next] IN
  /\ Sending(t)
  /\ task[t].len = Len(clients)
  /\ Writable(c)
  /\ Write(c, <<task[t].msg>>)
  /\ task' = [task EXCEPT ![t].next = @ + 1]
  /\ UNCHANGED <<toServer, room, clients, running, listening, pc, ref, who,
                 doomed, crashed>>

(* The write fails: ClientHandler.sendMessage calls close(), which joins.  *)
SendFails(t) ==
  LET c == clients[task[t].next] IN
  /\ Sending(t)
  /\ task[t].len = Len(clients)
  /\ ~Writable(c)
  /\ running' = [running EXCEPT ![c] = FALSE]
  /\ who' = [who EXCEPT ![t] = c]
  /\ Goto(t, "join")
  /\ UNCHANGED <<wire, room, clients, listening, ref, task, doomed, crashed>>

(* join() returns once the other thread is dead; nobody outlives itself.   *)
JoinReturns(t) ==
  /\ pc[t] = "join"
  /\ pc[who[t]] = "dead"
  /\ Goto(t, "send")
  /\ who' = [who EXCEPT ![t] = None]
  /\ task' = [task EXCEPT ![t].next = @ + 1]
  /\ UNCHANGED <<wire, room, clients, running, listening, ref, doomed, crashed>>

(* Bug: the last client is forgotten.                                      *)
AllButOneSent(t, after) ==
  /\ pc[t] = "send"
  /\ task[t].next >= Len(clients)
  /\ task[t].after = after

AllSent(t, after) ==
  /\ pc[t] = "send"
  /\ task[t].next > Len(clients)
  /\ task[t].after = after

Done(t) ==
  /\ AllSent(t, "loop")
  /\ Goto(t, Back(t))
  /\ task' = [task EXCEPT ![t] = NoTask]
  /\ UNCHANGED <<wire, room, clients, running, listening, ref, who, doomed,
                 crashed>>

(* FINISHED has been sent to all: gameState = ENDED.                       *)
GameEnds(t) ==
  /\ AllSent(t, "ended")
  /\ gameState' = "ENDED"
  /\ Goto(t, Back(t))
  /\ task' = [task EXCEPT ![t] = NoTask]
  /\ UNCHANGED <<wire, players, stats, roomName, clients, running, listening,
                 ref, who, doomed, crashed>>

(* onServerStopped ends with players.clear().                              *)
ClearPlayers ==
  /\ AllSent(Acceptor, "clear")
  /\ players' = [c \in Conn |-> None]
  /\ Goto(Acceptor, "close")
  /\ task' = [task EXCEPT ![Acceptor] = [NoTask EXCEPT !.next = 1]]
  /\ UNCHANGED <<wire, gameState, stats, roomName, clients, running, listening,
                 ref, who, doomed, crashed>>

-----------------------------------------------------------------------------
(* The handler threads: ClientHandler.run *)

(* readLine returns the next message.                                      *)
Take(h, kind) ==
  /\ pc[h] = "read"
  /\ toServer[h] # <<>>
  /\ Head(toServer[h]).kind = kind
  /\ toServer' = [toServer EXCEPT ![h] = Tail(@)]

Arg(h) == Head(toServer[h]).arg

(* A connection without a player may only CONNECT or RECONNECT, and only   *)
(* the host may name the room: the rest is dropped.                        *)
Ignore(h) ==
  /\ \/ /\ \E kind \in {"READY", "START", "ROOM-NAME", "ANAM-FOUND"} :
             Take(h, kind)
        /\ ~Joined(h)
     \/ Take(h, "ROOM-NAME") /\ Owner(h) # Host
  /\ Goto(h, Back(h))
  /\ UNCHANGED <<link, toClient, room, clients, running, listening, ref, who,
                 task, doomed, crashed>>

(* A reset connection: readLine throws an IOException, the loop ends.      *)
ReadFails(h) ==
  /\ pc[h] = "read"
  /\ toServer[h] = <<>>
  /\ link[h] = "rst"
  /\ Goto(h, "final")
  /\ UNCHANGED <<wire, room, clients, running, listening, ref, who, task,
                 doomed, crashed>>

(* readLine timed out, or returned null at the end of file: the loop       *)
(* checks running.  While running is true it reads again, and spins at the *)
(* end of file.                                                            *)
LeaveLoop(h) ==
  /\ pc[h] = "read"
  /\ toServer[h] = <<>>
  /\ link[h] # "rst"
  /\ ~running[h]
  /\ Goto(h, "final")
  /\ UNCHANGED <<wire, room, clients, running, listening, ref, who, task,
                 doomed, crashed>>

(* The finally block: onClientDisconnected sends the list when the         *)
(* connection still has a player, then the socket is closed; a close with  *)
(* unread messages resets the connection.                                  *)
Ends(h) ==
  /\ IF h \in doomed THEN crashed' = TRUE ELSE UNCHANGED crashed
  /\ link' = [link EXCEPT ![h] =
                IF @ = "rst" \/ toServer[h] # <<>> THEN "rst" ELSE "closed"]
  /\ Goto(h, "dead")

Disconnected(h) ==
  /\ pc[h] = "final"
  /\ \/ /\ players[h] # None
        /\ task' = [task EXCEPT ![h] = [PlayerList EXCEPT !.after = "exit"]]
        /\ Goto(h, "open")
        /\ UNCHANGED <<link, crashed>>
     \/ /\ players[h] = None
        /\ Ends(h)
        /\ UNCHANGED task
  /\ UNCHANGED <<toServer, toClient, room, clients, running, listening, ref,
                 who, doomed>>

HandlerEnds(h) ==
  /\ AllSent(h, "exit")
  /\ Ends(h)
  /\ task' = [task EXCEPT ![h] = NoTask]
  /\ UNCHANGED <<toServer, toClient, room, clients, running, listening, ref,
                 who, doomed>>

-----------------------------------------------------------------------------
(* Server.onMessageReceived, one action per message *)

(* Bug: addPlayer does not look at gameState.                              *)
ReceiveConnectLate(h) ==
  /\ Take(h, "CONNECT")
  /\ Goto(h, "put")
  /\ UNCHANGED <<link, toClient, room, clients, running, listening, ref, who,
                 task, doomed, crashed>>

(* CONNECT: addPlayer looks at gameState first.                            *)
ReceiveConnect(h) ==
  /\ Take(h, "CONNECT")
  /\ \/ /\ gameState = "LOBBY"
        /\ Goto(h, "put")
        /\ UNCHANGED <<link, toClient, running, who>>
     \/ /\ gameState # "LOBBY"
        /\ Reply(h, <<Tell("GAME-STARTED", None)>>, Back(h))
  /\ UNCHANGED <<room, clients, listening, ref, task, doomed, crashed>>

AddPlayer(h) ==
  /\ pc[h] = "put"
  /\ players' = [players EXCEPT ![h] = h]
  /\ stats' = [stats EXCEPT ![h] = NewPlayer]
  /\ Goto(h, "hello")
  /\ UNCHANGED <<wire, gameState, roomName, clients, running, listening, ref,
                 who, task, doomed, crashed>>

(* Bug: the id is not sent.                                                *)
GreetWithoutId(h) ==
  /\ pc[h] = "hello"
  /\ Reply(h, <<Tell("ROOM-NAME", roomName)>>, "open")
  /\ task' = [task EXCEPT ![h] = PlayerList]
  /\ UNCHANGED <<toServer, room, clients, listening, ref, doomed, crashed>>

Greet(h) ==
  /\ pc[h] = "hello"
  /\ Reply(h, <<Tell("ID", h), Tell("ROOM-NAME", roomName)>>, "open")
  /\ task' = [task EXCEPT ![h] = PlayerList]
  /\ UNCHANGED <<toServer, room, clients, listening, ref, doomed, crashed>>

(* RECONNECT: getHandler, then get, remove and put, each on the shared map. *)
ReceiveReconnect(h) ==
  /\ Take(h, "RECONNECT")
  /\ \/ \E g \in Conn :
           /\ players[g] = Arg(h)
           /\ Joined(g)
           /\ who' = [who EXCEPT ![h] = g]
           /\ task' = [task EXCEPT ![h] = Task(Tell("ID", Arg(h)), "loop")]
           /\ Goto(h, "lookup")
           /\ UNCHANGED <<link, toClient, running, doomed, crashed>>
     \/ /\ NullEntry
        /\ Throw(h)
        /\ UNCHANGED <<link, toClient, running, who>>
     \/ /\ Arg(h) \notin Ids
        /\ ~NullEntry
        /\ Reply(h, <<Tell("GAME-STARTED", None)>>, Back(h))
        /\ UNCHANGED <<task, doomed, crashed>>
  /\ UNCHANGED <<room, clients, listening, ref>>

(* Bug: the Player is not that of the handler that was found.              *)
LookUpAnyPlayer(h) ==
  /\ pc[h] = "lookup"
  /\ \E g \in Entries : ref' = [ref EXCEPT ![h] = players[g]]
  /\ Goto(h, "drop")
  /\ UNCHANGED <<wire, room, clients, running, listening, who, task, doomed,
                 crashed>>

(* Bug: the entry is removed before it is read.                            *)
LookUpTooLate(h) ==
  /\ pc[h] = "lookup"
  /\ ref' = [ref EXCEPT ![h] = Null]
  /\ Goto(h, "drop")
  /\ UNCHANGED <<wire, room, clients, running, listening, who, task, doomed,
                 crashed>>

(* players.get(h): null when the entry has gone.                           *)
LookUpPlayer(h) ==
  /\ pc[h] = "lookup"
  /\ ref' = [ref EXCEPT ![h] = IF Joined(who[h]) THEN players[who[h]] ELSE Null]
  /\ Goto(h, "drop")
  /\ UNCHANGED <<wire, room, clients, running, listening, who, task, doomed,
                 crashed>>

DropHandler(h) ==
  /\ pc[h] = "drop"
  /\ players' = [players EXCEPT ![who[h]] = None]
  /\ who' = [who EXCEPT ![h] = None]
  /\ Goto(h, "adopt")
  /\ UNCHANGED <<wire, gameState, stats, roomName, clients, running, listening,
                 ref, task, doomed, crashed>>

AdoptPlayer(h) ==
  /\ pc[h] = "adopt"
  /\ players' = [players EXCEPT ![h] = ref[h]]
  /\ ref' = [ref EXCEPT ![h] = None]
  /\ Goto(h, "welcome")
  /\ UNCHANGED <<wire, gameState, stats, roomName, clients, running, listening,
                 who, task, doomed, crashed>>

WelcomeBack(h) ==
  /\ pc[h] = "welcome"
  /\ Reply(h, <<task[h].msg>>, Back(h))
  /\ task' = [task EXCEPT ![h] = NoTask]
  /\ UNCHANGED <<toServer, room, clients, listening, ref, doomed, crashed>>

(* READY toggles, whatever the state of the game.                          *)
ReceiveReady(h) ==
  /\ Take(h, "READY")
  /\ Joined(h)
  /\ stats' = [stats EXCEPT ![players[h]].ready = ~@]
  /\ task' = [task EXCEPT ![h] = PlayerList]
  /\ Goto(h, "open")
  /\ UNCHANGED <<link, toClient, gameState, players, roomName, clients, running,
                 listening, ref, who, doomed, crashed>>

(* START: areAllPlayerReady, then the state changes.                       *)
ReceiveStart(h) ==
  /\ Take(h, "START")
  /\ Joined(h)
  /\ \/ /\ AllReady /\ ~NullEntry
        /\ Goto(h, "begin")
        /\ UNCHANGED <<link, toClient, running, who, task, doomed, crashed>>
     \/ /\ NullEntry
        /\ Throw(h)
        /\ UNCHANGED <<link, toClient, running, who>>
     \/ /\ ~AllReady
        /\ Reply(h, <<Tell("NOTREADY", None)>>, Back(h))
        /\ UNCHANGED <<task, doomed, crashed>>
  /\ UNCHANGED <<room, clients, listening, ref>>

(* Bug: the game starts and gameState stays.                               *)
BeginInLobby(h) ==
  /\ pc[h] = "begin"
  /\ task' = [task EXCEPT ![h] = Task(Tell("START", None), "loop")]
  /\ Goto(h, "open")
  /\ UNCHANGED <<wire, room, clients, running, listening, ref, who, doomed,
                 crashed>>

Begin(h) ==
  /\ pc[h] = "begin"
  /\ gameState' = "MAIN_GAME"
  /\ task' = [task EXCEPT ![h] = Task(Tell("START", None), "loop")]
  /\ Goto(h, "open")
  /\ UNCHANGED <<wire, players, stats, roomName, clients, running, listening,
                 ref, who, doomed, crashed>>

(* ROOM-NAME, from the host.                                               *)
ReceiveRoomName(h) ==
  /\ Take(h, "ROOM-NAME")
  /\ Joined(h)
  /\ Owner(h) = Host
  /\ roomName' = Arg(h)
  /\ task' = [task EXCEPT ![h] = Task(Tell("ROOM-NAME", Arg(h)), "loop")]
  /\ Goto(h, "open")
  /\ UNCHANGED <<link, toClient, gameState, players, stats, clients, running,
                 listening, ref, who, doomed, crashed>>

(* ANAM-FOUND: the find is credited in every state of the game.            *)
ReceiveFound(h) ==
  /\ Take(h, "ANAM-FOUND")
  /\ Joined(h)
  /\ stats' = [stats EXCEPT ![players[h]].found = @ + 1,
                            ![players[h]].score = @ + Arg(h)]
  /\ ref' = [ref EXCEPT ![h] = players[h]]
  /\ Goto(h, "credited")
  /\ UNCHANGED <<link, toClient, gameState, players, roomName, clients, running,
                 listening, who, task, doomed, crashed>>

(* The players in the order the HashMap gives its entries:                 *)
(* sortPlayersByScore compares a score with itself and keeps that order.   *)
Standings ==
  LET n == Cardinality(Entries) IN
  {[i \in 1..n |-> players[o[i]]] :
     o \in {f \in [1..n -> Entries] : \A i, j \in 1..n : f[i] = f[j] => i = j}}

(* Bug: a player is added before its score is compared.                    *)
EqualsAndNext(o) ==
  LET Same(i) == stats[o[i]].score = stats[o[1]].score
      head == {k \in DOMAIN o : \A i \in 1..k - 1 : Same(i)}
  IN SubSeq(o, 1, Cardinality(head))

(* The head of the list: the first player and those who follow with the    *)
(* same score.                                                             *)
Equals(o) ==
  LET Same(i) == stats[o[i]].score = stats[o[1]].score
      head == {k \in DOMAIN o : \A i \in 1..k : Same(i)}
  IN SubSeq(o, 1, Cardinality(head))

(* A find of the death match ends the game; otherwise the thread looks at  *)
(* gameState a second time.                                                *)
DeathMatchFind(h) ==
  /\ pc[h] = "credited"
  /\ \/ /\ gameState = "DEATH_MATCH"
        /\ \/ /\ ~NullEntry
              /\ \E o \in Standings :
                   task' = [task EXCEPT ![h] =
                                   Task(TellPodium("FINISHED", o), "ended")]
              /\ Goto(h, "open")
              /\ UNCHANGED <<doomed, crashed>>
           \/ NullEntry /\ Throw(h)
        /\ ref' = [ref EXCEPT ![h] = None]
     \/ /\ gameState # "DEATH_MATCH"
        /\ Goto(h, "maingame")
        /\ UNCHANGED <<ref, task, doomed, crashed>>
  /\ UNCHANGED <<wire, room, clients, running, listening, who>>

(* Bug: one find too early.                                                *)
AlmostWinning(h) == stats[ref[h]].found + 1 >= FindsToWin

Winning(h) == stats[ref[h]].found >= FindsToWin

(* The main game: with too few finds the list is sent to all; with enough, *)
(* a tie at the head of the list opens a death match, no tie ends the      *)
(* game.  An empty or a null entry throws.                                 *)
MainGameFind(h) ==
  /\ pc[h] = "maingame"
  /\ \/ /\ gameState # "MAIN_GAME"
        /\ Goto(h, Back(h))
        /\ UNCHANGED <<task, doomed, crashed>>
     \/ /\ gameState = "MAIN_GAME" /\ ~Winning(h)
        /\ task' = [task EXCEPT ![h] = PlayerList]
        /\ Goto(h, "open")
        /\ UNCHANGED <<doomed, crashed>>
     \/ /\ gameState = "MAIN_GAME" /\ Winning(h)
        /\ ~NullEntry /\ Ids # {}
        /\ \E o \in Standings :
             IF Len(Equals(o)) > 1
             THEN /\ task' = [task EXCEPT ![h] =
                              Task(TellPodium("DEATHMATCH", Equals(o)), "loop")]
                  /\ Goto(h, "tie")
             ELSE /\ task' = [task EXCEPT ![h] =
                              Task(TellPodium("FINISHED", o), "ended")]
                  /\ Goto(h, "open")
        /\ UNCHANGED <<doomed, crashed>>
     \/ /\ gameState = "MAIN_GAME" /\ Winning(h)
        /\ NullEntry \/ Ids = {}
        /\ Throw(h)
  /\ ref' = [ref EXCEPT ![h] = None]
  /\ UNCHANGED <<wire, room, clients, running, listening, who>>

(* Bug: the death match is opened and nobody is told.                      *)
OpenDeathMatchSilently(h) ==
  /\ pc[h] = "tie"
  /\ gameState' = "DEATH_MATCH"
  /\ Goto(h, Back(h))
  /\ task' = [task EXCEPT ![h] = NoTask]
  /\ UNCHANGED <<wire, players, stats, roomName, clients, running, listening,
                 ref, who, doomed, crashed>>

OpenDeathMatch(h) ==
  /\ pc[h] = "tie"
  /\ gameState' = "DEATH_MATCH"
  /\ Goto(h, "open")
  /\ UNCHANGED <<wire, players, stats, roomName, clients, running, listening,
                 ref, who, task, doomed, crashed>>

-----------------------------------------------------------------------------
AcceptThread ==
  \/ \E c \in Conn : Accept(c)
  \/ StopAccepting \/ CloseClient \/ ClientClosed \/ AcceptorEnds \/ ClearPlayers

Broadcast(t) ==
  \/ Open(t) \/ IteratorFails(t) \/ SendNext(t) \/ SendFails(t)
  \/ JoinReturns(t) \/ Done(t)

HandlerThread(h) ==
  \/ Ignore(h) \/ ReadFails(h) \/ LeaveLoop(h)
  \/ Disconnected(h) \/ HandlerEnds(h)
  \/ ReceiveConnect(h) \/ AddPlayer(h) \/ Greet(h)
  \/ ReceiveReconnect(h) \/ LookUpPlayer(h) \/ DropHandler(h)
  \/ AdoptPlayer(h) \/ WelcomeBack(h)
  \/ ReceiveReady(h) \/ ReceiveStart(h) \/ Begin(h)
  \/ ReceiveRoomName(h)
  \/ ReceiveFound(h) \/ DeathMatchFind(h) \/ MainGameFind(h)
  \/ OpenDeathMatch(h) \/ GameEnds(h)

ThreadStep(t) ==
  \/ t \in Conn /\ HandlerThread(t)
  \/ t = Acceptor /\ AcceptThread
  \/ Broadcast(t)

ServerTypeOK ==
  /\ gameState \in GameState
  /\ players \in [Conn -> Conn \cup {None, Null}]
  /\ stats \in [Conn -> PlayerInfo]
  /\ roomName \in RoomNames
  /\ clients \in Seq(Conn)
  /\ running \in [Conn -> BOOLEAN]
  /\ listening \in BOOLEAN
  /\ pc \in [Thread -> Location]
  /\ ref \in [Thread -> Conn \cup {None, Null}]
  /\ who \in [Thread -> Conn \cup {None}]
  /\ task \in [Thread -> SendTask]
  /\ doomed \in SUBSET Thread
  /\ crashed \in BOOLEAN
=============================================================================
