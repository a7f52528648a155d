------------------------------ MODULE GameRoom ------------------------------
(***************************************************************************)
(* A room: the server on the host's phone and the clients of all the       *)
(* phones, the host's included, over the connections between them.         *)
(***************************************************************************)
EXTENDS GameServer, GamePhone

CONSTANT
  HostMayStop  (* whether the host may close the room in this instance     *)

ASSUME RoomAssumption == HostMayStop \in BOOLEAN

vars == <<wire, serverVars, phoneVars>>

Init == WireInit /\ ServerInit /\ PhoneInit

(* The listening socket exists until the accept thread has ended.          *)
Reachable == pc[Acceptor] # "dead"

(* The host closes the room from the lobby or from the leaderboard; its    *)
(* user interface waits for the accept thread and sends nothing any more.  *)
HostStops ==
  /\ ~crashed
  /\ HostMayStop
  /\ screen[Host] \in {"lobby", "board"}
  /\ StopListening
  /\ UNCHANGED phoneVars

ServerStep(t) == ~crashed /\ ThreadStep(t) /\ UNCHANGED phoneVars

Connects(p) ==
  /\ ~crashed /\ Reachable
  /\ ConnectServer(p) \/ Reconnect(p)
  /\ UNCHANGED serverVars

Hears(p) == ~crashed /\ ClientThread(p) /\ UNCHANGED serverVars

Plays(p) ==
  /\ ~crashed
  /\ p = Host => listening
  /\ Player(p)
  /\ UNCHANGED serverVars

Fails(p) == ~crashed /\ Failure(p) /\ UNCHANGED serverVars

Next ==
  \/ \E t \in Thread : ServerStep(t)
  \/ HostStops
  \/ \E p \in Phones : Connects(p) \/ Hears(p) \/ Plays(p) \/ Fails(p)

Spec == Init /\ [][Next]_vars

(***************************************************************************)
(* Every thread that can run does: the threads of the server, and on each  *)
(* phone the client's thread with its reconnections.  What a player does   *)
(* and what fails is nobody's duty.                                        *)
(***************************************************************************)
Fairness ==
  /\ \A t \in Thread : WF_vars(ServerStep(t))
  /\ \A p \in Phones : WF_vars(Hears(p)) /\ WF_vars(Connects(p))

FairSpec == Spec /\ Fairness

-----------------------------------------------------------------------------
(* Type correctness of the wire, of the server's fields and threads, and   *)
(* of the phones.                                                          *)
TypeOK == WireTypeOK /\ ServerTypeOK /\ PhoneTypeOK

(* Nobody scores in the lobby: the server credits an ANAM-FOUND whatever   *)
(* gameState is (Server.java:235), and relies on the phones, which open    *)
(* the game only at START, and on START being sent after gameState changed. *)
LobbyScoresZero ==
  gameState = "LOBBY" =>
    \A id \in Conn : stats[id].score = 0 /\ stats[id].found = 0

(* The main game is over only when somebody has found enough               *)
(* (Server.java:240-272), whatever threads decide at the same time.        *)
Winner == \E id \in Conn : stats[id].found >= FindsToWin

OverHasWinner == gameState \in {"DEATH_MATCH", "ENDED"} => Winner

(* No phone plays as another: a connection carries a player created by a   *)
(* connection of the same phone (Server.java:184, 199), and the id a phone *)
(* knows is its own.                                                       *)
OwnIdentity ==
  /\ \A h \in Conn : Joined(h) => Owner(players[h]) = Owner(h)
  /\ \A p \in Phones : myId[p] # None => Owner(myId[p]) = p

(* A player who knows its id is not lost by reconnections (Server.java:191-204): it *)
(* is in players, or in the hands of the thread that moves it.             *)
Carried(id) == \E h \in Conn : pc[h] = "adopt" /\ ref[h] = id

PlayerKept ==
  \A p \in Phones :
    myId[p] # None /\ pc[Acceptor] \notin {"close", "closing", "dead"}
      => myId[p] \in Ids \/ Carried(myId[p])

(* A find is credited exactly once: what a phone has sent over a           *)
(* connection that never broke is on its way or in its count; over broken  *)
(* ones some may be lost, none counted twice.                              *)
Pending(c) == Cardinality({i \in DOMAIN toServer[c] : toServer[c][i].kind = "ANAM-FOUND"})

FindsConserved ==
  \A p \in Phones :
    LET id == <<p, 1>> IN
    /\ stats[id].found <= used[p].finds
    /\ tries[p] = 1 /\ link[id] = "up" /\ myId[p] = id /\ listening
         => stats[id].found + Pending(id) = used[p].finds

(* When the game is ENDED every player who is on the connection by which   *)
(* it joined has been told, if that has not broken: gameState = ENDED      *)
(* comes after FINISHED was sent to all (Server.java:240-244, 267-272).    *)
(* A player who comes back after that is told nothing any more.            *)
Told(p) ==
  \/ podium[p] # None
  \/ \E i \in DOMAIN Inbox(p) : Inbox(p)[i].kind = "FINISHED"

EndedAnnounced ==
  gameState = "ENDED" =>
    \A p \in Phones :
      myId[p] = Sock(p) /\ link[Sock(p)] = "up" => Told(p)

(* A phone that joined before the start and whose connection has not       *)
(* broken is not left in the lobby: once START has been sent, it has it.   *)
(* A player that slips in while the game starts is on a connection that    *)
(* was in clients before (Server.java:112-116, 216-217).                   *)
Starting(t) ==
  \/ pc[t] = "begin"
  \/ pc[t] \in {"open", "send", "join"} /\ task[t].msg.kind = "START"

StartReachesPlayers ==
  gameState # "LOBBY" /\ doomed = {} /\ (\A t \in Thread : ~Starting(t)) =>
    \A p \in Phones :
      myId[p] = Sock(p) /\ link[Sock(p)] = "up" /\ screen[p] = "lobby" =>
        \E i \in DOMAIN Inbox(p) : Inbox(p)[i].kind = "START"

(* Once the room has stopped no thread of the server is left, and no       *)
(* connection it had accepted is open (ServerBase.java:105-108).           *)
NothingOutlivesRoom ==
  pc[Acceptor] = "dead" =>
    \A c \in Conn : pc[c] \in {"off", "dead"} /\ link[c] # "up"

(* A player of a room that is being closed has been told before its        *)
(* connection is closed (ServerBase.java:105, Server.java:143), unless the *)
(* connection was reset.                                                   *)
StopTold ==
  pc[Acceptor] \in {"close", "closing", "dead"} =>
    \A p \in Phones :
      Online(p) /\ myId[p] = Sock(p) /\ link[Sock(p)] # "rst" =>
        \E i \in DOMAIN Inbox(p) : Inbox(p)[i].kind = "SERVER-STOPPED"

(* The room implements RoomOutcome.  A thread has given a verdict when it   *)
(* is about to open the death match, or sends the list after which         *)
(* gameState is ENDED (Server.java:240-272).                               *)
Verdict(t) ==
  IF pc[t] = "tie" THEN "tie"
  ELSE IF task[t].after = "ended" THEN "over" ELSE "none"

Outcome == INSTANCE RoomOutcome WITH
  Players <- Conn, Seats <- Conn, Judges <- Thread,
  phase <- gameState,
  score <- [id \in Conn |-> stats[id].score],
  found <- [id \in Conn |-> stats[id].found],
  seat <- players,
  verdict <- [t \in Thread |-> Verdict(t)],
  failed <- doomed # {} \/ crashed

OutcomeSpec == Outcome!Spec

-----------------------------------------------------------------------------
(* Liveness *)

(* In the lobby every phone that connects gets an id, unless the game      *)
(* starts first or the server dies.                                        *)
ConnectAnswered ==
  \A p \in Phones :
    stage[p] = "run" ~> myId[p] # None \/ gameState # "LOBBY" \/ crashed

(* Every find that is credited appears afterwards on every screen, or the  *)
(* game is over there: whatever gameState becomes between the two tests of *)
(* Server.java:240 and 245, somebody sends something.                      *)
OutOfGame(p) == podium[p] # None \/ screen[p] = "menu"

Crediting(id, k) ==
  stats[id].found = k /\ \E h \in Conn : pc[h] = "credited" /\ ref[h] = id

FindShown ==
  \A p \in Phones, id \in Conn : \A k \in 1..MaxFinds :
    Crediting(id, k) ~>
      OutOfGame(p) \/ (shown[p][id] # None /\ shown[p][id].found >= k)

(* When somebody has found enough, the game ends on every phone.           *)
OutcomeReachesAll == Winner ~> \A p \in Phones : OutOfGame(p)

(* stopListening returns (ServerBase.java:62-68), unless handler threads   *)
(* wait for one another, or for themselves, in close() for ever: the       *)
(* accept thread has nothing else to wait for.                             *)
JoinCycle ==
  \E S \in SUBSET Conn \ {{}} : \A c \in S : pc[c] = "join" /\ who[c] \in S

StopCompletes == ~listening ~> pc[Acceptor] = "dead" \/ crashed \/ JoinCycle

-----------------------------------------------------------------------------
(* What the documentation says and the code does not do *)

(* Server.java:72-74: the list of the players, sorted by score.            *)
ResultsSorted ==
  \A p \in Phones : podium[p] # None =>
    \A i, j \in DOMAIN podium[p] : i < j =>
      shown[p][podium[p][i]].score >= shown[p][podium[p][j]].score

(* Server.java:282: onClientDisconnected, "when a client is disconnected   *)
(* for various reason": the handler of a reset connection ends.            *)
ResetHandled ==
  \A c \in Conn : link[c] = "rst" /\ c \in Accepted ~> pc[c] = "dead" \/ crashed

(* Server.java:49-51: getHandler finds the handler associated to a player. *)
OneHandler == \A a, b \in Conn : Joined(a) /\ players[a] = players[b] => a = b
=============================================================================
