----------------------------- MODULE MCGameRoom -----------------------------
(***************************************************************************)
(* The room on small instances: the configurations choose the phones, the  *)
(* bounds on what players do, and what may fail.                           *)
(*                                                                         *)
(* Three initial states.  Init is the empty room.  FullLobby is the state  *)
(* the room is in once every phone has joined by its first connection, has *)
(* made itself ready, and has been told so; FullGame the one it is in once *)
(* the host has then started the game and every phone has opened it.  The  *)
(* runs about the game start there, and leave the joining to the runs      *)
(* about the lobby.                                                        *)
(***************************************************************************)
EXTENDS GameRoom

AllSeated == [c \in Conn |-> IF c[2] = 1 THEN [NewPlayer EXCEPT !.ready = TRUE]
                                         ELSE None]

Arrivals == {s \in [1..Cardinality(Phones) -> Phones \X {1}] :
               \A i, j \in DOMAIN s : s[i] = s[j] => i = j}

Seated(state, activity) ==
  /\ link = [c \in Conn |-> IF c[2] = 1 THEN "up" ELSE "none"]
  /\ toServer = [c \in Conn |-> <<>>]
  /\ toClient = [c \in Conn |-> <<>>]
  /\ gameState = state
  /\ players = [c \in Conn |-> IF c[2] = 1 THEN c ELSE None]
  /\ stats = [c \in Conn |-> [NewPlayer EXCEPT !.ready = (c[2] = 1)]]
  /\ roomName \in RoomNames
  /\ clients \in Arrivals
  /\ running = [c \in Conn |-> TRUE]
  /\ listening = TRUE
  /\ pc = [t \in Thread |-> IF t = Acceptor THEN "accept"
                            ELSE IF t[2] = 1 THEN "read" ELSE "off"]
  /\ ref = [t \in Thread |-> None]
  /\ who = [t \in Thread |-> None]
  /\ task = [t \in Thread |-> NoTask]
  /\ doomed = {}
  /\ crashed = FALSE
  /\ stage = [p \in Phones |-> "run"]
  /\ tries = [p \in Phones |-> 1]
  /\ myId = [p \in Phones |-> <<p, 1>>]
  /\ shown = [p \in Phones |-> AllSeated]
  /\ podium = [p \in Phones |-> None]
  /\ screen = [p \in Phones |-> activity]
  /\ used = [p \in Phones |-> [b \in Bounded |-> 0]]

FullLobby == Seated("LOBBY", "lobby")

FullGame == Seated("MAIN_GAME", "game")

LobbySpec == FullLobby /\ [][Next]_vars

GameSpec == FullGame /\ [][Next]_vars

FairLobbySpec == LobbySpec /\ Fairness

FairGameSpec == GameSpec /\ Fairness
=============================================================================
