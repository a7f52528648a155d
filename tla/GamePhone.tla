----------------------------- MODULE GamePhone ------------------------------
(***************************************************************************)
(* A player's phone: the thread of Client.java, the game events it hands   *)
(* to the activity on screen, and what that activity lets the player send. *)
(***************************************************************************)
EXTENDS RoomProtocol, FiniteSetsExt

CONSTANTS
  MaxToggles,  (* bound: READY messages, all phones together               *)
  MaxStarts,   (* bound: START messages                                    *)
  MaxRenames,  (* bound: ROOM-NAME messages                                *)
  MaxFinds,    (* bound: anamorphoses found, all phones together           *)
  MaxBreaks    (* bound: connections broken, phones killed                 *)

VARIABLES
  stage,       (* "home" before connectServer; "run" in the loop of run(); *)
               (* "retry" in the pause before the next attempt; "off"      *)
  tries,       (* connections opened; the last one is the current one      *)
  myId,        (* Client.playerId                                          *)
  shown,       (* Client.players: the rows on screen                       *)
  podium,      (* the order of the rows of the final list, None before it  *)
  screen,      (* the activity in front                                    *)
  used         (* what the bounds count, by phone                          *)

phoneVars == <<stage, tries, myId, shown, podium, screen, used>>

Stage == {"home", "run", "retry", "off"}

Screen == {"none", "lobby", "game", "board", "menu"}

Bounded == {"toggles", "starts", "renames", "finds", "breaks"}

Limit == [toggles |-> MaxToggles, starts |-> MaxStarts,
          renames |-> MaxRenames, finds |-> MaxFinds, breaks |-> MaxBreaks]

PhoneInit ==
  /\ stage = [p \in Phones |-> "home"]
  /\ tries = [p \in Phones |-> 0]
  /\ myId = [p \in Phones |-> None]
  /\ shown = [p \in Phones |-> EmptyView]
  /\ podium = [p \in Phones |-> None]
  /\ screen = [p \in Phones |-> "none"]
  /\ used = [p \in Phones |-> [b \in Bounded |-> 0]]

Sock(p) == <<p, tries[p]>>

Online(p) == stage[p] = "run"

NewSock(p) == <<p, tries[p] + 1>>

(* The listener is a game activity.  The menu sets no listener of its own: *)
(* the last game activity still receives the events.                       *)
InGame(activity) == activity \in {"game", "board", "menu"}

(* Socket, then CONNECT or RECONNECT: the start of run().                  *)
OpenSocket(p, hello) ==
  /\ tries[p] < MaxTries
  /\ tries' = [tries EXCEPT ![p] = @ + 1]
  /\ link' = [link EXCEPT ![NewSock(p)] = "up"]
  /\ toServer' = [toServer EXCEPT ![NewSock(p)] = <<hello>>]
  /\ stage' = [stage EXCEPT ![p] = "run"]
  /\ UNCHANGED toClient

(* connectServer, from the lobby of a guest or from the host's accept      *)
(* thread through ClientServerSynchronizer.                                *)
ConnectServer(p) ==
  /\ stage[p] = "home"
  /\ OpenSocket(p, Say("CONNECT", None))
  /\ screen' = [screen EXCEPT ![p] = "lobby"]
  /\ UNCHANGED <<myId, shown, podium, used>>

Reconnect(p) ==
  /\ stage[p] = "retry"
  /\ OpenSocket(p, Say("RECONNECT", myId[p]))
  /\ UNCHANGED <<myId, shown, podium, screen, used>>

-----------------------------------------------------------------------------
(* The catch and finally blocks of run(): the listener is told, the socket *)
(* is closed (a close with unread data resets it), a new thread will       *)
(* reconnect.  The lobby shows a toast; a game activity goes to the menu.  *)
NetworkError(p, unread) ==
  /\ stage' = [stage EXCEPT ![p] = "retry"]
  /\ link' = [link EXCEPT ![Sock(p)] =
                CASE @ = "up" /\ unread = <<>> -> "fin"
                  [] @ = "up" /\ unread # <<>> -> "rst"
                  [] OTHER -> @]
  /\ toClient' = [toClient EXCEPT ![Sock(p)] = <<>>]
  /\ screen' = [screen EXCEPT ![p] = IF InGame(@) THEN "menu" ELSE @]

Inbox(p) == toClient[Sock(p)]

(* readLine returns the next instruction.                                  *)
Hear(p, kind) ==
  /\ Online(p)
  /\ Inbox(p) # <<>>
  /\ Head(Inbox(p)).kind = kind

Consume(p) == toClient' = [toClient EXCEPT ![Sock(p)] = Tail(@)]

(* PLAYERS with no row cannot be parsed: an exception of the thread.       *)
HearPlayers(p) ==
  /\ Hear(p, "PLAYERS")
  /\ LET v == Head(Inbox(p)).view IN
     \/ /\ Listed(v) # {}
        /\ Consume(p)
        /\ shown' = [shown EXCEPT ![p] = v]
        /\ UNCHANGED <<link, stage, screen>>
     \/ /\ Listed(v) = {}
        /\ NetworkError(p, Tail(Inbox(p)))
        /\ UNCHANGED shown
  /\ UNCHANGED <<toServer, tries, myId, podium, used>>

HearId(p) ==
  /\ Hear(p, "ID")
  /\ Consume(p)
  /\ myId' = [myId EXCEPT ![p] = Head(Inbox(p)).arg]
  /\ UNCHANGED <<link, toServer, stage, tries, shown, podium, screen, used>>

(* The lobby, or the lobby left behind, opens the game; a game activity    *)
(* ignores the event.                                                      *)
HearStart(p) ==
  /\ Hear(p, "START")
  /\ Consume(p)
  /\ screen' = [screen EXCEPT ![p] = IF @ = "lobby" THEN "game" ELSE @]
  /\ UNCHANGED <<link, toServer, stage, tries, myId, shown, podium, used>>

(* The final list: a game activity opens the leaderboard, the lobby        *)
(* ignores the event.                                                      *)
HearFinished(p) ==
  /\ Hear(p, "FINISHED")
  /\ Consume(p)
  /\ shown' = [shown EXCEPT ![p] = Head(Inbox(p)).view]
  /\ podium' = [podium EXCEPT ![p] = Head(Inbox(p)).podium]
  /\ screen' = [screen EXCEPT ![p] = IF InGame(@) THEN "board" ELSE @]
  /\ UNCHANGED <<link, toServer, stage, tries, myId, used>>

(* parseDeathMatchInstruction compares an array with the player's id, and  *)
(* gives no anamorphosis to anybody.  A game activity then starts          *)
(* DeathMatchAnnounceActivity, which the manifest does not declare:        *)
(* ActivityNotFoundException on the client's thread.                       *)
HearDeathMatch(p) ==
  /\ Hear(p, "DEATHMATCH")
  /\ \/ /\ InGame(screen[p])
        /\ NetworkError(p, Tail(Inbox(p)))
     \/ /\ ~InGame(screen[p])
        /\ Consume(p)
        /\ UNCHANGED <<link, stage, screen>>
  /\ UNCHANGED <<toServer, tries, myId, shown, podium, used>>

(* The thread leaves its loop and closes the socket, for good.             *)
HearStopped(p) ==
  /\ Hear(p, "SERVER-STOPPED")
  /\ stage' = [stage EXCEPT ![p] = "off"]
  /\ shown' = [shown EXCEPT ![p] = EmptyView]
  /\ screen' = [screen EXCEPT ![p] = IF InGame(@) THEN "menu" ELSE @]
  /\ link' = [link EXCEPT ![Sock(p)] =
                CASE @ = "up" /\ Tail(Inbox(p)) = <<>> -> "fin"
                  [] @ = "up" /\ Tail(Inbox(p)) # <<>> -> "rst"
                  [] OTHER -> @]
  /\ toClient' = [toClient EXCEPT ![Sock(p)] = <<>>]
  /\ UNCHANGED <<toServer, tries, myId, podium, used>>

(* Nothing the game depends on: the title of the lobby.                    *)
HearRoomName(p) ==
  /\ Hear(p, "ROOM-NAME")
  /\ Consume(p)
  /\ UNCHANGED <<link, toServer, phoneVars>>

(* A toast in the lobby; a game activity casts the String to an Exception: *)
(* ClassCastException on the client's thread.                              *)
HearNotReady(p) ==
  /\ Hear(p, "NOTREADY")
  /\ \/ /\ InGame(screen[p])
        /\ NetworkError(p, Tail(Inbox(p)))
     \/ /\ ~InGame(screen[p])
        /\ Consume(p)
        /\ UNCHANGED <<link, stage, screen>>
  /\ UNCHANGED <<toServer, tries, myId, shown, podium, used>>

(* GAME-STARTED is sent without a newline: readLine joins it to the next   *)
(* instruction, and neither is understood.                                 *)
HearRefusal(p) ==
  /\ Hear(p, "GAME-STARTED")
  /\ Len(Inbox(p)) > 1
  /\ toClient' = [toClient EXCEPT ![Sock(p)] = Tail(Tail(@))]
  /\ UNCHANGED <<link, toServer, phoneVars>>

(* The end of the stream, or a reset: readLine returns null or throws.     *)
Disconnection(p) ==
  /\ Online(p)
  /\ link[Sock(p)] \in {"rst", "closed"}
  /\ \/ Inbox(p) = <<>>
     \/ Len(Inbox(p)) = 1 /\ Head(Inbox(p)).kind = "GAME-STARTED"
  /\ NetworkError(p, <<>>)
  /\ UNCHANGED <<toServer, tries, myId, shown, podium, used>>

-----------------------------------------------------------------------------
(* What the player does *)

(* Bug: the message is sent again.                                         *)
SendAgain(p, message) ==
  toServer' = IF Online(p) /\ link[Sock(p)] = "up"
              THEN [toServer EXCEPT ![Sock(p)] = @ \o <<message, message>>]
              ELSE toServer

(* sendInstruction: out is null while the client is not connected, and the *)
(* message is then dropped silently.  A write on a reset connection tells  *)
(* the listener of the error, and a game activity goes to the menu.        *)
Send(p, message) ==
  toServer' = IF Online(p) /\ link[Sock(p)] = "up"
              THEN [toServer EXCEPT ![Sock(p)] = Append(@, message)]
              ELSE toServer

Spend(p, b) ==
  /\ MapThenSumSet(LAMBDA q : used[q][b], Phones) < Limit[b]
  /\ used' = [used EXCEPT ![p][b] = @ + 1]

(* A tap on one's own row of the lobby.                                    *)
ToggleReady(p) ==
  /\ screen[p] = "lobby"
  /\ myId[p] \in Listed(shown[p])
  /\ Spend(p, "toggles")
  /\ Send(p, Say("READY", None))
  /\ UNCHANGED <<link, toClient, stage, tries, myId, shown, podium, screen>>

StartGame(p) ==
  /\ p = Host
  /\ screen[p] = "lobby"
  /\ Spend(p, "starts")
  /\ Send(p, Say("START", None))
  /\ UNCHANGED <<link, toClient, stage, tries, myId, shown, podium, screen>>

SendRoomName(p, name) ==
  /\ p = Host
  /\ screen[p] = "lobby"
  /\ Spend(p, "renames")
  /\ Send(p, Say("ROOM-NAME", name))
  /\ UNCHANGED <<link, toClient, stage, tries, myId, shown, podium, screen>>

SetFound(p, value) ==
  /\ screen[p] = "game"
  /\ Spend(p, "finds")
  /\ Send(p, Say("ANAM-FOUND", value))
  /\ screen' = [screen EXCEPT ![p] = IF link[Sock(p)] = "rst" THEN "menu" ELSE @]
  /\ UNCHANGED <<link, toClient, stage, tries, myId, shown, podium>>

-----------------------------------------------------------------------------
(* The network and the phones fail *)

Prefixes(s) == {SubSeq(s, 1, n) : n \in 0..Len(s)}

(* The connection is reset; on each side what had not arrived is lost.     *)
LinkReset(p) ==
  LET c == Sock(p) IN
  /\ Online(p)
  /\ link[c] = "up"
  /\ Spend(p, "breaks")
  /\ link' = [link EXCEPT ![c] = "rst"]
  /\ \E s \in Prefixes(toServer[c]) : toServer' = [toServer EXCEPT ![c] = s]
  /\ \E s \in Prefixes(toClient[c]) : toClient' = [toClient EXCEPT ![c] = s]
  /\ UNCHANGED <<stage, tries, myId, shown, podium, screen>>

(* The application of a guest is killed: its sockets are closed.           *)
PhoneKilled(p) ==
  LET c == Sock(p) IN
  /\ p # Host
  /\ Online(p)
  /\ link[c] = "up"
  /\ Spend(p, "breaks")
  /\ link' = [link EXCEPT ![c] = IF Inbox(p) = <<>> THEN "fin" ELSE "rst"]
  /\ toClient' = [toClient EXCEPT ![c] = <<>>]
  /\ stage' = [stage EXCEPT ![p] = "off"]
  /\ screen' = [screen EXCEPT ![p] = "none"]
  /\ UNCHANGED <<toServer, tries, myId, shown, podium>>

ClientThread(p) ==
  \/ HearPlayers(p) \/ HearId(p) \/ HearStart(p) \/ HearFinished(p)
  \/ HearDeathMatch(p) \/ HearStopped(p) \/ HearRoomName(p)
  \/ HearNotReady(p) \/ HearRefusal(p) \/ Disconnection(p)

Player(p) ==
  \/ ToggleReady(p)
  \/ StartGame(p)
  \/ \E name \in RoomNames : SendRoomName(p, name)
  \/ \E value \in Values : SetFound(p, value)

Failure(p) == LinkReset(p) \/ PhoneKilled(p)

PhoneTypeOK ==
  /\ stage \in [Phones -> Stage]
  /\ tries \in [Phones -> 0..MaxTries]
  /\ myId \in [Phones -> Conn \cup {None}]
  /\ shown \in [Phones -> View]
  /\ podium \in [Phones -> Seq(Conn) \cup {None}]
  /\ screen \in [Phones -> Screen]
  /\ used \in [Phones -> [Bounded -> Nat]]
=============================================================================
