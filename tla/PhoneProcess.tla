---------------------------- MODULE PhoneProcess -----------------------------
(***************************************************************************)
(* One phone: the thread of the user interface goes from the menu to the   *)
(* list of rooms and to a lobby, of a room of its own or of another phone, *)
(* and back.  On the way it starts, stops and waits for the threads of     *)
(* HostedRoom, RoomDiscovery and ClientThreads.  Rooms of other phones     *)
(* close when they like.                                                   *)
(***************************************************************************)
EXTENDS HostedRoom

CONSTANTS
  MaxVisits,  (* how often the player enters a lobby                        *)
  MaxFaults   (* connections broken and ports refused, all together         *)

ASSUME VisitAssumption == MaxVisits \in Nat /\ MaxFaults \in Nat

VARIABLES
  screen,   (* menu, join, away (another application), lobby                *)
  ui,       (* what the interface's thread does or waits for                *)
  target,   (* the room, if any, that it is going to enter                  *)
  visits,
  open      (* the rooms of other phones that are open                      *)

uiVars == <<screen, ui, target, visits>>
vars == <<uiVars, open, roomVars, discoveryVars, clientVars>>

Init ==
  /\ ClientInit /\ DiscoveryInit /\ RoomInit
  /\ screen = "menu" /\ ui = "free" /\ target = "none" /\ visits = 0
  /\ open = Remote

-----------------------------------------------------------------------------
(* What the player does *)

Show(from, to) == ui = "free" /\ screen = from /\ screen' = to

(* JoinRoomActivity: onCreate makes a RoomFinder, onResume starts it.      *)
GoJoin ==
  /\ Show("menu", "join")
  /\ StartFinder
  /\ UNCHANGED <<ui, target, visits, open, roomVars, clientVars,
                 notifier, notifying, rooms, refusals>>

ResumeJoin ==
  /\ Show("away", "join")
  /\ StartFinder
  /\ UNCHANGED <<ui, target, visits, open, roomVars, clientVars,
                 notifier, notifying, rooms, refusals>>

(* onPause, on the way to another screen, waits for the finder's thread.   *)
LeaveJoin(to) ==
  /\ Show("join", to)
  /\ ui' = "finder" /\ StopFinder
  /\ UNCHANGED <<open, roomVars, clientVars, notifier, notifying, finder, rooms, refusals>>

PauseJoin ==
  \/ LeaveJoin("menu") /\ UNCHANGED <<target, visits>>
  \/ LeaveJoin("away") /\ UNCHANGED <<target, visits>>

(* A room of the list, or any address typed in.                            *)
ChooseRoom ==
  /\ visits < MaxVisits
  /\ LeaveJoin("lobby")
  /\ target' \in rooms \cup Remote
  /\ visits' = visits + 1

CreateRoom ==
  /\ Show("menu", "lobby") /\ visits < MaxVisits
  /\ server = 0 => accept[MaxServers] = "none"
  /\ ui' = "listen" /\ target' = "own" /\ visits' = visits + 1
  /\ UNCHANGED <<open, roomVars, discoveryVars, clientVars>>

(* The button of the lobby or of the leaderboard: a host stops its room, a *)
(* guest just goes.                                                        *)
Return ==
  /\ Show("lobby", "menu")
  /\ IF server # 0 THEN StopServer /\ ui' = "stop" ELSE UNCHANGED <<roomVars, ui>>
  /\ UNCHANGED <<target, visits, open, discoveryVars, clientVars>>

(* The back key, and the game's activities on an error, leave the room on. *)
Back ==
  /\ Show("lobby", "menu")
  /\ UNCHANGED <<ui, target, visits, open, roomVars, discoveryVars, clientVars>>

Player == GoJoin \/ ResumeJoin \/ PauseJoin \/ ChooseRoom \/ CreateRoom \/ Return \/ Back

-----------------------------------------------------------------------------
(* What the interface's thread then does *)

Then(here, there) ==
  /\ ui = here /\ ui' = there
  /\ target' = IF there = "free" THEN "none" ELSE target
  /\ UNCHANGED <<screen, visits, open>>

(* The list of rooms goes with its activity, unless that is only paused.   *)
FinderStopped ==
  /\ Then("finder", IF screen = "lobby" THEN "listen" ELSE "free")
  /\ FinderJoined
  /\ finder' = "none" /\ rooms' = IF screen = "away" THEN rooms ELSE {}
  /\ UNCHANGED <<roomVars, notifier, notifying, finding, refusals, clientVars>>

(* LobbyActivity.onCreate: setGameEventListener needs the client's monitor.*)
SetListener ==
  /\ monitor = "free"
  /\ Then("listen", IF target # "own" THEN "connect"
                    ELSE IF server = 0 THEN "start" ELSE "free")
  /\ UNCHANGED <<roomVars, discoveryVars, clientVars>>

StartServer ==
  /\ Then("start", "flag") /\ StartThread
  /\ UNCHANGED <<discoveryVars, clientVars>>

FlagServer ==
  /\ Then("flag", "free") /\ Started
  /\ UNCHANGED <<discoveryVars, clientVars>>

Connect ==
  /\ Then("connect", "begin") /\ EnterConnect("ui")
  /\ UNCHANGED <<roomVars, discoveryVars>>

Connected ==
  /\ Then("begin", "free") /\ Begin("ui", target)
  /\ UNCHANGED <<roomVars, discoveryVars>>

Stopped ==
  /\ Then("stop", "free") /\ ServerJoined /\ ServerStopped
  /\ UNCHANGED <<discoveryVars, clientVars>>

Interface ==
  \/ FinderStopped \/ SetListener \/ StartServer \/ FlagServer
  \/ Connect \/ Connected \/ Stopped

-----------------------------------------------------------------------------
(* The other threads, and the other phones *)

OpenRooms == open \cup {r \in {"own"} : Bound # {}}

Run(t) ==
  /\ ClientThread(t) \/ OpenSocket(t, OpenRooms)
  /\ UNCHANGED <<uiVars, open, roomVars, discoveryVars>>

Join == Joined /\ UNCHANGED <<uiVars, open, roomVars, discoveryVars>>

Accept == AcceptStep /\ UNCHANGED <<uiVars, open>>

Notify == NotifierStep /\ UNCHANGED <<uiVars, open, roomVars, clientVars>>

Find ==
  /\ FinderBinds \/ FinderEnds
  /\ UNCHANGED <<uiVars, open, roomVars, clientVars>>

Announce(r) ==
  /\ r \in open /\ Hear(r)
  /\ UNCHANGED <<uiVars, open, roomVars, clientVars>>

Event(t) == ReadEvent(t) /\ UNCHANGED <<uiVars, open, roomVars, discoveryVars>>

(* A room of another phone is stopped, or its phone is gone.               *)
RoomCloses(r) ==
  /\ r \in open /\ open' = open \ {r}
  /\ TellStopped(r) \/ DropAll(r)
  /\ UNCHANGED <<uiVars, roomVars, discoveryVars, pc, reading, identity, streams,
                 joins, breaks>>

Breaks == \E t \in Slots : Break(t) /\ UNCHANGED <<uiVars, open, roomVars, discoveryVars>>

(* Behaviours are followed until connectServer loses sight of a thread:    *)
(* from then on two threads share every field of Client.                   *)
Step(A) == ~haunted /\ A /\ breaks' + refusals' <= MaxFaults

Next ==
  Step(\/ Player \/ Interface \/ Join \/ Accept \/ Notify \/ Find \/ Breaks
       \/ \E t \in Slots : Run(t) \/ Event(t)
       \/ \E r \in Remote : Announce(r) \/ RoomCloses(r))

(* Every thread of the phone runs, and a datagram that is sent every       *)
(* second arrives one day.  A player need not do anything, a room need not *)
(* close, nor say anything but the answer to CONNECT.                      *)
Fairness ==
  /\ WF_vars(Step(Interface)) /\ WF_vars(Step(Join)) /\ WF_vars(Step(Accept))
  /\ WF_vars(Step(Notify)) /\ WF_vars(Step(Find))
  /\ \A t \in Slots : WF_vars(Step(Run(t)))
  /\ \A r \in Remote : WF_vars(Step(Announce(r)))

Spec == Init /\ [][Next]_vars /\ Fairness

-----------------------------------------------------------------------------
TypeOK ==
  /\ ClientTypeOK /\ DiscoveryTypeOK /\ RoomTypeOK
  /\ rooms \subseteq Remote /\ open \subseteq Remote
  /\ screen \in {"menu", "join", "away", "lobby"}
  /\ ui \in {"free", "finder", "listen", "start", "flag", "connect", "begin", "stop"}
  /\ target \in Room \cup {"none"} /\ visits \in 0..MaxVisits

(* The fields of Client belong to one thread at a time, as long as         *)
(* connectServer never joined a thread that was about to start the next.   *)
OneThread == Cardinality(Live) <= 1 \/ haunted

(* With one thread, the identifier a client reconnects with was given by   *)
(* the room it reconnects to.                                              *)
IdOfRoom == haunted \/ playerId \in {"none", address}

(* The application never takes a port from itself, but for the list of     *)
(* rooms and the announcements of the phone's own room: the one that is    *)
(* second, while the list is on screen, has no socket.                     *)
PortsFree ==
  \A s \in Servers :
    /\ accept[s] = "bind" => Bound = {}
    /\ notifier[s] = "bind" =>
         Announcing = {} /\ (finder = "on" => screen = "join" \/ ui = "finder")

(* A room is announced only while its port is open.                        *)
AnnouncedOpen == Announcing \subseteq Bound

(* A finder that listens without a socket, and so finds nothing, is on a   *)
(* phone that is still a host, or another application has the port.        *)
DeafExplained == finding /\ finder = "dead" => server # 0 \/ refusals > 0

(* An application that takes itself for a host serves a room, unless the   *)
(* thread looked at listening too soon or the port was taken.              *)
HostServed ==
  server # 0 /\ ui # "stop" /\ accept[server] = "dead" =>
    server \in raced \/ refusals > 0

(* Whatever the player asks for, the interface comes back, except when     *)
(* connectServer, in this thread or in that of the room, joins a client    *)
(* that stays in its room, or that needs the monitor to tell of an error.  *)
Embraced ==
  /\ joining # 0
  /\ \/ pc[joining] \in {"tell", "fail"}
     \/ pc[joining] = "read" /\ reading[joining] # 0
        /\ conn[reading[joining]].state = "up"

InterfaceReturns == (ui # "free") ~> (ui = "free" \/ Embraced \/ haunted)

(* A room that stays open is listed while the list stays on screen, unless *)
(* the phone is a host itself or another application has the port.         *)
RoomListed ==
  \A r \in Remote :
    (screen = "join" /\ ui = "free" /\ r \in open)
      ~> (r \in rooms \/ screen # "join" \/ ui # "free" \/ r \notin open
          \/ server # 0 \/ refusals > 0 \/ haunted)
=============================================================================
