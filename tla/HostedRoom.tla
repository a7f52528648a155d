----------------------------- MODULE HostedRoom ------------------------------
(***************************************************************************)
(* network/server/ServerBase.java and application/GazeApplication.java:    *)
(* the thread that opens the port of a room, has it announced, lets the    *)
(* host's own client in and accepts the others, and the application that   *)
(* starts and stops it from the interface's thread.  The messages of the   *)
(* game are the matter of GameServer.                                      *)
(***************************************************************************)
EXTENDS RoomDiscovery, ClientThreads

VARIABLES
  accept,     (* accept[s]: where the thread of ServerBase is               *)
  listening,  (* ServerBase.listening: unset and reset are both false       *)
  callback,   (* the callback has not been called                           *)
  server,     (* GazeApplication.server, 0 for null                         *)
  raced       (* a thread looked at listening before it was set             *)

roomVars == <<accept, listening, callback, server, raced>>

AcceptPc == {"none", "bind", "loop", "callback", "connect", "accept", "stopped",
             "close", "dead"}

(* The servers whose ServerSocket is bound.                                *)
Bound == {s \in Servers : accept[s] \notin {"none", "bind", "dead"}}

RoomInit ==
  /\ accept = [s \in Servers |-> "none"]
  /\ listening = [s \in Servers |-> "unset"]
  /\ callback = [s \in Servers |-> TRUE]
  /\ server = 0 /\ raced = {}

Goto(s, here, there) == accept[s] = here /\ accept' = [accept EXCEPT ![s] = there]

Keep == UNCHANGED <<listening, server>>

-----------------------------------------------------------------------------
(* run *)

AcceptBinds(s) ==
  /\ accept[s] = "bind"
  /\ Bind(Bound # {},
          Goto(s, "bind", "loop") /\ StartNotifying(s),
          Goto(s, "bind", "dead") /\ UNCHANGED <<notifier, notifying>>)
  /\ Keep /\ UNCHANGED <<callback, raced, finder, finding, rooms, clientVars>>

AcceptLoop(s) ==
  /\ IF listening[s] # "set" THEN Goto(s, "loop", "stopped")
     ELSE IF callback[s] THEN Goto(s, "loop", "callback")
     ELSE Goto(s, "loop", "accept")
  /\ raced' = IF listening[s] = "unset" THEN raced \cup {s} ELSE raced
  /\ Keep /\ UNCHANGED <<callback, clientVars, discoveryVars>>

(* onServerStarted: the host's client connects on this thread.             *)
AcceptConnects(s) ==
  /\ Goto(s, "callback", "connect")
  /\ EnterConnect("accept")
  /\ Keep /\ UNCHANGED <<callback, raced, discoveryVars>>

AcceptConnected(s) ==
  /\ Goto(s, "connect", "accept")
  /\ Begin("accept", "own")
  /\ callback' = [callback EXCEPT ![s] = FALSE]
  /\ Keep /\ UNCHANGED <<raced, discoveryVars>>

(* Bug: the time-out of accept ends the thread.                            *)
AcceptTimesOut(s) ==
  /\ Goto(s, "accept", "stopped")
  /\ Keep /\ UNCHANGED <<callback, raced, clientVars, discoveryVars>>

(* A phone is let in, or a second has passed.                              *)
AcceptReturns(s) ==
  /\ Goto(s, "accept", "loop")
  /\ Keep /\ UNCHANGED <<callback, raced, clientVars, discoveryVars>>

(* Bug: the port is closed before the announcements have ended.            *)
AcceptUnannounced(s) ==
  /\ Goto(s, "stopped", "dead")
  /\ TellStopped("own")
  /\ StopNotifying(s)
  /\ Keep /\ UNCHANGED <<callback, raced, pc, reading, identity, streams, joins,
                         breaks, notifier, finder, finding, rooms, refusals>>

(* onServerStopped, then stopNotifying.                                    *)
AcceptStops(s) ==
  /\ Goto(s, "stopped", "close")
  /\ TellStopped("own")
  /\ StopNotifying(s)
  /\ Keep /\ UNCHANGED <<callback, raced, pc, reading, identity, streams, joins,
                         breaks, notifier, finder, finding, rooms, refusals>>

AcceptCloses(s) ==
  /\ Notified(s)
  /\ Goto(s, "close", "dead")
  /\ DropAll("own")
  /\ Keep /\ UNCHANGED <<callback, raced, pc, reading, identity, streams, joins,
                         breaks, discoveryVars>>

AcceptStep ==
  \E s \in Servers :
    \/ AcceptBinds(s) \/ AcceptLoop(s) \/ AcceptConnects(s) \/ AcceptConnected(s)
    \/ AcceptReturns(s) \/ AcceptStops(s) \/ AcceptCloses(s)

-----------------------------------------------------------------------------
(* GazeApplication, on the interface's thread *)

(* startServer, unless there is a server: the thread is started first ...  *)
StartThread ==
  \E s \in Servers :
    /\ \A z \in Servers : accept[z] = "none" => s <= z
    /\ Goto(s, "none", "bind")
    /\ server' = s
    /\ UNCHANGED <<listening, callback, raced>>

(* ... and listening is set second.                                        *)
Started ==
  /\ listening' = [listening EXCEPT ![server] = "set"]
  /\ UNCHANGED <<accept, callback, server, raced>>

(* Bug: stopListening does not reset listening.                            *)
StopServerUnset == UNCHANGED roomVars

(* stopServer: listening is reset, the thread joined and server set null.  *)
StopServer ==
  /\ listening' = [listening EXCEPT ![server] = "reset"]
  /\ UNCHANGED <<accept, callback, server, raced>>

(* Bug: the thread is not joined.                                          *)
ServerNotJoined == TRUE

ServerJoined == accept[server] = "dead"

ServerStopped ==
  /\ server' = 0
  /\ UNCHANGED <<accept, listening, callback, raced>>

RoomTypeOK ==
  /\ accept \in [Servers -> AcceptPc]
  /\ listening \in [Servers -> {"unset", "set", "reset"}]
  /\ callback \in [Servers -> BOOLEAN]
  /\ server \in 0..MaxServers /\ raced \subseteq Servers
=============================================================================
