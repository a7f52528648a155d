-------------------------- MODULE PhoneProcess_proof --------------------------
(***************************************************************************)
(* Proofs about one phone, for any number of rooms, visits and faults:     *)
(* its ports (PortsFree, AnnouncedOpen, DeafExplained, HostServed), the    *)
(* threads of Client (OneThread, IdOfRoom) and the types (TypeOK) of       *)
(* PhoneProcess.                                                           *)
(*                                                                         *)
(* For the ports, the strengthening says which thread of ServerBase may be *)
(* at work, when a finder may exist, and why a thread of ServerBase has    *)
(* left its loop.  For the threads of Client, it says that the field       *)
(* thread holds the one thread there is, that connectServer, once it has   *)
(* joined what it found, is alone, and that the only open socket is that   *)
(* of the thread, to the room in the field serverAddress.                  *)
(***************************************************************************)
EXTENDS PhoneProcess, FiniteSetTheorems, TLAPS

(* The variables the strengthening is about.                               *)
portVars == <<accept, listening, raced, server, notifier, finder, finding,
              refusals, ui, screen>>

PortFields ==
  /\ accept \in [Servers -> AcceptPc]
  /\ listening \in [Servers -> {"unset", "set", "reset"}]
  /\ notifier \in [Servers -> {"none", "bind", "on", "dead"}]
  /\ refusals \in Nat /\ server \in {0} \cup Servers

(* Only the thread of the server in the application's field is at work,    *)
(* an announcement needs it, and nothing is set before there is a thread.  *)
OneServer ==
  /\ \A s \in Servers : accept[s] \notin {"none", "dead"} => s = server
  /\ ui = "start" => server = 0
  /\ server \in Servers => accept[server] # "none"
  /\ \A s \in Servers : accept[s] = "none" => listening[s] = "unset"
  /\ \A s \in Servers : notifier[s] \in {"bind", "on"} => s \in Bound

(* The finder and its flag exist only with the list of rooms.              *)
FinderHere ==
  /\ finder # "none" => screen = "join" \/ ui = "finder"
  /\ finding => screen = "join" /\ ui = "free"

(* Why a thread of ServerBase is on its way out.                           *)
LeftLoop ==
  /\ server \in Servers /\ listening[server] = "reset" => ui = "stop"
  /\ \A s \in Servers :
       accept[s] \in {"stopped", "close", "dead"} =>
         s \in raced \/ listening[s] = "reset" \/ refusals > 0

PortInv == PortFields /\ OneServer /\ FinderHere /\ LeftLoop /\ DeafExplained

-----------------------------------------------------------------------------
LEMMA PortInit == Init => PortInv
<1> SUFFICES ASSUME Init PROVE PortInv
  OBVIOUS
<1> USE DEF Init, ClientInit, DiscoveryInit, RoomInit
<1>1. PortFields
  BY DEF PortFields, AcceptPc
<1>2. OneServer /\ FinderHere /\ LeftLoop
  BY DEF OneServer, FinderHere, LeftLoop, Servers
<1>3. DeafExplained
  BY DEF DeafExplained
<1> QED BY <1>1, <1>2, <1>3 DEF PortInv

LEMMA PortKept == PortInv /\ UNCHANGED portVars => PortInv'
BY DEF PortInv, portVars, PortFields, OneServer, FinderHere, LeftLoop, DeafExplained, Bound

(* The steps of the player.                                                *)
LEMMA PortPlayer == PortInv /\ Player => PortInv'
<1> SUFFICES ASSUME PortInv, Player PROVE PortInv'
  OBVIOUS
<1> USE DEF PortInv, PortFields, OneServer, FinderHere, LeftLoop, DeafExplained, Bound,
            Show, roomVars
<1>1. CASE GoJoin
  BY <1>1 DEF GoJoin, StartFinder
<1>2. CASE ResumeJoin
  BY <1>2 DEF ResumeJoin, StartFinder
<1>3. CASE PauseJoin
  BY <1>3 DEF PauseJoin, LeaveJoin, StopFinder
<1>4. CASE ChooseRoom
  BY <1>4 DEF ChooseRoom, LeaveJoin, StopFinder
<1>5. CASE CreateRoom
  BY <1>5 DEF CreateRoom, discoveryVars
<1>6. CASE Return
  BY <1>6 DEF Return, StopServer, discoveryVars
<1>7. CASE Back
  BY <1>7 DEF Back, discoveryVars
<1> QED BY <1>1, <1>2, <1>3, <1>4, <1>5, <1>6, <1>7 DEF Player

(* The steps of the interface's thread.                                    *)
LEMMA PortInterface == PortInv /\ Interface => PortInv'
<1> SUFFICES ASSUME PortInv, Interface PROVE PortInv'
  OBVIOUS
<1> USE DEF PortInv, PortFields, OneServer, FinderHere, LeftLoop, DeafExplained, Bound,
            Then, roomVars
<1>1. CASE FinderStopped
  BY <1>1 DEF FinderStopped, FinderJoined
<1>2. CASE SetListener
  BY <1>2 DEF SetListener, discoveryVars
<1>3. CASE StartServer
  <2>1. PICK s \in Servers : Goto(s, "none", "bind") /\ server' = s
                           /\ UNCHANGED <<listening, callback, raced>>
    BY <1>3 DEF StartServer, StartThread
  <2>2. \A z \in Servers : accept[z] \in {"none", "dead"}
    <3>1. server = 0 /\ 0 \notin Servers
      BY <1>3 DEF StartServer, Servers
    <3> QED BY <3>1
  <2>3. /\ ui' = "flag" /\ ui = "start"
        /\ UNCHANGED <<screen, notifier, finder, finding, refusals>>
    BY <1>3 DEF StartServer, discoveryVars
  <2>4. /\ accept[s] = "none" /\ accept'[s] = "bind"
        /\ \A z \in Servers : z # s => accept'[z] = accept[z]
        /\ accept' \in [Servers -> AcceptPc]
    BY <2>1 DEF Goto, AcceptPc
  <2>5. PortFields' /\ OneServer' /\ FinderHere'
    BY <2>1, <2>2, <2>3, <2>4
  <2> QED BY <2>1, <2>2, <2>3, <2>4, <2>5
<1>4. CASE FlagServer
  BY <1>4 DEF FlagServer, Started, discoveryVars
<1>5. CASE Connect
  BY <1>5 DEF Connect, discoveryVars
<1>6. CASE Connected
  BY <1>6 DEF Connected, discoveryVars
<1>7. CASE Stopped
  <2>1. 0 \notin Servers
    BY DEF Servers
  <2> QED BY <1>7, <2>1 DEF Stopped, ServerJoined, ServerStopped, discoveryVars
<1> QED BY <1>1, <1>2, <1>3, <1>4, <1>5, <1>6, <1>7 DEF Interface

(* The steps of the thread of ServerBase.                                  *)
LEMMA PortAccept == PortInv /\ Accept => PortInv'
<1> SUFFICES ASSUME PortInv, NEW s \in Servers, UNCHANGED <<uiVars, open>>,
                    \/ AcceptBinds(s) \/ AcceptLoop(s) \/ AcceptConnects(s)
                    \/ AcceptConnected(s) \/ AcceptReturns(s) \/ AcceptStops(s)
                    \/ AcceptCloses(s)
             PROVE  PortInv'
  BY DEF Accept, AcceptStep
<1> USE DEF PortInv, PortFields, OneServer, FinderHere, LeftLoop, DeafExplained, Bound,
            Goto, Keep, uiVars, AcceptPc
<1>1. CASE AcceptBinds(s)
  BY <1>1 DEF AcceptBinds, Bind, StartNotifying
<1>2. CASE AcceptLoop(s)
  BY <1>2 DEF AcceptLoop, discoveryVars
<1>3. CASE AcceptConnects(s)
  BY <1>3 DEF AcceptConnects, discoveryVars
<1>4. CASE AcceptConnected(s)
  BY <1>4 DEF AcceptConnected, discoveryVars
<1>5. CASE AcceptReturns(s)
  BY <1>5 DEF AcceptReturns, discoveryVars
<1>6. CASE AcceptStops(s)
  BY <1>6 DEF AcceptStops, StopNotifying
<1>7. CASE AcceptCloses(s)
  BY <1>7 DEF AcceptCloses, Notified, discoveryVars
<1> QED BY <1>1, <1>2, <1>3, <1>4, <1>5, <1>6, <1>7

(* The steps of the threads on the UDP port.                               *)
LEMMA PortDiscovery == PortInv /\ (Notify \/ Find) => PortInv'
<1> SUFFICES ASSUME PortInv, Notify \/ Find PROVE PortInv'
  OBVIOUS
<1> USE DEF PortInv, PortFields, OneServer, FinderHere, LeftLoop, DeafExplained, Bound,
            uiVars, roomVars
<1>1. ASSUME NEW s \in Servers, NotifierBinds(s), UNCHANGED <<uiVars, roomVars>>
      PROVE  PortInv'
  BY <1>1 DEF NotifierBinds, Bind
<1>2. ASSUME NEW s \in Servers, NotifierEnds(s), UNCHANGED <<uiVars, roomVars>>
      PROVE  PortInv'
  BY <1>2 DEF NotifierEnds
<1>3. ASSUME FinderBinds, UNCHANGED <<uiVars, roomVars>>
      PROVE  PortInv'
  <2>1. CASE Announcing # {} /\ finder' = "dead" /\ UNCHANGED refusals
    <3>1. PICK s \in Servers : notifier[s] = "on"
      BY <2>1 DEF Announcing
    <3>2. s = server /\ server # 0
      BY <3>1 DEF Servers
    <3> QED BY <1>3, <2>1, <3>2 DEF FinderBinds
  <2>2. CASE ~(Announcing # {} /\ finder' = "dead" /\ UNCHANGED refusals)
    BY <1>3, <2>2 DEF FinderBinds, Bind
  <2> QED BY <2>1, <2>2
<1>4. ASSUME FinderEnds, UNCHANGED <<uiVars, roomVars>>
      PROVE  PortInv'
  BY <1>4 DEF FinderEnds
<1> QED BY <1>1, <1>2, <1>3, <1>4 DEF Notify, NotifierStep, Find

(* Every other step leaves these variables alone.                          *)
LEMMA PortOthers ==
  ASSUME \/ Join \/ Breaks
         \/ \E t \in Slots : Run(t) \/ Event(t)
         \/ \E r \in Remote : Announce(r) \/ RoomCloses(r)
  PROVE  UNCHANGED portVars
BY DEF Join, Breaks, Run, Event, Announce, RoomCloses, Hear, uiVars, roomVars,
       discoveryVars, portVars

LEMMA PortNext == PortInv /\ [Next]_vars => PortInv'
<1> SUFFICES ASSUME PortInv, [Next]_vars PROVE PortInv'
  OBVIOUS
<1>1. CASE UNCHANGED vars
  BY <1>1, PortKept DEF vars, uiVars, roomVars, discoveryVars, portVars
<1>2. CASE Next
  BY <1>2, PortPlayer, PortInterface, PortAccept, PortDiscovery, PortOthers, PortKept
     DEF Next, Step
<1> QED BY <1>1, <1>2

LEMMA PortInvariant == Spec => []PortInv
<1>1. Init => PortInv
  BY PortInit
<1>2. PortInv /\ [Next]_vars => PortInv'
  BY PortNext
<1> QED BY <1>1, <1>2, PTL DEF Spec

-----------------------------------------------------------------------------
(* ServerBase.startListening and RoomFinder.startListening never meet a    *)
(* port that this application holds, but for the list of rooms and the     *)
(* announcements of the phone's own room.                                  *)
THEOREM OwnPorts == Spec => []PortsFree
<1>1. PortInv => PortsFree
  BY DEF PortInv, PortFields, OneServer, FinderHere, PortsFree, Bound, Announcing
<1> QED BY <1>1, PortInvariant, PTL

(* RoomNotifier is stopped before the port of the room is closed.          *)
THEOREM AnnouncementsEnd == Spec => []AnnouncedOpen
<1>1. PortInv => AnnouncedOpen
  BY DEF PortInv, OneServer, AnnouncedOpen, Announcing
<1> QED BY <1>1, PortInvariant, PTL

(* Only a host's RoomFinder, or one that met another application, is deaf. *)
THEOREM DeafOnlyHosts == Spec => []DeafExplained
<1>1. PortInv => DeafExplained
  BY DEF PortInv
<1> QED BY <1>1, PortInvariant, PTL

(* The thread of ServerBase leaves its loop before stopServer only when it *)
(* looked at listening before startListening had set it.                   *)
THEOREM HostsServe == Spec => []HostServed
<1>1. PortInv => HostServed
  <2> SUFFICES ASSUME PortInv, server # 0, ui # "stop", accept[server] = "dead",
                      server \in Servers
               PROVE  server \in raced \/ refusals > 0
    BY DEF HostServed, PortInv, PortFields
  <2> QED BY DEF PortInv, LeftLoop
<1> QED BY <1>1, PortInvariant, PTL

-----------------------------------------------------------------------------
(* The threads of Client *)

Pc == {"none", "open", "hello", "loop", "read", "tell", "fail", "close", "sleep"}

ThreadFields ==
  /\ pc \in [Slots -> Pc]
  /\ reading \in [Slots -> {0} \cup Slots]
  /\ conn \in [Slots -> [room : Room \cup {"none"},
                         state : {"closed", "up", "asked", "stopped", "broken"}]]
  /\ address \in Room \cup {"none"} /\ socketServer \in {0} \cup Slots
  /\ target \in Room \cup {"none"} /\ rooms \subseteq Remote
  /\ 0 \notin Slots

(* The field holds the one thread; in connectServer, once the thread that  *)
(* was found has been joined, there is none.                               *)
OneHeld ==
  /\ \A t \in Slots : pc[t] # "none" => t = thread
  /\ monitor = "free" => joining = 0
  /\ monitor # "free" /\ joining = 0 => thread = 0

(* An open socket is the one in the fields, of a thread that is past its   *)
(* opening and before its pause, to the room of the field serverAddress.   *)
OneSocket ==
  \A s \in Slots :
    conn[s] # Closed =>
      /\ s = socketServer /\ pc[s] \notin {"none", "open", "sleep"}
      /\ conn[s].room = address

ThreadInv == ThreadFields /\ (haunted \/ (OneHeld /\ OneSocket /\ playerId \in {"none", address}))

(* What a step that is not about the client may still change.              *)
TargetOK == target \in Room \cup {"none"} /\ rooms \subseteq Remote

-----------------------------------------------------------------------------
LEMMA ThreadInit == Init => ThreadInv
BY DEF Init, ClientInit, DiscoveryInit, ThreadInv, ThreadFields, OneHeld, OneSocket, Pc, Closed,
       Slots, Room

LEMMA ThreadKept == ThreadInv /\ UNCHANGED clientVars /\ TargetOK' => ThreadInv'
BY DEF ThreadInv, clientVars, threads, identity, streams, joins, ThreadFields, TargetOK,
       OneHeld, OneSocket, Closed

(* connectServer: it enters, joins and begins.                             *)
LEMMA ThreadEnter ==
  ASSUME ThreadInv, ~haunted, NEW caller \in {"ui", "accept"}, EnterConnect(caller), TargetOK'
  PROVE  ThreadInv'
BY DEF EnterConnect, ThreadInv, TargetOK, ThreadFields, OneHeld, OneSocket, Closed, threads, identity, streams

LEMMA ThreadJoined ==
  ASSUME ThreadInv, ~haunted, Joined, TargetOK'
  PROVE  ThreadInv'
<1> USE DEF ThreadInv, TargetOK, ThreadFields, OneHeld, OneSocket, Closed, Joined, threads, identity,
            streams
<1>1. CASE haunted'
  BY <1>1
<1>2. CASE ~haunted'
  <2>1. \A t \in Slots : pc[t] = "none"
    BY <1>2
  <2> QED BY <1>2, <2>1
<1> QED BY <1>1, <1>2

LEMMA ThreadBegin ==
  ASSUME ThreadInv, ~haunted, NEW caller \in {"ui", "accept"}, NEW room \in Room \cup {"none"},
         Begin(caller, room), TargetOK'
  PROVE  ThreadInv'
<1> USE DEF ThreadInv, TargetOK, ThreadFields, OneHeld, OneSocket
<1>1. \A t \in Slots : pc[t] = "none" /\ conn[t] = Closed
  BY DEF Begin
<1>2. ThreadFields'
  BY DEF Begin, streams, Pc
<1>3. \A t \in Slots : pc'[t] # "none" => t = thread'
  BY <1>1 DEF Begin
<1> QED BY <1>1, <1>2, <1>3 DEF Begin, streams, Closed

-----------------------------------------------------------------------------
(* The steps of run.                                                       *)
LEMMA ThreadRun ==
  ASSUME ThreadInv, ~haunted, NEW t \in Slots,
         ClientThread(t) \/ OpenSocket(t, OpenRooms) \/ ReadEvent(t), TargetOK'
  PROVE  ThreadInv'
<1> USE DEF ThreadInv, TargetOK, ThreadFields, OneHeld, OneSocket, At, SetState, identity, streams, joins, Pc
<1>1. CASE OpenSocket(t, OpenRooms)
  <2>1. pc[t] = "open" /\ t = thread /\ \A s \in Slots : conn[s] = Closed
    BY <1>1 DEF OpenSocket
  <2>2. CASE address \in OpenRooms
    <3>1. /\ conn' = [conn EXCEPT ![t] = [room |-> address, state |-> "up"]]
          /\ pc' = [pc EXCEPT ![t] = "hello"] /\ socketServer' = t
          /\ UNCHANGED <<reading, address, playerId, thread, monitor, joining, haunted>>
      BY <1>1, <2>2 DEF OpenSocket
    <3>2. \A s \in Slots : conn'[s] # Closed => s = t /\ conn'[s].room = address'
      BY <2>1, <3>1
    <3> QED BY <2>1, <3>1, <3>2
  <2>3. CASE address \notin OpenRooms
    BY <1>1, <2>1, <2>3 DEF OpenSocket, Closed
  <2> QED BY <2>2, <2>3
<1>2. CASE Hello(t)
  BY <1>2 DEF Hello, Closed
<1>3. CASE Loop(t)
  BY <1>3 DEF Loop, Closed
<1>4. CASE ReadAnswer(t)
  BY <1>4 DEF ReadAnswer, Closed
<1>5. CASE ReadEvent(t) \/ ReadStopped(t) \/ ReadError(t) \/ Tell(t) \/ TellError(t)
  BY <1>5 DEF ReadEvent, ReadStopped, ReadError, Tell, TellError, Closed
<1>6. CASE Close(t)
  BY <1>6 DEF Close, Closed
<1>7. CASE Retry(t)
  BY <1>7 DEF Retry, Successor, Closed
<1> QED BY <1>1, <1>2, <1>3, <1>4, <1>5, <1>6, <1>7 DEF ClientThread

(* A room that closes and a connection that breaks change the state of     *)
(* open sockets only.                                                      *)
LEMMA ThreadNetwork ==
  ASSUME ThreadInv,
         \/ \E r \in Room : TellStopped(r) \/ DropAll(r)
         \/ \E t \in Slots : conn[t].state \in {"up", "asked"} /\ SetState(t, "broken"),
         UNCHANGED <<pc, reading, thread, address, playerId, socketServer, monitor,
                     joining, haunted>>, TargetOK'
  PROVE  ThreadInv'
<1>1. /\ conn' \in [Slots -> [room : Room \cup {"none"},
                             state : {"closed", "up", "asked", "stopped", "broken"}]]
      /\ \A s \in Slots : conn'[s].room = conn[s].room
      /\ \A s \in Slots : conn[s] = Closed => conn'[s] = Closed
  BY DEF ThreadInv, ThreadFields, TellStopped, DropAll, InRoom, SetState, Closed
<1> QED BY <1>1 DEF ThreadInv, TargetOK, ThreadFields, OneHeld, OneSocket

(* target and rooms only ever hold rooms.                                  *)
LEMMA TargetNext == ThreadInv /\ Next => TargetOK'
<1> SUFFICES ASSUME ThreadInv, Next PROVE TargetOK'
  OBVIOUS
<1> USE DEF ThreadInv, ThreadFields, TargetOK, Room, uiVars, discoveryVars
<1>1. CASE Player
  BY <1>1 DEF Player, GoJoin, ResumeJoin, PauseJoin, ChooseRoom, CreateRoom, Return, Back,
     LeaveJoin, Show
<1>2. CASE Interface
  BY <1>2 DEF Interface, FinderStopped, SetListener, StartServer, FlagServer, Connect,
     Connected, Stopped, Then
<1>3. CASE Accept
  BY <1>3 DEF Accept, AcceptStep, AcceptBinds, AcceptLoop, AcceptConnects,
     AcceptConnected, AcceptReturns, AcceptStops, AcceptCloses
<1>4. CASE \/ Join \/ Notify \/ Find \/ Breaks
           \/ \E t \in Slots : Run(t) \/ Event(t)
           \/ \E r \in Remote : Announce(r) \/ RoomCloses(r)
  BY <1>4 DEF Join, Notify, NotifierStep, NotifierBinds, NotifierEnds, Find, FinderBinds,
     FinderEnds, Breaks, Run, Event, Announce, Hear, RoomCloses
<1> QED BY <1>1, <1>2, <1>3, <1>4 DEF Next, Step

LEMMA ThreadAccept ==
  ASSUME ThreadInv, ~haunted, Accept, TargetOK'
  PROVE  ThreadInv'
<1>1. PICK s \in Servers :
        \/ AcceptBinds(s) \/ AcceptLoop(s) \/ AcceptConnects(s) \/ AcceptConnected(s)
        \/ AcceptReturns(s) \/ AcceptStops(s) \/ AcceptCloses(s)
  BY DEF Accept, AcceptStep
<1>2. CASE AcceptBinds(s) \/ AcceptLoop(s) \/ AcceptReturns(s)
  BY <1>2, ThreadKept DEF AcceptBinds, AcceptLoop, AcceptReturns
<1>3. CASE AcceptConnects(s)
  BY <1>3, ThreadEnter DEF AcceptConnects
<1>4. CASE AcceptConnected(s)
  BY <1>4, ThreadBegin DEF AcceptConnected, Room
<1>5. CASE AcceptStops(s) \/ AcceptCloses(s)
  BY <1>5, ThreadNetwork DEF AcceptStops, AcceptCloses, Room, identity, streams, joins
<1> QED BY <1>1, <1>2, <1>3, <1>4, <1>5

LEMMA ThreadInterface ==
  ASSUME ThreadInv, ~haunted, Interface, TargetOK'
  PROVE  ThreadInv'
<1>1. CASE Connect
  BY <1>1, ThreadEnter DEF Connect
<1>2. CASE Connected
  BY <1>2, ThreadBegin DEF Connected, ThreadInv, ThreadFields
<1>3. CASE FinderStopped \/ SetListener \/ StartServer \/ FlagServer \/ Stopped
  BY <1>3, ThreadKept DEF FinderStopped, SetListener, StartServer, FlagServer, Stopped
<1> QED BY <1>1, <1>2, <1>3 DEF Interface

LEMMA ThreadNext == ThreadInv /\ [Next]_vars => ThreadInv'
<1>1. ASSUME ThreadInv, UNCHANGED vars PROVE ThreadInv'
  BY <1>1, ThreadKept DEF vars, ThreadInv, ThreadFields, TargetOK, uiVars, discoveryVars
<1>2. ASSUME ThreadInv, Next PROVE ThreadInv'
  <2>1. ~haunted /\ TargetOK'
    BY <1>2, TargetNext DEF Next, Step
  <2>2. CASE Player
    BY <1>2, <2>1, <2>2, ThreadKept DEF Player, GoJoin, ResumeJoin, PauseJoin, ChooseRoom,
       CreateRoom, Return, Back, LeaveJoin
  <2>3. CASE Interface
    BY <1>2, <2>1, <2>3, ThreadInterface
  <2>4. CASE Accept
    BY <1>2, <2>1, <2>4, ThreadAccept
  <2>5. CASE Join
    BY <1>2, <2>1, <2>5, ThreadJoined DEF Join
  <2>6. CASE Notify \/ Find \/ \E r \in Remote : Announce(r)
    BY <1>2, <2>1, <2>6, ThreadKept DEF Notify, Find, Announce
  <2>7. CASE \E t \in Slots : Run(t) \/ Event(t)
    BY <1>2, <2>1, <2>7, ThreadRun DEF Run, Event
  <2>8. CASE Breaks \/ \E r \in Remote : RoomCloses(r)
    BY <1>2, <2>1, <2>8, ThreadNetwork DEF Breaks, Break, RoomCloses, Room, identity,
       streams, joins
  <2> QED BY <1>2, <2>2, <2>3, <2>4, <2>5, <2>6, <2>7, <2>8 DEF Next, Step
<1> QED BY <1>1, <1>2

LEMMA ThreadInvariant == Spec => []ThreadInv
<1>1. Init => ThreadInv
  BY ThreadInit
<1>2. ThreadInv /\ [Next]_vars => ThreadInv'
  BY ThreadNext
<1> QED BY <1>1, <1>2, PTL DEF Spec

-----------------------------------------------------------------------------
(* As long as connectServer has not joined a thread that then put its      *)
(* successor in the field, one thread at most works on the fields of       *)
(* Client, whatever rooms open, close or break.                            *)
THEOREM SingleThread == Spec => []OneThread
<1>1. ThreadInv => OneThread
  <2> SUFFICES ASSUME ThreadInv, ~haunted PROVE Cardinality(Live) <= 1
    BY DEF OneThread
  <2>1. CASE Live = {}
    BY <2>1, FS_EmptySet
  <2>2. CASE Live # {}
    <3>1. Live = {thread}
      BY <2>2 DEF ThreadInv, OneHeld, Live
    <3> QED BY <3>1, FS_Singleton
  <2> QED BY <2>1, <2>2
<1> QED BY <1>1, ThreadInvariant, PTL

(* The identifier that run sends with RECONNECT is that of the room it     *)
(* reconnects to.                                                          *)
THEOREM IdentifierOfRoom == Spec => []IdOfRoom
<1>1. ThreadInv => IdOfRoom
  BY DEF ThreadInv, IdOfRoom
<1> QED BY <1>1, ThreadInvariant, PTL

-----------------------------------------------------------------------------
(* Types, and the numbers of threads *)

(* What no step leaves: every other field of the phone.                    *)
Flags ==
  /\ notifying \in [Servers -> BOOLEAN] /\ callback \in [Servers -> BOOLEAN]
  /\ finding \in BOOLEAN

Rest ==
  /\ finder \in {"none", "bind", "on", "dead"}
  /\ refusals \in 0..MaxRefusals /\ raced \subseteq Servers
  /\ open \subseteq Remote /\ screen \in {"menu", "join", "away", "lobby"}
  /\ ui \in {"free", "finder", "listen", "start", "flag", "connect", "begin", "stop"}
  /\ visits \in 0..MaxVisits

(* A number that is referred to is that of the one thread there is, or of  *)
(* the one connectServer joins: a third is always unused.                  *)
SlotInv ==
  /\ \A t \in Slots : reading[t] \in {0, t}
  /\ \A t, u \in Live : t = u
  /\ socketServer # 0 => pc[socketServer] \notin {"none", "open", "sleep"}
  /\ haunted => thread = 0 /\ joining = 0
  /\ thread \in {0} \cup Slots /\ joining \in {0} \cup Slots
  /\ monitor \in {"free", "ui", "accept"} /\ breaks \in 0..MaxBreaks
  /\ playerId \in Room \cup {"none"}

LEMMA Least ==
  ASSUME MaxSlots >= 3, NEW U \in SUBSET Slots, NEW a, NEW b, Slots \ {a, b} \subseteq U
  PROVE  \E t \in U : \A u \in U : t <= u
<1>1. MaxSlots \in Nat /\ {1, 2, 3} \subseteq Slots /\ \A u \in U : u \in Nat /\ u >= 1
  BY ThreadAssumption DEF Slots
<1>2. CASE 1 \in U
  BY <1>1, <1>2
<1>3. CASE 1 \notin U /\ 2 \in U
  BY <1>1, <1>3
<1>4. CASE 1 \notin U /\ 2 \notin U /\ 3 \in U
  BY <1>1, <1>4
<1> QED BY <1>1, <1>2, <1>3, <1>4

LEMMA SlotUnused ==
  ASSUME MaxSlots >= 3, ThreadInv, SlotInv
  PROVE  Unused # {} /\ (~haunted => Fresh \in Unused)
<1> USE DEF ThreadInv, ThreadFields, SlotInv, Live
<1>1. CASE ~haunted
  <2>1. Slots \ {thread, joining} \subseteq Unused /\ Unused \subseteq Slots
    BY <1>1 DEF OneHeld, Unused
  <2>2. \E t \in Unused : \A u \in Unused : t <= u
    BY <2>1, Least
  <2> QED BY <1>1, <2>2 DEF Fresh
<1>2. CASE haunted
  <2>1. PICK x : \A t \in Slots : pc[t] # "none" => t = x
    OBVIOUS
  <2>2. Slots \ {x, 0} \subseteq Unused /\ Unused \subseteq Slots
    BY <1>2, <2>1 DEF Unused
  <2>3. \E t \in Unused : \A u \in Unused : t <= u
    BY <2>2, Least
  <2> QED BY <1>2, <2>3
<1> QED BY <1>1, <1>2

LEMMA SlotKept == SlotInv /\ UNCHANGED clientVars => SlotInv'
BY DEF SlotInv, Live, clientVars, threads, identity, streams, joins

LEMMA SlotConnect ==
  ASSUME MaxSlots >= 3, ThreadInv, SlotInv, ~haunted, NEW caller \in {"ui", "accept"},
         NEW room \in Room \cup {"none"},
         EnterConnect(caller) \/ Joined \/ Begin(caller, room)
  PROVE  SlotInv'
<1> USE DEF ThreadInv, ThreadFields, SlotInv, Live, threads, identity, streams
<1>1. CASE EnterConnect(caller)
  BY <1>1 DEF EnterConnect
<1>2. CASE Joined
  BY <1>2 DEF Joined
<1>3. CASE Begin(caller, room)
  <2>1. Fresh \in Slots /\ \A t \in Slots : pc[t] = "none"
    BY <1>3, SlotUnused DEF Begin, Unused, OneHeld
  <2> QED BY <1>3, <2>1 DEF Begin
<1> QED BY <1>1, <1>2, <1>3

LEMMA SlotRun ==
  ASSUME MaxSlots >= 3, ThreadInv, SlotInv, ~haunted, NEW t \in Slots,
         ClientThread(t) \/ OpenSocket(t, OpenRooms) \/ ReadEvent(t)
  PROVE  SlotInv'
<1> USE DEF ThreadInv, ThreadFields, OneHeld, SlotInv, Live, identity, streams, joins, At
<1>1. CASE OpenSocket(t, OpenRooms)
  BY <1>1 DEF OpenSocket
<1>2. CASE Hello(t) \/ ReadAnswer(t) \/ ReadEvent(t) \/ ReadStopped(t) \/ ReadError(t)
  BY <1>2 DEF Hello, ReadAnswer, ReadEvent, ReadStopped, ReadError
<1>3. CASE Loop(t) \/ Tell(t) \/ TellError(t)
  BY <1>3 DEF Loop, Tell, TellError
<1>4. CASE Close(t)
  BY <1>4 DEF Close
<1>5. CASE Retry(t)
  <2>1. Successor(t) \in Slots /\ Successor(t) # 0
    BY SlotUnused DEF Successor, Unused
  <2> QED BY <1>5, <2>1 DEF Retry
<1> QED BY <1>1, <1>2, <1>3, <1>4, <1>5 DEF ClientThread

LEMMA SlotNetwork ==
  ASSUME SlotInv, UNCHANGED <<pc, reading, identity, streams, joins>>, breaks' \in 0..MaxBreaks
  PROVE  SlotInv'
BY DEF SlotInv, Live, identity, streams, joins

LEMMA SlotNext ==
  ASSUME MaxSlots >= 3, ThreadInv, SlotInv, [Next]_vars
  PROVE  SlotInv'
<1>1. CASE UNCHANGED clientVars
  BY <1>1, SlotKept
<1>2. CASE UNCHANGED vars
  BY <1>1, <1>2 DEF vars
<1>3. CASE Next
  <2>1. ~haunted
    BY <1>3 DEF Next, Step
  <2>2. CASE Player \/ Notify \/ Find \/ \E r \in Remote : Announce(r)
    BY <1>1, <2>2 DEF Player, GoJoin, ResumeJoin, PauseJoin, ChooseRoom, CreateRoom, Return, Back,
       LeaveJoin, Notify, Find, Announce
  <2>3. CASE Interface
    BY <1>1, <2>1, <2>3, SlotConnect DEF Interface, FinderStopped, SetListener, StartServer,
       FlagServer, Connect, Connected, Stopped, ThreadInv, ThreadFields, Room
  <2>4. CASE Accept
    <3>1. PICK s \in Servers :
            \/ AcceptBinds(s) \/ AcceptLoop(s) \/ AcceptConnects(s) \/ AcceptConnected(s)
            \/ AcceptReturns(s) \/ AcceptStops(s) \/ AcceptCloses(s)
      BY <2>4 DEF Accept, AcceptStep
    <3>2. CASE AcceptConnects(s) \/ AcceptConnected(s)
      BY <2>1, <3>2, SlotConnect DEF AcceptConnects, AcceptConnected, Room
    <3>3. CASE AcceptStops(s) \/ AcceptCloses(s)
      BY <3>3, SlotNetwork DEF AcceptStops, AcceptCloses, SlotInv
    <3> QED BY <1>1, <3>1, <3>2, <3>3 DEF AcceptBinds, AcceptLoop, AcceptReturns
  <2>5. CASE Join
    <3>1. "ui" \in {"ui", "accept"} /\ "none" \in Room \cup {"none"}
      OBVIOUS
    <3> QED BY <2>1, <2>5, <3>1, SlotConnect DEF Join
  <2>6. CASE \E t \in Slots : Run(t) \/ Event(t)
    BY <2>1, <2>6, SlotRun DEF Run, Event
  <2>7. CASE Breaks \/ \E r \in Remote : RoomCloses(r)
    <3>1. breaks' \in 0..MaxBreaks
      BY <2>7, ThreadAssumption DEF Breaks, Break, RoomCloses, SlotInv
    <3> QED BY <2>7, <3>1, SlotNetwork DEF Breaks, Break, RoomCloses
  <2> QED BY <1>3, <2>2, <2>3, <2>4, <2>5, <2>6, <2>7 DEF Next, Step
<1> QED BY <1>2, <1>3

LEMMA RestNext ==
  ASSUME Rest, [Next]_vars
  PROVE  Rest'
<1> USE VisitAssumption, DiscoveryAssumption DEF Rest, uiVars, roomVars, discoveryVars
<1>1. CASE UNCHANGED vars
  BY <1>1 DEF vars
<1>2. CASE Player
  BY <1>2 DEF Player, GoJoin, ResumeJoin, PauseJoin, ChooseRoom, CreateRoom, Return, Back,
     LeaveJoin, Show, StartFinder, StopFinder, StopServer
<1>3. CASE Interface
  BY <1>3 DEF Interface, FinderStopped, SetListener, StartServer, FlagServer, Connect, Connected,
     Stopped, Then, StartThread, Started, ServerStopped
<1>4. CASE Accept
  BY <1>4 DEF Accept, AcceptStep, AcceptBinds, AcceptLoop, AcceptConnects, AcceptConnected,
     AcceptReturns, AcceptStops, AcceptCloses, Bind, StartNotifying, StopNotifying, Keep
<1>5. CASE Notify \/ Find \/ \E r \in Remote : Announce(r) \/ RoomCloses(r)
  BY <1>5 DEF Notify, NotifierStep, NotifierBinds, NotifierEnds, Find, FinderBinds, FinderEnds,
     Announce, Hear, RoomCloses, Bind
<1>6. CASE Join \/ Breaks \/ \E t \in Slots : Run(t) \/ Event(t)
  BY <1>6 DEF Join, Breaks, Run, Event
<1> QED BY <1>1, <1>2, <1>3, <1>4, <1>5, <1>6 DEF Next, Step

LEMMA FlagsNext ==
  ASSUME Flags, [Next]_vars
  PROVE  Flags'
<1> USE VisitAssumption, DiscoveryAssumption DEF Flags, uiVars, roomVars, discoveryVars
<1>1. CASE UNCHANGED vars
  BY <1>1 DEF vars
<1>2. CASE Player
  BY <1>2 DEF Player, GoJoin, ResumeJoin, PauseJoin, ChooseRoom, CreateRoom, Return, Back,
     LeaveJoin, Show, StartFinder, StopFinder, StopServer
<1>3. CASE Interface
  BY <1>3 DEF Interface, FinderStopped, SetListener, StartServer, FlagServer, Connect, Connected,
     Stopped, Then, StartThread, Started, ServerStopped
<1>4. CASE Accept
  BY <1>4 DEF Accept, AcceptStep, AcceptBinds, AcceptLoop, AcceptConnects, AcceptConnected,
     AcceptReturns, AcceptStops, AcceptCloses, Bind, StartNotifying, StopNotifying, Keep
<1>5. CASE Notify \/ Find \/ \E r \in Remote : Announce(r) \/ RoomCloses(r)
  BY <1>5 DEF Notify, NotifierStep, NotifierBinds, NotifierEnds, Find, FinderBinds, FinderEnds,
     Announce, Hear, RoomCloses, Bind
<1>6. CASE Join \/ Breaks \/ \E t \in Slots : Run(t) \/ Event(t)
  BY <1>6 DEF Join, Breaks, Run, Event
<1> QED BY <1>1, <1>2, <1>3, <1>4, <1>5, <1>6 DEF Next, Step

(* The fields of a phone keep their types, and three numbers are enough to *)
(* tell the threads of Client apart, as long as connectServer loses sight  *)
(* of none: the bound MaxSlots hides no behaviour.                         *)
THEOREM Typed ==
  ASSUME MaxSlots >= 3
  PROVE  Spec => []TypeOK
<1>1. Init => PortInv /\ ThreadInv /\ SlotInv /\ Rest /\ Flags
  <2>1. Init => SlotInv
    BY ThreadAssumption DEF Init, ClientInit, SlotInv, Live
  <2>2. Init => Rest
    BY VisitAssumption, DiscoveryAssumption DEF Init, DiscoveryInit, RoomInit, Rest
  <2>3. Init => Flags
    BY DEF Init, DiscoveryInit, RoomInit, Flags
  <2> QED BY <2>1, <2>2, <2>3, PortInit, ThreadInit
<1>2. PortInv /\ ThreadInv /\ SlotInv /\ Rest /\ Flags /\ [Next]_vars
        => PortInv' /\ ThreadInv' /\ SlotInv' /\ Rest' /\ Flags'
  BY PortNext, ThreadNext, SlotNext, RestNext, FlagsNext
<1>3. PortInv /\ ThreadInv /\ SlotInv /\ Rest /\ Flags => TypeOK
  <2> SUFFICES ASSUME PortInv, ThreadInv, SlotInv, Rest, Flags PROVE TypeOK
    OBVIOUS
  <2> USE ThreadAssumption, DiscoveryAssumption
          DEF PortInv, PortFields, ThreadInv, ThreadFields, SlotInv, Rest, Flags
  <2>1. ClientTypeOK
    BY SlotUnused DEF ClientTypeOK, Slots, Pc
  <2>2. DiscoveryTypeOK /\ RoomTypeOK
    BY DEF DiscoveryTypeOK, RoomTypeOK, Servers
  <2> QED BY <2>1, <2>2 DEF TypeOK
<1> QED BY <1>1, <1>2, <1>3, PTL DEF Spec
=============================================================================
