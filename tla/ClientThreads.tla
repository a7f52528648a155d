---------------------------- MODULE ClientThreads ----------------------------
(***************************************************************************)
(* network/client/Client.java: the one Client object of the application,   *)
(* the threads that run it and the monitor that connectServer and          *)
(* notifyListener share.  A thread that ends on an error starts the next   *)
(* one after a pause; connectServer joins the thread it finds in the field *)
(* thread and starts another.  All of them work on the same fields.        *)
(***************************************************************************)
EXTENDS Integers, FiniteSets

CONSTANTS
  Remote,     (* the rooms of other phones                                  *)
  MaxSlots,   (* how many threads can be told apart at one time             *)
  MaxBreaks   (* how many connections break                                 *)

ASSUME ThreadAssumption ==
  /\ IsFiniteSet(Remote) /\ Remote \cap {"own", "none"} = {}
  /\ MaxSlots \in Nat /\ MaxBreaks \in Nat

VARIABLES
  pc,            (* where a thread is in run(); none before and after       *)
  reading,       (* the socket its call of readLine reads from              *)
  conn,          (* the socket a thread has opened: its room, its state     *)
  thread,        (* the field thread, 0 when it is null or has ended        *)
  address,       (* the field serverAddress                                 *)
  running, reconnecting,
  playerId,      (* the room that gave the identifier, none for null        *)
  socketServer,  (* the fields socketServer and in: whose socket it is, 0   *)
                 (* when there was none or it is closed                     *)
  out,           (* the field out is not null                               *)
  monitor,       (* who is in connectServer: free, ui or accept             *)
  joining,       (* the thread it joins                                     *)
  haunted,       (* connectServer has lost sight of a thread                *)
  breaks

threads == <<pc, reading, conn>>
identity == <<address, running, reconnecting, playerId>>
streams == <<socketServer, out>>
joins == <<thread, monitor, joining, haunted>>
clientVars == <<threads, identity, streams, joins, breaks>>

Room == {"own"} \cup Remote
Slots == 1..MaxSlots
Live == {t \in Slots : pc[t] # "none"}

Closed == [room |-> "none", state |-> "closed"]

ClientInit ==
  /\ pc = [t \in Slots |-> "none"]
  /\ reading = [t \in Slots |-> 0]
  /\ conn = [t \in Slots |-> Closed]
  /\ thread = 0 /\ address = "none" /\ running = FALSE /\ reconnecting = FALSE
  /\ playerId = "none" /\ socketServer = 0 /\ out = FALSE
  /\ monitor = "free" /\ joining = 0 /\ haunted = FALSE /\ breaks = 0

(* A new Thread takes a number that nothing refers to, a thread that ends  *)
(* leaves its number to its successor.                                     *)
Unused == Slots \ (Live \cup {reading[t] : t \in Live} \cup {thread, joining, socketServer})
Fresh == CHOOSE t \in Unused : \A u \in Unused : t <= u
Successor(t) == IF joining = t THEN Fresh ELSE t

-----------------------------------------------------------------------------
(* connectServer, in its caller's thread *)

(* Bug: connectServer waits for nobody.                                    *)
EnterWithoutJoin(caller) ==
  /\ monitor = "free"
  /\ monitor' = caller /\ joining' = 0
  /\ UNCHANGED <<threads, identity, streams, thread, haunted, breaks>>

EnterConnect(caller) ==
  /\ monitor = "free"
  /\ monitor' = caller /\ joining' = thread
  /\ UNCHANGED <<threads, identity, streams, thread, haunted, breaks>>

(* The thread that was joined may have put its successor in the field.     *)
Joined ==
  /\ joining # 0 /\ pc[joining] = "none"
  /\ haunted' = (haunted \/ thread \notin {0, joining})
  /\ thread' = 0 /\ joining' = 0
  /\ UNCHANGED <<threads, identity, streams, monitor, breaks>>

(* Bug: the identifier of the last room is kept.                           *)
BeginWithOldId(caller, room) ==
  /\ monitor = caller /\ joining = 0
  /\ address' = room /\ running' = TRUE /\ reconnecting' = FALSE
  /\ thread' = Fresh /\ pc' = [pc EXCEPT ![Fresh] = "open"]
  /\ monitor' = "free"
  /\ UNCHANGED <<playerId, reading, conn, streams, joining, haunted, breaks>>

Begin(caller, room) ==
  /\ monitor = caller /\ joining = 0
  /\ address' = room /\ playerId' = "none"
  /\ running' = TRUE /\ reconnecting' = FALSE
  /\ thread' = Fresh /\ pc' = [pc EXCEPT ![Fresh] = "open"]
  /\ monitor' = "free"
  /\ UNCHANGED <<reading, conn, streams, joining, haunted, breaks>>

-----------------------------------------------------------------------------
(* run *)

At(t, here, there) == pc[t] = here /\ pc' = [pc EXCEPT ![t] = there]

SetState(t, state) == conn' = [conn EXCEPT ![t].state = state]

(* new Socket and configureStreams.  A room that is not there refuses.     *)
OpenSocket(t, rooms) ==
  /\ IF address \in rooms
     THEN /\ At(t, "open", "hello")
          /\ conn' = [conn EXCEPT ![t] = [room |-> address, state |-> "up"]]
          /\ socketServer' = t /\ out' = TRUE
     ELSE At(t, "open", "fail") /\ UNCHANGED <<conn, streams>>
  /\ UNCHANGED <<reading, identity, joins, breaks>>

(* CONNECT, or RECONNECT with the identifier.  Without streams nothing is  *)
(* sent; on a broken connection the sending thread tells the listener.     *)
Hello(t) ==
  /\ At(t, "hello", IF out /\ conn[socketServer].state \in {"broken", "closed"}
                    THEN "tell" ELSE "loop")
  /\ IF out /\ ~reconnecting /\ conn[socketServer].state = "up"
     THEN SetState(socketServer, "asked") ELSE UNCHANGED conn
  /\ reconnecting' = FALSE
  /\ UNCHANGED <<reading, address, running, playerId, streams, joins, breaks>>

Loop(t) ==
  /\ IF running
     THEN At(t, "loop", "read") /\ reading' = [reading EXCEPT ![t] = socketServer]
     ELSE At(t, "loop", "close") /\ UNCHANGED reading
  /\ UNCHANGED <<conn, identity, streams, joins, breaks>>

(* The answer to CONNECT: the identifier, or that the game has started.    *)
ReadAnswer(t) ==
  LET s == reading[t] IN
  /\ pc[t] = "read" /\ s # 0 /\ conn[s].state = "asked"
  /\ SetState(s, "up")
  /\ \/ At(t, "read", "loop") /\ playerId' = conn[s].room
     \/ At(t, "read", "tell") /\ UNCHANGED playerId
  /\ UNCHANGED <<reading, address, running, reconnecting, streams, joins, breaks>>

(* Any other message of the game is passed on to the listener.             *)
ReadEvent(t) ==
  /\ At(t, "read", "tell") /\ reading[t] # 0 /\ conn[reading[t]].state = "up"
  /\ UNCHANGED <<reading, conn, identity, streams, joins, breaks>>

ReadStopped(t) ==
  /\ At(t, "read", "tell") /\ reading[t] # 0 /\ conn[reading[t]].state = "stopped"
  /\ running' = FALSE
  /\ UNCHANGED <<reading, conn, address, reconnecting, playerId, streams, joins, breaks>>

ReadError(t) ==
  /\ At(t, "read", "fail")
  /\ reading[t] = 0 \/ conn[reading[t]].state \in {"broken", "closed"}
  /\ UNCHANGED <<reading, conn, identity, streams, joins, breaks>>

(* notifyListener: it needs the monitor that connectServer holds.          *)
Tell(t) ==
  /\ At(t, "tell", "loop") /\ monitor = "free"
  /\ UNCHANGED <<reading, conn, identity, streams, joins, breaks>>

TellError(t) ==
  /\ At(t, "fail", "close") /\ monitor = "free"
  /\ reconnecting' = TRUE
  /\ UNCHANGED <<reading, conn, address, running, playerId, streams, joins, breaks>>

(* finally: it is whatever socket is in the field that is closed.          *)
Close(t) ==
  /\ At(t, "close", IF reconnecting THEN "sleep" ELSE "none")
  /\ conn' = [conn EXCEPT ![IF socketServer = 0 THEN t ELSE socketServer] = Closed]
  /\ socketServer' = 0 /\ out' = FALSE
  /\ reading' = [reading EXCEPT ![t] = 0]
  /\ thread' = IF thread = t /\ ~reconnecting THEN 0 ELSE thread
  /\ UNCHANGED <<identity, monitor, joining, haunted, breaks>>

(* Bug: a thread starts its successor again and again.                     *)
RetryForEver(t) ==
  /\ pc[t] = "sleep"
  /\ pc' = [pc EXCEPT ![Fresh] = "open"]
  /\ thread' = Fresh
  /\ UNCHANGED <<reading, conn, identity, streams, monitor, joining, haunted, breaks>>

(* After three seconds: the next thread.                                   *)
Retry(t) ==
  /\ pc[t] = "sleep"
  /\ pc' = [pc EXCEPT ![t] = "none", ![Successor(t)] = "open"]
  /\ thread' = Successor(t)
  /\ UNCHANGED <<reading, conn, identity, streams, monitor, joining, haunted, breaks>>

ClientThread(t) ==
  \/ Hello(t) \/ Loop(t) \/ ReadAnswer(t) \/ ReadStopped(t) \/ ReadError(t)
  \/ Tell(t) \/ TellError(t) \/ Close(t) \/ Retry(t)

-----------------------------------------------------------------------------
(* The network and the rooms *)

InRoom(room) == {t \in Slots : conn[t].room = room /\ conn[t].state \in {"up", "asked"}}

(* A room that stops tells those it has accepted.                          *)
TellStopped(room) ==
  \E told \in SUBSET InRoom(room) :
    conn' = [t \in Slots |-> IF t \in told THEN [conn[t] EXCEPT !.state = "stopped"]
                             ELSE conn[t]]

DropAll(room) ==
  conn' = [t \in Slots |-> IF t \in InRoom(room) THEN [conn[t] EXCEPT !.state = "broken"]
                           ELSE conn[t]]

Break(t) ==
  /\ breaks < MaxBreaks /\ conn[t].state \in {"up", "asked"}
  /\ breaks' = breaks + 1
  /\ SetState(t, "broken")
  /\ UNCHANGED <<pc, reading, identity, streams, joins>>

ClientTypeOK ==
  /\ \A t \in Slots :
       /\ pc[t] \in {"none", "open", "hello", "loop", "read", "tell", "fail", "close", "sleep"}
       /\ reading[t] \in 0..MaxSlots
       /\ conn[t].room \in Room \cup {"none"}
       /\ conn[t].state \in {"closed", "up", "asked", "stopped", "broken"}
  /\ thread \in 0..MaxSlots /\ joining \in 0..MaxSlots /\ socketServer \in 0..MaxSlots
  /\ address \in Room \cup {"none"} /\ playerId \in Room \cup {"none"}
  /\ monitor \in {"free", "ui", "accept"} /\ breaks \in 0..MaxBreaks
  /\ Unused # {}
=============================================================================
