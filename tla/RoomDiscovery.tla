---------------------------- MODULE RoomDiscovery ----------------------------
(***************************************************************************)
(* network/server/RoomNotifier.java and network/client/RoomFinder.java:    *)
(* the thread that announces the room of this phone, and the thread that   *)
(* lists the rooms of others while the activity that joins one is on       *)
(* screen.  Each opens a socket on the same UDP port.                      *)
(***************************************************************************)
EXTENDS Integers, FiniteSets

CONSTANTS
  MaxServers,   (* how many rooms the phone opens                           *)
  MaxRefusals   (* how often another application holds a port               *)

ASSUME DiscoveryAssumption == MaxServers \in Nat /\ MaxRefusals \in Nat

VARIABLES
  notifier,     (* notifier[s]: none, bind, on, dead                        *)
  notifying,
  finder,       (* the thread of RoomFinder: none, bind, on, dead           *)
  finding,      (* RoomFinder.listening                                     *)
  rooms,        (* RoomFinder.rooms                                         *)
  refusals

discoveryVars == <<notifier, notifying, finder, finding, rooms, refusals>>

Servers == 1..MaxServers

Announcing == {s \in Servers : notifier[s] = "on"}

DiscoveryInit ==
  /\ notifier = [s \in Servers |-> "none"]
  /\ notifying = [s \in Servers |-> FALSE]
  /\ finder = "none" /\ finding = FALSE /\ rooms = {} /\ refusals = 0

(* A socket is bound unless its port is taken, by this application or by   *)
(* another.                                                                *)
Bind(taken, bound, refused) ==
  \/ ~taken /\ bound /\ UNCHANGED refusals
  \/ taken /\ refused /\ UNCHANGED refusals
  \/ ~taken /\ refusals < MaxRefusals /\ refused /\ refusals' = refusals + 1

-----------------------------------------------------------------------------
(* RoomNotifier *)

StartNotifying(s) ==
  /\ notifying' = [notifying EXCEPT ![s] = TRUE]
  /\ notifier' = [notifier EXCEPT ![s] = "bind"]

(* stopNotifying waits for the thread, if there is one.                    *)
StopNotifying(s) == notifying' = [notifying EXCEPT ![s] = FALSE]

Notified(s) == notifier[s] \in {"none", "dead"}

NotifierBinds(s) ==
  /\ notifier[s] = "bind"
  /\ Bind(finder = "on" \/ Announcing # {},
          notifier' = [notifier EXCEPT ![s] = "on"],
          notifier' = [notifier EXCEPT ![s] = "dead"])
  /\ UNCHANGED <<notifying, finder, finding, rooms>>

NotifierEnds(s) ==
  /\ notifier[s] = "on" /\ ~notifying[s]
  /\ notifier' = [notifier EXCEPT ![s] = "dead"]
  /\ UNCHANGED <<notifying, finder, finding, rooms, refusals>>

NotifierStep == \E s \in Servers : NotifierBinds(s) \/ NotifierEnds(s)

-----------------------------------------------------------------------------
(* RoomFinder *)

(* Bug: the thread looks at listening before startListening has set it.    *)
StartFinderUnset ==
  finder' = "bind" /\ UNCHANGED finding

StartFinder == finder' = "bind" /\ finding' = TRUE

(* stopListening, which then waits for the thread.                         *)
StopFinder == finding' = FALSE

FinderJoined == finder \in {"none", "dead"}

FinderBinds ==
  /\ finder = "bind"
  /\ Bind(Announcing # {}, finder' = "on", finder' = "dead")
  /\ UNCHANGED <<notifier, notifying, finding, rooms>>

(* Bug: a second without a datagram ends the thread.                       *)
FinderTimesOut ==
  /\ finder = "on"
  /\ finder' = "dead"
  /\ UNCHANGED <<notifier, notifying, finding, rooms, refusals>>

FinderEnds ==
  /\ finder = "on" /\ ~finding
  /\ finder' = "dead"
  /\ UNCHANGED <<notifier, notifying, finding, rooms, refusals>>

(* A datagram.  No room is ever taken off the list.                        *)
Hear(room) ==
  /\ finder = "on" /\ finding
  /\ rooms' = rooms \cup {room}
  /\ UNCHANGED <<notifier, notifying, finder, finding, refusals>>

DiscoveryTypeOK ==
  /\ notifier \in [Servers -> {"none", "bind", "on", "dead"}]
  /\ notifying \in [Servers -> BOOLEAN]
  /\ finder \in {"none", "bind", "on", "dead"} /\ finding \in BOOLEAN
  /\ refusals \in 0..MaxRefusals
=============================================================================
