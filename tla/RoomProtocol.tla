---------------------------- MODULE RoomProtocol ----------------------------
(***************************************************************************)
(* What travels between a phone and the phone that hosts the room: the     *)
(* messages of Protocol.java and the TCP connections that carry them.      *)
(*                                                                         *)
(* A connection is named by the phone that opens it and by the number of   *)
(* the attempt, <<phone, n>>; the ClientHandler thread that serves it and  *)
(* the random id of the player it creates bear the same name.              *)
(***************************************************************************)
EXTENDS Naturals, Sequences, FiniteSets

CONSTANTS
  Phones,      (* the phones of the room                                   *)
  Host,        (* the phone the server runs on; it connects by loopback    *)
  MaxTries,    (* bound: connections one phone opens, reconnections included *)
  Values,      (* what an anamorphosis is worth, by difficulty             *)
  RoomNames,   (* the names the host gives to the room                     *)
  None,        (* nothing: no entry, no argument                           *)
  Null         (* the Java null, where the code can store one              *)

Conn == Phones \X (1..MaxTries)

Owner(c) == c[1]

(***************************************************************************)
(* What the server keeps of a player: Player.java without the name.        *)
(***************************************************************************)
PlayerInfo == [ready : BOOLEAN, score : Nat, found : Nat]

ASSUME ProtocolAssumption ==
  /\ IsFiniteSet(Phones)
  /\ Host \in Phones
  /\ MaxTries \in Nat \ {0}
  /\ Values \subseteq Nat \ {0}
  /\ None # Null
  /\ {None, Null} \cap (Conn \cup Values \cup RoomNames) = {}
  /\ None \notin Seq(Conn) \cup (Phones \X Nat)
  /\ None \notin PlayerInfo

VARIABLES
  link,        (* state of the TCP connection of every Conn                *)
  toServer,    (* messages written by the phone and not yet read           *)
  toClient     (* messages written by the server and not yet read          *)

wire == <<link, toServer, toClient>>

(***************************************************************************)
(* "none" not opened yet; "up"; "fin" the phone has closed it, the server  *)
(* reads end-of-file; "gone" as "fin", and the phone's kernel has answered *)
(* a write of the server with a reset; "rst" reset; "closed" closed by the *)
(* server.  A write succeeds locally until the reset is known.             *)
(***************************************************************************)
LinkState == {"none", "up", "fin", "gone", "rst", "closed"}

Writable(c) == link[c] \in {"up", "fin"}

(***************************************************************************)
(* Messages of the phones.  arg is the id of a RECONNECT, the value of an  *)
(* ANAM-FOUND, the name of a ROOM-NAME.                                    *)
(***************************************************************************)
ClientMessage ==
       [kind : {"CONNECT", "READY", "START"}, arg : {None}]
  \cup [kind : {"RECONNECT"}, arg : Conn \cup {None}]
  \cup [kind : {"ROOM-NAME"}, arg : RoomNames]
  \cup [kind : {"ANAM-FOUND"}, arg : Values]

Say(kind, arg) == [kind |-> kind, arg |-> arg]

(***************************************************************************)
(* Instructions of the server.  view is the table of players of a PLAYERS  *)
(* or a FINISHED instruction (None for who is not in it); podium is the    *)
(* order of the players in a FINISHED, the tied players in a DEATHMATCH.   *)
(* The order of a PLAYERS is that of a HashMap and nothing depends on it.  *)
(***************************************************************************)
InstructionKind ==
  {"PLAYERS", "ID", "START", "FINISHED", "NOTREADY", "GAME-STARTED",
   "DEATHMATCH", "SERVER-STOPPED", "ROOM-NAME", "none"}

View == [Conn -> PlayerInfo \cup {None}]

EmptyView == [c \in Conn |-> None]

Listed(v) == {c \in Conn : v[c] # None}

Instruction ==
  {m \in [kind : InstructionKind, arg : Conn \cup RoomNames \cup {None},
          view : View, podium : Seq(Conn)] :
     m.kind = "ID" => m.arg \in Conn}

Tell(kind, arg) ==
  [kind |-> kind, arg |-> arg, view |-> EmptyView, podium |-> <<>>]

TellPodium(kind, podium) == [Tell(kind, None) EXCEPT !.podium = podium]

Nothing == Tell("none", None)

WireInit ==
  /\ link = [c \in Conn |-> "none"]
  /\ toServer = [c \in Conn |-> <<>>]
  /\ toClient = [c \in Conn |-> <<>>]

WireTypeOK ==
  /\ link \in [Conn -> LinkState]
  /\ toServer \in [Conn -> Seq(ClientMessage)]
  /\ toClient \in [Conn -> Seq(Instruction)]
=============================================================================
