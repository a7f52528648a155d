---------------------------- MODULE RoomOutcome ----------------------------
(***************************************************************************)
(* What a room promises about its game, whatever its threads and           *)
(* connections do: a find is worth what it is worth and is never taken     *)
(* back; the phase of the game changes only at a start or by a verdict; a  *)
(* verdict is given on the scores of that moment, and is either carried    *)
(* out or lost with the process.                                           *)
(*                                                                         *)
(* What it does not promise is said here as well.  The host may start the  *)
(* game again at any time.  Two verdicts can be under way at once, and     *)
(* the last one carried out stands: a game whose end was announced can     *)
(* come to a death match, and a find of the main game can end the death    *)
(* match.  A tie is one of two seats, and a player may have two.           *)
(***************************************************************************)
EXTENDS Naturals

CONSTANTS
  Players, Values, FindsToWin,
  Seats,      (* where a player sits: the connections                       *)
  Judges      (* who gives verdicts: the threads                            *)

VARIABLES
  phase,      (* LOBBY, MAIN_GAME, DEATH_MATCH, ENDED                       *)
  score, found,
  seat,       (* seat[s]: the player there, or something else               *)
  verdict,    (* verdict[j]: none, tie or over                              *)
  failed      (* an exception is ending the process                         *)

vars == <<phase, score, found, seat, verdict, failed>>

(* Nothing has been found, whether the game has been started or not.       *)
Init ==
  /\ phase \in {"LOBBY", "MAIN_GAME"}
  /\ score = [p \in Players |-> 0]
  /\ found = [p \in Players |-> 0]
  /\ verdict = [j \in Judges |-> "none"]
  /\ failed = FALSE

Start ==
  /\ phase' = "MAIN_GAME"
  /\ UNCHANGED <<score, found, seat, verdict, failed>>

(* Players come, move to another seat and go.                              *)
Reseat == UNCHANGED <<phase, score, found, verdict, failed>>

Credit(s) ==
  LET p == seat[s] IN
  /\ p \in Players
  /\ found' = [found EXCEPT ![p] = @ + 1]
  /\ \E v \in Values : score' = [score EXCEPT ![p] = @ + v]
  /\ UNCHANGED <<phase, seat, verdict, failed>>

Winner == \E p \in Players : found[p] >= FindsToWin

Tie ==
  \E a, b \in Seats :
    /\ a # b /\ seat[a] \in Players /\ seat[b] \in Players
    /\ score[seat[a]] = score[seat[b]]

Judge(j) ==
  /\ verdict[j] = "none"
  /\ \/ /\ phase = "DEATH_MATCH" \/ (phase = "MAIN_GAME" /\ Winner)
        /\ verdict' = [verdict EXCEPT ![j] = "over"]
     \/ /\ phase = "MAIN_GAME" /\ Winner /\ Tie
        /\ verdict' = [verdict EXCEPT ![j] = "tie"]
  /\ UNCHANGED <<phase, score, found, seat, failed>>

CarryOut(j) ==
  /\ \/ verdict[j] = "tie" /\ phase' = "DEATH_MATCH"
     \/ verdict[j] = "over" /\ phase' = "ENDED"
  /\ verdict' = [verdict EXCEPT ![j] = "none"]
  /\ UNCHANGED <<score, found, seat, failed>>

Fail ==
  /\ failed' = TRUE
  /\ \E j \in Judges : verdict' \in {verdict, [verdict EXCEPT ![j] = "none"]}
  /\ UNCHANGED <<phase, score, found, seat>>

Next ==
  \/ Start \/ Reseat \/ Fail
  \/ \E s \in Seats : Credit(s)
  \/ \E j \in Judges : Judge(j) \/ CarryOut(j)

Spec == Init /\ [][Next]_vars
=============================================================================
