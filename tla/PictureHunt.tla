----------------------------- MODULE PictureHunt -----------------------------
(***************************************************************************)
(* model/AnamorphDictionary.java and AnamorphosisChoiceActivity.java: the  *)
(* player is offered one picture of each difficulty, none of which has     *)
(* been found before, and hunts one of them with the camera.  On the host, *)
(* a handler thread of the room draws the picture of a death match from    *)
(* the same dictionary, which no lock protects.                            *)
(***************************************************************************)
EXTENDS Integers, Sequences, FiniteSets

CONSTANTS
  Order,      (* the difficulties, in the order pictures are drawn          *)
  Medium,     (* that of a death match                                      *)
  Pictures,   (* Pictures[d]: the pictures of a difficulty                  *)
  MaxFinds, MaxDraws,   (* how many finds, how many draws of the room       *)
  NoPicture

Difficulty == {Order[i] : i \in DOMAIN Order}

ASSUME HuntAssumption ==
  /\ Order \in Seq(Difficulty) /\ Order # <<>>
  /\ Medium \in Difficulty
  /\ \A d \in Difficulty : IsFiniteSet(Pictures[d]) /\ Pictures[d] # {}
  /\ MaxFinds \in Nat /\ MaxDraws \in Nat

VARIABLES
  validated,  (* validated[d]: the pictures found, a list per difficulty    *)
  pc,         (* where a thread is in getRandom; idle                       *)
  turn,       (* the difficulty the player's thread is drawing for          *)
  copy,       (* the local list copy of getRandom                           *)
  offered,    (* offered[d]: the picture the choice activity shows          *)
  hunted,     (* the difficulty of the picture the camera looks for, or 0   *)
  finds, draws,
  raced,      (* a picture was found while the room's thread was drawing    *)
  failed      (* the thread that drew from nothing, or none                 *)

huntVars == <<validated, pc, turn, copy, offered, hunted, finds, draws, raced, failed>>

Thread == {"player", "room"}

Found(d) == {validated[d][i] : i \in DOMAIN validated[d]}

HuntInit ==
  /\ validated = [d \in Difficulty |-> <<>>]
  /\ pc = [player |-> "size", room |-> "idle"]
  /\ turn = 1
  /\ copy = [t \in Thread |-> {}]
  /\ offered = [d \in Difficulty |-> NoPicture]
  /\ hunted = 0 /\ finds = 0 /\ draws = 0
  /\ raced = FALSE /\ failed = "none"

-----------------------------------------------------------------------------
(* getRandom, which does not look at its argument notAlreadyValidated      *)

Wanted(t) == IF t = "player" THEN Order[turn] ELSE Medium

Go(t, where) == pc' = [pc EXCEPT ![t] = where]

(* Bug: the list is cleared one picture too early.                         *)
CompareTooEarly(t) ==
  /\ pc[t] = "size"
  /\ Go(t, IF Len(validated[Wanted(t)]) + 1 >= Cardinality(Pictures[Wanted(t)])
           THEN "clear" ELSE "copy")
  /\ UNCHANGED <<validated, turn, copy, offered, hunted, finds, draws, raced, failed>>

(* Bug: the list is cleared one picture too late.                          *)
CompareTooLate(t) ==
  /\ pc[t] = "size"
  /\ Go(t, IF Len(validated[Wanted(t)]) > Cardinality(Pictures[Wanted(t)])
           THEN "clear" ELSE "copy")
  /\ UNCHANGED <<validated, turn, copy, offered, hunted, finds, draws, raced, failed>>

CompareSizes(t) ==
  /\ pc[t] = "size"
  /\ Go(t, IF Len(validated[Wanted(t)]) = Cardinality(Pictures[Wanted(t)])
           THEN "clear" ELSE "copy")
  /\ UNCHANGED <<validated, turn, copy, offered, hunted, finds, draws, raced, failed>>

Clear(t) ==
  /\ pc[t] = "clear"
  /\ validated' = [validated EXCEPT ![Wanted(t)] = <<>>]
  /\ Go(t, "copy")
  /\ UNCHANGED <<turn, copy, offered, hunted, finds, draws, raced, failed>>

(* Bug: what was found is not left out.                                    *)
CopyAll(t) ==
  /\ pc[t] = "copy"
  /\ copy' = [copy EXCEPT ![t] = Pictures[Wanted(t)]]
  /\ Go(t, "next")
  /\ UNCHANGED <<validated, turn, offered, hunted, finds, draws, raced, failed>>

CopyRest(t) ==
  /\ pc[t] = "copy"
  /\ copy' = [copy EXCEPT ![t] = Pictures[Wanted(t)] \ Found(Wanted(t))]
  /\ Go(t, "next")
  /\ UNCHANGED <<validated, turn, offered, hunted, finds, draws, raced, failed>>

(* nextInt throws when there is nothing to draw from.                      *)
NextInt(t) ==
  /\ pc[t] = "next" /\ copy[t] = {}
  /\ failed' = t
  /\ Go(t, "idle")
  /\ UNCHANGED <<validated, turn, copy, offered, hunted, finds, draws, raced>>

(* Bug: one turn too many.                                                 *)
DrawOnceMore ==
  /\ pc["player"] = "next"
  /\ \E p \in copy["player"] : offered' = [offered EXCEPT ![Order[turn]] = p]
  /\ copy' = [copy EXCEPT !["player"] = {}]
  /\ IF turn <= Len(Order) THEN turn' = turn + 1 /\ Go("player", "size")
     ELSE turn' = 1 /\ Go("player", "idle")
  /\ UNCHANGED <<validated, hunted, finds, draws, raced, failed>>

Draw ==
  /\ pc["player"] = "next"
  /\ \E p \in copy["player"] : offered' = [offered EXCEPT ![Order[turn]] = p]
  /\ copy' = [copy EXCEPT !["player"] = {}]
  /\ IF turn < Len(Order) THEN turn' = turn + 1 /\ Go("player", "size")
     ELSE turn' = 1 /\ Go("player", "idle")
  /\ UNCHANGED <<validated, hunted, finds, draws, raced, failed>>

DrawDeathMatch ==
  /\ pc["room"] = "next" /\ copy["room"] # {}
  /\ copy' = [copy EXCEPT !["room"] = {}]
  /\ Go("room", "idle")
  /\ UNCHANGED <<validated, turn, offered, hunted, finds, draws, raced, failed>>

(* chooseMediumAnamorph, when a tie opens the death match.                 *)
OpenDeathMatch ==
  /\ pc["room"] = "idle" /\ draws < MaxDraws
  /\ draws' = draws + 1
  /\ Go("room", "size")
  /\ UNCHANGED <<validated, turn, copy, offered, hunted, finds, raced, failed>>

-----------------------------------------------------------------------------
(* AnamorphosisChoiceActivity *)

Choose ==
  /\ pc["player"] = "idle" /\ hunted = 0
  /\ hunted' \in DOMAIN Order
  /\ UNCHANGED <<validated, pc, turn, copy, offered, finds, draws, raced, failed>>

(* onActivityResult: found or cancelled, three other pictures are drawn.   *)
HuntFound ==
  LET d == Order[hunted] IN
  /\ hunted # 0 /\ finds < MaxFinds
  /\ validated' = [validated EXCEPT ![d] = Append(@, offered[d])]
  /\ raced' = (raced \/ pc["room"] # "idle")
  /\ hunted' = 0 /\ finds' = finds + 1
  /\ Go("player", "size")
  /\ UNCHANGED <<turn, copy, offered, draws, failed>>

HuntCancelled ==
  /\ hunted # 0
  /\ hunted' = 0
  /\ Go("player", "size")
  /\ UNCHANGED <<validated, turn, copy, offered, finds, draws, raced, failed>>

HuntStep ==
  /\ failed = "none"
  /\ \/ \E t \in Thread : CompareSizes(t) \/ Clear(t) \/ CopyRest(t) \/ NextInt(t)
     \/ Draw \/ DrawDeathMatch \/ OpenDeathMatch
     \/ Choose \/ HuntFound \/ HuntCancelled
=============================================================================
