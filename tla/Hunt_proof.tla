----------------------------- MODULE Hunt_proof -----------------------------
(***************************************************************************)
(* Proofs about a hunt.                                                    *)
(*                                                                         *)
(* The dictionary: DrawExplained, OfferedNew and ForgottenWhenAllFound of  *)
(* Hunt, for any pictures and any order of the difficulties, any number of *)
(* finds and draws.  The strengthening counts the pictures a list holds,   *)
(* and says what the two threads still know of the list they have looked   *)
(* at.                                                                     *)
(*                                                                         *)
(* The camera: TypeOK, Exclusive, NullSessionExplained, CrashExplained and *)
(* PauseReleasesCamera, for any number of operations and of losses.  The   *)
(* strengthening says to whom the permit of the semaphore is lent while no *)
(* permit was given back too early, and of which device each callback that *)
(* waits is.                                                               *)
(***************************************************************************)
EXTENDS Hunt, FiniteSetTheorems, TLAPS

Number(d) == Cardinality(Pictures[d])

Fields ==
  /\ validated \in [Difficulty -> Seq(UNION {Pictures[d] : d \in Difficulty})]
  /\ pc \in [Thread -> {"idle", "size", "clear", "copy", "next"}]
  /\ copy \in [Thread -> SUBSET UNION {Pictures[d] : d \in Difficulty}]
  /\ turn \in DOMAIN Order /\ hunted \in {0} \cup DOMAIN Order
  /\ DOMAIN offered = Difficulty

(* A list holds pictures of its difficulty, none twice.                    *)
NoneTwice ==
  \A d \in Difficulty :
    Found(d) \subseteq Pictures[d] /\ Cardinality(Found(d)) = Len(validated[d])

(* What is on offer was not found, whether drawn before or in this round.  *)
Fresh(d) == offered[d] \in Pictures[d] \ Found(d)

Offer ==
  /\ pc["player"] = "idle" => turn = 1 /\ \A d \in Difficulty : Fresh(d)
  /\ \A j \in DOMAIN Order : j < turn => Fresh(Order[j])
  /\ hunted # 0 => pc["player"] = "idle"

(* What a thread has seen of the list it draws from still holds; for the   *)
(* thread of the room, as long as no picture was found meanwhile.          *)
Seen(t) ==
  LET d == Wanted(t) IN
  /\ pc[t] = "clear" => validated[d] = <<>> \/ Len(validated[d]) = Number(d)
  /\ pc[t] = "copy" => Len(validated[d]) < Number(d)
  /\ pc[t] = "next" => copy[t] # {}

Drawn == pc["player"] = "next" => copy["player"] \cap Found(Order[turn]) = {}
                                  /\ copy["player"] \subseteq Pictures[Order[turn]]

DrawInv ==
  /\ Fields /\ NoneTwice /\ Offer /\ Drawn
  /\ Seen("player") /\ (raced \/ Seen("room"))
  /\ DrawExplained

-----------------------------------------------------------------------------
(* Lists *)

LEMMA OrderFacts ==
  /\ 1 \in DOMAIN Order /\ DOMAIN Order = 1..Len(Order) /\ Len(Order) \in Nat
  /\ \A i \in DOMAIN Order : Order[i] \in Difficulty
  /\ 0 \notin DOMAIN Order
BY HuntAssumption DEF HuntAssumption, Difficulty

LEMMA NumberFacts ==
  ASSUME NEW d \in Difficulty
  PROVE  Number(d) \in Nat /\ Number(d) > 0
<1>1. IsFiniteSet(Pictures[d]) /\ Pictures[d] # {}
  BY HuntAssumption DEF HuntAssumption
<1>2. Cardinality(Pictures[d]) \in Nat /\ Cardinality(Pictures[d]) # 0
  BY <1>1, FS_CardinalityType, FS_EmptySet
<1> QED BY <1>2 DEF Number

(* A list that is not full leaves something to draw from, a full one has   *)
(* everything.                                                             *)
LEMMA Rest ==
  ASSUME NEW d \in Difficulty, NoneTwice, Fields
  PROVE  /\ Len(validated[d]) < Number(d) => Pictures[d] \ Found(d) # {}
         /\ Len(validated[d]) = Number(d) => Found(d) = Pictures[d]
         /\ Len(validated[d]) <= Number(d)
         /\ Pictures[d] \ Found(d) # {} => Len(validated[d]) < Number(d)
<1>1. IsFiniteSet(Pictures[d]) /\ Found(d) \subseteq Pictures[d]
  BY HuntAssumption DEF HuntAssumption, NoneTwice
<1>2. /\ Cardinality(Found(d)) <= Cardinality(Pictures[d])
      /\ Cardinality(Found(d)) = Cardinality(Pictures[d]) => Found(d) = Pictures[d]
  BY <1>1, FS_Subset
<1>3. Cardinality(Found(d)) = Len(validated[d]) /\ Len(validated[d]) \in Nat
  BY DEF NoneTwice, Fields
<1>4. Number(d) \in Nat /\ Number(d) = Cardinality(Pictures[d])
  BY NumberFacts DEF Number
<1>5. Len(validated[d]) < Number(d) => Found(d) # Pictures[d]
  BY <1>3, <1>4
<1>6. Len(validated[d]) <= Number(d) /\ (Len(validated[d]) = Number(d) => Found(d) = Pictures[d])
  BY <1>2, <1>3, <1>4
<1>7. Pictures[d] \ Found(d) # {} => Len(validated[d]) < Number(d)
  <2>1. Pictures[d] \ Found(d) # {} => Len(validated[d]) # Number(d)
    BY <1>6
  <2> QED BY <2>1, <1>6, <1>3, <1>4
<1> QED BY <1>1, <1>5, <1>6, <1>7

Elements(s) == {s[i] : i \in DOMAIN s}

(* One find more: the list holds the picture found besides.                *)
LEMMA OneMore ==
  ASSUME NEW S, NEW s \in Seq(S), NEW p \in S
  PROVE  /\ Len(Append(s, p)) = Len(s) + 1
         /\ Elements(Append(s, p)) = Elements(s) \cup {p}
<1> DEFINE u == Append(s, p)
<1>1. /\ Len(u) = Len(s) + 1 /\ DOMAIN u = 1..(Len(s) + 1)
      /\ DOMAIN s = 1..Len(s) /\ Len(s) \in Nat
      /\ u[Len(s) + 1] = p /\ \A i \in 1..Len(s) : u[i] = s[i]
  OBVIOUS
<1>2. 1..(Len(s) + 1) = (1..Len(s)) \cup {Len(s) + 1}
  BY <1>1
<1> HIDE DEF u
<1>3. {u[i] : i \in DOMAIN u} = {s[i] : i \in DOMAIN s} \cup {p}
  BY <1>1, <1>2
<1>4. Elements(u) = Elements(s) \cup {p}
  BY <1>3 DEF Elements
<1> QED BY <1>1, <1>4 DEF u

-----------------------------------------------------------------------------
LEMMA DrawInit == Init => DrawInv
<1> SUFFICES ASSUME Init PROVE DrawInv
  OBVIOUS
<1> USE OrderFacts DEF Init, HuntInit
<1>1. Fields
  BY DEF Fields, Thread
<1>2. \A d \in Difficulty : Found(d) = {} /\ Len(validated[d]) = 0
  BY DEF Found
<1>3. NoneTwice
  BY <1>2, FS_EmptySet DEF NoneTwice
<1>4. Offer /\ Drawn /\ Seen("player") /\ Seen("room") /\ DrawExplained
  BY DEF Offer, Drawn, Seen, DrawExplained
<1> QED BY <1>1, <1>3, <1>4 DEF DrawInv

LEMMA DrawKept == DrawInv /\ UNCHANGED huntVars => DrawInv'
<1> SUFFICES ASSUME DrawInv, UNCHANGED huntVars PROVE DrawInv'
  OBVIOUS
<1> USE DEF huntVars
<1>1. \A d \in Difficulty : Found(d)' = Found(d)
  BY DEF Found
<1>2. Fields' /\ NoneTwice' /\ DrawExplained'
  BY <1>1 DEF DrawInv, Fields, NoneTwice, DrawExplained
<1>3. Offer'
  BY <1>1, OrderFacts DEF DrawInv, Offer, Fresh
<1>4. Drawn' /\ \A t \in Thread : Seen(t) => Seen(t)'
  BY DEF DrawInv, Drawn, Seen, Found, Wanted
<1> QED BY <1>2, <1>3, <1>4 DEF DrawInv, Thread

(* A thread compares the sizes.                                            *)
LEMMA DrawCompare ==
  ASSUME DrawInv, NEW t \in Thread, CompareSizes(t)
  PROVE  DrawInv'
<1> USE DEF DrawInv, CompareSizes, Go, Thread
<1>1. Wanted(t) \in Difficulty
  BY OrderFacts, HuntAssumption DEF HuntAssumption, Wanted, Fields
<1>2. Len(validated[Wanted(t)]) <= Number(Wanted(t)) /\ Len(validated[Wanted(t)]) \in Nat
      /\ Number(Wanted(t)) \in Nat
  BY <1>1, Rest, NumberFacts DEF Fields
<1>3. Fields' /\ NoneTwice' /\ DrawExplained'
  BY DEF Fields, NoneTwice, DrawExplained, Found
<1>4. Offer' /\ Drawn'
  BY DEF Fields, Offer, Fresh, Drawn, Found
<1>5. Seen(t)'
  BY <1>2 DEF Seen, Wanted, Fields, Number
<1>6. \A u \in Thread : u # t /\ Seen(u) => Seen(u)'
  BY DEF Seen, Wanted, Fields
<1> QED BY <1>3, <1>4, <1>5, <1>6

(* A thread forgets what was found, or copies what was not.                *)
LEMMA DrawClear ==
  ASSUME DrawInv, NEW t \in Thread, Clear(t)
  PROVE  DrawInv'
<1> USE DEF DrawInv, Clear, Go, Thread
<1>1. Wanted(t) \in Difficulty
  BY OrderFacts, HuntAssumption DEF HuntAssumption, Wanted, Fields
<1>2. \A d \in Difficulty :
        IF d = Wanted(t) THEN validated'[d] = <<>> ELSE validated'[d] = validated[d]
  BY <1>1 DEF Fields
<1>3. \A d \in Difficulty : Found(d)' = IF d = Wanted(t) THEN {} ELSE Found(d)
  BY <1>2 DEF Found
<1>4. \A d \in Difficulty : Found(d)' \subseteq Found(d)
  BY <1>3
<1>5. Fields' /\ DrawExplained'
  BY <1>1 DEF Fields, DrawExplained
<1>6. NoneTwice'
  <2>1. Cardinality({}) = 0 /\ Len(<<>>) = 0
    BY FS_EmptySet
  <2>2. ASSUME NEW d \in Difficulty
        PROVE  Found(d)' \subseteq Pictures[d] /\ Cardinality(Found(d)') = Len(validated'[d])
    <3>1. CASE d = Wanted(t)
      BY <1>2, <1>3, <2>1, <3>1
    <3>2. CASE d # Wanted(t)
      BY <1>2, <1>3, <3>2 DEF NoneTwice
    <3> QED BY <3>1, <3>2
  <2> QED BY <2>2 DEF NoneTwice
<1>7. Offer'
  <2>1. \A d \in Difficulty : Fresh(d) => Fresh(d)'
    BY <1>4 DEF Fresh
  <2>2. UNCHANGED <<turn, hunted>> /\ t \in Thread /\ pc[t] = "clear"
        /\ pc'["player"] = "idle" => pc["player"] = "idle"
    BY DEF Fields
  <2> QED BY <2>1, <2>2, OrderFacts DEF Offer, Fields
<1>8. Drawn'
  BY <1>4, OrderFacts DEF Drawn, Fields
<1>9. \A d \in Difficulty : Len(validated'[d]) <= Len(validated[d])
                            /\ (validated[d] = <<>> => validated'[d] = <<>>)
                            /\ (validated'[d] = <<>> \/ validated'[d] = validated[d])
  BY <1>2 DEF Fields
<1>10. Seen(t)'
  BY <1>1, <1>2, NumberFacts DEF Seen, Wanted, Fields
<1>11. ASSUME NEW u \in Thread, u # t, Seen(u) PROVE Seen(u)'
  <2>1. Wanted(u) \in Difficulty /\ Wanted(u)' = Wanted(u)
    BY OrderFacts, HuntAssumption DEF HuntAssumption, Wanted, Fields
  <2>2. pc'[u] = pc[u] /\ copy' = copy
    BY <1>11 DEF Fields
  <2>3. Number(Wanted(u)) > 0 /\ Number(Wanted(u)) \in Nat
    BY <2>1, NumberFacts
  <2> QED BY <1>9, <1>11, <2>1, <2>2, <2>3 DEF Seen, Number
<1> QED BY <1>5, <1>6, <1>7, <1>8, <1>10, <1>11

LEMMA DrawCopy ==
  ASSUME DrawInv, NEW t \in Thread, CopyRest(t)
  PROVE  DrawInv'
<1> USE DEF DrawInv, CopyRest, Go, Thread
<1>1. Wanted(t) \in Difficulty
  BY OrderFacts, HuntAssumption DEF HuntAssumption, Wanted, Fields
<1>2. Fields' /\ NoneTwice' /\ DrawExplained'
  BY <1>1 DEF Fields, NoneTwice, DrawExplained, Found
<1>3. Offer' /\ Drawn'
  BY DEF Fields, Offer, Fresh, Drawn, Found, Wanted
<1>4. Seen(t) => Seen(t)'
  BY <1>1, Rest DEF Seen, Wanted, Fields
<1>5. \A u \in Thread : u # t /\ Seen(u) => Seen(u)'
  BY DEF Seen, Wanted, Fields
<1> QED BY <1>2, <1>3, <1>4, <1>5

(* A thread draws; the room's may find nothing to draw from.               *)
LEMMA DrawNothing ==
  ASSUME DrawInv, NEW t \in Thread, NextInt(t)
  PROVE  DrawInv'
<1> USE DEF DrawInv, NextInt, Go, Thread
<1>1. t = "room" /\ raced
  BY DEF Seen
<1>2. pc' = [pc EXCEPT !["room"] = "idle"] /\ pc'["player"] = pc["player"]
  BY <1>1 DEF Fields
<1>3. Fields'
  BY <1>2 DEF Fields
<1>4. NoneTwice' /\ DrawExplained'
  BY <1>1 DEF NoneTwice, DrawExplained, Found
<1>5. Offer' /\ Drawn'
  BY <1>2 DEF Offer, Fresh, Drawn, Found
<1>6. Seen("player")'
  BY <1>2 DEF Seen, Wanted
<1> QED BY <1>1, <1>3, <1>4, <1>5, <1>6

LEMMA DrawOne ==
  ASSUME DrawInv, Draw
  PROVE  DrawInv'
<1> DEFINE h == Order[turn]
<1>1. PICK p \in copy["player"] : offered' = [offered EXCEPT ![h] = p]
  BY DEF Draw
<1>2. h \in Difficulty /\ turn \in 1..Len(Order) /\ Len(Order) \in Nat
  BY OrderFacts DEF DrawInv, Fields
<1>3. \A d \in Difficulty : Found(d)' = Found(d) /\ validated'[d] = validated[d]
  BY DEF Draw, Found
<1>4. /\ UNCHANGED <<validated, hunted, raced, failed>>
      /\ copy' = [copy EXCEPT !["player"] = {}]
      /\ pc["player"] = "next" /\ hunted = 0
  BY DEF Draw, DrawInv, Offer
<1>5. /\ pc' \in [Thread -> {"idle", "size", "clear", "copy", "next"}]
      /\ pc'["room"] = pc["room"]
      /\ \/ turn < Len(Order) /\ turn' = turn + 1 /\ pc'["player"] = "size"
         \/ turn = Len(Order) /\ turn' = 1 /\ pc'["player"] = "idle"
  BY <1>2 DEF Draw, Go, DrawInv, Fields, Thread
<1>6. Fields'
  <2>1. turn' \in 1..Len(Order)
    <3> HIDE DEF h
    <3> QED BY <1>2, <1>5
  <2>2. turn' \in DOMAIN Order
    BY <2>1, OrderFacts
  <2> QED BY <1>1, <1>4, <1>5, <2>2 DEF DrawInv, Fields, Thread
<1>7. NoneTwice'
  BY <1>3 DEF DrawInv, NoneTwice
<1>8. Drawn' /\ DrawExplained'
  BY <1>4, <1>5 DEF DrawInv, Drawn, DrawExplained
<1>9. p \in Pictures[h] \ Found(h)
  BY <1>1, <1>4 DEF DrawInv, Drawn
<1>10. DOMAIN offered = Difficulty
  BY DEF DrawInv, Fields
<1>11. \A d \in Difficulty : d = h \/ Fresh(d) => Fresh(d)'
  BY <1>1, <1>2, <1>3, <1>9, <1>10 DEF Fresh
<1>12. \A j \in DOMAIN Order : j <= turn => Fresh(Order[j])'
  <2> TAKE j \in DOMAIN Order
  <2>1. Order[j] \in Difficulty /\ j \in Nat
    BY OrderFacts
  <2>2. j < turn => Fresh(Order[j])
    BY DEF DrawInv, Offer
  <2> QED BY <1>2, <1>11, <2>1, <2>2
<1>13. Offer'
  <2>1. CASE turn < Len(Order)
    <3>1. turn' = turn + 1 /\ pc'["player"] # "idle" /\ hunted' = 0
      BY <1>4, <1>5, <2>1
    <3>2. \A j \in DOMAIN Order : j < turn' => Fresh(Order[j])'
      <4> TAKE j \in DOMAIN Order
      <4>1. j \in Nat /\ turn \in Nat
        BY <1>2, OrderFacts
      <4>2. j < turn + 1 => j <= turn
        BY <4>1
      <4> QED BY <1>12, <3>1, <4>2
    <3> QED BY <3>1, <3>2 DEF Offer
  <2>2. CASE ~(turn < Len(Order))
    <3>1. \A d \in Difficulty : Fresh(d)'
      BY <1>2, <1>12, <2>2, OrderFacts DEF Difficulty
    <3> QED BY <1>2, <1>4, <1>5, <2>2, <3>1, OrderFacts DEF Offer
  <2> QED BY <2>1, <2>2
<1>14. Seen("player")' /\ (Seen("room") => Seen("room")')
  BY <1>3, <1>4, <1>5 DEF Seen, Wanted, DrawInv, Fields, Thread
<1> QED BY <1>4, <1>6, <1>7, <1>8, <1>13, <1>14 DEF DrawInv

(* The steps of the room, and those of the choice activity that draw       *)
(* nothing.                                                                *)
LEMMA DrawRoom ==
  ASSUME DrawInv, DrawDeathMatch \/ OpenDeathMatch
  PROVE  DrawInv'
<1> USE DEF DrawInv, DrawDeathMatch, OpenDeathMatch, Go, Thread
<1>1. Fields' /\ NoneTwice' /\ DrawExplained'
  BY DEF Fields, NoneTwice, DrawExplained, Found
<1>2. Offer' /\ Drawn'
  BY DEF Fields, Offer, Fresh, Drawn, Found
<1>3. Seen("player")' /\ Seen("room")'
  BY DEF Seen, Wanted, Fields
<1> QED BY <1>1, <1>2, <1>3

LEMMA DrawChoice ==
  ASSUME DrawInv, Choose \/ HuntCancelled
  PROVE  DrawInv'
<1>1. /\ UNCHANGED <<validated, copy, turn, offered, raced, failed>>
      /\ pc["player"] = "idle" /\ pc'["room"] = pc["room"]
      /\ pc' \in [Thread -> {"idle", "size", "clear", "copy", "next"}]
      /\ hunted' \in {0} \cup DOMAIN Order
      /\ \/ pc'["player"] = "idle"
         \/ pc'["player"] = "size" /\ hunted' = 0
  BY DEF Choose, HuntCancelled, Go, DrawInv, Offer, Fields, Thread
<1>2. \A d \in Difficulty : Found(d)' = Found(d)
  BY <1>1 DEF Found
<1>3. Fields' /\ NoneTwice' /\ DrawExplained'
  BY <1>1, <1>2 DEF DrawInv, Fields, NoneTwice, DrawExplained
<1>4. Offer' /\ Drawn'
  BY <1>1, <1>2, OrderFacts DEF DrawInv, Offer, Fresh, Drawn
<1>5. Seen("player")' /\ (Seen("room") => Seen("room")')
  BY <1>1 DEF Seen, Wanted
<1> QED BY <1>1, <1>3, <1>4, <1>5 DEF DrawInv

(* A find: what was on offer is new to the list.                           *)
LEMMA DrawFound ==
  ASSUME DrawInv, HuntFound
  PROVE  DrawInv'
<1> USE DEF DrawInv, HuntFound, Go, Thread
<1>0. PICK h \in Difficulty : h = Order[hunted]
  BY OrderFacts DEF Fields
<1>1. hunted \in DOMAIN Order /\ pc["player"] = "idle" /\ turn = 1 /\ Fresh(h)
  BY OrderFacts DEF Offer, Fields
<1>2. /\ validated'[h] = Append(validated[h], offered[h])
      /\ \A d \in Difficulty : d # h => validated'[d] = validated[d]
  BY <1>0, <1>1 DEF Fields
<1>3. /\ validated[h] \in Seq(UNION {Pictures[d] : d \in Difficulty})
      /\ offered[h] \in UNION {Pictures[d] : d \in Difficulty}
  BY <1>1 DEF Fields, Fresh
<1>4. /\ Len(validated'[h]) = Len(validated[h]) + 1
      /\ Found(h)' = Found(h) \cup {offered[h]}
  <2> DEFINE S == UNION {Pictures[d] : d \in Difficulty}
             u == Append(validated[h], offered[h])
  <2>1. validated[h] \in Seq(S) /\ offered[h] \in S
    BY <1>3
  <2> HIDE DEF S, HuntFound, DrawInv
  <2>2. Len(u) = Len(validated[h]) + 1 /\ Elements(u) = Elements(validated[h]) \cup {offered[h]}
    BY <2>1, OneMore
  <2> HIDE DEF u
  <2>3. validated'[h] = u
    BY <1>2 DEF u
  <2>4. Found(h) = Elements(validated[h]) /\ Found(h)' = Elements(validated'[h])
    BY DEF Found, Elements
  <2> QED BY <2>2, <2>3, <2>4
<1>5. \A d \in Difficulty : d # h => Found(d)' = Found(d)
  BY <1>2 DEF Found
<1>6. validated'[h] \in Seq(UNION {Pictures[d] : d \in Difficulty})
  BY <1>2, <1>3
<1>7. Fields' /\ DrawExplained'
  BY <1>0, <1>1, <1>6 DEF Fields, DrawExplained
<1>8. NoneTwice'
  <2>1. Found(h) \subseteq Pictures[h] /\ IsFiniteSet(Pictures[h])
    BY <1>1, HuntAssumption DEF HuntAssumption, NoneTwice
  <2>2. IsFiniteSet(Found(h))
    BY <2>1, FS_Subset
  <2>3. offered[h] \notin Found(h) /\ offered[h] \in Pictures[h]
    BY <1>1 DEF Fresh
  <2>4. Cardinality(Found(h) \cup {offered[h]}) = Cardinality(Found(h)) + 1
    BY <2>2, <2>3, FS_AddElement
  <2>5. ASSUME NEW d \in Difficulty
        PROVE  Found(d)' \subseteq Pictures[d] /\ Cardinality(Found(d)') = Len(validated'[d])
    <3>1. CASE d = h
      <4>1. Cardinality(Found(h)) = Len(validated[h])
        BY <1>1 DEF NoneTwice
      <4>2. Found(h)' \subseteq Pictures[h]
        BY <1>4, <2>1, <2>3
      <4>3. Cardinality(Found(h)') = Len(validated'[h])
        BY <1>4, <2>4, <4>1
      <4> QED BY <3>1, <4>2, <4>3
    <3>2. CASE d # h
      BY <1>2, <1>5, <3>2 DEF NoneTwice
    <3> QED BY <3>1, <3>2
  <2> QED BY <2>5 DEF NoneTwice
<1>9. Offer' /\ Drawn' /\ Seen("player")' /\ (raced' \/ Seen("room")')
  <2>1. pc'["player"] = "size" /\ pc'["room"] = pc["room"] /\ turn' = 1 /\ hunted' = 0
    BY <1>1 DEF Fields
  <2>2. raced' \/ pc["room"] = "idle"
    OBVIOUS
  <2> QED BY <2>1, <2>2, OrderFacts DEF Offer, Drawn, Seen
<1> QED BY <1>7, <1>8, <1>9

-----------------------------------------------------------------------------
LEMMA DrawNext == DrawInv /\ [Next]_vars => DrawInv'
<1>1. ASSUME DrawInv, HuntStep PROVE DrawInv'
  BY <1>1, DrawCompare, DrawClear, DrawCopy, DrawNothing, DrawOne, DrawRoom, DrawChoice,
     DrawFound DEF HuntStep
<1>2. UNCHANGED vars => UNCHANGED huntVars
  BY DEF vars
<1> QED BY <1>1, <1>2, DrawKept DEF Next

LEMMA DrawInvariant == Spec => []DrawInv
<1>1. Init => DrawInv
  BY DrawInit
<1>2. DrawInv /\ [Next]_vars => DrawInv'
  BY DrawNext
<1> QED BY <1>1, <1>2, PTL DEF Spec

(* getRandom never fails the player, and fails the thread of the room only *)
(* when a picture was found while it was drawing.                          *)
THEOREM PlayerCanDraw == Spec => []DrawExplained
<1>1. DrawInv => DrawExplained
  BY DEF DrawInv
<1> QED BY <1>1, DrawInvariant, PTL

(* The choice activity offers no picture that is in the list of those      *)
(* found.                                                                  *)
THEOREM NewOnOffer == Spec => []OfferedNew
<1>1. DrawInv => OfferedNew
  BY DEF DrawInv, Offer, Fresh, OfferedNew
<1> QED BY <1>1, DrawInvariant, PTL

(* Clear empties a list that holds every picture of its difficulty, or it  *)
(* is the room's thread, overtaken by a find.                              *)
THEOREM NothingForgotten == Spec => ForgottenWhenAllFound
<1> DEFINE Forgets(d) ==
      validated'[d] = <<>> /\ validated[d] # <<>> =>
        Found(d) = Pictures[d] \/ (d = Medium /\ raced)
<1>1. ASSUME DrawInv, Next, NEW d \in Difficulty PROVE Forgets(d)
  <2>1. CASE \E t \in Thread : studied = "dictionary" /\ Clear(t)
    <3>1. PICK t \in Thread : Clear(t)
      BY <2>1
    <3>2. CASE d = Wanted(t)
      <4>1. Seen(t) => validated[d] = <<>> \/ Len(validated[d]) = Number(d)
        BY <3>1, <3>2 DEF Clear, Seen
      <4>2. Seen(t) \/ (t = "room" /\ raced)
        BY <1>1 DEF DrawInv, Thread
      <4> QED BY <1>1, <3>2, <4>1, <4>2, Rest DEF DrawInv, Wanted
    <3>3. CASE d # Wanted(t)
      BY <1>1, <3>1, <3>3 DEF Clear, DrawInv, Fields
    <3> QED BY <3>2, <3>3
  <2>2. CASE studied = "dictionary" /\ HuntFound
    BY <1>1, <2>2 DEF HuntFound, DrawInv, Fields
  <2>3. CASE UNCHANGED validated
    BY <2>3
  <2> QED BY <1>1, <2>1, <2>2, <2>3 DEF Next, HuntStep, huntVars, CompareSizes, CopyRest,
             NextInt, Draw, DrawDeathMatch, OpenDeathMatch, Choose, HuntCancelled
<1>2. DrawInv /\ [Next]_vars => [\A d \in Difficulty : Forgets(d)]_vars
  BY <1>1
<1> QED BY <1>2, DrawInvariant, PTL DEF Spec, ForgottenWhenAllFound

-----------------------------------------------------------------------------
(* The camera *)

Posted == Elements(posts)
Asked == Elements(shots)

Kinds == {"opened", "configured", "disconnected", "done", "failed"}
Calls == [what : Kinds, op : Nat, tag : {"none", "preview", "focus", "still"}]

Places ==
  /\ ui \in {"free", "open", "surface", "focus", "capture", "stop", "join", "drop"}
  /\ handler \in {"none", "alive", "quit"}
  /\ screen \in {"resumed", "paused"}
  /\ tag \in {"none", "preview", "focus"}

Counts ==
  /\ permits \in Nat /\ ops \in 0..MaxOps /\ losses \in 0..MaxLosses
  /\ owes \subseteq 1..ops /\ slips \subseteq 1..ops
  /\ device \in [state : {"closed", "opening", "open", "lost"}, op : 0..ops]
  /\ camera \in 0..ops /\ session \in 0..ops

Queues ==
  /\ posts \in Seq(Calls \cup {Image}) /\ shots \in Seq(Calls)
  /\ current \in Calls \cup {Nothing, Image}
  /\ current.what \in {"none", "image", "done"}
  /\ \A c \in Asked : c.what = "done"

(* Callbacks are of operations that have begun.                            *)
Begun ==
  /\ device.state # "closed" => device.op \in 1..ops
  /\ \A c \in Posted : c.what # "image" => c.op \in 1..ops
  /\ \A c \in Asked : c.op \in 1..ops
  /\ current.what = "done" => current.op \in 1..ops

(* What the interface's thread has made sure of before it waits.           *)
Prepared ==
  /\ ui \in {"open", "surface", "focus", "capture", "stop"} => ops < MaxOps
  /\ ui \in {"open", "surface", "focus", "capture", "drop"} => screen = "resumed"
  /\ ui \in {"open", "surface"} => reader
  /\ ui \in {"focus", "capture"} => session # 0

(* The operation that opened the device is not one of a capture; while     *)
(* stop waits for the handler's thread, all that waits is older.           *)
Distinct ==
  /\ \A c \in Posted :
       c.op = device.op =>
         /\ c.what \notin {"done", "failed"}
         /\ c.what = "opened" => device.state # "opening"
         /\ c.what = "disconnected" => device.state \in {"lost", "closed"}
  /\ \A c \in Asked : c.op # device.op
  /\ current.what = "done" => current.op # device.op
  /\ ui = "join" =>
       /\ device.op < ops
       /\ \A c \in Posted : c.op < ops
       /\ \A c \in Asked : c.op < ops
       /\ current.op < ops

(* As long as no permit was given back too early: the one permit is there, *)
(* or lent to one operation, and everything that is under way belongs to   *)
(* it.  stop, which takes it, thus finds nothing under way.                *)
Lent ==
  /\ \/ permits = 1 /\ owes = {}
     \/ permits = 0 /\ \E k \in 1..ops : owes = {k}
  /\ \A c \in Posted : c.what \in {"opened", "done", "failed"} => c.op \in owes
  /\ \A c \in Asked : c.op \in owes
  /\ device.state = "opening" => device.op \in owes
  /\ current.what = "done" => current.op \in owes
  /\ ui = "join" => ops \in owes

Undisturbed ==
  /\ session = 0 => /\ Asked = {} /\ current.what # "done"
                    /\ \A c \in Posted : c.what # "done"
  /\ device.state = "opening" => reader
  /\ \A c \in Posted : c.what = "opened" => reader
  /\ device.state = "open" => camera = device.op \/ device.op \in owes
  /\ ui = "join" \/ (ui = "free" /\ screen = "paused") =>
       device.state \in {"closed", "lost"}

Semaphore == slips = {} => Lent /\ Undisturbed

(* onOpened finds its own device, open, lost or closed by stop; the camera *)
(* is the device, and the session is of the camera unless it was late.     *)
SameDevice ==
  /\ device.state = "lost" => losses > 0
  /\ \A c \in Posted :
       c.what = "opened" =>
         /\ c.op = device.op
         /\ \/ device.state \in {"open", "lost"}
            \/ device.state = "closed" /\ ui = "join" /\ ~reader
  /\ camera # 0 => camera = device.op /\ device.state \in {"open", "lost"}
  /\ session # 0 /\ ~late => camera = session

CamInv ==
  /\ Places /\ Counts /\ Queues /\ Begun /\ CrashExplained /\ Semaphore
  /\ crash = "none" => Prepared /\ Distinct /\ SameDevice

-----------------------------------------------------------------------------
(* Sequences of callbacks *)

LEMMA Joint ==
  ASSUME NEW S, NEW s \in Seq(S), NEW t \in Seq(S)
  PROVE  s \o t \in Seq(S) /\ Elements(s \o t) = Elements(s) \cup Elements(t)
<1> DEFINE u == s \o t
<1>1. /\ Len(s) \in Nat /\ Len(t) \in Nat /\ Len(u) = Len(s) + Len(t)
      /\ DOMAIN s = 1..Len(s) /\ DOMAIN t = 1..Len(t) /\ DOMAIN u = 1..Len(u)
      /\ \A i \in 1..Len(s) : u[i] = s[i]
      /\ \A i \in 1..Len(t) : u[Len(s) + i] = t[i]
  OBVIOUS
<1>2. \A i \in 1..Len(u) : i \in 1..Len(s) \/ (i - Len(s) \in 1..Len(t)
                                              /\ u[i] = t[i - Len(s)])
  <2> TAKE i \in 1..Len(u)
  <2>1. i \in 1..Len(s) \/ i - Len(s) \in 1..Len(t)
    BY <1>1
  <2>2. Len(s) + (i - Len(s)) = i
    BY <1>1
  <2> QED BY <1>1, <2>1, <2>2
<1>3. \A i \in 1..Len(s) : i \in 1..Len(u)
  BY <1>1
<1>4. \A i \in 1..Len(t) : Len(s) + i \in 1..Len(u)
  BY <1>1
<1> HIDE DEF u
<1>5. Elements(u) = Elements(s) \cup Elements(t)
  <2>1. ASSUME NEW c \in Elements(u) PROVE c \in Elements(s) \/ c \in Elements(t)
    <3>1. PICK i \in 1..Len(u) : u[i] = c
      BY <1>1 DEF Elements
    <3>2. CASE i \in 1..Len(s)
      BY <1>1, <3>1, <3>2 DEF Elements
    <3>3. CASE i - Len(s) \in 1..Len(t) /\ u[i] = t[i - Len(s)]
      <4>1. PICK j : j = i - Len(s)
        OBVIOUS
      <4> QED BY <1>1, <3>1, <3>3, <4>1 DEF Elements
    <3> QED BY <1>2, <3>2, <3>3
  <2>2. Elements(s) \subseteq Elements(u)
    BY <1>1, <1>3 DEF Elements
  <2>3. Elements(t) \subseteq Elements(u)
    BY <1>1, <1>4 DEF Elements
  <2> QED BY <2>1, <2>2, <2>3
<1>6. u \in Seq(S)
  BY DEF u
<1> QED BY <1>5, <1>6 DEF u

LEMMA Single ==
  ASSUME NEW S, NEW a \in S
  PROVE  /\ <<a>> \in Seq(S) /\ Elements(<<a>>) = {a}
         /\ <<>> \in Seq(S) /\ Elements(<<>>) = {}
<1>1. <<a>> \in Seq(S) /\ <<>> \in Seq(S)
  OBVIOUS
<1>2. DOMAIN <<a>> = {1} /\ <<a>>[1] = a /\ DOMAIN <<>> = {}
  OBVIOUS
<1> QED BY <1>1, <1>2 DEF Elements

LEMMA Double ==
  ASSUME NEW S, NEW a \in S, NEW b \in S
  PROVE  <<a, b>> \in Seq(S) /\ Elements(<<a, b>>) = {a, b}
<1>1. DOMAIN <<a, b>> = {1, 2} /\ <<a, b>>[1] = a /\ <<a, b>>[2] = b
  OBVIOUS
<1> QED BY <1>1 DEF Elements

LEMMA Pairs ==
  \A S : \A a, b \in S : <<a, b>> \in Seq(S) /\ Elements(<<a, b>>) = {a, b}
BY Double

LEMMA Rested ==
  ASSUME NEW S, NEW s \in Seq(S), s # <<>>
  PROVE  /\ Head(s) \in S /\ Head(s) \in Elements(s)
         /\ Tail(s) \in Seq(S) /\ Elements(Tail(s)) \subseteq Elements(s)
<1>1. /\ Len(s) \in Nat \ {0} /\ DOMAIN s = 1..Len(s) /\ Head(s) = s[1] /\ 1 \in 1..Len(s)
      /\ Head(s) \in S /\ Tail(s) \in Seq(S)
      /\ DOMAIN Tail(s) = 1..(Len(s) - 1)
      /\ \A i \in 1..(Len(s) - 1) : Tail(s)[i] = s[i + 1] /\ i + 1 \in 1..Len(s)
  OBVIOUS
<1> QED BY <1>1 DEF Elements

LEMMA Waiting ==
  ASSUME Queues, NEW c \in Posted
  PROVE  /\ c \in Calls \cup {Image}
         /\ c.what = "image" => c.op = 0
<1>1. c \in Calls \cup {Image}
  BY DEF Queues, Posted, Elements
<1> QED BY <1>1 DEF Calls, Kinds, Image, Callback

(* A permit given back at the right moment leaves none of its operation's  *)
(* callbacks behind.                                                       *)
LEMMA Returned ==
  ASSUME NEW k, NEW q, Release(k, q), slips' = {}
  PROVE  /\ slips = {} /\ k \in owes
         /\ \A c \in Elements(q) :
              c.what \in {"opened", "disconnected", "done", "failed"} => c.op # k
         /\ \A c \in Asked : c.op # k
BY DEF Release, Pending, OpsOf, Elements, Asked

(* Giving back moves no number out of its range.                           *)
LEMMA ReturnCounts ==
  ASSUME Counts, NEW k \in 1..ops, NEW q, Release(k, q)
  PROVE  /\ permits' \in Nat /\ ops' = ops
         /\ owes' \subseteq 1..ops /\ slips' \subseteq 1..ops
BY DEF Release, Counts

LEMMA CamInit == Init => CamInv
<1> SUFFICES ASSUME Init PROVE CamInv
  OBVIOUS
<1> USE DEF Init, CameraInit
<1>1. Elements(<<>>) = {} /\ <<>> \in Seq(Calls \cup {Image}) /\ <<>> \in Seq(Calls)
  BY DEF Elements
<1>2. Posted = {} /\ Asked = {}
  BY <1>1 DEF Posted, Asked
<1>3. Places /\ Counts
  BY CameraAssumption DEF CameraAssumption, Places, Counts
<1>4. Queues /\ Begun
  BY <1>1, <1>2 DEF Queues, Begun, Nothing
<1>5. CrashExplained /\ Prepared /\ Distinct
  BY <1>2 DEF CrashExplained, Prepared, Distinct, Nothing
<1>6. Semaphore /\ SameDevice
  BY <1>2 DEF Semaphore, Lent, Undisturbed, SameDevice, Nothing
<1> QED BY <1>3, <1>4, <1>5, <1>6 DEF CamInv

LEMMA CamKept == CamInv /\ UNCHANGED cameraVars => CamInv'
<1> SUFFICES ASSUME CamInv, UNCHANGED cameraVars PROVE CamInv'
  OBVIOUS
<1> USE DEF cameraVars, thread, lock, fields, service, history
<1>1. Posted' = Posted /\ Asked' = Asked
  BY DEF Posted, Asked
<1>2. (Places /\ Counts /\ Queues /\ Begun /\ CrashExplained)'
  BY <1>1 DEF CamInv, Places, Counts, Queues, Begun, CrashExplained
<1>3. crash = "none" => (Prepared /\ Distinct)'
  BY <1>1 DEF CamInv, Prepared, Distinct
<1>4. crash = "none" => SameDevice'
  BY <1>1 DEF CamInv, SameDevice
<1>5. Semaphore'
  BY <1>1 DEF CamInv, Semaphore, Lent, Undisturbed
<1> QED BY <1>2, <1>3, <1>4, <1>5 DEF CamInv

-----------------------------------------------------------------------------
(* The user interface's thread *)

LEMMA CamResume ==
  ASSUME CamInv, crash = "none", Resume \/ SurfaceAvailable
  PROVE  CamInv'
<1> USE DEF CamInv, Resume, SurfaceAvailable, OpenCamera, Fail, lock, service, history
<1>1. /\ UNCHANGED <<posts, current, shots, ops, device, session, slips, owes, permits, crash,
                     late, losses, camera, tag>>
      /\ ui = "free" /\ ops < MaxOps /\ screen' = "resumed"
      /\ ui' \in {"free", "open", "surface", "drop"}
      /\ handler' \in {"none", "alive", "quit"}
  OBVIOUS
<1>0. /\ ui' \in {"open", "surface"} => reader'
      /\ reader => reader'
  <2>1. reader' = reader \/ reader' = TRUE
    BY Zenon
  <2>2. reader => reader'
    BY <2>1, Zenon
  <2>3. ui' \in {"open", "surface"} => reader' = TRUE
    OBVIOUS
  <2> QED BY <2>2, <2>3, Zenon
<1>2. Posted' = Posted /\ Asked' = Asked
  BY <1>1 DEF Posted, Asked
<1>3. (Places /\ Counts /\ Queues /\ Begun /\ CrashExplained)'
  BY <1>1, <1>2 DEF Places, Counts, Queues, Begun, CrashExplained
<1>4. (Prepared /\ Distinct)'
  BY <1>0, <1>1, <1>2 DEF Prepared, Distinct
<1>5. Semaphore'
  BY <1>0, <1>1, <1>2 DEF Semaphore, Lent, Undisturbed
<1>6. SameDevice'
  BY <1>0, <1>1, <1>2 DEF SameDevice
<1> QED BY <1>3, <1>4, <1>5, <1>6

LEMMA CamTap ==
  ASSUME CamInv, crash = "none", NEW what \in {"focus", "capture"}, Tap(what) \/ Pause
  PROVE  CamInv'
<1> USE DEF CamInv, Tap, Pause, lock, service, history, thread, fields
<1>2. Posted' = Posted /\ Asked' = Asked
  BY DEF Posted, Asked
<1>3. (Places /\ Counts /\ Queues /\ Begun /\ CrashExplained)'
  BY <1>2 DEF Places, Counts, Queues, Begun, CrashExplained
<1>4. (Prepared /\ Distinct)'
  BY <1>2 DEF Prepared, Distinct
<1>5. (Semaphore /\ SameDevice)'
  BY <1>2 DEF Semaphore, Lent, Undisturbed, SameDevice
<1> QED BY <1>3, <1>4, <1>5

LEMMA CamLockToOpen ==
  ASSUME CamInv, crash = "none", LockToOpen
  PROVE  CamInv'
<1> USE DEF CamInv, LockToOpen, Fail, Acquire, service, fields
<1>1. /\ UNCHANGED <<posts, current, shots, session, slips, crash, late, losses, camera, tag,
                     reader, screen>>
      /\ ops \in Nat /\ ops' = ops + 1 /\ ops < MaxOps /\ screen = "resumed" /\ reader
      /\ ui \in {"open", "surface"} /\ ui' \in {"free", "drop"}
      /\ permits > 0 /\ permits' = permits - 1 /\ owes' = owes \cup {ops + 1}
      /\ \/ device.state = "closed" /\ device' = [state |-> "opening", op |-> ops + 1]
         \/ device' = device
  BY DEF Prepared, Counts
<1>2. Posted' = Posted /\ Asked' = Asked
  BY DEF Posted, Asked
<1>3. (Places /\ Queues /\ CrashExplained)'
  BY <1>2 DEF Places, Queues, CrashExplained
<1>4. Counts'
  BY <1>1, CameraAssumption DEF CameraAssumption, Counts
<1>5. Begun'
  BY <1>1, <1>2 DEF Begun, Counts
<1>6. Prepared'
  BY <1>1 DEF Prepared
<1>7. Distinct'
  BY <1>1, <1>2 DEF Distinct, Begun, Counts
<1>8. Semaphore'
  <2> SUFFICES ASSUME slips' = {} PROVE (Lent /\ Undisturbed)'
    BY DEF Semaphore
  <2>1. permits = 1 /\ owes = {} /\ Lent /\ Undisturbed
    BY <1>1 DEF Semaphore, Lent
  <2>2. Lent'
    BY <1>1, <1>2, <2>1 DEF Lent
  <2>3. Undisturbed'
    BY <1>1, <1>2, <2>1 DEF Undisturbed
  <2> QED BY <2>2, <2>3
<1>9. SameDevice'
  BY <1>1, <1>2 DEF SameDevice, Counts
<1> QED BY <1>3, <1>4, <1>5, <1>6, <1>7, <1>8, <1>9

LEMMA CamLockToShoot ==
  ASSUME CamInv, crash = "none", NEW what \in {"focus", "capture"}, LockToShoot(what)
  PROVE  CamInv'
<1> USE DEF CamInv, LockToShoot, Acquire, thread, history
<1>1. /\ UNCHANGED <<posts, current, device, session, slips, crash, late, losses, camera,
                     reader, screen, handler>>
      /\ ops \in Nat /\ ops' = ops + 1 /\ ops < MaxOps /\ session # 0
      /\ ui' = "free" /\ screen = "resumed" /\ tag' \in {"none", "preview", "focus"}
      /\ permits > 0 /\ permits' = permits - 1 /\ owes' = owes \cup {ops + 1}
  BY DEF Prepared, Counts, Places
<1>2. Posted' = Posted
  BY DEF Posted
<1>3. PICK asks : asks = Asks(what, ops + 1)
  OBVIOUS
<1>4. /\ asks \in Seq(Calls)
      /\ \A c \in Elements(asks) : c.what = "done" /\ c.op = ops + 1
  <2>1. /\ Callback("done", ops + 1, tag) \in Calls
        /\ Callback("done", ops + 1, "focus") \in Calls
        /\ Callback("done", ops + 1, "still") \in Calls
    BY <1>1 DEF Callback, Calls, Kinds, Places
  <2>2. PICK a \in Calls, b \in Calls : a = Callback("done", ops + 1, tag)
                                       /\ b = Callback("done", ops + 1, "focus")
    BY <2>1
  <2>3. PICK c \in Calls : c = Callback("done", ops + 1, "still")
    BY <2>1
  <2>4. asks = <<a, b>> \/ asks = <<c>>
    BY <1>3, <2>2, <2>3 DEF Asks
  <2>5. asks \in Seq(Calls) /\ \A x \in Elements(asks) : x \in {a, b, c}
    <3>1. <<a, b>> \in Seq(Calls) /\ Elements(<<a, b>>) = {a, b}
      BY Pairs, Zenon
    <3>2. <<c>> \in Seq(Calls) /\ Elements(<<c>>) = {c}
      BY Single
    <3> QED BY <2>4, <3>1, <3>2
  <2>6. \A x \in {a, b, c} : x.what = "done" /\ x.op = ops + 1
    BY <2>2, <2>3 DEF Callback
  <2> QED BY <2>5, <2>6
<1>5. shots' \in Seq(Calls) /\ Asked' = Asked \cup Elements(asks)
  BY <1>3, <1>4, Joint DEF Asked, Queues
<1>6. (Places /\ CrashExplained)'
  BY <1>1 DEF Places, CrashExplained
<1>7. Queues'
  BY <1>1, <1>2, <1>4, <1>5 DEF Queues
<1>8. Counts'
  BY <1>1, CameraAssumption DEF CameraAssumption, Counts
<1>9. Begun'
  BY <1>1, <1>2, <1>4, <1>5 DEF Begun, Counts
<1>10. Prepared'
  BY <1>1 DEF Prepared
<1>11. Distinct'
  BY <1>1, <1>2, <1>4, <1>5 DEF Distinct, Counts
<1>12. Semaphore'
  <2> SUFFICES ASSUME slips' = {} PROVE (Lent /\ Undisturbed)'
    BY DEF Semaphore
  <2>1. permits = 1 /\ owes = {} /\ Lent /\ Undisturbed
    BY <1>1 DEF Semaphore, Lent
  <2>2. Lent'
    <3>1. /\ permits' = 0 /\ owes' = {ops'} /\ ops' \in 1..ops'
          /\ ui' # "join" \/ ops' \in owes'
      BY <1>1, <2>1 DEF Counts
    <3>2. /\ \A c \in Posted' : c.what \in {"opened", "done", "failed"} => c.op \in owes'
          /\ \A c \in Asked' : c.op \in owes'
      BY <1>1, <1>2, <1>4, <1>5, <2>1, <3>1 DEF Lent
    <3>3. /\ device'.state = "opening" => device'.op \in owes'
          /\ current'.what = "done" => current'.op \in owes'
      BY <1>1, <1>2, <2>1, <3>1 DEF Lent
    <3> QED BY <3>1, <3>2, <3>3 DEF Lent
  <2>3. Undisturbed'
    BY <1>1, <1>2, <2>1 DEF Undisturbed
  <2> QED BY <2>2, <2>3
<1>13. SameDevice'
  BY <1>1, <1>2 DEF SameDevice
<1> QED BY <1>6, <1>7, <1>8, <1>9, <1>10, <1>11, <1>12, <1>13

LEMMA CamShootInVain ==
  ASSUME CamInv, crash = "none", NEW what \in {"focus", "capture"}, ShootInVain(what)
  PROVE  CamInv'
<1> USE DEF CamInv, ShootInVain, AcquireInVain, thread, history, fields, service
<1>1. /\ ops \in Nat /\ ops' = ops + 1 /\ ops < MaxOps /\ session # 0 /\ ui = what
      /\ ui' = "free" /\ screen = "resumed" /\ ~Live(session)
  BY DEF Prepared, Counts
<1>2. Posted' = Posted /\ Asked' = Asked
  BY DEF Posted, Asked
<1>3. (Places /\ Queues)'
  BY <1>2 DEF Places, Queues
<1>4. Counts' /\ Begun'
  BY <1>1, <1>2, CameraAssumption DEF CameraAssumption, Counts, Begun
<1>5. late \/ losses > 0
  BY <1>1 DEF SameDevice, Live, Counts
<1>6. CrashExplained'
  BY <1>5 DEF CrashExplained
<1>7. Prepared' /\ Distinct'
  BY <1>1, <1>2 DEF Prepared, Distinct
<1>8. Semaphore'
  BY <1>1, <1>2 DEF Semaphore, Lent, Undisturbed
<1>9. SameDevice'
  BY <1>1, <1>2 DEF SameDevice
<1> QED BY <1>3, <1>4, <1>6, <1>7, <1>8, <1>9

(* stop takes the permit: nothing is under way, so the device is closed,   *)
(* and onOpened has given it its camera.                                   *)
LEMMA CamLockToStop ==
  ASSUME CamInv, crash = "none", LockToStop
  PROVE  CamInv'
<1> USE DEF CamInv, LockToStop, Acquire, history
<1>1. /\ UNCHANGED <<posts, current, shots, slips, late, losses, tag, screen>>
      /\ session' = 0 /\ camera' = 0 /\ ~reader'
      /\ ops \in Nat /\ ops' = ops + 1 /\ ops < MaxOps /\ ui' = "join"
      /\ permits > 0 /\ permits' = permits - 1 /\ owes' = owes \cup {ops + 1}
      /\ device'.op = device.op
      /\ device'.state = IF camera # 0 THEN "closed" ELSE device.state
      /\ device' \in [state : {"closed", "opening", "open", "lost"}, op : 0..ops]
      /\ handler' \in {"none", "alive", "quit"}
      /\ crash' \in {"none", "image", "handler"}
  BY DEF Prepared, Counts, Places, Crash
<1>2. Posted' = Posted /\ Asked' = Asked
  BY <1>1 DEF Posted, Asked
<1>3. Places'
  BY <1>1 DEF Places
<1>4. Queues'
  BY <1>1, <1>2 DEF Queues
<1>5. CrashExplained'
  BY <1>1 DEF CrashExplained
<1>6. Counts'
  BY <1>1, CameraAssumption DEF CameraAssumption, Counts
<1>7. Begun'
  BY <1>1, <1>2 DEF Begun, Counts
<1>8. Prepared'
  BY <1>1 DEF Prepared
<1>9. Distinct'
  <2>1. /\ \A c \in Posted : c.op < ops + 1
        /\ \A c \in Asked : c.op < ops + 1
        /\ current.op < ops + 1 /\ device.op < ops + 1
    <3>1. \A c \in Posted : c.op < ops + 1
      BY <1>1, Waiting DEF Begun, Counts
    <3>2. current.op < ops + 1
      BY <1>1 DEF Begun, Counts, Queues, Calls, Kinds, Nothing, Image, Callback
    <3> QED BY <1>1, <3>1, <3>2 DEF Begun, Counts
  <2> QED BY <1>1, <1>2, <2>1 DEF Distinct
<1>10. Semaphore'
  <2> SUFFICES ASSUME slips' = {} PROVE (Lent /\ Undisturbed)'
    BY DEF Semaphore
  <2>1. permits = 1 /\ owes = {} /\ Lent /\ Undisturbed
    BY <1>1 DEF Semaphore, Lent
  <2>2. Lent'
    BY <1>1, <1>2, <2>1 DEF Lent
  <2>3. /\ device.state # "opening" /\ Asked = {} /\ current.what # "done"
        /\ \A c \in Posted : c.what \notin {"opened", "done", "failed"}
    BY <2>1 DEF Lent
  <2>4. device.state = "open" => camera # 0
    BY <2>1 DEF Undisturbed, Begun, Counts
  <2>5. device'.state \in {"closed", "lost"}
    BY <1>1, <2>3, <2>4 DEF Counts
  <2>6. Undisturbed'
    BY <1>1, <1>2, <2>3, <2>5 DEF Undisturbed
  <2> QED BY <2>2, <2>6
<1>11. SameDevice'
  BY <1>1, <1>2 DEF SameDevice, Counts
<1> QED BY <1>3, <1>4, <1>5, <1>6, <1>7, <1>8, <1>9, <1>10, <1>11

LEMMA CamJoined ==
  ASSUME CamInv, crash = "none", Joined
  PROVE  CamInv'
<1> USE DEF CamInv, Joined, fields
<1>1. /\ UNCHANGED <<posts, current, camera, session, reader, tag, late, losses, crash, screen>>
      /\ posts = <<>> /\ current = Nothing /\ shots' = <<>> /\ ui' = "free" /\ handler' = "none"
      /\ device'.op = device.op
      /\ device'.state = IF device.state = "opening" THEN "open" ELSE device.state
      /\ device' \in [state : {"closed", "opening", "open", "lost"}, op : 0..ops]
  BY DEF Counts, history
<1>2. Posted' = {} /\ Posted = {} /\ Asked' = {}
  BY <1>1 DEF Posted, Asked, Elements
<1>3. Places' /\ CrashExplained' /\ Prepared'
  <2>1. slips = {} \/ slips' # {}
    BY DEF Release, lock
  <2> QED BY <1>1, <2>1 DEF Places, CrashExplained, Prepared
<1>4. Queues'
  <2>1. shots' \in Seq(Calls)
    BY <1>1
  <2> QED BY <1>1, <1>2, <2>1 DEF Queues
<1>5. /\ permits' \in Nat /\ ops' = ops
      /\ owes' \subseteq 1..ops /\ slips' \subseteq 1..ops
  <2>1. CASE ui = "join"
    <3>1. Release(ops, <<>>) /\ ops \in 1..ops
      BY <2>1 DEF Distinct, Counts
    <3> QED BY <3>1, ReturnCounts
  <2>2. CASE ui # "join"
    BY <2>2 DEF Counts, lock
  <2> QED BY <2>1, <2>2
<1>6. Counts' /\ Begun' /\ Distinct'
  BY <1>1, <1>2, <1>5 DEF Counts, Begun, Distinct, Nothing
<1>7. Semaphore'
  <2> SUFFICES ASSUME slips' = {} PROVE (Lent /\ Undisturbed)'
    BY DEF Semaphore
  <2>1. CASE ui = "join"
    <3>1. Release(ops, <<>>)
      BY <2>1
    <3>2. slips = {} /\ ops \in owes /\ permits' = permits + 1 /\ owes' = owes \ {ops}
      BY <3>1, Returned DEF Release
    <3>3. permits' = 1 /\ owes' = {} /\ device.state \in {"closed", "lost"}
      BY <2>1, <3>2 DEF Semaphore, Lent, Undisturbed
    <3>4. Lent'
      BY <1>1, <1>2, <3>3 DEF Lent, Nothing
    <3>5. Undisturbed'
      BY <1>1, <1>2, <3>3 DEF Undisturbed, Nothing
    <3> QED BY <3>4, <3>5
  <2>2. CASE ui = "drop"
    <3>1. UNCHANGED <<permits, owes, slips>> /\ Lent /\ Undisturbed /\ screen = "resumed"
      BY <2>2 DEF lock, Semaphore, Prepared
    <3>2. Lent'
      BY <1>1, <1>2, <1>5, <3>1 DEF Lent, Nothing
    <3>3. Undisturbed'
      BY <1>1, <1>2, <3>1 DEF Lent, Undisturbed, Nothing
    <3> QED BY <3>2, <3>3
  <2> QED BY <2>1, <2>2
<1>8. SameDevice'
  BY <1>1, <1>2 DEF SameDevice
<1> QED BY <1>3, <1>4, <1>5, <1>6, <1>7, <1>8

-----------------------------------------------------------------------------
(* The camera service *)

LEMMA Posting ==
  ASSUME Queues, NEW cs \in Seq(Calls \cup {Image}), Post(cs)
  PROVE  /\ posts' \in Seq(Calls \cup {Image})
         /\ Posted' \subseteq Posted \cup Elements(cs)
BY Joint DEF Queues, Post, Posted

LEMMA CamOpens ==
  ASSUME CamInv, crash = "none", Service, DeviceOpens
  PROVE  CamInv'
<1> USE DEF CamInv, Service, DeviceOpens, lock, fields, history
<1>1. /\ device.state = "opening" /\ device.op \in 1..ops /\ ops \in Nat
      /\ device'.state = "open" /\ device'.op = device.op
      /\ device' \in [state : {"closed", "opening", "open", "lost"}, op : 0..ops]
  BY DEF Counts, Begun
<1>2. PICK c : c = Callback("opened", device.op, "none")
  OBVIOUS
<1>3. c \in Calls /\ c.what = "opened" /\ c.op = device.op
  BY <1>1, <1>2 DEF Callback, Calls, Kinds, Counts
<1>4. posts' \in Seq(Calls \cup {Image}) /\ Posted' \subseteq Posted \cup {c} /\ Asked' = Asked
  <2>1. <<c>> \in Seq(Calls \cup {Image}) /\ Elements(<<c>>) = {c}
    BY <1>3, Single
  <2> QED BY <1>2, <2>1, Posting DEF Asked
<1>5. (Places /\ Counts /\ Queues /\ Begun /\ CrashExplained)'
  <2>1. Places' /\ CrashExplained'
    BY DEF Places, CrashExplained
  <2>2. Counts'
    BY <1>1 DEF Counts
  <2>3. Queues' /\ Begun'
    BY <1>1, <1>3, <1>4 DEF Queues, Begun
  <2> QED BY <2>1, <2>2, <2>3
<1>6. (Prepared /\ Distinct)'
  BY <1>1, <1>3, <1>4 DEF Prepared, Distinct
<1>7. Semaphore'
  BY <1>1, <1>3, <1>4 DEF Semaphore, Lent, Undisturbed
<1>8. SameDevice'
  BY <1>1, <1>3, <1>4 DEF SameDevice
<1> QED BY <1>5, <1>6, <1>7, <1>8

LEMMA CamLost ==
  ASSUME CamInv, crash = "none", Service, DeviceLost
  PROVE  CamInv'
<1> USE DEF CamInv, Service, DeviceLost, lock, fields, history
<1>1. /\ device.state \in {"opening", "open"} /\ device.op \in 1..ops /\ ops \in Nat
      /\ device'.state = "lost" /\ device'.op = device.op
      /\ device' \in [state : {"closed", "opening", "open", "lost"}, op : 0..ops]
      /\ losses' \in 0..MaxLosses /\ losses' > 0
  BY CameraAssumption DEF CameraAssumption, Counts, Begun
<1>2. PICK c : c = Callback("disconnected", device.op, "none")
  OBVIOUS
<1>3. c \in Calls /\ c.what = "disconnected" /\ c.op = device.op
  BY <1>1, <1>2 DEF Callback, Calls, Kinds, Counts
<1>4. posts' \in Seq(Calls \cup {Image}) /\ Posted' \subseteq Posted \cup {c} /\ Asked' = Asked
  <2>1. <<c>> \in Seq(Calls \cup {Image}) /\ Elements(<<c>>) = {c}
    BY <1>3, Single
  <2> QED BY <1>2, <2>1, Posting DEF Asked
<1>5. (Places /\ Counts /\ Queues /\ Begun /\ CrashExplained)'
  <2>1. Places' /\ CrashExplained'
    BY <1>1 DEF Places, CrashExplained
  <2>2. Counts'
    BY <1>1 DEF Counts
  <2>3. Queues' /\ Begun'
    BY <1>1, <1>3, <1>4 DEF Queues, Begun
  <2> QED BY <2>1, <2>2, <2>3
<1>6. (Prepared /\ Distinct)'
  BY <1>1, <1>3, <1>4 DEF Prepared, Distinct
<1>7. Semaphore'
  BY <1>1, <1>3, <1>4 DEF Semaphore, Lent, Undisturbed
<1>8. SameDevice'
  BY <1>1, <1>3, <1>4 DEF SameDevice
<1> QED BY <1>5, <1>6, <1>7, <1>8

LEMMA PostSeq ==
  \A a, b \in Calls \cup {Image} :
    /\ <<a>> \in Seq(Calls \cup {Image}) /\ Elements(<<a>>) = {a}
    /\ <<a, b>> \in Seq(Calls \cup {Image}) /\ Elements(<<a, b>>) = {a, b}
<1>1. PICK T : T = Calls \cup {Image}
  OBVIOUS
<1>2. \A a \in T : <<a>> \in Seq(T) /\ Elements(<<a>>) = {a}
  BY Single
<1>3. \A a, b \in T : <<a, b>> \in Seq(T) /\ Elements(<<a, b>>) = {a, b}
  BY Pairs
<1> QED BY <1>1, <1>2, <1>3

(* A capture is answered, or forgotten.                                    *)
LEMMA CamAnswers ==
  ASSUME CamInv, crash = "none", Service, ShotDone \/ ShotFails \/ ShotsForgotten
  PROVE  CamInv'
<1> USE DEF CamInv, Service, lock, fields, history
<1>1. /\ UNCHANGED <<device, losses>>
      /\ shots # <<>> /\ shots \in Seq(Calls)
  BY DEF ShotDone, ShotFails, ShotsForgotten, Queues
<1>2. PICK h \in Calls : h = Head(shots) /\ h \in Asked
  BY <1>1, Rested DEF Asked
<1>3. PICK f \in Calls : f.what = "failed" /\ f.op = h.op /\ f = [h EXCEPT !.what = "failed"]
  BY <1>2 DEF Calls, Kinds
<1>4. shots' \in Seq(Calls) /\ Asked' \subseteq Asked
  <2>1. <<>> \in Seq(Calls) /\ Elements(<<>>) = {}
    BY <1>2, Single
  <2> QED BY <1>1, <2>1, Rested DEF ShotDone, ShotFails, ShotsForgotten, Asked
<1>5. /\ posts' \in Seq(Calls \cup {Image})
      /\ Posted' \subseteq Posted \cup {h, f, Image}
  <2>1. CASE UNCHANGED posts
    BY <2>1 DEF Queues, Posted
  <2>2. ASSUME NEW a \in Calls \cup {Image}, NEW b \in Calls \cup {Image},
               {a, b} \subseteq {h, f, Image}, Post(<<a>>) \/ Post(<<a, b>>)
        PROVE  posts' \in Seq(Calls \cup {Image}) /\ Posted' \subseteq Posted \cup {h, f, Image}
    <3>1. PICK cs \in Seq(Calls \cup {Image}) : Post(cs) /\ Elements(cs) \subseteq {a, b}
      <4>1. /\ <<a>> \in Seq(Calls \cup {Image}) /\ Elements(<<a>>) = {a}
            /\ <<a, b>> \in Seq(Calls \cup {Image}) /\ Elements(<<a, b>>) = {a, b}
        BY <2>2, PostSeq
      <4> QED BY <2>2, <4>1
    <3> QED BY <2>2, <3>1, Posting
  <2>3. \/ UNCHANGED posts
        \/ Post(<<Image, h>>) \/ Post(<<h, Image>>) \/ Post(<<h>>) \/ Post(<<f>>)
    BY <1>2, <1>3 DEF ShotDone, ShotFails, ShotsForgotten
  <2> QED BY <2>1, <2>2, <2>3
<1>6. /\ h.what = "done" /\ h.op \in 1..ops /\ Image.what = "image" /\ Image.op = 0
  BY <1>2 DEF Queues, Begun, Image, Callback
<1>7. (Places /\ Counts /\ CrashExplained /\ Prepared)'
  BY <1>1 DEF Places, Counts, CrashExplained, Prepared
<1>8. Queues' /\ Begun'
  BY <1>1, <1>3, <1>4, <1>5, <1>6 DEF Queues, Begun
<1>9. Distinct'
  <2>1. \A c \in Posted' :
          c \in Posted \/ (c.what \in {"done", "failed"} /\ c.op = h.op)
          \/ (c.what = "image" /\ c.op = 0)
    BY <1>3, <1>5, <1>6
  <2>2. h.op # device.op /\ (ui = "join" => h.op < ops /\ 0 < ops)
    BY <1>2, <1>6 DEF Distinct, Counts
  <2> QED BY <1>1, <1>4, <2>1, <2>2 DEF Distinct
<1>10. Semaphore'
  BY <1>1, <1>2, <1>3, <1>4, <1>5, <1>6 DEF Semaphore, Lent, Undisturbed
<1>11. SameDevice'
  BY <1>1, <1>3, <1>4, <1>5, <1>6 DEF SameDevice
<1> QED BY <1>7, <1>8, <1>9, <1>10, <1>11

-----------------------------------------------------------------------------
(* The handler's thread *)

(* What a callback that takes itself from the queue leaves alone.          *)
LEMMA Taken ==
  ASSUME CamInv, NEW what, Run(what), posts' = Tail(posts), UNCHANGED ops
  PROVE  /\ posts' \in Seq(Calls \cup {Image}) /\ Posted' \subseteq Posted
         /\ Head(posts) \in Posted /\ Asked' = Asked
         /\ Head(posts) \in Calls \cup {Image}
         /\ Head(posts).what = what
BY Rested DEF CamInv, Run, Queues, Posted, Asked, service

(* What stays true when callbacks only leave, and the device, the camera,  *)
(* the session and the reader stay.                                        *)
LEMMA Fewer ==
  ASSUME CamInv, crash = "none",
         posts' \in Seq(Calls \cup {Image}), Posted' \subseteq Posted, Asked' = Asked,
         UNCHANGED <<ui, screen, surface, handler, service, fields, ops>>,
         late' = late, current' = Nothing \/ current' = current
                       \/ (current' \in Posted /\ current'.what \in {"image", "done"})
  PROVE  /\ Places' /\ Queues' /\ Begun' /\ Prepared' /\ Distinct' /\ SameDevice'
<1> USE DEF CamInv, service, fields
<1>1. Places' /\ Prepared' /\ SameDevice'
  BY DEF Places, Prepared, SameDevice
<1>2. current' \in Calls \cup {Nothing, Image} /\ current'.what \in {"none", "image", "done"}
      /\ (current' \in Posted \/ current' = current \/ current' = Nothing)
  BY Waiting DEF Queues, Nothing
<1>3. Queues'
  BY <1>2 DEF Queues
<1>4. Begun'
  BY <1>2 DEF Begun, Nothing
<1>5. Distinct'
  <2>1. ui = "join" => 0 < ops
    BY DEF Distinct, Counts
  <2> QED BY <1>2, <2>1 DEF Distinct, Nothing
<1> QED BY <1>1, <1>3, <1>4, <1>5

(* Giving back leaves the permit to nobody, and nothing under way.         *)
LEMMA Free ==
  ASSUME CamInv, crash = "none", NEW k \in 1..ops, NEW q, Release(k, q), slips' = {},
         Posted' = Elements(q), Posted' \subseteq Posted, Asked' = Asked,
         UNCHANGED <<ui, ops, device>>, current'.what # "done",
         device.state = "opening" => device.op # k,
         ui = "join" => ops # k
  PROVE  /\ Lent /\ Undisturbed /\ Lent' /\ owes = {k}
         /\ Asked' = {} /\ device.state # "opening" /\ ui # "join"
         /\ \A c \in Posted' : c.what \notin {"opened", "done", "failed"}
<1> USE DEF CamInv
<1>1. /\ slips = {} /\ k \in owes
      /\ \A c \in Elements(q) :
           c.what \in {"opened", "disconnected", "done", "failed"} => c.op # k
      /\ \A c \in Asked : c.op # k
  BY Returned
<1>2. Lent /\ Undisturbed /\ owes = {k} /\ permits = 0
  BY <1>1 DEF Semaphore, Lent
<1>3. permits' = 1 /\ owes' = {}
  BY <1>2 DEF Release
<1>4. /\ Asked' = {} /\ device.state # "opening" /\ ui # "join"
      /\ \A c \in Posted' : c.what \notin {"opened", "done", "failed"}
  BY <1>1, <1>2 DEF Lent
<1>5. Lent'
  BY <1>3, <1>4 DEF Lent
<1> QED BY <1>2, <1>4, <1>5

LEMMA CamOnDisconnected ==
  ASSUME CamInv, crash = "none", OnDisconnected
  PROVE  CamInv'
<1> USE DEF OnDisconnected, fields
<1>1. PICK k, q : k = Head(posts).op /\ q = posts' /\ Release(k, q)
  OBVIOUS
<1>2. /\ posts' \in Seq(Calls \cup {Image}) /\ Posted' \subseteq Posted
      /\ Head(posts) \in Posted /\ Asked' = Asked /\ Head(posts).what = "disconnected"
  BY Taken DEF Release
<1>3. k \in 1..ops
  BY <1>1, <1>2 DEF CamInv, Begun
<1>4. /\ Places' /\ Queues' /\ Begun' /\ Prepared' /\ Distinct' /\ SameDevice'
  BY <1>1, <1>2, Fewer DEF Run, Release
<1>5. Counts' /\ CrashExplained'
  <2>1. /\ permits' \in Nat /\ ops' = ops
        /\ owes' \subseteq 1..ops /\ slips' \subseteq 1..ops
    BY <1>1, <1>3, ReturnCounts DEF CamInv
  <2> QED BY <2>1 DEF CamInv, Counts, CrashExplained, Run, service
<1>6. Semaphore'
  <2> SUFFICES ASSUME slips' = {} PROVE (Lent /\ Undisturbed)'
    BY DEF Semaphore
  <2>1. /\ device.op = k => device.state \in {"lost", "closed"}
        /\ ui = "join" => ops # k
    BY <1>1, <1>2, <1>3 DEF CamInv, Distinct, Counts
  <2>2. /\ Undisturbed /\ Lent' /\ owes = {k}
        /\ Asked' = {} /\ device.state # "opening" /\ ui # "join"
        /\ \A c \in Posted' : c.what \notin {"opened", "done", "failed"}
    BY <1>1, <1>2, <1>3, <2>1, Free DEF Run, service, Release, Posted, Nothing
  <2>3. Undisturbed'
    BY <2>1, <2>2 DEF Undisturbed, Run, service, Nothing
  <2> QED BY <2>2, <2>3
<1> QED BY <1>4, <1>5, <1>6 DEF CamInv

LEMMA CamOnConfigured ==
  ASSUME CamInv, crash = "none", OnConfigured
  PROVE  CamInv'
<1> USE DEF CamInv, OnConfigured, lock, service
<1>1. PICK k : k = Head(posts).op
  OBVIOUS
<1>2. /\ posts' \in Seq(Calls \cup {Image}) /\ Posted' \subseteq Posted
      /\ Head(posts) \in Posted /\ Asked' = Asked /\ Head(posts).what = "configured"
  BY Taken
<1>3. k \in 1..ops /\ session' = k /\ UNCHANGED <<ui, screen, handler, device, losses, current>>
  BY <1>1, <1>2 DEF Begun, Run
<1>4. Places' /\ Counts' /\ Queues' /\ Begun'
  <2>1. Places'
    BY <1>3 DEF Places
  <2>2. Queues'
    <3>1. shots' = shots /\ current' = current
      BY DEF Run
    <3> QED BY <1>2, <3>1 DEF Queues
  <2>3. Begun'
    BY <1>2, <1>3 DEF Begun
  <2>4. Counts'
    BY <1>3 DEF Counts
  <2> QED BY <2>1, <2>2, <2>3, <2>4
<1>5. late' \/ camera = k
  BY <1>1
<1>6. late => late'
  OBVIOUS
<1>7. camera = k => Live(k) \/ losses > 0
  BY <1>3 DEF SameDevice, Live, Counts
<1>8. CrashExplained'
  BY <1>1, <1>3, <1>5, <1>7 DEF CrashExplained
<1>9. Prepared' /\ Distinct'
  BY <1>2, <1>3 DEF Prepared, Distinct
<1>10. Semaphore'
  BY <1>2, <1>3 DEF Semaphore, Lent, Undisturbed
<1>11. SameDevice'
  BY <1>2, <1>3, <1>5 DEF SameDevice
<1> QED BY <1>4, <1>8, <1>9, <1>10, <1>11

LEMMA CamOnCaptureFailed ==
  ASSUME CamInv, crash = "none", OnCaptureFailed
  PROVE  CamInv'
<1> USE DEF OnCaptureFailed, fields
<1>1. PICK k, q : k = Head(posts).op /\ q = posts' /\ Release(k, q)
  OBVIOUS
<1>2. /\ posts' \in Seq(Calls \cup {Image}) /\ Posted' \subseteq Posted
      /\ Head(posts) \in Posted /\ Asked' = Asked /\ Head(posts).what = "failed"
  BY Taken DEF Release
<1>3. k \in 1..ops
  BY <1>1, <1>2 DEF CamInv, Begun
<1>4. /\ Places' /\ Queues' /\ Begun' /\ Prepared' /\ Distinct' /\ SameDevice'
  BY <1>1, <1>2, Fewer DEF Run, Release
<1>5. Counts' /\ CrashExplained'
  <2>1. /\ permits' \in Nat /\ ops' = ops
        /\ owes' \subseteq 1..ops /\ slips' \subseteq 1..ops
    BY <1>1, <1>3, ReturnCounts DEF CamInv
  <2> QED BY <2>1 DEF CamInv, Counts, CrashExplained, Run, service
<1>6. Semaphore'
  <2> SUFFICES ASSUME slips' = {} PROVE (Lent /\ Undisturbed)'
    BY DEF Semaphore
  <2>1. /\ device.op # k
        /\ ui = "join" => ops # k
    BY <1>1, <1>2, <1>3 DEF CamInv, Distinct, Counts
  <2>2. /\ Undisturbed /\ Lent' /\ owes = {k}
        /\ Asked' = {} /\ device.state # "opening" /\ ui # "join"
        /\ \A c \in Posted' : c.what \notin {"opened", "done", "failed"}
    BY <1>1, <1>2, <1>3, <2>1, Free DEF Run, service, Release, Posted, Nothing
  <2>3. Undisturbed'
    BY <2>1, <2>2 DEF Undisturbed, Run, service, Nothing
  <2> QED BY <2>2, <2>3
<1> QED BY <1>4, <1>5, <1>6 DEF CamInv

(* A focus that is done: a null session means a permit too many.           *)
LEMMA CamFocusDone ==
  ASSUME CamInv, crash = "none", FocusDone
  PROVE  CamInv'
<1> USE DEF FocusDone, fields
<1>1. PICK h : h = Head(posts)
  OBVIOUS
<1>2. /\ posts' \in Seq(Calls \cup {Image}) /\ Posted' \subseteq Posted
      /\ h \in Posted /\ Asked' = Asked /\ h.what = "done"
  BY <1>1, Taken DEF Release, lock
<1>3. h.op \in 1..ops /\ h.op # device.op /\ (ui = "join" => ops # h.op)
  BY <1>2 DEF CamInv, Begun, Distinct, Counts
<1>4. /\ Places' /\ Queues' /\ Begun' /\ Prepared' /\ Distinct' /\ SameDevice'
  BY <1>1, <1>2, Fewer DEF Run, Release, lock
<1>5. CASE UNCHANGED <<lock, crash>>
  <2>1. Counts' /\ CrashExplained'
    BY <1>5 DEF CamInv, Counts, CrashExplained, Run, service, lock
  <2>2. Semaphore'
    BY <1>2, <1>5 DEF CamInv, Semaphore, Lent, Undisturbed, Run, service, lock
  <2> QED BY <1>4, <2>1, <2>2 DEF CamInv
<1>6. CASE /\ Release(h.op, posts')
           /\ crash' \in IF session = 0 THEN {"focus"}
                         ELSE IF Live(session) THEN {crash} ELSE {crash, "stale"}
  <2>1. PICK q : q = posts' /\ Release(h.op, q)
    BY <1>6
  <2>2. /\ permits' \in Nat /\ ops' = ops
        /\ owes' \subseteq 1..ops /\ slips' \subseteq 1..ops
    BY <1>3, <2>1, ReturnCounts DEF CamInv
  <2>3. Counts'
    BY <2>2 DEF CamInv, Counts, Run, service
  <2>4. session = 0 => slips' # {}
    BY <1>2, <2>1, Returned DEF CamInv, Semaphore, Undisturbed
  <2>5. session # 0 /\ ~Live(session) => late \/ losses > 0
    BY DEF CamInv, SameDevice, Live, Counts
  <2>6. CrashExplained'
    BY <1>6, <2>4, <2>5 DEF CamInv, CrashExplained, Run, service
  <2>7. Semaphore'
    <3> SUFFICES ASSUME slips' = {} PROVE (Lent /\ Undisturbed)'
      BY DEF Semaphore
    <3>1. /\ Undisturbed /\ Lent' /\ owes = {h.op}
          /\ Asked' = {} /\ device.state # "opening" /\ ui # "join"
          /\ \A c \in Posted' : c.what \notin {"opened", "done", "failed"}
      BY <1>1, <1>2, <1>3, <2>1, Free DEF Run, service, Release, Posted, Nothing
    <3>2. Undisturbed'
      BY <1>3, <3>1 DEF Undisturbed, Run, service, Nothing
    <3> QED BY <3>1, <3>2
  <2> QED BY <1>4, <2>3, <2>6, <2>7 DEF CamInv
<1> QED BY <1>1, <1>5, <1>6

LEMMA CamCaptureDone ==
  ASSUME CamInv, crash = "none", CaptureDone
  PROVE  CamInv'
<1> USE DEF CaptureDone, fields
<1>1. PICK h : h = Head(posts)
  OBVIOUS
<1>2. /\ posts' \in Seq(Calls \cup {Image}) /\ Posted' \subseteq Posted
      /\ h \in Posted /\ Asked' = Asked /\ h.what = "done"
  BY <1>1, Taken DEF Release, lock
<1>3. h.op \in 1..ops /\ h.op # device.op /\ (ui = "join" => ops # h.op)
  BY <1>2 DEF CamInv, Begun, Distinct, Counts
<1>4. /\ Places' /\ Queues' /\ Begun' /\ Prepared' /\ Distinct' /\ SameDevice'
  <2>1. current' = current \/ current' = h
    BY <1>1
  <2> QED BY <1>1, <1>2, <2>1, Fewer DEF Run, Release, lock
<1>5. CASE session # 0 /\ current' = h /\ UNCHANGED lock
  <2>1. Counts' /\ CrashExplained'
    BY <1>5 DEF CamInv, Counts, CrashExplained, Run, service, lock
  <2>2. slips = {} => Lent'
    BY <1>2, <1>5 DEF CamInv, Semaphore, Lent, Run, service, lock
  <2>3. slips = {} => Undisturbed'
    BY <1>2, <1>5 DEF CamInv, Semaphore, Undisturbed, Run, service, lock
  <2>4. Semaphore'
    BY <1>5, <2>2, <2>3 DEF Semaphore, lock
  <2> QED BY <1>4, <2>1, <2>4 DEF CamInv
<1>6. CASE session = 0 /\ Release(h.op, posts') /\ UNCHANGED current
  <2>1. PICK q : q = posts' /\ Release(h.op, q)
    BY <1>6
  <2>2. /\ permits' \in Nat /\ ops' = ops
        /\ owes' \subseteq 1..ops /\ slips' \subseteq 1..ops
    BY <1>3, <2>1, ReturnCounts DEF CamInv
  <2>3. Counts' /\ CrashExplained'
    BY <2>2 DEF CamInv, Counts, CrashExplained, Run, service
  <2>4. slips' # {}
    BY <1>2, <1>6, <2>1, Returned DEF CamInv, Semaphore, Undisturbed
  <2>5. Semaphore'
    BY <2>4 DEF Semaphore
  <2> QED BY <1>4, <2>3, <2>5 DEF CamInv
<1> QED BY <1>1, <1>5, <1>6

(* A capture whose session went while its callback ran ends the            *)
(* application: a permit too many let stop in.                             *)
LEMMA CamRestartPreview ==
  ASSUME CamInv, crash = "none", RestartPreview
  PROVE  CamInv'
<1> USE DEF RestartPreview, history
<1>1. PICK k, q : k = current.op /\ q = posts' /\ q = posts /\ Release(k, q)
  OBVIOUS
<1>2. /\ posts' \in Seq(Calls \cup {Image}) /\ Posted' = Posted /\ Asked' = Asked
  BY DEF CamInv, Queues, Posted, Asked, service
<1>3. k \in 1..ops /\ k # device.op /\ (ui = "join" => ops # k)
  BY <1>1 DEF CamInv, Begun, Distinct, Counts
<1>4. /\ Places' /\ Queues' /\ Begun' /\ Prepared' /\ Distinct' /\ SameDevice'
  BY <1>1, <1>2, Fewer DEF Release
<1>5. session = 0 => slips' # {}
  BY <1>1, Returned DEF CamInv, Semaphore, Undisturbed
<1>6. Counts' /\ CrashExplained'
  <2>1. /\ permits' \in Nat /\ ops' = ops
        /\ owes' \subseteq 1..ops /\ slips' \subseteq 1..ops
    BY <1>1, <1>3, ReturnCounts DEF CamInv
  <2>2. Counts'
    BY <2>1 DEF CamInv, Counts, service, fields
  <2> QED BY <1>5, <2>2 DEF CamInv, CrashExplained, service
<1>7. Semaphore'
  <2> SUFFICES ASSUME slips' = {} PROVE (Lent /\ Undisturbed)'
    BY DEF Semaphore
  <2>1. /\ Undisturbed /\ Lent' /\ owes = {k}
        /\ Asked' = {} /\ device.state # "opening" /\ ui # "join"
        /\ \A c \in Posted' : c.what \notin {"opened", "done", "failed"}
    BY <1>1, <1>2, <1>3, Free DEF service, Release, Posted, Nothing
  <2>2. Undisturbed'
    BY <1>3, <2>1 DEF Undisturbed, service, fields, Nothing
  <2> QED BY <2>1, <2>2
<1> QED BY <1>4, <1>6, <1>7 DEF CamInv

LEMMA CamPicture ==
  ASSUME CamInv, crash = "none", OnImage \/ Examined
  PROVE  CamInv'
<1>1. PICK h : h = Head(posts)
  OBVIOUS
<1>2. /\ posts' \in Seq(Calls \cup {Image}) /\ Posted' \subseteq Posted /\ Asked' = Asked
      /\ UNCHANGED <<lock, ui, screen, handler, service, fields, late, crash>>
      /\ current' = Nothing \/ (current' \in Posted /\ current'.what = "image")
  <2>1. CASE OnImage
    BY <2>1, Taken DEF OnImage, Run, lock
  <2>2. CASE Examined
    BY <2>2 DEF Examined, CamInv, Queues, Posted, Asked, lock, service, history
  <2> QED BY <2>1, <2>2
<1>3. Places' /\ Queues' /\ Begun' /\ Prepared' /\ Distinct' /\ SameDevice'
  BY <1>2, Fewer DEF lock, OnImage, Examined, Run
<1>4. Counts' /\ CrashExplained'
  BY <1>2 DEF CamInv, Counts, CrashExplained, lock, service, fields
<1>5. slips = {} => Lent' /\ Undisturbed'
  <2>1. current'.what # "done"
    BY <1>2 DEF Nothing
  <2>2. slips = {} => Lent'
    BY <1>2, <2>1 DEF CamInv, Semaphore, Lent, lock, service
  <2>3. slips = {} => Undisturbed'
    BY <1>2, <2>1 DEF CamInv, Semaphore, Undisturbed, lock, service, fields
  <2> QED BY <2>2, <2>3
<1>6. Semaphore'
  BY <1>2, <1>5 DEF Semaphore, lock
<1> QED BY <1>3, <1>4, <1>6 DEF CamInv

(* onOpened has its own device, open unless it was lost, and a reader      *)
(* unless a permit too many let stop in.                                   *)
LEMMA CamOnOpened ==
  ASSUME CamInv, crash = "none", OnOpened
  PROVE  CamInv'
<1> USE DEF OnOpened
<1>1. PICK k, q : k = Head(posts).op /\ q = posts' /\ Release(k, q)
  OBVIOUS
<1>2. /\ Head(posts) \in Posted /\ Head(posts).what = "opened"
      /\ Tail(posts) \in Seq(Calls \cup {Image}) /\ Elements(Tail(posts)) \subseteq Posted
  BY Rested DEF CamInv, Queues, Run, Posted
<1>3. /\ k \in 1..ops /\ k = device.op /\ device.state # "opening"
      /\ (ui = "join" => ops # k)
  BY <1>1, <1>2 DEF CamInv, Begun, Distinct, SameDevice, Counts
<1>4. PICK c : c = Callback("configured", k, "none")
  OBVIOUS
<1>5. c \in Calls /\ c.what = "configured" /\ c.op = k
  BY <1>3, <1>4 DEF Callback, Calls, Kinds, CamInv, Counts
<1>6. posts' \in Seq(Calls \cup {Image}) /\ Posted' \subseteq Posted \cup {c} /\ Asked' = Asked
  <2>1. posts' = Tail(posts) \/ posts' = Append(Tail(posts), c)
    BY <1>1, <1>4
  <2>2. Append(Tail(posts), c) \in Seq(Calls \cup {Image})
    BY <1>2, <1>5
  <2>3. Elements(Append(Tail(posts), c)) = Elements(Tail(posts)) \cup {c}
    <3>1. PICK S : S = Calls \cup {Image}
      OBVIOUS
    <3>2. Tail(posts) \in Seq(S) /\ c \in S
      BY <1>2, <1>5, <3>1
    <3>3. \A s \in Seq(S), p \in S : Elements(Append(s, p)) = Elements(s) \cup {p}
      BY OneMore
    <3> QED BY <3>2, <3>3
  <2>4. Asked' = Asked
    BY DEF Asked, Run, service
  <2> QED BY <1>2, <2>1, <2>2, <2>3, <2>4 DEF Posted
<1>7. /\ UNCHANGED <<ui, screen, handler, device, losses, current, session, reader, late, shots>>
      /\ camera' = k /\ tag' \in {tag, "preview"}
      /\ current = Nothing
  BY <1>1 DEF Run, service
<1>8. /\ permits' \in Nat /\ ops' = ops
      /\ owes' \subseteq 1..ops /\ slips' \subseteq 1..ops
  BY <1>1, <1>3, ReturnCounts DEF CamInv
<1>9. Places' /\ Counts'
  <2>1. Places'
    BY <1>7 DEF CamInv, Places
  <2>2. Counts'
    BY <1>3, <1>7, <1>8 DEF CamInv, Counts
  <2> QED BY <2>1, <2>2
<1>10. Queues' /\ Begun' /\ Prepared'
  <2>1. Queues'
    BY <1>6, <1>7 DEF CamInv, Queues
  <2>2. Begun' /\ Prepared'
    BY <1>3, <1>5, <1>6, <1>7, <1>8 DEF CamInv, Begun, Prepared
  <2> QED BY <2>1, <2>2
<1>11. Distinct'
  <2>1. ui = "join" => k < ops
    BY <1>3 DEF CamInv, Counts
  <2> QED BY <1>5, <1>6, <1>7, <1>8, <2>1 DEF CamInv, Distinct
<1>12. ~reader => slips' # {}
  BY <1>1, <1>2, Returned DEF CamInv, Semaphore, Undisturbed
<1>13. reader => device.state \in {"open", "lost"} /\ crash' # "reader"
  BY <1>2, <1>1 DEF CamInv, SameDevice, Crash
<1>14. reader /\ ~Live(k) => losses > 0
  BY <1>3, <1>13 DEF CamInv, SameDevice, Live, Counts
<1>15. crash' \in {crash, "stale", "reader"}
  BY DEF Crash
<1>16. crash' = "stale" => reader /\ ~Live(k)
  BY <1>1 DEF Crash
<1>17. CrashExplained'
  BY <1>7, <1>12, <1>13, <1>14, <1>15, <1>16 DEF CamInv, CrashExplained
<1>18. Semaphore'
  <2> SUFFICES ASSUME slips' = {} PROVE (Lent /\ Undisturbed)'
    BY DEF Semaphore
  <2>0. Posted' = Elements(q) /\ (slips = {} /\ k \in owes)
        /\ \A d \in Elements(q) :
             d.what \in {"opened", "disconnected", "done", "failed"} => d.op # k
    BY <1>1, Returned DEF Posted
  <2>1. /\ Undisturbed /\ Lent /\ owes = {k} /\ permits = 0
    BY <2>0 DEF CamInv, Semaphore, Lent
  <2>2. permits' = 1 /\ owes' = {}
    BY <1>1, <2>1 DEF Release
  <2>3. /\ Asked' = {} /\ ui # "join"
        /\ \A d \in Posted' : d.what \notin {"opened", "done", "failed"}
    <3>1. \A d \in Asked : d.op # k
      BY <1>1, Returned
    <3>2. Asked = {} /\ ui # "join"
      BY <1>3, <2>1, <3>1 DEF Lent
    <3>3. \A d \in Posted' : d.what \in {"opened", "done", "failed"} => d.op \in owes
      BY <1>5, <1>6, <2>1 DEF Lent
    <3> QED BY <1>6, <2>0, <2>1, <3>2, <3>3
  <2>4. Lent'
    BY <1>3, <1>7, <2>2, <2>3 DEF Lent, Nothing
  <2>5. Undisturbed'
    BY <1>3, <1>7, <2>1, <2>3 DEF Undisturbed, Nothing
  <2> QED BY <2>4, <2>5
<1>19. crash' = "none" => SameDevice'
  <2>1. ASSUME crash' = "none" PROVE reader
    BY <2>1 DEF Crash
  <2>2. ASSUME reader PROVE SameDevice'
    <3>1. device.state \in {"open", "lost"}
      BY <1>13, <2>2
    <3>2. session # 0 /\ ~late => session = k
      BY <1>3 DEF CamInv, SameDevice
    <3> QED BY <1>3, <1>5, <1>6, <1>7, <3>1, <3>2 DEF CamInv, SameDevice
  <2> QED BY <2>1, <2>2
<1> QED BY <1>9, <1>10, <1>11, <1>17, <1>18, <1>19 DEF CamInv

-----------------------------------------------------------------------------
LEMMA CamNext == CamInv /\ [Next]_vars => CamInv'
<1>1. ASSUME CamInv, CameraStep PROVE CamInv'
  <2> USE <1>1
  <2>1. crash = "none"
    BY DEF CameraStep
  <2>2. CASE UserInterface
    BY <2>1, <2>2, CamResume, CamTap, CamLockToOpen, CamLockToShoot, CamShootInVain,
       CamLockToStop, CamJoined DEF UserInterface
  <2>3. CASE Service
    BY <2>1, <2>3, CamOpens, CamLost, CamAnswers DEF Service
  <2>4. CASE Handler
    BY <2>1, <2>4, CamOnOpened, CamOnConfigured, CamOnDisconnected, CamFocusDone,
       CamCaptureDone, CamRestartPreview, CamOnCaptureFailed, CamPicture DEF Handler
  <2> QED BY <2>2, <2>3, <2>4 DEF CameraStep
<1>2. UNCHANGED vars => UNCHANGED cameraVars
  BY DEF vars
<1> QED BY <1>1, <1>2, CamKept DEF Next

LEMMA CamInvariant == Spec => []CamInv
<1>1. Init => CamInv
  BY CamInit
<1>2. CamInv /\ [Next]_vars => CamInv'
  BY CamNext
<1> QED BY <1>1, <1>2, PTL DEF Spec

(* What is under way belongs to operations that owe the permit, of which   *)
(* there is one at most.                                                   *)
LEMMA UnderWay ==
  ASSUME CamInv, slips = {}
  PROVE  InProgress \subseteq owes /\ Cardinality(owes) \in {0, 1} /\ IsFiniteSet(owes)
<1>1. Lent
  BY DEF CamInv, Semaphore
<1>2. InProgress \subseteq owes
  BY <1>1 DEF Lent, InProgress, OpsOf, Posted, Asked, Elements
<1>3. owes = {} \/ \E k \in 1..ops : owes = {k}
  BY <1>1 DEF Lent
<1>4. Cardinality({}) = 0 /\ IsFiniteSet({})
  BY FS_EmptySet
<1>5. \A k : Cardinality({k}) = 1 /\ IsFiniteSet({k})
  BY FS_Singleton
<1> QED BY <1>2, <1>3, <1>4, <1>5

(* The fields of a hunt have their types; the operations and the losses    *)
(* stay within their bounds.                                               *)
THEOREM Typed == Spec => []TypeOK
<1>1. CamInv /\ DrawInv => TypeOK
  BY DEF CamInv, Places, Counts, DrawInv, Fields, NoneTwice, TypeOK
<1> QED BY <1>1, CamInvariant, DrawInvariant, PTL

(* At most one of opening, a focus, a capture and stop is under way while  *)
(* no permit was given back too early, for any number of operations.       *)
THEOREM OneAtATime == Spec => []Exclusive
<1>1. CamInv => Exclusive
  <2> SUFFICES ASSUME CamInv, slips = {} PROVE Cardinality(InProgress) <= 1
    BY DEF Exclusive
  <2>1. InProgress \subseteq owes /\ Cardinality(owes) \in {0, 1} /\ IsFiniteSet(owes)
    BY UnderWay
  <2>2. Cardinality(InProgress) <= Cardinality(owes) /\ Cardinality(InProgress) \in Nat
    BY <2>1, FS_Subset, FS_CardinalityType
  <2> QED BY <2>1, <2>2
<1> QED BY <1>1, CamInvariant, PTL

(* A callback of a capture finds no session only when a permit too many    *)
(* let stop in before it.                                                  *)
THEOREM NoSessionExplained == Spec => []NullSessionExplained
<1>1. CamInv => NullSessionExplained
  <2> SUFFICES ASSUME CamInv, CaptureCallback, session = 0, slips = {} PROVE FALSE
    BY DEF NullSessionExplained
  <2>1. Undisturbed
    BY DEF CamInv, Semaphore
  <2>2. posts # <<>> => Head(posts) \in Posted
    BY Rested DEF CamInv, Queues, Posted
  <2> QED BY <2>1, <2>2 DEF Undisturbed, CaptureCallback
<1> QED BY <1>1, CamInvariant, PTL

(* The camera ends the application only after a permit too many, a session *)
(* that came late, or the loss of the camera.                              *)
THEOREM CrashesExplained == Spec => []CrashExplained
<1>1. CamInv => CrashExplained
  BY DEF CamInv
<1> QED BY <1>1, CamInvariant, PTL

(* A paused activity has closed its camera, or a permit too many let stop  *)
(* in before onOpened.                                                     *)
THEOREM PausedIsReleased == Spec => []PauseReleasesCamera
<1>1. CamInv => PauseReleasesCamera
  BY DEF CamInv, Semaphore, Undisturbed, PauseReleasesCamera
<1> QED BY <1>1, CamInvariant, PTL
=============================================================================
