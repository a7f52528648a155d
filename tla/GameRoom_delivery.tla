------------------------- MODULE GameRoom_delivery --------------------------
(***************************************************************************)
(* What is sent arrives: the finds of the phones, in the counts of the     *)
(* server, and the start and the end of the game, on the phones; proved    *)
(* for every number of phones, of connections and of finds.                *)
(***************************************************************************)
EXTENDS GameRoom_closing

First(p) == <<p, 1>>

Firsts == {c \in Conn : c[2] = 1}

(* The finds a phone has sent and nobody has read, on all its connections. *)
Marks(p) ==
  {x \in Conn \X (Nat \ {0}) :
     /\ Owner(x[1]) = p
     /\ x[2] \in DOMAIN toServer[x[1]]
     /\ toServer[x[1]][x[2]].kind = "ANAM-FOUND"}

LEMMA MarksRead ==
  ASSUME TypeOK, NEW p \in Phones, IsFiniteSet(Marks(p)), NEW c \in Conn, toServer[c] # <<>>,
         toServer' = [toServer EXCEPT ![c] = Tail(@)]
  PROVE  /\ IsFiniteSet(Marks(p)')
         /\ Owner(c) = p /\ Head(toServer[c]).kind = "ANAM-FOUND"
              => Cardinality(Marks(p)') + 1 = Cardinality(Marks(p))
         /\ ~(Owner(c) = p /\ Head(toServer[c]).kind = "ANAM-FOUND")
              => Cardinality(Marks(p)') = Cardinality(Marks(p))
<1>a. toServer \in [Conn -> Seq(ClientMessage)]
  BY DEF TypeOK, WireTypeOK
<1>1. PICK s \in Seq(ClientMessage) : s = toServer[c] /\ s # <<>>
  BY <1>a
<1>2. /\ Len(s) \in Nat /\ Len(s) > 0 /\ DOMAIN s = 1..Len(s) /\ Head(s) = s[1]
  BY <1>1
<1>b. PICK r : /\ r = Tail(s) /\ DOMAIN r = 1..(Len(s) - 1)
               /\ \A i \in 1..(Len(s) - 1) : r[i] = s[i + 1]
  <2>1. /\ DOMAIN Tail(s) = 1..(Len(s) - 1)
        /\ \A i \in 1..(Len(s) - 1) : Tail(s)[i] = s[i + 1]
    BY <1>1
  <2> QED
    BY <2>1
<1>3. toServer'[c] = r /\ \A d \in Conn \ {c} : toServer'[d] = toServer[d]
  BY <1>a, <1>b, <1>1
<1>4. PICK T : T = Marks(p) \ {<<c, 1>>}
  OBVIOUS
<1>5. PICK U : U = Marks(p)'
  OBVIOUS
<1>6. PICK f : f = [x \in T |-> IF x[1] = c THEN <<c, x[2] - 1>> ELSE x]
  OBVIOUS
<1>7. \A d \in Conn : \A i \in Nat \ {0} :
        /\ <<d, i>> \in T <=> /\ Owner(d) = p /\ i \in DOMAIN toServer[d]
                              /\ toServer[d][i].kind = "ANAM-FOUND"
                              /\ <<d, i>> # <<c, 1>>
        /\ <<d, i>> \in U <=> /\ Owner(d) = p /\ i \in DOMAIN toServer'[d]
                              /\ toServer'[d][i].kind = "ANAM-FOUND"
  BY <1>4, <1>5 DEF Marks
<1>8. T \subseteq Conn \X (Nat \ {0}) /\ U \subseteq Conn \X (Nat \ {0})
  BY <1>4, <1>5 DEF Marks
<1>9. \A i \in Nat \ {0} : <<c, i>> \in U <=> <<c, i + 1>> \in T
  <2> TAKE i \in Nat \ {0}
  <2>1. i + 1 \in Nat \ {0} /\ <<c, i + 1>> # <<c, 1>>
    OBVIOUS
  <2>2. <<c, i>> \in U <=> Owner(c) = p /\ i \in DOMAIN r /\ r[i].kind = "ANAM-FOUND"
    BY <1>3, <1>7
  <2>4. <<c, i + 1>> \in T <=> Owner(c) = p /\ i + 1 \in DOMAIN s /\ s[i + 1].kind = "ANAM-FOUND"
    BY <1>1, <1>7, <2>1
  <2>3. i \in DOMAIN r <=> i + 1 \in DOMAIN s
    BY <1>2, <1>b
  <2> QED
    BY <1>2, <1>b, <2>2, <2>3, <2>4
<1>10. \A d \in Conn \ {c} : \A i \in Nat \ {0} : <<d, i>> \in U <=> <<d, i>> \in T
  BY <1>3, <1>7
<1>11. <<c, 1>> \notin T
  BY <1>4
<1>12. \A x \in T : f[x] \in U
  <2> TAKE x \in T
  <2>1. PICK d \in Conn, i \in Nat \ {0} : x = <<d, i>>
    BY <1>8
  <2>2. CASE d = c
    <3>1. i # 1
      BY <1>11, <2>1, <2>2, Zenon
    <3>2. i - 1 \in Nat \ {0} /\ (i - 1) + 1 = i
      BY <3>1
    <3>3. <<c, i - 1>> \in U
      BY <1>9, <2>1, <2>2, <3>2
    <3> QED
      BY <1>6, <2>1, <2>2, <3>3
  <2> QED
    BY <1>6, <1>10, <2>1, <2>2
<1>13. \A x, y \in T : f[x] = f[y] => x = y
  <2> TAKE x, y \in T
  <2>1. PICK d \in Conn, i \in Nat \ {0} : x = <<d, i>>
    BY <1>8
  <2>2. PICK e \in Conn, j \in Nat \ {0} : y = <<e, j>>
    BY <1>8
  <2> QED
    BY <1>6, <2>1, <2>2
<1>14. \A u \in U : \E x \in T : f[x] = u
  <2> TAKE u \in U
  <2>1. PICK d \in Conn, i \in Nat \ {0} : u = <<d, i>>
    BY <1>8
  <2>2. CASE d = c
    <3>1. <<c, i + 1>> \in T /\ (i + 1) - 1 = i
      BY <1>9, <2>1, <2>2
    <3>2. f[<<c, i + 1>>] = <<c, i>>
      BY <1>6, <3>1
    <3> QED
      BY <2>1, <2>2, <3>1, <3>2
  <2> QED
    BY <1>6, <1>10, <2>1, <2>2
<1>15. ExistsBijection(T, U)
  <2>1. f \in [T -> U]
    BY <1>6, <1>12
  <2>2. f \in Injection(T, U)
    BY <1>13, <2>1 DEF Injection, IsInjective
  <2>3. f \in Surjection(T, U)
    BY <1>14, <2>1 DEF Surjection
  <2> QED
    BY <2>2, <2>3 DEF ExistsBijection, Bijection
<1>16. IsFiniteSet(T) /\ Cardinality(Marks(p)) \in Nat
       /\ Cardinality(T) = IF <<c, 1>> \in Marks(p) THEN Cardinality(Marks(p)) - 1
                                                    ELSE Cardinality(Marks(p))
  BY <1>4, FS_RemoveElement, FS_CardinalityType
<1>17. IsFiniteSet(U) /\ Cardinality(U) = Cardinality(T)
  BY <1>15, <1>16, FS_Bijection
<1>18. <<c, 1>> \in Marks(p) <=> Owner(c) = p /\ Head(toServer[c]).kind = "ANAM-FOUND"
  BY <1>1, <1>2 DEF Marks
<1> QED
  BY <1>5, <1>16, <1>17, <1>18


LEMMA MarksSent ==
  ASSUME TypeOK, NEW p \in Phones, IsFiniteSet(Marks(p)), NEW c \in Conn, NEW m \in ClientMessage,
         toServer' = [toServer EXCEPT ![c] = Append(@, m)]
  PROVE  /\ IsFiniteSet(Marks(p)')
         /\ Owner(c) = p /\ m.kind = "ANAM-FOUND"
              => Cardinality(Marks(p)') = Cardinality(Marks(p)) + 1
         /\ ~(Owner(c) = p /\ m.kind = "ANAM-FOUND") => Marks(p)' = Marks(p)
<1>a. toServer \in [Conn -> Seq(ClientMessage)]
  BY DEF TypeOK, WireTypeOK
<1>1. PICK s \in Seq(ClientMessage) : s = toServer[c]
  BY <1>a
<1>2. PICK r : r = Append(s, m)
  OBVIOUS
<1>3. PICK n \in Nat \ {0} : n = Len(s) + 1
  BY <1>1
<1>4. /\ DOMAIN s = 1..Len(s) /\ DOMAIN r = 1..n /\ r[n] = m
      /\ \A i \in 1..Len(s) : r[i] = s[i]
  BY <1>1, <1>2, <1>3
<1>5. toServer'[c] = r /\ \A d \in Conn \ {c} : toServer'[d] = toServer[d]
  BY <1>a, <1>1, <1>2
<1>6. \A i \in Nat \ {0} : i \in DOMAIN r <=> i \in DOMAIN s \/ i = n
  BY <1>3, <1>4
<1>7. n \notin DOMAIN s
  BY <1>3, <1>4
<1>8. PICK T : T = Marks(p)
  OBVIOUS
<1>9. PICK U : U = Marks(p)'
  OBVIOUS
<1>10. T \subseteq Conn \X (Nat \ {0}) /\ U \subseteq Conn \X (Nat \ {0})
  BY <1>8, <1>9 DEF Marks
<1>11. \A d \in Conn : \A i \in Nat \ {0} :
        /\ <<d, i>> \in T <=> /\ Owner(d) = p /\ i \in DOMAIN toServer[d]
                              /\ toServer[d][i].kind = "ANAM-FOUND"
        /\ <<d, i>> \in U <=> /\ Owner(d) = p /\ i \in DOMAIN toServer'[d]
                              /\ toServer'[d][i].kind = "ANAM-FOUND"
  BY <1>8, <1>9 DEF Marks
<1>12. \A d \in Conn \ {c} : \A i \in Nat \ {0} : <<d, i>> \in U <=> <<d, i>> \in T
  BY <1>5, <1>11
<1>13. \A i \in Nat \ {0} : i # n => (<<c, i>> \in U <=> <<c, i>> \in T)
  BY <1>1, <1>4, <1>5, <1>6, <1>11
<1>14. /\ <<c, n>> \notin T
       /\ <<c, n>> \in U <=> Owner(c) = p /\ m.kind = "ANAM-FOUND"
  BY <1>1, <1>4, <1>5, <1>6, <1>7, <1>11
<1>15. \A x \in Conn \X (Nat \ {0}) : x # <<c, n>> => (x \in U <=> x \in T)
  BY <1>12, <1>13
<1>16. CASE Owner(c) = p /\ m.kind = "ANAM-FOUND"
  <2>1. U = T \cup {<<c, n>>}
    BY <1>10, <1>14, <1>15, <1>16
  <2> QED
    BY <1>8, <1>9, <1>14, <1>16, <2>1, FS_AddElement
<1>17. CASE ~(Owner(c) = p /\ m.kind = "ANAM-FOUND")
  <2>1. \A x \in Conn \X (Nat \ {0}) : x \in U <=> x \in T
    BY <1>14, <1>15, <1>17
  <2>2. U = T
    BY <1>10, <2>1
  <2> QED
    BY <1>8, <1>9, <1>17, <2>2
<1> QED
  BY <1>16, <1>17

LEMMA MarksFewer ==
  ASSUME NEW p \in Phones, IsFiniteSet(Marks(p)),
         \A c \in Conn : \A i \in DOMAIN toServer'[c] :
           toServer'[c][i].kind = "ANAM-FOUND"
             => i \in DOMAIN toServer[c] /\ toServer'[c][i] = toServer[c][i]
  PROVE  IsFiniteSet(Marks(p)') /\ Cardinality(Marks(p)') <= Cardinality(Marks(p))
<1>1. Marks(p)' \subseteq Marks(p)
  BY DEF Marks
<1> QED
  BY <1>1, FS_Subset

LEMMA MarksLost ==
  ASSUME TypeOK, NEW p \in Phones, IsFiniteSet(Marks(p)),
         \A c \in Conn : \/ toServer'[c] = toServer[c]
                         \/ toServer'[c] \in Prefixes(toServer[c])
  PROVE  IsFiniteSet(Marks(p)') /\ Cardinality(Marks(p)') <= Cardinality(Marks(p))
<1>a. toServer \in [Conn -> Seq(ClientMessage)]
  BY DEF TypeOK, WireTypeOK
<1>1. ASSUME NEW c \in Conn, NEW i \in DOMAIN toServer'[c]
      PROVE  i \in DOMAIN toServer[c] /\ toServer'[c][i] = toServer[c][i]
  <2>1. CASE toServer'[c] \in Prefixes(toServer[c])
    <3>1. PICK s \in Seq(ClientMessage) : s = toServer[c]
      BY <1>a
    <3>2. PICK n \in 0..Len(s) : toServer'[c] = SubSeq(s, 1, n)
      BY <2>1, <3>1 DEF Prefixes
    <3>3. /\ Len(SubSeq(s, 1, n)) = n /\ DOMAIN SubSeq(s, 1, n) = 1..n /\ DOMAIN s = 1..Len(s)
          /\ \A j \in 1..n : SubSeq(s, 1, n)[j] = s[j] /\ j \in 1..Len(s)
      BY <3>1
    <3> QED
      BY <1>1, <3>1, <3>2, <3>3
  <2> QED
    BY <1>1, <2>1
<1> QED
  BY <1>1, MarksFewer

LEMMA MarksOther ==
  ASSUME NEW p \in Phones, \A c \in Conn : Owner(c) = p => toServer'[c] = toServer[c]
  PROVE  Marks(p)' = Marks(p)
BY DEF Marks

-----------------------------------------------------------------------------
(* Only the first connection of a phone asks for a player. *)

Home == \A p \in Phones : stage[p] = "home" <=> tries[p] = 0

OneSource ==
  /\ \A c \in Conn : Hello(c) => (Head(toServer[c]).kind = "CONNECT" <=> c \in Firsts)
  /\ \A c \in Conn : /\ pc[c] = "put" => c \in Firsts
                     /\ pc[c] \in {"lookup", "drop", "adopt"} => c \notin Firsts

(* What a step of the server does to a greeting and to the thread that     *)
(* deals with it.                                                          *)
LEMMA HelloServer ==
  ASSUME TypeOK, GreetInv, NEW t \in Thread, ServerStep(t)
  PROVE  /\ \A c \in Conn : Hello(c)' => Hello(c) /\ toServer'[c] = toServer[c]
         /\ \A c \in Conn : toServer'[c] # toServer[c]
              => /\ c = t /\ toServer[c] # <<>>
                 /\ toServer' = [toServer EXCEPT ![c] = Tail(@)]
<1>a. toServer \in [Conn -> Seq(ClientMessage)] /\ Acceptor \notin Conn
  BY ServerAssumption DEF TypeOK, WireTypeOK
<1>1. \/ toServer' = toServer
      \/ t \in Conn /\ toServer[t] # <<>> /\ toServer' = [toServer EXCEPT ![t] = Tail(@)]
  <2>1. CASE Quiet(t)
    BY <2>1 DEF Quiet, ReadsPlain
  <2>2. CASE t \in Conn /\ (Enters(t) \/ ReceiveFound(t))
    BY <2>2 DEF Enters, ReceiveFound, ReceiveConnect, AddPlayer, ReceiveReconnect, LookUpPlayer,
       DropHandler, AdoptPlayer, Take, wire
  <2>3. CASE ClearPlayers \/ \E c \in Conn : Accept(c)
    BY <2>3 DEF ClearPlayers, Accept, wire
  <2> QED
    BY <2>1, <2>2, <2>3, ServerSteps DEF GreetInv
<1>2. \A c \in Conn : toServer'[c] # toServer[c]
        => /\ c = t /\ toServer[c] # <<>>
           /\ toServer' = [toServer EXCEPT ![c] = Tail(@)] /\ toServer'[c] = Tail(toServer[c])
  BY <1>a, <1>1
<1>3. ASSUME NEW c \in Conn, Hello(c)' PROVE Hello(c) /\ toServer'[c] = toServer[c]
  <2>1. CASE toServer'[c] # toServer[c]
    BY <1>a, <1>2, <1>3, <2>1, TailGreets DEF GreetInv, PlainTail, Hello
  <2> QED
    BY <1>3, <2>1 DEF Hello
<1> QED
  BY <1>2, <1>3

LEMMA SourceServer ==
  ASSUME TypeOK, GreetInv, OneSource, NEW t \in Thread, ServerStep(t)
  PROVE  OneSource'
<1> USE DEF OneSource
<1>a. pc \in [Thread -> Location] /\ Conn \subseteq Thread /\ Acceptor \notin Conn
  BY ServerAssumption DEF TypeOK, ServerTypeOK, Thread
<1>1. \A c \in Conn : Hello(c)' => (Head(toServer'[c]).kind = "CONNECT" <=> c \in Firsts)
  BY HelloServer
<1>2. ASSUME NEW c \in Conn
      PROVE  /\ pc'[c] = "put" => c \in Firsts
             /\ pc'[c] \in {"lookup", "drop", "adopt"} => c \notin Firsts
  <2>1. CASE Quiet(t)
    BY <1>a, <2>1 DEF Quiet, Others, Entering
  <2>2. CASE t \in Conn /\ ReceiveConnect(t)
    <3>1. Hello(t) /\ Head(toServer[t]).kind = "CONNECT"
      BY <2>2 DEF ReceiveConnect, Take, Hello, Greeting
    <3>2. /\ \A u \in Thread \ {t} : pc'[u] = pc[u]
          /\ pc'[t] \in {"put", "join"} \cup {Back(t)}
      BY <1>a, <2>2 DEF ReceiveConnect, Reply, Goto
    <3> QED
      BY <1>a, <2>2, <3>1, <3>2, BackFrom DEF Entering
  <2>3. CASE t \in Conn /\ ReceiveReconnect(t)
    <3>1. Hello(t) /\ Head(toServer[t]).kind = "RECONNECT"
      BY <2>3 DEF ReceiveReconnect, Take, Hello, Greeting
    <3>2. /\ \A u \in Thread \ {t} : pc'[u] = pc[u]
          /\ pc'[t] \in {"lookup", "join", "dead", "final"} \cup {Back(t)}
      BY <1>a, <2>3 DEF ReceiveReconnect, Reply, Goto, Throw
    <3> QED
      BY <1>a, <2>3, <3>1, <3>2, BackFrom DEF Entering
  <2>4. CASE /\ t \in Conn
             /\ \/ AddPlayer(t) \/ LookUpPlayer(t) \/ DropHandler(t) \/ AdoptPlayer(t)
                \/ ReceiveFound(t)
    BY <1>a, <2>4 DEF AddPlayer, LookUpPlayer, DropHandler, AdoptPlayer, ReceiveFound, Goto
  <2>5. CASE ClearPlayers \/ \E d \in Conn : Accept(d)
    BY <1>a, <2>5 DEF ClearPlayers, Accept, Goto
  <2> QED
    BY <2>1, <2>2, <2>3, <2>4, <2>5, ServerSteps DEF Enters, GreetInv
<1> QED
  BY <1>1, <1>2

(* A phone that does not connect greets nobody.                            *)
LEMMA HelloPhone ==
  ASSUME TypeInv, GreetInv, NEW p \in Phones, Hears(p) \/ Plays(p) \/ Fails(p)
  PROVE  \A c \in Conn : Hello(c)' => Hello(c) /\ Head(toServer'[c]) = Head(toServer[c])
<1>a. toServer \in [Conn -> Seq(ClientMessage)]
  BY DEF TypeInv, TypeOK, WireTypeOK
<1>1. \A c \in Conn : Calm(c)
  BY CalmPhone
<1>2. ASSUME NEW c \in Conn, Hello(c)' PROVE Hello(c) /\ Head(toServer'[c]) = Head(toServer[c])
  <2>1. CASE toServer'[c] = toServer[c]
    BY <1>2, <2>1 DEF Hello
  <2>2. ASSUME NEW m \in ClientMessage, m.kind \notin Greeting,
               toServer'[c] = Append(toServer[c], m)
        PROVE  Hello(c) /\ Head(toServer'[c]) = Head(toServer[c])
    <3>1. PICK s \in Seq(ClientMessage) : s = toServer[c] /\ GreetsFirst(s)
      BY <1>a DEF GreetInv, PlainTail
    <3>2. Append(s, m)[1].kind \in Greeting => s # <<>> /\ s[1].kind \in Greeting
      BY <2>2, <3>1, AppendGreets
    <3>3. Head(Append(s, m)) = Append(s, m)[1] /\ (s # <<>> => Append(s, m)[1] = s[1] /\ Head(s) = s[1])
      BY <3>1
    <3> QED
      BY <1>2, <2>2, <3>1, <3>2, <3>3 DEF Hello
  <2>3. CASE toServer'[c] \in Prefixes(toServer[c])
    BY <1>a, <1>2, <2>3, PrefixGreets DEF Hello, GreetInv, PlainTail
  <2> QED
    BY <1>1, <2>1, <2>2, <2>3 DEF Calm
<1> QED
  BY <1>2

LEMMA SourcePhone ==
  ASSUME TypeInv, GreetInv, Home, OneSource, NEW p \in Phones,
         Connects(p) \/ Hears(p) \/ Plays(p) \/ Fails(p)
  PROVE  OneSource'
<1> USE DEF OneSource
<1>a. /\ toServer \in [Conn -> Seq(ClientMessage)]
      /\ tries \in [Phones -> 0..MaxTries] /\ MaxTries \in Nat
  BY ProtocolAssumption DEF TypeInv, TypeOK, WireTypeOK, PhoneTypeOK
<1>b. UNCHANGED pc
  BY DEF Connects, Hears, Plays, Fails, serverVars, threads
<1>1. CASE Hears(p) \/ Plays(p) \/ Fails(p)
  <2>2. \A c \in Conn : Hello(c)' => Hello(c) /\ Head(toServer'[c]) = Head(toServer[c])
    BY <1>1, HelloPhone
  <2> QED
    BY <1>b, <2>2
<1>2. CASE Connects(p)
  <2>1. PICK hello : /\ OpenSocket(p, hello)
                     /\ hello.kind = "CONNECT" <=> tries[p] = 0
    BY <1>2 DEF Connects, ConnectServer, Reconnect, Say, Home
  <2>2. PICK n : n = NewSock(p)
    OBVIOUS
  <2>3. n \in Conn /\ (n \in Firsts <=> tries[p] = 0)
    BY <1>a, <2>1, <2>2 DEF OpenSocket, NewSock, Conn, Firsts
  <2>4. toServer'[n] = <<hello>> /\ \A c \in Conn \ {n} : toServer'[c] = toServer[c]
    BY <1>a, <2>1, <2>2, <2>3 DEF OpenSocket
  <2>5. Head(<<hello>>) = hello
    OBVIOUS
  <2>6. \A c \in Conn : Hello(c)' => (Head(toServer'[c]).kind = "CONNECT" <=> c \in Firsts)
    BY <2>1, <2>3, <2>4, <2>5 DEF Hello
  <2> QED
    BY <1>b, <2>6
<1> QED
  BY <1>1, <1>2

(* A phone that has not connected has found nothing; a connection that is  *)
(* up is the one its phone is using; the accept thread accepts as long as  *)
(* the server listens.                                                     *)
Unmet == \A p \in Phones : tries[p] = 0 => screen[p] = "none" /\ used[p].finds = 0

UpUsed == \A c \in Conn : link[c] = "up" => Attached(c)

Listens == listening => pc[Acceptor] = "accept"

StartInv == Home /\ Unmet /\ UpUsed /\ Listens /\ OneSource /\ Held(Firsts)

LEMMA ListensKept ==
  ASSUME NEW t \in Thread, ServerStep(t)
  PROVE  UNCHANGED listening
<1>1. CASE Broadcast(t)
  BY <1>1 DEF Broadcast, Open, IteratorFails, SendNext, SendFails, JoinReturns, Done
<1>2. CASE AcceptThread
  BY <1>2 DEF AcceptThread, Accept, StopAccepting, CloseClient, ClientClosed, AcceptorEnds,
     ClearPlayers
<1>3. CASE t \in Conn /\ HandlerThread(t)
  BY <1>3 DEF HandlerThread, Ignore, ReadFails, LeaveLoop, Disconnected, HandlerEnds,
     ReceiveConnect, AddPlayer, Greet, ReceiveReconnect, LookUpPlayer, DropHandler, AdoptPlayer,
     WelcomeBack, ReceiveReady, ReceiveStart, Begin, ReceiveRoomName, ReceiveFound,
     DeathMatchFind, MainGameFind, OpenDeathMatch, GameEnds
<1> QED
  BY <1>1, <1>2, <1>3 DEF ServerStep, ThreadStep

LEMMA ListensServer ==
  ASSUME TypeOK, Listens, NEW t \in Thread, ServerStep(t)
  PROVE  Listens'
<1> USE DEF Listens, wire, room
<1>a. /\ pc \in [Thread -> Location] /\ Conn \subseteq Thread
      /\ Acceptor \in Thread /\ Acceptor \notin Conn
  BY ServerAssumption DEF TypeOK, ServerTypeOK, Thread
<1>1. CASE t = Acceptor /\ AcceptThread
  BY <1>a, <1>1 DEF AcceptThread, Accept, StopAccepting, CloseClient, ClientClosed, AcceptorEnds,
     ClearPlayers, AllSent, Goto
<1>2. CASE Broadcast(t)
  BY <1>a, <1>2 DEF Broadcast, Open, IteratorFails, SendNext, SendFails, JoinReturns, Done,
     Sending, AllSent, Throw, Goto
<1>3. CASE t \in Conn /\ HandlerThread(t)
  <2>1. UNCHANGED listening
    BY ListensKept
  <2>2. pc'[Acceptor] = pc[Acceptor]
    BY <1>a, <1>3 DEF HandlerThread, Ignore, ReadFails, LeaveLoop, Disconnected, HandlerEnds,
       ReceiveConnect, AddPlayer, Greet, ReceiveReconnect, LookUpPlayer, DropHandler, AdoptPlayer,
       WelcomeBack, ReceiveReady, ReceiveStart, Begin, ReceiveRoomName, ReceiveFound,
       DeathMatchFind, MainGameFind, OpenDeathMatch, GameEnds, Reply, Throw, Ends, Goto
  <2> QED
    BY <2>1, <2>2
<1> QED
  BY <1>1, <1>2, <1>3 DEF ServerStep, ThreadStep

LEMMA UpServer ==
  ASSUME TypeOK, NEW t \in Thread, ServerStep(t)
  PROVE  \A c \in Conn : link'[c] = "up" => link[c] = "up"
<1>1. LinkStep(t) => \A c \in Conn : link'[c] = "up" => link[c] = "up"
  <2>1. \A c \in Conn : c = t /\ Ends(t) => link'[c] \in {"closed", "rst"}
    BY EndsLink
  <2> QED
    BY <2>1 DEF LinkStep
<1>2. AcceptorEnds => \A c \in Conn : link'[c] = "up" => link[c] = "up"
  BY DEF AcceptorEnds
<1> QED
  BY <1>1, <1>2, LinkServer

LEMMA UpPhone ==
  ASSUME TypeInv, GreetInv, UpUsed, NEW p \in Phones,
         Connects(p) \/ Hears(p) \/ Plays(p) \/ Fails(p)
  PROVE  UpUsed'
<1>a. /\ link \in [Conn -> LinkState] /\ tries \in [Phones -> 0..MaxTries]
      /\ stage \in [Phones -> Stage] /\ MaxTries \in Nat
  BY ProtocolAssumption DEF TypeInv, TypeOK, WireTypeOK, PhoneTypeOK
<1>1. CASE Connects(p)
  <2>1. PICK hello : OpenSocket(p, hello) /\ stage[p] # "run"
    BY <1>1 DEF Connects, ConnectServer, Reconnect
  <2>2. /\ tries' = [tries EXCEPT ![p] = @ + 1] /\ stage' = [stage EXCEPT ![p] = "run"]
        /\ link' = [link EXCEPT ![NewSock(p)] = "up"]
    BY <2>1 DEF OpenSocket
  <2>3. \A c \in Conn : c # NewSock(p) => link'[c] = link[c]
    BY <1>a, <2>2
  <2> QED
    BY <1>a, <2>1, <2>2, <2>3 DEF UpUsed, Attached, Online, Sock, NewSock, Owner, Conn
<1>2. ASSUME UNCHANGED tries,
             \A c \in Conn : link'[c] = "up" => link[c] = "up",
             \A q \in Phones \ {p} : stage'[q] = stage[q],
             stage'[p] = stage[p] \/ link'[Sock(p)] # "up"
      PROVE  UpUsed'
  BY <1>2 DEF UpUsed, Attached, Online, Sock, Owner, Conn
<1>3. ASSUME NEW unread, NetworkError(p, unread), UNCHANGED tries PROVE UpUsed'
  <2>1. /\ \A c \in Conn : link'[c] = "up" => link[c] = "up"
        /\ \A q \in Phones \ {p} : stage'[q] = stage[q]
    BY <1>a, <1>3 DEF NetworkError
  <2>2. Sock(p) \in Conn => link'[Sock(p)] # "up"
    BY <1>a, <1>3 DEF NetworkError
  <2> QED
    BY <1>a, <1>3, <2>1, <2>2 DEF UpUsed, Attached, Online, Sock, Owner, Conn
<1>4. CASE UNCHANGED <<link, stage, tries>>
  BY <1>4, <1>2
<1>5. CASE Hears(p)
  <2>1. UNCHANGED tries
    BY <1>5, CalmPhone
  <2>2. CASE HearStopped(p)
    <3>1. Sock(p) \in Conn
      BY <2>2, SockType DEF HearStopped, Hear, Online
    <3> QED
      BY <1>a, <1>2, <2>1, <2>2, <3>1 DEF HearStopped
  <2> QED
    BY <1>3, <1>4, <1>5, <2>1, <2>2 DEF Hears, ClientThread, HearPlayers, HearId, HearStart,
       HearFinished, HearDeathMatch, HearRoomName, HearNotReady, HearRefusal, Disconnection,
       phoneVars
<1>6. CASE Plays(p)
  BY <1>4, <1>6 DEF Plays, Player, ToggleReady, StartGame, SendRoomName, SetFound
<1>7. CASE Fails(p)
  <2>1. Sock(p) \in Conn
    BY <1>7, SockType DEF Fails, Failure, LinkReset, PhoneKilled, Online
  <2> QED
    BY <1>a, <1>2, <1>7, <2>1 DEF Fails, Failure, LinkReset, PhoneKilled
<1> QED
  BY <1>1, <1>5, <1>6, <1>7

LEMMA EarlyPhone ==
  ASSUME TypeInv, Home, Unmet, NEW p \in Phones,
         Connects(p) \/ Hears(p) \/ Plays(p) \/ Fails(p)
  PROVE  Home' /\ Unmet'
<1>a. /\ tries \in [Phones -> 0..MaxTries] /\ stage \in [Phones -> Stage] /\ MaxTries \in Nat
      /\ screen \in [Phones -> Screen] /\ used \in [Phones -> [Bounded -> Nat]]
  BY ProtocolAssumption DEF TypeInv, TypeOK, PhoneTypeOK
<1>1. CASE Connects(p)
  <2>1. /\ tries'[p] = tries[p] + 1 /\ stage'[p] = "run" /\ tries[p] \in Nat
        /\ \A q \in Phones \ {p} : /\ stage'[q] = stage[q] /\ tries'[q] = tries[q]
                                   /\ screen'[q] = screen[q] /\ used'[q] = used[q]
    BY <1>a, <1>1 DEF Connects, ConnectServer, Reconnect, OpenSocket
  <2> QED
    BY <2>1 DEF Home, Unmet
<1>2. ASSUME UNCHANGED tries, tries[p] # 0, stage'[p] # "home",
             \A q \in Phones \ {p} : /\ stage'[q] = stage[q] /\ screen'[q] = screen[q]
                                     /\ used'[q] = used[q]
      PROVE  Home' /\ Unmet'
  BY <1>a, <1>2 DEF Home, Unmet
<1>3. CASE Hears(p)
  <2>1. stage[p] = "run" /\ UNCHANGED <<tries, used>>
    BY <1>3 DEF Hears, ClientThread, HearPlayers, HearId, HearStart, HearFinished,
       HearDeathMatch, HearStopped, HearRoomName, HearNotReady, HearRefusal, Disconnection,
       Hear, Online, phoneVars
  <2>2. /\ stage'[p] # "home"
        /\ \A q \in Phones \ {p} : stage'[q] = stage[q] /\ screen'[q] = screen[q]
    BY <1>a, <1>3, <2>1 DEF Hears, ClientThread, HearPlayers, HearId, HearStart, HearFinished,
       HearDeathMatch, HearStopped, HearRoomName, HearNotReady, HearRefusal, Disconnection,
       NetworkError, phoneVars
  <2> QED
    BY <1>2, <2>1, <2>2 DEF Home
<1>4. CASE Plays(p)
  <2>1. screen[p] \in {"lobby", "game"} /\ UNCHANGED <<tries, stage>>
    BY <1>4 DEF Plays, Player, ToggleReady, StartGame, SendRoomName, SetFound
  <2>2. \A q \in Phones \ {p} : screen'[q] = screen[q] /\ used'[q] = used[q]
    BY <1>a, <1>4 DEF Plays, Player, ToggleReady, StartGame, SendRoomName, SetFound, Spend
  <2> QED
    BY <1>2, <2>1, <2>2 DEF Home, Unmet
<1>5. CASE Fails(p)
  BY <1>a, <1>2, <1>5 DEF Fails, Failure, LinkReset, PhoneKilled, Spend, Online, Home
<1> QED
  BY <1>1, <1>3, <1>4, <1>5

LEMMA StartInit == Init => StartInv
<1> SUFFICES ASSUME Init PROVE StartInv
  OBVIOUS
<1>1. /\ \A c \in Conn : link[c] = "none" /\ toServer[c] = <<>> /\ pc[c] = "off"
      /\ \A c \in Conn : players[c] = None
      /\ \A t \in Thread : ref[t] = None
      /\ pc[Acceptor] = "accept"
  BY ServerAssumption DEF Init, WireInit, ServerInit, Thread
<1>2. /\ \A p \in Phones : /\ stage[p] = "home" /\ tries[p] = 0 /\ screen[p] = "none"
                           /\ used[p].finds = 0
  BY DEF Init, PhoneInit, Bounded
<1> QED
  BY <1>1, <1>2 DEF StartInv, Home, Unmet, UpUsed, Listens, OneSource, Hello, Held

LEMMA StartNext ==
  ASSUME TypeInv, IdThreads, GreetInv, StartInv, [Next]_vars
  PROVE  StartInv'
<1> USE DEF StartInv
<1>a. TypeOK /\ Unopened
  BY DEF TypeInv, GreetInv
<1>1. ASSUME NEW t \in Thread, ServerStep(t) PROVE StartInv'
  <2>1. Home' /\ Unmet'
    BY <1>1 DEF ServerStep, phoneVars, Home, Unmet
  <2>2. \A c \in Conn : link'[c] = "up" => link[c] = "up"
    BY <1>a, <1>1, UpServer
  <2>3. UpUsed'
    BY <1>1, <2>2 DEF ServerStep, phoneVars, UpUsed, Attached, Online, Sock
  <2>4. Listens' /\ OneSource'
    BY <1>a, <1>1, ListensServer, SourceServer
  <2>5. \A h \in Conn : AddPlayer(h) => h \in Firsts
    BY DEF AddPlayer, OneSource
  <2>6. Held(Firsts)'
    BY <1>a, <1>1, <2>5, HeldServer
  <2> QED
    BY <2>1, <2>3, <2>4, <2>6
<1>2. ASSUME NEW p \in Phones, Connects(p) \/ Hears(p) \/ Plays(p) \/ Fails(p) PROVE StartInv'
  <2>1. Home' /\ Unmet' /\ UpUsed' /\ OneSource'
    BY <1>2, EarlyPhone, UpPhone, SourcePhone
  <2>2. UNCHANGED <<listening, pc, players, ref>>
    BY <1>2 DEF Connects, Hears, Plays, Fails, serverVars, threads, room
  <2> QED
    BY <2>1, <2>2 DEF Listens, Held
<1>3. CASE /\ UNCHANGED <<wire, players, ref, pc, phoneVars>>
           /\ UNCHANGED listening \/ listening' = FALSE
  BY <1>3 DEF Home, Unmet, UpUsed, Attached, Online, Sock, Listens, OneSource, Hello, Held, wire,
     phoneVars
<1> QED
  BY <1>1, <1>2, <1>3 DEF Next, HostStops, StopListening, room, vars, serverVars, threads

-----------------------------------------------------------------------------
(* The account of a phone: what it was credited and what is on its way. *)

Found(p) == stats[First(p)].found

Balance(p) == IsFiniteSet(Marks(p)) /\ Found(p) + Cardinality(Marks(p)) <= used[p].finds

(* The phone has used one connection, which is up, in a room that listens: *)
(* nothing is lost as long as it waits for its player or has it.           *)
InOrder(p) == tries[p] = 1 /\ link[First(p)] = "up" /\ listening

Serving(c) == Hello(c) \/ pc[c] = "put" \/ players[c] = c

Exact(p) ==
  InOrder(p) /\ Serving(First(p)) => Found(p) + Cardinality(Marks(p)) = used[p].finds

(* It has its player, or knows no id and never will know one before it has. *)
Assured(p) ==
  tries[p] = 1 /\ listening =>
    \/ players[First(p)] = First(p)
    \/ Held(Conn \ {First(p)}) /\ Named(Conn \ {First(p)})

LEMMA FirstConn ==
  /\ \A p \in Phones : First(p) \in Firsts /\ Owner(First(p)) = p
  /\ \A c \in Firsts : c \in Conn /\ Owner(c) \in Phones /\ c = First(Owner(c))
<1>1. 1 \in 1..MaxTries
  BY ProtocolAssumption
<1> QED
  BY <1>1 DEF First, Firsts, Conn, Owner

(* A find that is read on a connection with a player is credited.          *)
LEMMA FindRead ==
  ASSUME TypeOK, NEW h \in Conn, ServerStep(h), Joined(h), toServer[h] # <<>>,
         toServer' # toServer, Head(toServer[h]).kind = "ANAM-FOUND"
  PROVE  ReceiveFound(h)
<1>1. UNCHANGED toServer \/ ReceiveFound(h)
  <2>1. CASE Broadcast(h)
    BY <2>1 DEF Broadcast, Open, IteratorFails, SendNext, SendFails, JoinReturns, Done, wire
  <2>2. CASE HandlerThread(h)
    BY <2>2 DEF HandlerThread, Ignore, ReadFails, LeaveLoop, Disconnected, HandlerEnds,
       ReceiveConnect, AddPlayer, Greet, ReceiveReconnect, LookUpPlayer, DropHandler, AdoptPlayer,
       WelcomeBack, ReceiveReady, ReceiveStart, Begin, ReceiveRoomName, DeathMatchFind,
       MainGameFind, OpenDeathMatch, GameEnds, Take, wire
  <2> QED
    BY <2>1, <2>2, ServerAssumption DEF ServerStep, ThreadStep
<1> QED
  BY <1>1

LEMMA ReadsOne ==
  ASSUME TypeOK, GreetInv, NEW t \in Thread, ServerStep(t)
  PROVE  \/ UNCHANGED toServer
         \/ \E c \in Conn : /\ c = t /\ toServer[c] # <<>>
                           /\ toServer' = [toServer EXCEPT ![c] = Tail(@)]
<1>1. CASE \A c \in Conn : toServer'[c] = toServer[c]
  <2>1. toServer \in [Conn -> Seq(ClientMessage)] /\ toServer' \in [Conn -> Seq(ClientMessage)]
    BY ServerStepType DEF TypeOK, WireTypeOK
  <2> QED
    BY <1>1, <2>1
<1> QED
  BY <1>1, HelloServer

(* What a step of the server does to the finds credited to a phone.        *)
LEMMA FoundServer ==
  ASSUME TypeOK, GreetInv, IdMap, Held(Firsts), NEW t \in Thread, ServerStep(t), NEW p \in Phones
  PROVE  \/ Found(p)' = Found(p)
         \/ t \in Conn /\ Owner(t) = p /\ ReceiveFound(t) /\ Found(p)' = Found(p) + 1
         \/ AddPlayer(First(p)) /\ Found(p)' = 0
<1>a. /\ stats \in [Conn -> PlayerInfo] /\ Acceptor \notin Conn
      /\ First(p) \in Conn /\ First(p) \in Firsts
  BY FirstConn, ServerAssumption DEF TypeOK, ServerTypeOK
<1>1. CASE Quiet(t)
  BY <1>a, <1>1 DEF Quiet, Found
<1>2. CASE t \in Conn /\ Enters(t)
  BY <1>a, <1>2 DEF Found, Enters, ReceiveConnect, AddPlayer, ReceiveReconnect,
     LookUpPlayer, DropHandler, AdoptPlayer, room, NewPlayer, PlayerInfo
<1>3. CASE t \in Conn /\ ReceiveFound(t)
  <2>1. PICK id \in Conn : id = players[t] /\ id = First(Owner(t))
    BY <1>3, FirstConn, ProtocolAssumption DEF ReceiveFound, Joined, IdMap, Held
  <2>2. stats' = [stats EXCEPT ![id].found = @ + 1, ![id].score = @ + Arg(t)]
    BY <1>3, <2>1 DEF ReceiveFound
  <2>3. CASE id = First(p)
    <3>1. stats'[id].found = stats[id].found + 1
      BY <1>a, <2>2 DEF PlayerInfo
    <3>2. Owner(t) = p
      BY <2>1, <2>3 DEF First
    <3> QED
      BY <1>3, <2>3, <3>1, <3>2 DEF Found
  <2>4. CASE id # First(p)
    BY <1>a, <2>2, <2>4 DEF Found
  <2> QED
    BY <2>3, <2>4
<1>4. CASE ClearPlayers \/ \E c \in Conn : Accept(c)
  BY <1>4 DEF ClearPlayers, Accept, room, Found
<1> QED
  BY <1>1, <1>2, <1>3, <1>4, ServerSteps DEF GreetInv

LEMMA BalanceServer ==
  ASSUME TypeOK, GreetInv, IdMap, Held(Firsts), NEW t \in Thread, ServerStep(t),
         NEW p \in Phones, Balance(p)
  PROVE  Balance(p)'
<1> USE DEF Balance
<1>a. /\ stats \in [Conn -> PlayerInfo] /\ Acceptor \notin Conn
      /\ used \in [Phones -> [Bounded -> Nat]] /\ "finds" \in Bounded
  BY ServerAssumption DEF TypeOK, ServerTypeOK, PhoneTypeOK, Bounded
<1>b. First(p) \in Conn /\ First(p) \in Firsts /\ UNCHANGED used
  BY FirstConn DEF ServerStep, phoneVars
<1>c. used[p].finds \in Nat /\ Found(p) \in Nat
  BY <1>a, <1>b DEF Found, PlayerInfo
<1>1. /\ IsFiniteSet(Marks(p)') /\ Cardinality(Marks(p)) \in Nat
      /\ Cardinality(Marks(p)') \in Nat /\ Cardinality(Marks(p)') <= Cardinality(Marks(p))
      /\ t \in Conn /\ Owner(t) = p /\ ReceiveFound(t)
           => Cardinality(Marks(p)') + 1 = Cardinality(Marks(p))
  <2>1. CASE UNCHANGED toServer
    <3>1. Marks(p)' = Marks(p)
      BY <2>1 DEF Marks
    <3>2. t \in Conn => ~ReceiveFound(t)
      BY <2>1 DEF ReceiveFound, Take, TypeOK, WireTypeOK
    <3> QED
      BY <3>1, <3>2, FS_CardinalityType
  <2>2. ASSUME NEW c \in Conn, c = t, toServer[c] # <<>>,
               toServer' = [toServer EXCEPT ![c] = Tail(@)]
        PROVE  /\ IsFiniteSet(Marks(p)') /\ Cardinality(Marks(p)) \in Nat
               /\ Cardinality(Marks(p)') \in Nat
               /\ Cardinality(Marks(p)') <= Cardinality(Marks(p))
               /\ t \in Conn /\ Owner(t) = p /\ ReceiveFound(t)
                    => Cardinality(Marks(p)') + 1 = Cardinality(Marks(p))
    <3>1. /\ IsFiniteSet(Marks(p)')
          /\ Owner(c) = p /\ Head(toServer[c]).kind = "ANAM-FOUND"
              => Cardinality(Marks(p)') + 1 = Cardinality(Marks(p))
          /\ ~(Owner(c) = p /\ Head(toServer[c]).kind = "ANAM-FOUND")
              => Cardinality(Marks(p)') = Cardinality(Marks(p))
      BY <2>2, MarksRead
    <3>2. Cardinality(Marks(p)') \in Nat /\ Cardinality(Marks(p)) \in Nat
      BY <3>1, FS_CardinalityType
    <3>3. ReceiveFound(c) => Head(toServer[c]).kind = "ANAM-FOUND"
      BY DEF ReceiveFound, Take
    <3> QED
      BY <2>2, <3>1, <3>2, <3>3
  <2> QED
    BY <2>1, <2>2, ReadsOne
<1>2. Found(p)' <= Found(p) \/ (t \in Conn /\ Owner(t) = p /\ ReceiveFound(t) /\ Found(p)' = Found(p) + 1)
  BY <1>c, FoundServer
<1>3. Found(p)' \in Nat
  <2>1. stats' \in [Conn -> PlayerInfo]
    BY ServerStepType DEF TypeOK, ServerTypeOK
  <2> QED
    BY <1>b, <2>1 DEF Found, PlayerInfo
<1>4. Found(p)' + Cardinality(Marks(p)') <= Found(p) + Cardinality(Marks(p))
  BY <1>c, <1>1, <1>2, <1>3
<1> QED
  BY <1>b, <1>c, <1>1, <1>3, <1>4

(* What playing does to the finds of a phone.                              *)
LEMMA MarksPlayed ==
  ASSUME TypeInv, NEW q \in Phones, NEW m \in ClientMessage, Send(q, m),
         NEW p \in Phones, IsFiniteSet(Marks(p))
  PROVE  /\ IsFiniteSet(Marks(p)')
         /\ p = q /\ m.kind = "ANAM-FOUND" /\ Online(q) /\ link[Sock(q)] = "up"
              => Cardinality(Marks(p)') = Cardinality(Marks(p)) + 1
         /\ ~(p = q /\ m.kind = "ANAM-FOUND" /\ Online(q) /\ link[Sock(q)] = "up")
              => Cardinality(Marks(p)') = Cardinality(Marks(p))
<1>a. TypeOK /\ Owner(Sock(q)) = q
  BY DEF TypeInv, Sock, Owner
<1>1. CASE Online(q) /\ link[Sock(q)] = "up"
  <2>1. Sock(q) \in Conn
    BY <1>1, SockType DEF Online
  <2>2. toServer' = [toServer EXCEPT ![Sock(q)] = Append(@, m)]
    BY <1>1 DEF Send
  <2>3. PICK c \in Conn : c = Sock(q) /\ toServer' = [toServer EXCEPT ![c] = Append(@, m)]
    BY <2>1, <2>2
  <2>4. /\ IsFiniteSet(Marks(p)')
        /\ Owner(c) = p /\ m.kind = "ANAM-FOUND"
             => Cardinality(Marks(p)') = Cardinality(Marks(p)) + 1
        /\ ~(Owner(c) = p /\ m.kind = "ANAM-FOUND") => Marks(p)' = Marks(p)
    BY <1>a, <2>3, MarksSent
  <2> QED
    BY <1>1, <1>a, <2>3, <2>4
<1>2. CASE ~(Online(q) /\ link[Sock(q)] = "up")
  <2>1. Marks(p)' = Marks(p)
    BY <1>2 DEF Send, Marks
  <2> QED
    BY <1>2, <2>1
<1> QED
  BY <1>1, <1>2

(* The player of a phone sends one message, a find or not.                 *)
Finding(q, b, m) ==
  /\ b \in Bounded /\ m \in ClientMessage
  /\ Spend(q, b) /\ Send(q, m) /\ UNCHANGED <<link, toClient, tries, stage>>
  /\ b = "finds" <=> m.kind = "ANAM-FOUND"
  /\ b = "finds" => screen[q] = "game"

LEMMA PlayFinds ==
  ASSUME NEW q \in Phones, Plays(q)
  PROVE  \E b \in Bounded, m \in ClientMessage : Finding(q, b, m)
<1> USE DEF Finding, Bounded, ClientMessage, Say
<1>1. CASE ToggleReady(q)
  BY <1>1 DEF ToggleReady
<1>2. CASE StartGame(q)
  BY <1>2 DEF StartGame
<1>3. ASSUME NEW name \in RoomNames, SendRoomName(q, name) PROVE Finding(q, "renames", Say("ROOM-NAME", name))
  BY <1>3 DEF SendRoomName
<1>4. ASSUME NEW value \in Values, SetFound(q, value) PROVE Finding(q, "finds", Say("ANAM-FOUND", value))
  BY <1>4 DEF SetFound
<1> QED
  BY <1>1, <1>2, <1>3, <1>4 DEF Plays, Player

LEMMA SpendFinds ==
  ASSUME TypeOK, NEW q \in Phones, NEW b \in Bounded, Spend(q, b), NEW p \in Phones
  PROVE  /\ used[p].finds \in Nat
         /\ used'[p].finds = IF p = q /\ b = "finds" THEN used[p].finds + 1 ELSE used[p].finds
<1>1. used \in [Phones -> [Bounded -> Nat]] /\ "finds" \in Bounded
  BY DEF TypeOK, PhoneTypeOK, Bounded
<1> QED
  BY <1>1 DEF Spend

LEMMA BalancePhone ==
  ASSUME TypeInv, GreetInv, NEW q \in Phones, Connects(q) \/ Hears(q) \/ Plays(q) \/ Fails(q),
         NEW p \in Phones, Balance(p)
  PROVE  Balance(p)'
<1> USE DEF Balance
<1>a. TypeOK /\ First(p) \in Conn
  BY FirstConn DEF TypeInv, Firsts
<1>b. /\ Found(p)' = Found(p) /\ Found(p) \in Nat
      /\ used[p].finds \in Nat /\ Cardinality(Marks(p)) \in Nat
  <2>1. UNCHANGED stats /\ stats \in [Conn -> PlayerInfo] /\ used \in [Phones -> [Bounded -> Nat]]
        /\ "finds" \in Bounded
    BY <1>a DEF Connects, Hears, Plays, Fails, serverVars, room, TypeOK, ServerTypeOK,
       PhoneTypeOK, Bounded
  <2> QED
    BY <1>a, <2>1, FS_CardinalityType DEF Found, PlayerInfo
<1>1. ASSUME IsFiniteSet(Marks(p)'), Cardinality(Marks(p)') <= Cardinality(Marks(p)),
             used'[p].finds = used[p].finds
      PROVE  Balance(p)'
  <2>1. Cardinality(Marks(p)') \in Nat
    BY <1>1, FS_CardinalityType
  <2> QED
    BY <1>b, <1>1, <2>1
<1>2. CASE Connects(q)
  <2>1. PICK hello : OpenSocket(q, hello) /\ hello.kind # "ANAM-FOUND" /\ UNCHANGED used
    BY <1>2 DEF Connects, ConnectServer, Reconnect, Say
  <2>2. PICK n : n = NewSock(q)
    OBVIOUS
  <2>3. /\ toServer' = [toServer EXCEPT ![n] = <<hello>>]
        /\ toServer \in [Conn -> Seq(ClientMessage)]
    BY <1>a, <2>1, <2>2 DEF OpenSocket, TypeOK, WireTypeOK
  <2>4. ASSUME NEW c \in Conn, NEW i \in DOMAIN toServer'[c], toServer'[c][i].kind = "ANAM-FOUND"
        PROVE  i \in DOMAIN toServer[c] /\ toServer'[c][i] = toServer[c][i]
    <3>1. CASE c = n
      <4>1. toServer'[c] = <<hello>>
        BY <2>3, <3>1
      <4>2. i = 1 /\ toServer'[c][i] = hello
        BY <2>4, <4>1
      <4> QED
        BY <2>1, <2>4, <4>2
    <3> QED
      BY <2>3, <2>4, <3>1
  <2> QED
    BY <1>1, <2>1, <2>4, MarksFewer
<1>3. CASE Hears(q)
  <2>1. UNCHANGED <<toServer, used>>
    BY <1>3 DEF Hears, ClientThread, HearPlayers, HearId, HearStart, HearFinished,
       HearDeathMatch, HearStopped, HearRoomName, HearNotReady, HearRefusal, Disconnection,
       phoneVars
  <2>2. Marks(p)' = Marks(p)
    BY <2>1 DEF Marks
  <2> QED
    BY <1>b, <2>1, <2>2
<1>4. CASE Plays(q)
  <2>1. PICK b \in Bounded, m \in ClientMessage : Finding(q, b, m)
    BY <1>4, PlayFinds
  <2>2. /\ IsFiniteSet(Marks(p)')
        /\ Cardinality(Marks(p)') = Cardinality(Marks(p))
           \/ (/\ p = q /\ b = "finds"
               /\ Cardinality(Marks(p)') = Cardinality(Marks(p)) + 1)
    BY <2>1, MarksPlayed DEF Finding
  <2>3. used'[p].finds = IF p = q /\ b = "finds" THEN used[p].finds + 1 ELSE used[p].finds
    BY <1>a, <2>1, SpendFinds DEF Finding
  <2> QED
    BY <1>b, <2>2, <2>3
<1>5. CASE Fails(q)
  <2>1. \A c \in Conn : toServer'[c] = toServer[c] \/ toServer'[c] \in Prefixes(toServer[c])
    BY <1>a, <1>5 DEF Fails, Failure, LinkReset, PhoneKilled, TypeOK, WireTypeOK
  <2>2. Spend(q, "breaks") /\ "breaks" \in Bounded
    BY <1>5 DEF Fails, Failure, LinkReset, PhoneKilled, Bounded
  <2>3. used'[p].finds = used[p].finds
    BY <1>a, <2>2, SpendFinds
  <2> QED
    BY <1>1, <1>a, <2>1, <2>3, MarksLost
<1> QED
  BY <1>2, <1>3, <1>4, <1>5

-----------------------------------------------------------------------------
(* As long as the one connection of a phone is in order, none is lost. *)

LEMMA ReadsAtLoop ==
  ASSUME NEW t \in Thread, ServerStep(t), toServer' # toServer
  PROVE  t \in Conn /\ pc[t] = "read"
<1>1. CASE Broadcast(t)
  BY <1>1 DEF Broadcast, Open, IteratorFails, SendNext, SendFails, JoinReturns, Done, wire
<1>2. CASE AcceptThread
  BY <1>2 DEF AcceptThread, Accept, StopAccepting, CloseClient, ClientClosed, AcceptorEnds,
     ClearPlayers, wire
<1>3. CASE t \in Conn /\ HandlerThread(t)
  BY <1>3 DEF HandlerThread, Ignore, ReadFails, LeaveLoop, Disconnected, HandlerEnds,
     ReceiveConnect, AddPlayer, Greet, ReceiveReconnect, LookUpPlayer, DropHandler, AdoptPlayer,
     WelcomeBack, ReceiveReady, ReceiveStart, Begin, ReceiveRoomName, ReceiveFound,
     DeathMatchFind, MainGameFind, OpenDeathMatch, GameEnds, Take, wire
<1> QED
  BY <1>1, <1>2, <1>3 DEF ServerStep, ThreadStep

(* A first connection is served from its greeting on.                      *)
LEMMA ServingServer ==
  ASSUME TypeOK, GreetInv, OneSource, NEW t \in Thread, ServerStep(t),
         NEW c \in Firsts, Serving(c)'
  PROVE  Serving(c)
<1>a. /\ c \in Conn /\ Conn \subseteq Thread /\ Acceptor \notin Conn
      /\ pc \in [Thread -> Location] /\ players \in [Conn -> Conn \cup {None, Null}]
  BY ServerAssumption DEF TypeOK, ServerTypeOK, Firsts, Thread
<1>1. Hello(c)' => Hello(c)
  BY <1>a, HelloServer
<1>2. pc'[c] = "put" => pc[c] = "put" \/ Hello(c)
  <2>1. CASE Quiet(t)
    BY <1>a, <2>1 DEF Quiet, Others, Entering
  <2>2. CASE t \in Conn /\ ReceiveConnect(t)
    <3>1. Hello(t)
      BY <2>2 DEF ReceiveConnect, Take, Hello, Greeting
    <3>2. \A u \in Thread \ {t} : pc'[u] = pc[u]
      BY <1>a, <2>2 DEF ReceiveConnect, Reply, Goto
    <3> QED
      BY <1>a, <3>1, <3>2
  <2>3. CASE t \in Conn /\ ReceiveReconnect(t)
    <3>1. /\ \A u \in Thread \ {t} : pc'[u] = pc[u]
          /\ pc'[t] \in {"lookup", "join", "dead", "final"} \cup {Back(t)}
      BY <1>a, <2>3 DEF ReceiveReconnect, Reply, Goto, Throw
    <3> QED
      BY <1>a, <3>1, BackFrom DEF Entering
  <2>4. CASE /\ t \in Conn
             /\ \/ AddPlayer(t) \/ LookUpPlayer(t) \/ DropHandler(t) \/ AdoptPlayer(t)
                \/ ReceiveFound(t)
    BY <1>a, <2>4 DEF AddPlayer, LookUpPlayer, DropHandler, AdoptPlayer, ReceiveFound, Goto
  <2>5. CASE ClearPlayers \/ \E d \in Conn : Accept(d)
    BY <1>a, <2>5 DEF ClearPlayers, Accept, Goto
  <2> QED
    BY <2>1, <2>2, <2>3, <2>4, <2>5, ServerSteps DEF Enters, GreetInv
<1>3. players'[c] = c => players[c] = c \/ pc[c] = "put"
  <2>1. CASE Quiet(t)
    BY <2>1 DEF Quiet
  <2>2. CASE t \in Conn /\ (ReceiveConnect(t) \/ ReceiveReconnect(t) \/ LookUpPlayer(t)
                            \/ ReceiveFound(t))
    BY <2>2 DEF ReceiveConnect, ReceiveReconnect, LookUpPlayer, ReceiveFound, room
  <2>3. CASE t \in Conn /\ (AddPlayer(t) \/ DropHandler(t))
    BY <1>a, <2>3, ProtocolAssumption DEF AddPlayer, DropHandler
  <2>4. CASE t \in Conn /\ AdoptPlayer(t)
    <3>1. t \notin Firsts /\ players' = [players EXCEPT ![t] = ref[t]]
      BY <2>4 DEF AdoptPlayer, OneSource
    <3> QED
      BY <1>a, <3>1
  <2>5. CASE ClearPlayers \/ \E d \in Conn : Accept(d)
    BY <1>a, <2>5, ProtocolAssumption DEF ClearPlayers, Accept, room
  <2> QED
    BY <2>1, <2>2, <2>3, <2>4, <2>5, ServerSteps DEF Enters, GreetInv
<1> QED
  BY <1>1, <1>2, <1>3 DEF Serving

LEMMA ExactServer ==
  ASSUME TypeOK, GreetInv, IdMap, MapInv, StartInv, NEW t \in Thread, ServerStep(t),
         NEW p \in Phones, Balance(p), Exact(p)
  PROVE  Exact(p)'
<1> SUFFICES ASSUME InOrder(p)', Serving(First(p))'
             PROVE  Found(p)' + Cardinality(Marks(p)') = used'[p].finds
  BY DEF Exact
<1>a. /\ First(p) \in Conn /\ First(p) \in Firsts /\ UNCHANGED <<used, tries>>
      /\ \A c \in Conn : Owner(c) = p => \E n \in 1..MaxTries : c = <<p, n>>
  BY FirstConn DEF ServerStep, phoneVars, Conn, Owner
<1>b. Held(Firsts) /\ OneSource
  BY DEF StartInv
<1>c. InOrder(p)
  <2>1. listening' => listening
    <3>1. UNCHANGED listening
      BY ListensKept
    <3> QED
      BY <3>1
  <2> QED
    BY <1>a, <2>1, UpServer DEF InOrder
<1>d. Serving(First(p))
  BY <1>a, <1>b, ServingServer
<1>e. Found(p) + Cardinality(Marks(p)) = used[p].finds
  BY <1>c, <1>d DEF Exact
<1>f. Found(p) \in Nat /\ Cardinality(Marks(p)) \in Nat
  <2>1. stats[First(p)] \in PlayerInfo
    BY <1>a DEF TypeOK, ServerTypeOK
  <2> QED
    BY <2>1, FS_CardinalityType DEF Found, PlayerInfo, Balance
<1>g. ~(AddPlayer(First(p)) /\ Found(p)' = 0) \/ Found(p)' = Found(p)
  <2>1. AddPlayer(First(p)) => Found(p) = 0
    BY <1>a DEF AddPlayer, MapInv, NoGain, New, Entering, Found
  <2> QED
    BY <2>1
<1>1. CASE UNCHANGED toServer
  <2>1. Marks(p)' = Marks(p)
    BY <1>1 DEF Marks
  <2>2. t \in Conn => ~ReceiveFound(t)
    BY <1>1 DEF ReceiveFound, Take, TypeOK, WireTypeOK
  <2>3. Found(p)' = Found(p)
    BY <1>b, <1>g, <2>2, FoundServer
  <2> QED
    BY <1>a, <1>e, <2>1, <2>3
<1>2. ASSUME toServer' # toServer, NEW c \in Conn, c = t, toServer[c] # <<>>,
             toServer' = [toServer EXCEPT ![c] = Tail(@)]
      PROVE  Found(p)' + Cardinality(Marks(p)') = used'[p].finds
  <2>1. /\ IsFiniteSet(Marks(p)')
        /\ Owner(c) = p /\ Head(toServer[c]).kind = "ANAM-FOUND"
            => Cardinality(Marks(p)') + 1 = Cardinality(Marks(p))
        /\ ~(Owner(c) = p /\ Head(toServer[c]).kind = "ANAM-FOUND")
            => Cardinality(Marks(p)') = Cardinality(Marks(p))
    BY <1>2, MarksRead DEF Balance
  <2>2. pc[c] = "read"
    BY <1>2, ReadsAtLoop
  <2>3. ~AddPlayer(First(p)) \/ Found(p)' = Found(p)
    <3>1. AddPlayer(First(p)) => UNCHANGED toServer
      BY DEF AddPlayer, wire
    <3> QED
      BY <1>2, <3>1
  <2>4. CASE ~(Owner(c) = p /\ Head(toServer[c]).kind = "ANAM-FOUND")
    <3>1. ~(Owner(t) = p /\ ReceiveFound(t))
      BY <1>2, <2>4 DEF ReceiveFound, Take
    <3>2. Found(p)' = Found(p)
      BY <1>b, <2>3, <3>1, FoundServer
    <3> QED
      BY <1>a, <1>e, <2>1, <2>4, <3>2
  <2>5. CASE Owner(c) = p /\ Head(toServer[c]).kind = "ANAM-FOUND"
    <3>1. c = First(p)
      <4>1. PICK n \in 1..MaxTries : c = <<p, n>>
        BY <1>a, <2>5
      <4>2. ~(n > 1)
        <5>1. n > 1 => link[<<p, n>>] = "none"
          BY <1>c DEF GreetInv, NextTry, InOrder
        <5> QED
          BY <2>2, <4>1, <5>1 DEF GreetInv, Unopened
      <4> QED
        BY <4>1, <4>2 DEF First
    <3>2. Joined(c)
      <4>1. ~Hello(c) /\ pc[c] # "put"
        BY <2>2, <2>5 DEF Hello, Greeting
      <4> QED
        BY <1>d, <3>1, <4>1 DEF Serving, Joined
    <3>3. ReceiveFound(c)
      <4>1. ServerStep(c)
        BY <1>2
      <4> QED
        BY <1>2, <2>5, <3>2, <4>1, FindRead
    <3>4. Found(p)' = Found(p) + 1
      <4>1. players[c] = c
        BY <1>d, <2>2, <2>5, <3>1 DEF Serving, Hello, Greeting
      <4>2. stats' = [stats EXCEPT ![c].found = @ + 1, ![c].score = @ + Arg(c)]
        BY <3>3, <4>1 DEF ReceiveFound
      <4>3. stats \in [Conn -> PlayerInfo]
        BY DEF TypeOK, ServerTypeOK
      <4> QED
        BY <3>1, <4>2, <4>3 DEF Found, PlayerInfo
    <3> QED
      <4>1. /\ Cardinality(Marks(p)') + 1 = Cardinality(Marks(p))
            /\ Cardinality(Marks(p)') \in Nat
        BY <2>1, <2>5, FS_CardinalityType
      <4> QED
        BY <1>a, <1>e, <1>f, <3>4, <4>1
  <2> QED
    BY <2>4, <2>5
<1> QED
  BY <1>1, <1>2, ReadsOne

LEMMA ExactPhone ==
  ASSUME TypeInv, GreetInv, StartInv, NEW q \in Phones,
         Connects(q) \/ Hears(q) \/ Plays(q) \/ Fails(q),
         NEW p \in Phones, Balance(p), Exact(p)
  PROVE  Exact(p)'
<1> SUFFICES ASSUME InOrder(p)', Serving(First(p))'
             PROVE  Found(p)' + Cardinality(Marks(p)') = used'[p].finds
  BY DEF Exact
<1>a. /\ First(p) \in Conn /\ Owner(First(p)) = p /\ TypeOK
      /\ tries \in [Phones -> 0..MaxTries] /\ link \in [Conn -> LinkState]
      /\ used \in [Phones -> [Bounded -> Nat]] /\ "finds" \in Bounded
  BY FirstConn DEF TypeInv, TypeOK, WireTypeOK, PhoneTypeOK, Firsts, Bounded
<1>b. UNCHANGED serverVars /\ Found(p)' = Found(p)
  BY DEF Connects, Hears, Plays, Fails, serverVars, room, Found
<1>c. Balance(p)'
  BY BalancePhone
<1>d. /\ Found(p) \in Nat /\ Cardinality(Marks(p)) \in Nat /\ Cardinality(Marks(p)') \in Nat
      /\ used[p].finds \in Nat
  <2>1. stats[First(p)] \in PlayerInfo
    BY <1>a DEF TypeOK, ServerTypeOK
  <2> QED
    BY <1>a, <1>c, <2>1, FS_CardinalityType DEF Found, PlayerInfo, Balance
<1>1. ASSUME InOrder(p), Serving(First(p)), Marks(p)' = Marks(p), used'[p].finds = used[p].finds
      PROVE  Found(p)' + Cardinality(Marks(p)') = used'[p].finds
  BY <1>1, <1>b DEF Exact
<1>2. UNCHANGED <<pc, players, listening>>
  BY <1>b DEF serverVars, threads, room
<1>3. CASE Connects(q)
  <2>1. PICK hello : /\ OpenSocket(q, hello) /\ UNCHANGED used
    BY <1>3 DEF Connects, ConnectServer, Reconnect
  <2>2. /\ tries' = [tries EXCEPT ![q] = @ + 1]
        /\ link' = [link EXCEPT ![NewSock(q)] = "up"]
        /\ toServer' = [toServer EXCEPT ![NewSock(q)] = <<hello>>]
    BY <2>1 DEF OpenSocket
  <2>3. CASE p = q
    <3>1. tries[p] = 0
      BY <1>a, <2>2, <2>3, ProtocolAssumption DEF InOrder
    <3>2. used'[p].finds = 0
      BY <2>1, <3>1 DEF StartInv, Unmet
    <3> QED
      BY <1>b, <1>c, <1>d, <3>2 DEF Balance
  <2>4. CASE p # q
    <3>1. \A c \in Conn : Owner(c) = p => toServer'[c] = toServer[c] /\ link'[c] = link[c]
      BY <1>a, <2>2, <2>4 DEF NewSock, Owner, TypeOK, WireTypeOK
    <3>2. Marks(p)' = Marks(p)
      BY <3>1, MarksOther
    <3>3. InOrder(p) /\ Serving(First(p))
      BY <1>a, <1>2, <2>2, <2>4, <3>1 DEF InOrder, Serving, Hello
    <3> QED
      BY <1>1, <2>1, <3>2, <3>3
  <2> QED
    BY <2>3, <2>4
<1>4. CASE Hears(q) \/ Plays(q) \/ Fails(q)
  <2>1. Serving(First(p))
    BY <1>a, <1>2, <1>4, HelloPhone DEF Serving
  <2>2. InOrder(p)
    <3>1. UNCHANGED tries
      BY <1>4, CalmPhone
    <3>2. PhoneLink(q, First(p))
      BY <1>a, LinkPhone
    <3>3. ~Connects(q)
      BY <1>a, <3>1, ProtocolAssumption DEF Connects, ConnectServer, Reconnect, OpenSocket
    <3>4. link'[First(p)] = "up" => link[First(p)] = "up"
      BY <1>a, <3>2, <3>3 DEF PhoneLink, Opens
    <3> QED
      BY <1>2, <3>1, <3>4 DEF InOrder
  <2>3. Sock(p) = First(p) /\ Online(p) /\ link[Sock(p)] = "up" /\ UNCHANGED tries
    <3>1. Attached(First(p))
      BY <1>a, <2>2 DEF StartInv, UpUsed, InOrder
    <3> QED
      BY <1>4, <1>a, <2>2, <3>1, CalmPhone DEF Attached, InOrder
  <2>4. CASE Hears(q)
    <3>1. UNCHANGED <<toServer, used>>
      BY <2>4 DEF Hears, ClientThread, HearPlayers, HearId, HearStart, HearFinished,
         HearDeathMatch, HearStopped, HearRoomName, HearNotReady, HearRefusal, Disconnection,
         phoneVars
    <3>2. Marks(p)' = Marks(p)
      BY <3>1 DEF Marks
    <3> QED
      BY <1>1, <2>1, <2>2, <3>1, <3>2
  <2>5. CASE Plays(q)
    <3>1. PICK b \in Bounded, m \in ClientMessage : Finding(q, b, m)
      BY <2>5, PlayFinds
    <3>2. Cardinality(Marks(p)') = IF p = q /\ b = "finds" THEN Cardinality(Marks(p)) + 1
                                                           ELSE Cardinality(Marks(p))
      BY <2>3, <3>1, MarksPlayed DEF Finding, Balance
    <3>3. used'[p].finds = IF p = q /\ b = "finds" THEN used[p].finds + 1 ELSE used[p].finds
      BY <1>a, <3>1, SpendFinds DEF Finding
    <3>4. Found(p) + Cardinality(Marks(p)) = used[p].finds
      BY <2>1, <2>2 DEF Exact
    <3> QED
      BY <1>b, <1>d, <3>2, <3>3, <3>4
  <2>6. CASE Fails(q)
    <3>1. p # q
      <4>1. p = q => link'[First(p)] # "up"
        BY <1>a, <2>3, <2>6 DEF Fails, Failure, LinkReset, PhoneKilled
      <4> QED
        BY <4>1 DEF InOrder
    <3>2. \A c \in Conn : Owner(c) = p => toServer'[c] = toServer[c]
      BY <1>a, <2>6, <3>1 DEF Fails, Failure, LinkReset, PhoneKilled, Sock, Owner, TypeOK,
         WireTypeOK
    <3>3. Marks(p)' = Marks(p)
      BY <3>2, MarksOther
    <3>4. Spend(q, "breaks") /\ "breaks" \in Bounded
      BY <2>6 DEF Fails, Failure, LinkReset, PhoneKilled, Bounded
    <3>5. used'[p].finds = used[p].finds
      BY <1>a, <3>4, SpendFinds
    <3> QED
      BY <1>1, <2>1, <2>2, <3>3, <3>5
  <2> QED
    BY <1>4, <2>4, <2>5, <2>6
<1> QED
  BY <1>3, <1>4

-----------------------------------------------------------------------------
(* A phone that knows its first id has the player of that id. *)

LEMMA AssuredServer ==
  ASSUME TypeOK, IdThreads, GreetInv, MapInv, StartInv, NEW t \in Thread, ServerStep(t),
         NEW p \in Phones, Assured(p)
  PROVE  Assured(p)'
<1> SUFFICES ASSUME tries'[p] = 1, listening'
             PROVE  \/ players'[First(p)] = First(p)
                    \/ Held(Conn \ {First(p)})' /\ Named(Conn \ {First(p)})'
  BY DEF Assured
<1>a. PICK f \in Conn : f = First(p)
  BY FirstConn DEF Firsts
<1>b. /\ f = <<p, 1>> /\ Owner(f) = p /\ f \in Firsts
      /\ \A c \in Conn : Owner(c) = p => \E n \in 1..MaxTries : c = <<p, n>>
  BY <1>a, FirstConn DEF First, Conn, Owner
<1>c. /\ tries[p] = 1 /\ listening
      /\ \/ players[f] = f
         \/ Held(Conn \ {f}) /\ Named(Conn \ {f})
  BY <1>a, ListensKept DEF ServerStep, phoneVars, Assured
<1>d. /\ players \in [Conn -> Conn \cup {None, Null}] /\ Conn \subseteq Thread
      /\ pc[Acceptor] = "accept" /\ OneSource
  BY <1>c DEF TypeOK, ServerTypeOK, Thread, StartInv, Listens
<1>1. CASE players[f] = f
  <2>1. CASE Quiet(t)
    BY <1>1, <1>a, <2>1 DEF Quiet
  <2>2. CASE t \in Conn /\ (ReceiveConnect(t) \/ ReceiveReconnect(t) \/ LookUpPlayer(t)
                            \/ ReceiveFound(t))
    BY <1>1, <1>a, <2>2 DEF ReceiveConnect, ReceiveReconnect, LookUpPlayer, ReceiveFound, room
  <2>3. CASE t \in Conn /\ AddPlayer(t)
    BY <1>1, <1>a, <1>d, <2>3 DEF AddPlayer
  <2>4. CASE t \in Conn /\ DropHandler(t)
    <3>1. who[t] # f
      <4> SUFFICES ASSUME who[t] = f PROVE FALSE
        OBVIOUS
      <4>1. pc[t] = "drop" /\ ref[t] = f
        BY <1>1, <2>4 DEF DropHandler, MapInv, Moves, Joined
      <4>2. Owner(t) = p
        BY <1>b, <2>4, <4>1 DEF IdThreads, IdThread
      <4>3. PICK n \in 1..MaxTries : t = <<p, n>>
        BY <1>b, <2>4, <4>2
      <4>4. n > 1
        BY <1>b, <1>d, <2>4, <4>1, <4>3 DEF OneSource
      <4>5. link[<<p, n>>] = "none"
        BY <1>c, <4>4 DEF GreetInv, NextTry
      <4> QED
        BY <2>4, <4>1, <4>3, <4>5 DEF GreetInv, Unopened
    <3> QED
      BY <1>1, <1>a, <1>d, <2>4, <3>1 DEF DropHandler
  <2>5. CASE t \in Conn /\ AdoptPlayer(t)
    <3>1. t # f
      BY <1>b, <1>d, <2>5 DEF AdoptPlayer, OneSource
    <3> QED
      BY <1>1, <1>a, <1>d, <2>5, <3>1 DEF AdoptPlayer
  <2>6. CASE ClearPlayers \/ \E d \in Conn : Accept(d)
    BY <1>1, <1>a, <1>d, <2>6 DEF ClearPlayers, AllSent, Accept, room
  <2> QED
    BY <2>1, <2>2, <2>3, <2>4, <2>5, <2>6, ServerSteps DEF Enters, GreetInv
<1>2. CASE Held(Conn \ {f}) /\ Named(Conn \ {f}) /\ AddPlayer(f)
  BY <1>2, <1>a, <1>d DEF AddPlayer
<1>3. CASE Held(Conn \ {f}) /\ Named(Conn \ {f}) /\ ~AddPlayer(f)
  <2>1. PICK S : S = Conn \ {f}
    OBVIOUS
  <2>2. \A h \in Conn : AddPlayer(h) => h \in S
    BY <1>3, <2>1
  <2>3. Held(S)'
    BY <1>3, <2>1, <2>2, HeldServer DEF GreetInv
  <2>4. Ids \subseteq S
    BY <1>3, <2>1, ProtocolAssumption DEF Ids, Entries, Joined, Held
  <2>5. Named(S)'
    BY <1>3, <2>1, <2>2, <2>4, NamedServer DEF GreetInv
  <2> QED
    BY <1>a, <2>1, <2>3, <2>5
<1> QED
  BY <1>c, <1>1, <1>2, <1>3

LEMMA AssuredPhone ==
  ASSUME TypeInv, JoinInv, NEW q \in Phones,
         Connects(q) \/ Hears(q) \/ Plays(q) \/ Fails(q),
         NEW p \in Phones, Assured(p)
  PROVE  Assured(p)'
<1> SUFFICES ASSUME tries'[p] = 1, listening'
             PROVE  \/ players'[First(p)] = First(p)
                    \/ Held(Conn \ {First(p)})' /\ Named(Conn \ {First(p)})'
  BY DEF Assured
<1>a. UNCHANGED <<players, ref, listening>>
  BY DEF Connects, Hears, Plays, Fails, serverVars, threads, room
<1>b. First(p) \in Conn
  BY FirstConn DEF Firsts
<1>1. PICK S : S = Conn \ {First(p)}
  OBVIOUS
<1>2. players[First(p)] = First(p) \/ (Held(S) /\ Named(S))
  <2>1. CASE tries[p] = 1
    BY <1>1, <1>a, <2>1 DEF Assured
  <2>2. CASE tries[p] # 1
    <3>1. /\ tries[p] = 0 /\ tries \in [Phones -> 0..MaxTries]
      <4>1. tries \in [Phones -> 0..MaxTries]
        BY DEF TypeInv, TypeOK, PhoneTypeOK
      <4>2. Connects(q)
        BY <2>2, CalmPhone
      <4>3. tries' = [tries EXCEPT ![q] = @ + 1]
        BY <4>2 DEF Connects, ConnectServer, Reconnect, OpenSocket
      <4> QED
        BY <2>2, <4>1, <4>3, ProtocolAssumption
    <3>2. link[First(p)] = "none"
      <4>1. 1 \in 1..MaxTries /\ 1 > 0
        BY ProtocolAssumption
      <4> QED
        BY <3>1, <4>1 DEF JoinInv, GreetInv, NextTry, First
    <3>3. Old \subseteq S
      BY <1>1, <3>2 DEF Old, New
    <3> QED
      BY <3>3, HeldMore, NamedMore DEF JoinInv, MapInv
  <2> QED
    BY <2>1, <2>2
<1>3. Named(S) => Named(S)'
  BY NamedPhone
<1>4. Held(S) => Held(S)'
  BY <1>a DEF Held
<1> QED
  BY <1>1, <1>2, <1>3, <1>4, <1>a

-----------------------------------------------------------------------------
(* The finds on the way of a phone that has connected once. *)

Unwritten ==
  \A p \in Phones : \A n \in 1..MaxTries : n > tries[p] => toServer[<<p, n>>] = <<>>

(* A phone writes on the connection it is using.                           *)
LEMMA PhoneWrites ==
  ASSUME TypeInv, NEW q \in Phones, Connects(q) \/ Hears(q) \/ Plays(q) \/ Fails(q)
  PROVE  \A c \in Conn : toServer'[c] # toServer[c] => c = <<q, tries'[q]>>
<1>a. /\ toServer \in [Conn -> Seq(ClientMessage)]
      /\ tries \in [Phones -> 0..MaxTries]
  BY DEF TypeInv, TypeOK, WireTypeOK, PhoneTypeOK
<1>1. CASE Connects(q)
  BY <1>a, <1>1 DEF Connects, ConnectServer, Reconnect, OpenSocket, NewSock
<1>2. CASE Hears(q)
  BY <1>2 DEF Hears, ClientThread, HearPlayers, HearId, HearStart, HearFinished,
     HearDeathMatch, HearStopped, HearRoomName, HearNotReady, HearRefusal, Disconnection,
     phoneVars
<1>3. CASE Plays(q)
  <2>1. PICK b \in Bounded, m \in ClientMessage : Finding(q, b, m)
    BY <1>3, PlayFinds
  <2> QED
    BY <1>a, <2>1 DEF Finding, Send, Sock
<1>4. CASE Fails(q)
  BY <1>a, <1>4 DEF Fails, Failure, LinkReset, PhoneKilled, Sock
<1> QED
  BY <1>1, <1>2, <1>3, <1>4

LEMMA UnwrittenServer ==
  ASSUME TypeOK, GreetInv, Unwritten, NEW t \in Thread, ServerStep(t)
  PROVE  Unwritten'
<1>1. UNCHANGED tries /\ \A p \in Phones : \A n \in 1..MaxTries : <<p, n>> \in Conn
  BY DEF ServerStep, phoneVars, Conn
<1>2. \A c \in Conn : toServer[c] = <<>> => toServer'[c] = <<>>
  BY HelloServer
<1> QED
  BY <1>1, <1>2 DEF Unwritten

LEMMA UnwrittenPhone ==
  ASSUME TypeInv, Unwritten, NEW q \in Phones,
         Connects(q) \/ Hears(q) \/ Plays(q) \/ Fails(q)
  PROVE  Unwritten'
<1>1. tries \in [Phones -> 0..MaxTries] /\ MaxTries \in Nat
  BY ProtocolAssumption DEF TypeInv, TypeOK, PhoneTypeOK
<1>2. \A p \in Phones : tries'[p] >= tries[p]
  <2>1. CASE Connects(q)
    BY <1>1, <2>1 DEF Connects, ConnectServer, Reconnect, OpenSocket
  <2>2. CASE Hears(q) \/ Plays(q) \/ Fails(q)
    BY <1>1, <2>2, CalmPhone
  <2> QED
    BY <2>1, <2>2
<1>3. tries' \in [Phones -> Nat]
  <2>1. CASE Connects(q)
    BY <1>1, <2>1 DEF Connects, ConnectServer, Reconnect, OpenSocket
  <2>2. CASE Hears(q) \/ Plays(q) \/ Fails(q)
    <3>1. UNCHANGED tries
      BY <2>2, CalmPhone
    <3> QED
      BY <1>1, <3>1
  <2> QED
    BY <2>1, <2>2
<1>4. ASSUME NEW p \in Phones, NEW n \in 1..MaxTries, n > tries'[p]
      PROVE  toServer'[<<p, n>>] = <<>>
  <2>1. /\ n > tries[p] /\ <<p, n>> \in Conn /\ <<p, n>> # <<q, tries'[q]>>
    BY <1>1, <1>2, <1>3, <1>4 DEF Conn
  <2> QED
    BY <2>1, PhoneWrites DEF Unwritten
<1> QED
  BY <1>4 DEF Unwritten

LEMMA MarksPending ==
  ASSUME TypeOK, Unwritten, NEW p \in Phones, tries[p] = 1, IsFiniteSet(Marks(p))
  PROVE  Pending(First(p)) = Cardinality(Marks(p))
<1>a. PICK f \in Conn : f = First(p) /\ f = <<p, 1>> /\ Owner(f) = p
  BY FirstConn DEF First, Firsts
<1>1. PICK s \in Seq(ClientMessage) : s = toServer[f]
  BY DEF TypeOK, WireTypeOK
<1>2. PICK D : D = {i \in DOMAIN toServer[f] : toServer[f][i].kind = "ANAM-FOUND"}
  OBVIOUS
<1>3. D \subseteq 1..Len(s) /\ Len(s) \in Nat
  BY <1>1, <1>2
<1>4. IsFiniteSet(D)
  <2>1. IsFiniteSet(1..Len(s))
    BY <1>3, FS_Interval
  <2> QED
    BY <1>3, <2>1, FS_Subset
<1>5. PICK T : T = Marks(p)
  OBVIOUS
<1>6. \A i \in D : <<f, i>> \in T
  BY <1>a, <1>2, <1>3, <1>5 DEF Marks
<1>7. ASSUME NEW x \in T PROVE \E i \in D : x = <<f, i>>
  <2>1. /\ x \in Conn \X (Nat \ {0}) /\ Owner(x[1]) = p
        /\ x[2] \in DOMAIN toServer[x[1]] /\ toServer[x[1]][x[2]].kind = "ANAM-FOUND"
    BY <1>5, <1>7 DEF Marks
  <2>2. PICK c \in Conn, i \in Nat \ {0} : x = <<c, i>>
    BY <2>1
  <2>3. PICK n \in 1..MaxTries : c = <<p, n>>
    BY <2>1, <2>2 DEF Conn, Owner
  <2>4. ~(n > 1)
    <3>1. n > 1 => toServer[c] = <<>>
      BY <2>3 DEF Unwritten
    <3> QED
      BY <2>1, <2>2, <3>1
  <2>5. c = f
    BY <1>a, <2>3, <2>4
  <2> QED
    BY <1>2, <2>1, <2>2, <2>5
<1>8. ExistsBijection(D, T)
  <2>1. PICK g : g = [i \in D |-> <<f, i>>]
    OBVIOUS
  <2>2. g \in [D -> T]
    BY <1>6, <2>1
  <2>3. g \in Injection(D, T)
    BY <2>1, <2>2 DEF Injection, IsInjective
  <2>4. g \in Surjection(D, T)
    BY <1>7, <2>1, <2>2 DEF Surjection
  <2> QED
    BY <2>3, <2>4 DEF ExistsBijection, Bijection
<1>9. Cardinality(T) = Cardinality(D)
  BY <1>4, <1>8, FS_Bijection
<1> QED
  BY <1>a, <1>2, <1>5, <1>9 DEF Pending

FindInv ==
  StartInv /\ Unwritten /\ \A p \in Phones : Balance(p) /\ Exact(p) /\ Assured(p)

LEMMA FindInit == Init => FindInv
<1> SUFFICES ASSUME Init PROVE FindInv
  OBVIOUS
<1>1. /\ \A c \in Conn : toServer[c] = <<>> /\ stats[c] = NewPlayer
      /\ \A p \in Phones : used[p].finds = 0 /\ tries[p] = 0
  BY DEF Init, WireInit, ServerInit, PhoneInit, Bounded
<1>2. ASSUME NEW p \in Phones PROVE Balance(p) /\ Exact(p) /\ Assured(p)
  <2>1. Marks(p) = {}
    BY <1>1 DEF Marks
  <2>2. First(p) \in Conn
    BY FirstConn DEF Firsts
  <2>3. Found(p) = 0
    BY <1>1, <2>2 DEF Found, NewPlayer
  <2> QED
    BY <1>1, <2>1, <2>3, FS_EmptySet DEF Balance, Exact, InOrder, Assured
<1>3. Unwritten
  BY <1>1 DEF Unwritten, Conn
<1> QED
  BY <1>2, <1>3, StartInit DEF FindInv

LEMMA FindNext ==
  ASSUME TypeInv, IdInv, JoinInv, FindInv, [Next]_vars
  PROVE  FindInv'
<1>a. TypeOK /\ IdThreads /\ IdMap /\ GreetInv /\ MapInv /\ StartInv /\ Unwritten /\ Held(Firsts)
  BY DEF TypeInv, IdInv, IdServer, JoinInv, FindInv, StartInv
<1>b. \A p \in Phones : Balance(p) /\ Exact(p) /\ Assured(p)
  BY DEF FindInv
<1>1. StartInv'
  BY <1>a, StartNext
<1>2. ASSUME NEW t \in Thread, ServerStep(t)
      PROVE  Unwritten' /\ \A p \in Phones : Balance(p)' /\ Exact(p)' /\ Assured(p)'
  BY <1>2, <1>a, <1>b, UnwrittenServer, BalanceServer, ExactServer, AssuredServer
<1>3. ASSUME NEW q \in Phones, Connects(q) \/ Hears(q) \/ Plays(q) \/ Fails(q)
      PROVE  Unwritten' /\ \A p \in Phones : Balance(p)' /\ Exact(p)' /\ Assured(p)'
  BY <1>3, <1>a, <1>b, UnwrittenPhone, BalancePhone, ExactPhone, AssuredPhone
<1>4. CASE /\ UNCHANGED <<wire, room, pc, ref, task, phoneVars>>
           /\ UNCHANGED listening \/ listening' = FALSE
  <2>1. Unwritten'
    BY <1>a, <1>4 DEF Unwritten, wire, phoneVars
  <2>2. ASSUME NEW p \in Phones PROVE Balance(p)' /\ Exact(p)' /\ Assured(p)'
    <3>1. /\ Marks(p)' = Marks(p) /\ Found(p)' = Found(p) /\ UNCHANGED <<used, tries>>
          /\ InOrder(p)' => InOrder(p)
          /\ Serving(First(p))' <=> Serving(First(p))
      BY <1>4 DEF Marks, Found, InOrder, Serving, Hello, wire, room, phoneVars
    <3>2. Balance(p)' /\ Exact(p)'
      BY <1>b, <3>1 DEF Balance, Exact
    <3>3. Assured(p)'
      BY <1>4, <1>b DEF Assured, Held, Named, Spoken, wire, room, phoneVars
    <3> QED
      BY <3>2, <3>3
  <2> QED
    BY <1>1, <2>1, <2>2 DEF FindInv
<1> QED
  BY <1>1, <1>2, <1>3, <1>4 DEF Next, HostStops, StopListening, vars, serverVars, threads, FindInv

LEMMA FindsKnown ==
  ASSUME TypeOK, FindInv
  PROVE  FindsConserved
<1> SUFFICES ASSUME NEW p \in Phones
             PROVE  /\ stats[First(p)].found <= used[p].finds
                    /\ (tries[p] = 1 /\ link[First(p)] = "up" /\ myId[p] = First(p) /\ listening)
                         => stats[First(p)].found + Pending(First(p)) = used[p].finds
  BY DEF FindsConserved, First
<1>a. /\ Unwritten /\ Balance(p) /\ Exact(p) /\ Assured(p)
  BY DEF FindInv
<1>b. First(p) \in Conn /\ First(p) # None
  BY FirstConn, ProtocolAssumption DEF Firsts
<1>1. /\ Found(p) \in Nat /\ Cardinality(Marks(p)) \in Nat /\ used[p].finds \in Nat
  BY <1>a, <1>b, FS_CardinalityType DEF Found, Balance, TypeOK, ServerTypeOK, PhoneTypeOK,
     PlayerInfo, Bounded
<1>2. stats[First(p)].found <= used[p].finds
  BY <1>a, <1>1 DEF Balance, Found
<1>3. ASSUME tries[p] = 1, link[First(p)] = "up", myId[p] = First(p), listening
      PROVE  stats[First(p)].found + Pending(First(p)) = used[p].finds
  <2>1. players[First(p)] = First(p)
    BY <1>3, <1>a, <1>b DEF Assured, Named
  <2>2. Found(p) + Cardinality(Marks(p)) = used[p].finds
    BY <1>3, <1>a, <2>1 DEF Exact, InOrder, Serving
  <2>3. Pending(First(p)) = Cardinality(Marks(p))
    BY <1>3, <1>a, MarksPending DEF Balance
  <2> QED
    BY <2>2, <2>3 DEF Found
<1> QED
  BY <1>2, <1>3

(* Finds are conserved: the server credits a phone with no more than it    *)
(* has sent, and over a connection that has not broken, once the phone has *)
(* its id, with every find it has sent and the server has read, exactly    *)
(* once (Client.sendInstruction, ClientHandler.run, Server.java:235-239).  *)
THEOREM FindsArrive == Spec => []FindsConserved
<1>1. Init => TypeInv /\ IdInv /\ JoinInv /\ FindInv
  BY InitType, IdInit, JoinInit, FindInit
<1>2. /\ TypeInv /\ IdInv /\ JoinInv /\ FindInv /\ [Next]_vars
      => TypeInv' /\ IdInv' /\ JoinInv' /\ FindInv'
  BY NextType, IdNext, JoinNext, FindNext
<1>3. TypeInv /\ FindInv => FindsConserved
  BY FindsKnown DEF TypeInv
<1> QED
  BY <1>1, <1>2, <1>3, PTL DEF Spec

-----------------------------------------------------------------------------
(* What the game tells its players: START and FINISHED. *)

Announced == {"START", "FINISHED"}

(* Nobody has joined by this connection, and nobody will once the game has *)
(* started: its name is no id.                                             *)
Outside(c) == pc[c] # "put" /\ Held(Conn \ {c}) /\ Named(Conn \ {c})

(* What the news has done on a phone that has read it.                     *)
Got(p, kind) == IF kind = "START" THEN screen[p] # "lobby" ELSE podium[p] # None

Aware(c, kind) == link[c] = "up" => Has(c, kind) \/ Outside(c) \/ Got(Owner(c), kind)

LEMMA PutServer ==
  ASSUME TypeOK, GreetInv, NEW t \in Thread, ServerStep(t), NEW c \in Conn, pc'[c] = "put"
  PROVE  pc[c] = "put" \/ gameState = "LOBBY"
<1>a. pc \in [Thread -> Location] /\ Conn \subseteq Thread /\ Acceptor \notin Conn
  BY ServerAssumption DEF TypeOK, ServerTypeOK, Thread
<1>1. CASE Quiet(t)
  BY <1>a, <1>1 DEF Quiet, Others, Entering
<1>2. CASE t \in Conn /\ ReceiveConnect(t)
  <2>1. /\ \A u \in Thread \ {t} : pc'[u] = pc[u]
        /\ gameState # "LOBBY" => pc'[t] \in {"join"} \cup {Back(t)}
    BY <1>a, <1>2 DEF ReceiveConnect, Reply, Goto
  <2> QED
    BY <1>a, <2>1, BackFrom DEF Entering
<1>3. CASE t \in Conn /\ ReceiveReconnect(t)
  <2>1. /\ \A u \in Thread \ {t} : pc'[u] = pc[u]
        /\ pc'[t] \in {"lookup", "join", "dead", "final"} \cup {Back(t)}
    BY <1>a, <1>3 DEF ReceiveReconnect, Reply, Goto, Throw
  <2> QED
    BY <1>a, <2>1, BackFrom DEF Entering
<1>4. CASE /\ t \in Conn
           /\ \/ AddPlayer(t) \/ LookUpPlayer(t) \/ DropHandler(t) \/ AdoptPlayer(t)
              \/ ReceiveFound(t)
  BY <1>a, <1>4 DEF AddPlayer, LookUpPlayer, DropHandler, AdoptPlayer, ReceiveFound, Goto
<1>5. CASE ClearPlayers \/ \E d \in Conn : Accept(d)
  BY <1>a, <1>5 DEF ClearPlayers, Accept, Goto
<1> QED
  BY <1>1, <1>2, <1>3, <1>4, <1>5, ServerSteps DEF Enters, GreetInv

LEMMA OutsideStays ==
  ASSUME TypeInv, IdThreads, GreetInv, gameState # "LOBBY", NEW c \in Conn, Outside(c),
         [Next]_vars
  PROVE  Outside(c)'
<1>1. PICK S : S = Conn \ {c}
  OBVIOUS
<1>2. \A h \in Conn : AddPlayer(h) => h \in S
  BY <1>1 DEF AddPlayer, Outside
<1>3. Held(S) /\ Named(S)
  BY <1>1 DEF Outside
<1>4. Held(S)' /\ Named(S)'
  BY <1>2, <1>3, SetKept
<1>5. pc'[c] # "put"
  <2>1. TypeOK
    BY DEF TypeInv
  <2>2. (\E t \in Thread : ServerStep(t)) \/ UNCHANGED pc
    BY DEF Next, HostStops, StopListening, Connects, Hears, Plays, Fails, vars, serverVars, threads
  <2> QED
    BY <2>1, <2>2, PutServer DEF Outside
<1> QED
  BY <1>1, <1>4, <1>5 DEF Outside

LEMMA OutsideFrom ==
  ASSUME TypeOK, IdThreads, Known, NEW c \in Conn, Never(c) \/ c \notin Accepted
  PROVE  Outside(c)
<1>1. CASE Never(c)
  BY <1>1 DEF Never, Outside, Old, New, Entering
<1>2. CASE c \notin Accepted
  <2>1. PICK S : S = Conn \ {c}
    OBVIOUS
  <2>2. Accepted \subseteq S
    BY <1>2, <2>1 DEF Accepted, TypeOK, ServerTypeOK
  <2>3. Held(S) /\ Named(S)
    BY <2>2, HeldMore, NamedMore DEF Known
  <2> QED
    BY <1>2, <2>1, <2>3 DEF Outside, IdThreads
<1> QED
  BY <1>1, <1>2

LEMMA AwareServer ==
  ASSUME TypeInv, IdThreads, GreetInv, NoRefusal, gameState # "LOBBY",
         NEW t \in Thread, ServerStep(t), NEW c \in Conn, NEW kind, Aware(c, kind)
  PROVE  Aware(c, kind)'
<1>1. [Next]_vars /\ TypeOK
  BY DEF Next, TypeInv
<1>2. link'[c] = "up" => link[c] = "up"
  BY <1>1, UpServer
<1>3. Has(c, kind) => Has(c, kind)'
  BY <1>1, SaidServer
<1>4. Got(Owner(c), kind)' <=> Got(Owner(c), kind)
  BY DEF ServerStep, phoneVars, Got
<1> QED
  BY <1>1, <1>2, <1>3, <1>4, OutsideStays DEF Aware

(* A phone that reads the news takes note of it, and does not forget it.   *)
LEMMA GotPhone ==
  ASSUME TypeInv, NEW p \in Phones, NEW kind \in Announced, NEW q \in Phones,
         \/ Hears(p) /\ (Got(q, kind) \/ (q = p /\ Hear(p, kind)))
         \/ (Plays(p) \/ Fails(p)) /\ Got(q, kind)
  PROVE  Got(q, kind)'
<1> USE DEF Got, Announced
<1>a. /\ screen \in [Phones -> Screen] /\ podium \in [Phones -> Seq(Conn) \cup {None}]
      /\ None \notin Seq(Conn)
  BY ProtocolAssumption DEF TypeInv, TypeOK, PhoneTypeOK
<1>1. CASE (Plays(p) \/ Fails(p)) /\ Got(q, kind)
  <2>1. UNCHANGED podium /\ \A r \in Phones : screen'[r] = "lobby" => screen[r] = "lobby"
    <3>1. CASE UNCHANGED <<screen, podium>>
      BY <3>1
    <3>2. CASE \E value \in Values : SetFound(p, value)
      BY <3>2, <1>a DEF SetFound
    <3>3. CASE PhoneKilled(p)
      BY <3>3, <1>a DEF PhoneKilled
    <3> QED
      BY <1>1, <3>1, <3>2, <3>3 DEF Plays, Player, ToggleReady, StartGame, SendRoomName, Fails,
         Failure, LinkReset
  <2> QED
    BY <1>1, <2>1
<1>2. ASSUME NEW unread, NetworkError(p, unread), UNCHANGED podium, Got(q, kind)
      PROVE  Got(q, kind)'
  BY <1>2, <1>a DEF NetworkError
<1>3. CASE HearFinished(p)
  <2>1. Head(Inbox(p)).podium \in Seq(Conn) /\ ~Hear(p, "START")
    BY <1>3, HearType DEF HearFinished, Instruction, Hear
  <2> QED
    BY <1>3, <1>a, <2>1 DEF HearFinished, InGame
<1>4. CASE HearStart(p)
  BY <1>4, <1>a DEF HearStart, Hear
<1>5. CASE HearStopped(p)
  BY <1>5, <1>a DEF HearStopped, Hear
<1>6. CASE Disconnection(p)
  BY <1>6, <1>2 DEF Disconnection, Hear, Hears, Plays, Fails
<1>7. CASE HearPlayers(p) \/ HearDeathMatch(p) \/ HearNotReady(p)
  BY <1>7, <1>2 DEF HearPlayers, HearDeathMatch, HearNotReady, Hear
<1>8. CASE HearId(p) \/ HearRoomName(p) \/ HearRefusal(p)
  BY <1>8 DEF HearId, HearRoomName, HearRefusal, Hear, phoneVars
<1> QED
  BY <1>1, <1>3, <1>4, <1>5, <1>6, <1>7, <1>8 DEF Hears, ClientThread

LEMMA AwarePhone ==
  ASSUME TypeInv, IdThreads, GreetInv, Known, Refused, Served, UpUsed, UpUsed',
         gameState # "LOBBY", NEW p \in Phones, Connects(p) \/ Hears(p) \/ Plays(p) \/ Fails(p),
         NEW c \in Conn, NEW kind \in Announced, Aware(c, kind)
  PROVE  Aware(c, kind)'
<1> SUFFICES ASSUME link'[c] = "up"
             PROVE  Has(c, kind)' \/ Outside(c)' \/ Got(Owner(c), kind)'
  BY DEF Aware
<1>a. [Next]_vars /\ TypeOK /\ Owner(c) \in Phones /\ Attached(c)'
  BY DEF Next, TypeInv, UpUsed, Owner, Conn
<1>b. PhoneLink(p, c) /\ Heard(p, c)
  BY LinkPhone, HeardPhone
<1>1. CASE Opens(p, c)
  <2>1. c \notin Accepted
    BY <1>1 DEF Opens, Served
  <2> QED
    BY <2>1, <1>a, OutsideFrom, OutsideStays
<1>2. CASE ~Opens(p, c)
  <2>1. link[c] = "up" /\ Attached(c)
    BY <1>b, <1>2 DEF PhoneLink, UpUsed
  <2>2. CASE Outside(c)
    BY <2>2, <1>a, OutsideStays
  <2>3. CASE Connects(p)
    <3>1. Owner(c) # p
      BY <2>1, <2>3 DEF Connects, ConnectServer, Reconnect, Attached, Online
    <3>2. UNCHANGED toClient /\ UNCHANGED podium
          /\ \A q \in Phones \ {p} : screen'[q] = screen[q]
      <4>1. screen \in [Phones -> Screen]
        BY <1>a DEF TypeOK, PhoneTypeOK
      <4> QED
        BY <2>3, <4>1 DEF Connects, ConnectServer, Reconnect, OpenSocket
    <3> QED
      BY <2>1, <2>2, <3>1, <3>2, <1>a DEF Aware, Has, Got
  <2>4. CASE Hears(p) \/ Plays(p) \/ Fails(p)
    <3>1. CASE Got(Owner(c), kind)
      BY <2>4, <3>1, <1>a, GotPhone
    <3>2. CASE Has(c, kind)
      <4>1. ~Has(c, "GAME-STARTED") \/ Outside(c)
        BY <1>a, OutsideFrom DEF Refused
      <4>2. CASE UNCHANGED toClient
        BY <3>2, <4>2 DEF Has
      <4>3. CASE Hears(p) /\ c = Sock(p) /\ Hear(p, kind)
        <5>1. Owner(c) = p
          BY <4>3 DEF Owner, Sock
        <5> QED
          BY <4>3, <5>1, GotPhone
      <4>4. CASE Fails(p)
        <5>1. c = Sock(p) => link'[c] = "rst" \/ ~Attached(c)'
          BY <4>4, <1>a DEF Fails, Failure, LinkReset, PhoneKilled, Attached, Owner, Sock, Online,
             TypeOK, WireTypeOK, PhoneTypeOK
        <5> QED
          BY <1>a, <1>b, <2>2, <3>2, <4>1, <5>1 DEF Heard
      <4>5. Plays(p) => UNCHANGED toClient
        BY DEF Plays, Player, ToggleReady, StartGame, SendRoomName, SetFound
      <4> QED
        BY <1>a, <1>b, <2>2, <2>4, <3>2, <4>1, <4>2, <4>3, <4>4, <4>5 DEF Heard
    <3> QED
      BY <2>1, <2>2, <3>1, <3>2 DEF Aware
  <2> QED
    BY <2>3, <2>4
<1> QED
  BY <1>1, <1>2

-----------------------------------------------------------------------------
(* A thread announces the start after it has left the lobby, and the end   *)
(* before it ends the game.                                                *)
Errand(t) ==
  /\ task[t].msg.kind \in Announced =>
       /\ gameState # "LOBBY" /\ pc[t] \in Announcing
       /\ task[t].msg.kind = "START" => task[t].after = "loop"
  /\ task[t].after = "ended" => task[t].msg.kind = "FINISHED"
  /\ pc[t] = "tie" => gameState # "LOBBY"

(* It has nothing to announce, it has taken an errand, or it is on it.     *)
Free(t) == /\ task'[t].msg.kind \notin Announced /\ task'[t].after # "ended"
           /\ pc'[t] = "tie" => gameState' # "LOBBY"

Takes(t) ==
  /\ pc'[t] = "open" /\ gameState' # "LOBBY"
  /\ \/ Begin(t) /\ task'[t].msg.kind = "START" /\ task'[t].after = "loop"
     \/ task'[t].msg.kind = "FINISHED" /\ task'[t].after = "ended"

Pursues(t) ==
  /\ Broadcast(t) /\ ~Throw(t) /\ ~Done(t)
  /\ task'[t].msg.kind = task[t].msg.kind /\ task'[t].after = task[t].after
  /\ pc'[t] \in Announcing

LEMMA ErrandBroadcast ==
  ASSUME TypeOK, NEW t \in Thread, Broadcast(t)
  PROVE  Free(t) \/ Pursues(t)
<1>a. /\ task \in [Thread -> SendTask] /\ pc \in [Thread -> Location]
      /\ task[t].msg \in Instruction
  BY DEF TypeOK, ServerTypeOK, SendTask
<1>1. CASE Throw(t) \/ Done(t)
  <2>1. task'[t] = NoTask
    BY <1>1, <1>a DEF Throw, Done
  <2>2. pc'[t] # "tie"
    BY <1>1, <1>a DEF Throw, Done, Goto, Back
  <2> QED
    BY <2>1, <2>2, TaskKind, TaskAfter DEF Free, Announced
<1>2. CASE ~Throw(t) /\ ~Done(t)
  <2>1. CASE Open(t)
    <3>1. task'[t].msg = Filled(task[t].msg) /\ task'[t].after = task[t].after /\ pc'[t] = "send"
      BY <1>2, <1>a, <2>1 DEF Open, Goto, SendTask
    <3>2. task'[t].msg.kind = task[t].msg.kind
      BY <1>a, <3>1, FilledKind
    <3> QED
      BY <1>2, <3>1, <3>2 DEF Pursues, Announcing
  <2>2. CASE SendNext(t) \/ SendFails(t) \/ JoinReturns(t)
    <3>1. task'[t].msg = task[t].msg /\ task'[t].after = task[t].after
      BY <1>a, <2>2 DEF SendNext, SendFails, JoinReturns, SendTask
    <3>2. pc'[t] \in Announcing
      BY <1>a, <2>2 DEF SendNext, SendFails, JoinReturns, Sending, Goto, Announcing
    <3> QED
      BY <1>2, <3>1, <3>2 DEF Pursues
  <2> QED
    BY <1>2, <2>1, <2>2 DEF Broadcast, IteratorFails
<1> QED
  BY <1>1, <1>2

LEMMA ErrandAccept ==
  ASSUME TypeOK, AcceptThread, Errand(Acceptor)
  PROVE  Free(Acceptor)
<1>a. /\ task \in [Thread -> SendTask] /\ pc \in [Thread -> Location] /\ Acceptor \in Thread
      /\ Acceptor \notin Conn
  BY ServerAssumption DEF TypeOK, ServerTypeOK, Thread
<1>1. pc'[Acceptor] # "tie"
  BY <1>a DEF AcceptThread, Accept, StopAccepting, CloseClient, ClientClosed, AcceptorEnds,
     ClearPlayers, Goto
<1>2. CASE \/ task' = [task EXCEPT ![Acceptor] = Task(Tell("SERVER-STOPPED", None), "clear")]
           \/ task' = [task EXCEPT ![Acceptor] = NoTask]
           \/ task' = [task EXCEPT ![Acceptor] = [NoTask EXCEPT !.next = 1]]
  <2>1. \/ task'[Acceptor] = Task(Tell("SERVER-STOPPED", None), "clear")
        \/ task'[Acceptor] = NoTask
        \/ task'[Acceptor] = [NoTask EXCEPT !.next = 1]
    BY <1>2, <1>a
  <2>2. /\ task'[Acceptor].msg.kind \in {"SERVER-STOPPED", "none"}
        /\ task'[Acceptor].after \in {"clear", "loop"}
    <3>1. CASE task'[Acceptor] = Task(Tell("SERVER-STOPPED", None), "clear")
      BY <3>1, TaskKind, TaskAfter
    <3>2. CASE task'[Acceptor] = NoTask
      BY <3>2, TaskKind, TaskAfter
    <3>3. CASE task'[Acceptor] = [NoTask EXCEPT !.next = 1]
      BY <3>3, TaskKind, TaskAfter
    <3> QED
      BY <2>1, <3>1, <3>2, <3>3
  <2> QED
    BY <1>1, <2>2 DEF Free, Announced
<1>3. CASE /\ UNCHANGED task \/ task' = [task EXCEPT ![Acceptor].next = @ + 1]
           /\ pc[Acceptor] \in {"accept", "close", "closing"}
  <2>1. task'[Acceptor].msg = task[Acceptor].msg /\ task'[Acceptor].after = task[Acceptor].after
    BY <1>3, <1>a DEF SendTask
  <2> QED
    BY <1>1, <1>3, <2>1 DEF Free, Errand, Announcing, Announced
<1> QED
  BY <1>2, <1>3 DEF AcceptThread, Accept, StopAccepting, CloseClient, ClientClosed, AcceptorEnds,
     ClearPlayers

LEMMA ErrandHandler ==
  ASSUME TypeOK, NEW h \in Conn, HandlerThread(h), Errand(h)
  PROVE  Free(h) \/ Takes(h)
<1>a. /\ task \in [Thread -> SendTask] /\ pc \in [Thread -> Location] /\ h \in Thread
      /\ Back(h) # "tie" /\ Back(h) # "open"
  BY DEF TypeOK, ServerTypeOK, Thread, Back
<1>1. ASSUME NEW x, x.msg.kind \notin Announced, x.after # "ended",
             task' = [task EXCEPT ![h] = x]
      PROVE  task'[h].msg.kind \notin Announced /\ task'[h].after # "ended"
  BY <1>a, <1>1
<1>2. ASSUME UNCHANGED task, pc[h] \notin Announcing
      PROVE  task'[h].msg.kind \notin Announced /\ task'[h].after # "ended"
  BY <1>2 DEF Errand, Announced
<1>3. Throw(h) => task'[h].msg.kind \notin Announced /\ task'[h].after # "ended"
  BY <1>1, TaskKind, TaskAfter DEF Throw, Announced
<1>4. ASSUME NEW l, pc' = [pc EXCEPT ![h] = l], l # "tie" PROVE pc'[h] # "tie"
  BY <1>a, <1>4
<1>5. CASE \/ Ignore(h) \/ ReadFails(h) \/ LeaveLoop(h) \/ ReceiveConnect(h) \/ AddPlayer(h)
           \/ LookUpPlayer(h) \/ DropHandler(h) \/ AdoptPlayer(h) \/ ReceiveFound(h)
  <2>1. UNCHANGED task /\ pc[h] \notin Announcing
    BY <1>5 DEF Ignore, ReadFails, LeaveLoop, ReceiveConnect, AddPlayer, LookUpPlayer,
       DropHandler, AdoptPlayer, ReceiveFound, Take, Announcing
  <2>2. pc'[h] # "tie"
    BY <1>5, <1>4, <1>a DEF Ignore, ReadFails, LeaveLoop, ReceiveConnect, AddPlayer, LookUpPlayer,
       DropHandler, AdoptPlayer, ReceiveFound, Reply, Goto
  <2> QED
    BY <1>2, <2>1, <2>2 DEF Free
<1>6. CASE OpenDeathMatch(h)
  <2>1. UNCHANGED task /\ pc[h] \notin Announcing /\ pc'[h] # "tie"
    BY <1>6, <1>4 DEF OpenDeathMatch, Goto, Announcing
  <2> QED
    BY <1>2, <2>1 DEF Free
<1>7. CASE \/ Disconnected(h) \/ HandlerEnds(h) \/ Greet(h) \/ WelcomeBack(h)
           \/ ReceiveReady(h) \/ GameEnds(h)
  <2>1. \/ task' = [task EXCEPT ![h] = NoTask]
        \/ task' = [task EXCEPT ![h] = PlayerList]
        \/ task' = [task EXCEPT ![h] = [PlayerList EXCEPT !.after = "exit"]]
        \/ UNCHANGED task /\ pc[h] \notin Announcing
    BY <1>7 DEF Disconnected, HandlerEnds, Greet, WelcomeBack, ReceiveReady, GameEnds, Announcing
  <2>2. pc'[h] # "tie"
    BY <1>7, <1>4, <1>a DEF Disconnected, HandlerEnds, Greet, WelcomeBack, ReceiveReady, GameEnds,
       Reply, Ends, Goto
  <2>3. task'[h].msg.kind \notin Announced /\ task'[h].after # "ended"
    BY <1>1, <1>2, <2>1, TaskKind, TaskAfter DEF Announced
  <2> QED
    BY <2>2, <2>3 DEF Free
<1>8. CASE ReceiveReconnect(h) \/ ReceiveStart(h) \/ ReceiveRoomName(h)
  <2>1. pc'[h] # "tie"
    BY <1>8, <1>4, <1>a DEF ReceiveReconnect, ReceiveStart, ReceiveRoomName, Reply, Throw, Goto
  <2>2. ASSUME NEW x, NEW kind \in {"ID", "ROOM-NAME"},
               task' = [task EXCEPT ![h] = Task(Tell(kind, x), "loop")]
        PROVE  task'[h].msg.kind \notin Announced /\ task'[h].after # "ended"
    <3>1. Task(Tell(kind, x), "loop").msg.kind = kind /\ Task(Tell(kind, x), "loop").after = "loop"
      BY TaskKind, TaskAfter
    <3> QED
      BY <1>1, <2>2, <3>1 DEF Announced
  <2>3. \/ UNCHANGED task /\ pc[h] \notin Announcing
        \/ Throw(h)
        \/ \E x : \/ task' = [task EXCEPT ![h] = Task(Tell("ID", x), "loop")]
                  \/ task' = [task EXCEPT ![h] = Task(Tell("ROOM-NAME", x), "loop")]
    BY <1>8 DEF ReceiveReconnect, ReceiveStart, ReceiveRoomName, Take, Announcing
  <2> QED
    BY <1>2, <1>3, <2>1, <2>2, <2>3 DEF Free
<1>9. CASE Begin(h)
  <2>1. /\ pc'[h] = "open" /\ gameState' # "LOBBY"
        /\ task'[h] = Task(Tell("START", None), "loop")
    BY <1>9, <1>a DEF Begin, Goto
  <2> QED
    BY <1>9, <2>1, TaskKind, TaskAfter DEF Takes
<1>10. CASE DeathMatchFind(h) \/ MainGameFind(h)
  <2>1. pc[h] \notin Announcing /\ gameState' = gameState
    BY <1>10 DEF DeathMatchFind, MainGameFind, Announcing, room
  <2>2. CASE Throw(h)
    <3>1. pc'[h] # "tie"
      BY <1>a, <2>2 DEF Throw, Goto
    <3> QED
      BY <1>3, <2>2, <3>1 DEF Free
  <2>3. ASSUME NEW o, task' = [task EXCEPT ![h] = Task(TellPodium("FINISHED", o), "ended")],
               Goto(h, "open"), gameState # "LOBBY"
        PROVE  Takes(h)
    <3>1. task'[h] = Task(TellPodium("FINISHED", o), "ended") /\ pc'[h] = "open"
      BY <1>a, <2>3 DEF Goto
    <3> QED
      BY <2>1, <2>3, <3>1, TaskKind, TaskAfter DEF Takes
  <2>4. ASSUME NEW o, task' = [task EXCEPT ![h] = Task(TellPodium("DEATHMATCH", o), "loop")],
               gameState # "LOBBY"
        PROVE  Free(h)
    <3>1. task'[h] = Task(TellPodium("DEATHMATCH", o), "loop")
      BY <1>a, <2>4
    <3> QED
      BY <2>1, <2>4, <3>1, TaskKind, TaskAfter DEF Free, Announced
  <2>5. ASSUME UNCHANGED task \/ task' = [task EXCEPT ![h] = PlayerList], pc'[h] # "tie"
        PROVE  Free(h)
    BY <1>1, <1>2, <2>1, <2>5, TaskKind, TaskAfter DEF Free, Announced
  <2>6. CASE DeathMatchFind(h) /\ ~Throw(h)
    <3>1. \/ \E o : /\ task' = [task EXCEPT ![h] = Task(TellPodium("FINISHED", o), "ended")]
                    /\ Goto(h, "open") /\ gameState # "LOBBY"
          \/ UNCHANGED task /\ Goto(h, "maingame")
      BY <2>6 DEF DeathMatchFind
    <3> QED
      BY <1>4, <2>3, <2>5, <3>1 DEF Goto
  <2>7. CASE MainGameFind(h) /\ ~Throw(h)
    <3>1. \/ \E o : /\ task' = [task EXCEPT ![h] = Task(TellPodium("FINISHED", o), "ended")]
                    /\ Goto(h, "open") /\ gameState # "LOBBY"
          \/ \E o : /\ task' = [task EXCEPT ![h] = Task(TellPodium("DEATHMATCH", o), "loop")]
                    /\ gameState # "LOBBY"
          \/ UNCHANGED task /\ Goto(h, Back(h))
          \/ task' = [task EXCEPT ![h] = PlayerList] /\ Goto(h, "open")
      BY <2>7 DEF MainGameFind
    <3> QED
      BY <1>4, <1>a, <2>3, <2>4, <2>5, <3>1 DEF Goto
  <2> QED
    BY <1>10, <2>2, <2>6, <2>7
<1> QED
  BY <1>5, <1>6, <1>7, <1>8, <1>9, <1>10 DEF HandlerThread

LEMMA ErrandOwn ==
  ASSUME TypeOK, NEW t \in Thread, ServerStep(t), Errand(t)
  PROVE  Free(t) \/ (t \in Conn /\ Takes(t)) \/ Pursues(t)
BY ErrandBroadcast, ErrandAccept, ErrandHandler DEF ServerStep, ThreadStep

LEMMA ErrandServer ==
  ASSUME TypeOK, IdThreads, Unopened, NEW t \in Thread, ServerStep(t),
         \A u \in Thread : Errand(u)
  PROVE  \A u \in Thread : Errand(u)'
<1>a. [Next]_vars /\ Acceptor \notin Conn /\ pc \in [Thread -> Location]
      /\ task \in [Thread -> SendTask]
  BY ServerAssumption DEF Next, TypeOK, ServerTypeOK
<1>b. gameState' = "LOBBY" => gameState = "LOBBY"
  BY <1>a, LobbyLeft
<1>1. Errand(t)'
  <2>1. Errand(t)
    OBVIOUS
  <2>2. CASE Free(t)
    BY <2>2 DEF Free, Errand
  <2>3. CASE Takes(t)
    BY <2>3 DEF Takes, Errand, Announcing
  <2>4. CASE Pursues(t)
    BY <1>b, <2>1, <2>4 DEF Pursues, Errand, Announcing
  <2> QED
    BY <2>1, <2>2, <2>3, <2>4, ErrandOwn
<1>2. ASSUME NEW u \in Thread \ {t} PROVE Errand(u)'
  <2>1. Errand(u)
    OBVIOUS
  <2>2. CASE pc'[u] = pc[u] /\ task'[u] = task[u]
    BY <1>b, <2>1, <2>2 DEF Errand
  <2>3. CASE \E c \in Conn : t = Acceptor /\ Accept(c)
    <3>1. task'[u] = task[u] /\ (pc'[u] = pc[u] \/ (pc[u] = "off" /\ pc'[u] = "read"))
      BY <1>a, <2>3 DEF Accept, IdThreads
    <3> QED
      BY <1>b, <2>1, <3>1 DEF Errand, Announcing
  <2> QED
    BY <2>2, <2>3, OnlyOwn
<1> QED
  BY <1>1, <1>2

(* The clients behind a thread that announces know, or need not know.      *)
Reached(t, i) == i < task[t].next \/ (pc[t] = "join" /\ i = task[t].next)

Passed(t) ==
  pc[t] \in {"send", "join"} /\ task[t].msg.kind \in Announced =>
    \A i \in DOMAIN clients : Reached(t, i) => Aware(clients[i], task[t].msg.kind)

LEMMA PassedOwn ==
  ASSUME TypeInv, IdThreads, GreetInv, NoRefusal, NEW t \in Thread, ServerStep(t), Pursues(t),
         Errand(t), Passed(t)
  PROVE  Passed(t)'
<1>a. /\ pc \in [Thread -> Location] /\ task \in [Thread -> SendTask]
      /\ clients \in Seq(Conn) /\ link \in [Conn -> LinkState] /\ TypeOK
      /\ Broadcast(t) /\ ~Throw(t) /\ ~Done(t) /\ task'[t].msg.kind = task[t].msg.kind
  BY DEF TypeInv, TypeOK, WireTypeOK, ServerTypeOK, Pursues
<1>b. \A i \in DOMAIN clients : i \in Nat \ {0} /\ clients[i] \in Conn
  BY <1>a
<1> SUFFICES ASSUME task[t].msg.kind \in Announced
             PROVE  Passed(t)'
  BY <1>a DEF Passed
<1>c. PICK kind, n : kind = task[t].msg.kind /\ n = task[t].next
  OBVIOUS
<1>d. kind \in Announced /\ gameState # "LOBBY" /\ n \in Nat /\ task'[t].msg.kind = kind
  BY <1>a, <1>c DEF Errand, SendTask
<1>e. \A c \in Conn : Aware(c, kind) => Aware(c, kind)'
  BY <1>d, AwareServer
<1>f. UNCHANGED clients
  BY <1>a DEF Broadcast, Open, IteratorFails, SendNext, SendFails, JoinReturns, Done
<1>g. ASSUME \A i \in DOMAIN clients :
               Reached(t, i)' => (pc[t] \in {"send", "join"} /\ Reached(t, i)) \/ Aware(clients[i], kind)'
      PROVE  Passed(t)'
  <2>1. \A i \in DOMAIN clients : Reached(t, i)' => Aware(clients[i], kind)'
    <3> SUFFICES ASSUME NEW i \in DOMAIN clients, Reached(t, i)'
                 PROVE  Aware(clients[i], kind)'
      OBVIOUS
    <3>1. CASE pc[t] \in {"send", "join"} /\ Reached(t, i)
      <4>1. PICK c \in Conn : c = clients[i]
        BY <1>b
      <4>2. Aware(c, kind)
        BY <1>c, <1>d, <3>1, <4>1 DEF Passed
      <4>3. Aware(c, kind)'
        BY <1>e, <4>2
      <4>4. c = clients'[i] /\ clients'[i] = clients[i]
        BY <1>f, <4>1
      <4> QED
        BY <1>f, <4>1, <4>3 DEF Aware, Has, Outside, Got
    <3> QED
      BY <1>g, <3>1
  <2> QED
    BY <1>d, <1>f, <2>1 DEF Passed, Aware, Has, Outside, Got
<1>1. CASE Open(t)
  <2>1. task'[t].next = 1 /\ pc'[t] = "send"
    BY <1>1, <1>a DEF Open, Goto, SendTask
  <2> QED
    BY <1>b, <1>g, <2>1 DEF Reached
<1>2. CASE SendNext(t)
  <2>1. PICK c : c = clients[n]
    OBVIOUS
  <2>2. /\ n \in DOMAIN clients /\ c \in Conn /\ pc'[t] = "send" /\ pc[t] = "send"
        /\ task'[t].next = n + 1
    BY <1>2, <1>a, <1>b, <1>c, <2>1 DEF SendNext, Sending, SendTask
  <2>3. Has(c, kind)'
    <3>1. <<task[t].msg>> \in Seq(Instruction) /\ Among(<<task[t].msg>>, kind)
      <4>1. <<task[t].msg>> \in Seq(Instruction)
        BY <1>a, Single DEF SendTask
      <4>2. Among(<<task[t].msg>>, kind) <=> task[t].msg.kind = kind
        BY AmongOne
      <4> QED
        BY <1>c, <4>1, <4>2
    <3>2. Write(c, <<task[t].msg>>)
      BY <1>2, <1>c, <2>1 DEF SendNext
    <3> QED
      BY <1>a, <2>2, <3>1, <3>2, AmongWrite
  <2>4. Aware(clients[n], kind)'
    BY <1>f, <2>1, <2>3 DEF Aware, Has
  <2>5. \A i \in DOMAIN clients : Reached(t, i)' => Reached(t, i) \/ i = n
    BY <1>b, <1>c, <1>d, <2>2 DEF Reached
  <2> QED
    BY <1>g, <2>2, <2>4, <2>5
<1>3. CASE SendFails(t)
  <2>1. PICK c : c = clients[n]
    OBVIOUS
  <2>2. /\ n \in DOMAIN clients /\ c \in Conn /\ pc'[t] = "join" /\ pc[t] = "send"
        /\ task'[t].next = n /\ ~Writable(c) /\ UNCHANGED link
    BY <1>3, <1>a, <1>b, <1>c, <2>1 DEF SendFails, Sending, Goto, wire
  <2>3. link'[c] # "up"
    BY <2>2 DEF Writable
  <2>4. Aware(clients[n], kind)'
    BY <1>f, <2>1, <2>3 DEF Aware
  <2>5. \A i \in DOMAIN clients : Reached(t, i)' => Reached(t, i) \/ i = n
    BY <1>c, <2>2 DEF Reached
  <2> QED
    BY <1>g, <2>2, <2>4, <2>5
<1>4. CASE JoinReturns(t)
  <2>1. pc'[t] = "send" /\ pc[t] = "join" /\ task'[t].next = n + 1
    BY <1>4, <1>a, <1>c DEF JoinReturns, Goto, SendTask
  <2>2. \A i \in DOMAIN clients : Reached(t, i)' => Reached(t, i)
    BY <1>b, <1>c, <1>d, <2>1 DEF Reached
  <2> QED
    BY <1>g, <2>1, <2>2
<1> QED
  BY <1>a, <1>1, <1>2, <1>3, <1>4 DEF Broadcast, IteratorFails

LEMMA PassedServer ==
  ASSUME TypeInv, IdThreads, GreetInv, NoRefusal, Known, NEW t \in Thread, ServerStep(t),
         \A u \in Thread : Errand(u) /\ Passed(u)
  PROVE  \A u \in Thread : Passed(u)'
<1>a. /\ TypeOK /\ Unopened /\ [Next]_vars /\ clients \in Seq(Conn)
      /\ pc \in [Thread -> Location] /\ task \in [Thread -> SendTask] /\ Acceptor \notin Conn
  BY ServerAssumption DEF TypeInv, TypeOK, ServerTypeOK, GreetInv, Next
<1>1. Passed(t)'
  <2>1. Errand(t) /\ Passed(t)
    OBVIOUS
  <2>2. CASE Free(t) \/ Takes(t)
    BY <2>2 DEF Free, Takes, Passed
  <2>3. CASE Pursues(t)
    BY <2>1, <2>3, PassedOwn
  <2> QED
    BY <1>a, <2>1, <2>2, <2>3, ErrandOwn
<1>2. ASSUME NEW u \in Thread \ {t} PROVE Passed(u)'
  <2>1. PICK kind : kind = task[u].msg.kind
    OBVIOUS
  <2>2. Errand(u) /\ Passed(u)
    OBVIOUS
  <2>3. CASE pc'[u] # pc[u] \/ task'[u] # task[u]
    <3>1. PICK c \in Conn : t = Acceptor /\ Accept(c)
      BY <1>a, <2>3, OnlyOwn
    <3>2. pc'[u] = "read"
      BY <1>a, <2>3, <3>1 DEF Accept
    <3> QED
      BY <3>2 DEF Passed
  <2>4. CASE /\ pc'[u] = pc[u] /\ task'[u] = task[u]
             /\ pc[u] \in {"send", "join"} /\ kind \in Announced
    <3>1. gameState # "LOBBY"
      BY <2>1, <2>2, <2>4 DEF Errand
    <3>2. \A c \in Conn : Aware(c, kind) => Aware(c, kind)'
      BY <3>1, AwareServer
    <3>3. \A i : Reached(u, i)' <=> Reached(u, i)
      BY <2>4 DEF Reached
    <3>4. ASSUME NEW i \in DOMAIN clients', Reached(u, i)'
          PROVE  \E d \in Conn : d = clients'[i] /\ Aware(d, kind)'
      <4>1. CASE i \in DOMAIN clients /\ clients'[i] = clients[i]
        <5>1. PICK c \in Conn : c = clients[i]
          BY <1>a, <4>1
        <5>2. Aware(c, kind)
          BY <2>1, <2>2, <2>4, <3>3, <3>4, <4>1, <5>1 DEF Passed
        <5>3. Aware(c, kind)'
          BY <3>2, <5>2
        <5> QED
          BY <4>1, <5>1, <5>3
      <4>2. CASE ~(i \in DOMAIN clients /\ clients'[i] = clients[i])
        <5>1. PICK c \in Conn : t = Acceptor /\ Accept(c)
          BY <1>a, <3>4, <4>2, OnlyOwn
        <5>2. clients' = Append(clients, c) /\ c \notin Accepted
          BY <5>1 DEF Accept
        <5>3. clients'[i] = c
          BY <1>a, <3>4, <4>2, <5>2
        <5>4. Outside(c)
          BY <1>a, <5>2, OutsideFrom
        <5>5. Aware(c, kind)'
          BY <3>2, <5>4 DEF Aware
        <5> QED
          BY <5>3, <5>5
      <4> QED
        BY <4>1, <4>2
    <3>5. task'[u].msg.kind = kind
      BY <2>1, <2>4
    <3> QED
      BY <3>4, <3>5 DEF Passed, Aware, Has, Outside, Got
  <2> QED
    BY <2>1, <2>3, <2>4 DEF Passed
<1> QED
  BY <1>1, <1>2

(* A thread that has announced to all has done so.                         *)
LEMMA AllAware ==
  ASSUME TypeOK, IdThreads, Known, NEW t \in Thread, NEW after, AllSent(t, after), Passed(t),
         NEW kind \in Announced, task[t].msg.kind = kind
  PROVE  \A c \in Conn : Aware(c, kind)
<1> SUFFICES ASSUME NEW c \in Conn PROVE Aware(c, kind)
  OBVIOUS
<1>a. clients \in Seq(Conn) /\ task[t].next \in Nat
  BY DEF TypeOK, ServerTypeOK, SendTask
<1>1. CASE c \in Accepted
  <2>1. PICK i \in DOMAIN clients : c = clients[i]
    BY <1>1 DEF Accepted
  <2>2. i < task[t].next
    BY <1>a, <2>1 DEF AllSent
  <2> QED
    BY <2>1, <2>2 DEF Passed, Reached, AllSent
<1>2. CASE c \notin Accepted
  BY <1>2, OutsideFrom DEF Aware
<1> QED
  BY <1>1, <1>2

(* Once the start, or the end, has been announced, everybody knows.        *)
StartTold ==
  gameState # "LOBBY" /\ doomed = {} /\ (\A t \in Thread : ~Starting(t)) =>
    \A c \in Conn : Aware(c, "START")

EndTold == gameState = "ENDED" => \A c \in Conn : Aware(c, "FINISHED")

AnnounceInv == (\A t \in Thread : Errand(t) /\ Passed(t)) /\ StartTold /\ EndTold

(* How the game goes on.                                                   *)
LEMMA GameMoves ==
  ASSUME NEW t \in Thread, ServerStep(t)
  PROVE  \/ UNCHANGED gameState
         \/ t \in Conn /\ (Begin(t) \/ OpenDeathMatch(t) \/ GameEnds(t))
<1> USE DEF room
<1>1. CASE Broadcast(t)
  BY <1>1 DEF Broadcast, Open, IteratorFails, SendNext, SendFails, JoinReturns, Done
<1>2. CASE AcceptThread
  BY <1>2 DEF AcceptThread, Accept, StopAccepting, CloseClient, ClientClosed, AcceptorEnds,
     ClearPlayers
<1>3. CASE t \in Conn /\ HandlerThread(t)
  BY <1>3 DEF HandlerThread, Ignore, ReadFails, LeaveLoop, Disconnected, HandlerEnds,
     ReceiveConnect, AddPlayer, Greet, ReceiveReconnect, LookUpPlayer, DropHandler, AdoptPlayer,
     WelcomeBack, ReceiveReady, ReceiveStart, ReceiveRoomName, ReceiveFound,
     DeathMatchFind, MainGameFind
<1> QED
  BY <1>1, <1>2, <1>3 DEF ServerStep, ThreadStep

(* A thread that stops announcing the start has told everybody, or dies.   *)
LEMMA StartingEnds ==
  ASSUME TypeOK, NEW t \in Thread, ServerStep(t), Errand(t), Starting(t), ~Starting(t)',
         doomed' = {}
  PROVE  AllSent(t, "loop") /\ task[t].msg.kind = "START"
<1>a. /\ pc \in [Thread -> Location] /\ task \in [Thread -> SendTask] /\ Acceptor \notin Conn
      /\ Conn \subseteq Thread
  BY ServerAssumption DEF TypeOK, ServerTypeOK, Thread
<1>1. CASE pc[t] = "begin"
  <2>1. ~Broadcast(t)
    BY <1>1 DEF Broadcast, Open, IteratorFails, SendNext, SendFails, JoinReturns, Done, Sending,
       AllSent
  <2>2. ~AcceptThread \/ t # Acceptor
    BY <1>1 DEF AcceptThread, Accept, StopAccepting, CloseClient, ClientClosed, AcceptorEnds,
       ClearPlayers, AllSent
  <2>3. HandlerThread(t) => Begin(t)
    BY <1>1 DEF HandlerThread, Ignore, ReadFails, LeaveLoop, Disconnected, HandlerEnds,
       ReceiveConnect, AddPlayer, Greet, ReceiveReconnect, LookUpPlayer, DropHandler,
       AdoptPlayer, WelcomeBack, ReceiveReady, ReceiveStart, ReceiveRoomName, ReceiveFound,
       DeathMatchFind, MainGameFind, OpenDeathMatch, GameEnds, Take, AllSent
  <2>4. Begin(t)
    BY <2>1, <2>2, <2>3 DEF ServerStep, ThreadStep
  <2>5. pc'[t] = "open" /\ task'[t] = Task(Tell("START", None), "loop")
    BY <1>a, <2>4 DEF Begin, Goto
  <2> QED
    BY <2>5, TaskKind DEF Starting
<1>2. CASE pc[t] # "begin"
  <2>1. pc[t] \in {"open", "send", "join"} /\ task[t].msg.kind = "START" /\ task[t].after = "loop"
    BY <1>2 DEF Starting, Errand, Announced
  <2>2. Broadcast(t)
    BY <2>1 DEF ServerStep, ThreadStep, AcceptThread, Accept, StopAccepting, CloseClient,
       ClientClosed, AcceptorEnds, ClearPlayers, AllSent, HandlerThread, Ignore, ReadFails,
       LeaveLoop, Disconnected, HandlerEnds, ReceiveConnect, AddPlayer, Greet, ReceiveReconnect,
       LookUpPlayer, DropHandler, AdoptPlayer, WelcomeBack, ReceiveReady, ReceiveStart, Begin,
       ReceiveRoomName, ReceiveFound, DeathMatchFind, MainGameFind, OpenDeathMatch, GameEnds, Take
  <2>3. CASE Done(t)
    BY <2>1, <2>3 DEF Done
  <2>4. CASE Throw(t)
    <3>1. doomed' = doomed \cup {t}
      BY <2>1, <2>4 DEF Throw
    <3> QED
      BY <3>1
  <2>5. CASE ~Done(t) /\ ~Throw(t)
    <3>1. Free(t) \/ Pursues(t)
      BY <2>2, ErrandBroadcast
    <3>2. task'[t].msg.kind = "START" /\ pc'[t] \in Announcing
      <4>1. CASE Open(t)
        <5>1. task'[t].msg = Filled(task[t].msg) /\ pc'[t] = "send" /\ task[t].msg \in Instruction
          BY <2>5, <1>a, <4>1 DEF Open, Goto, SendTask
        <5> QED
          BY <2>1, <5>1, FilledKind DEF Announcing
      <4>2. CASE SendNext(t) \/ SendFails(t) \/ JoinReturns(t)
        BY <1>a, <2>1, <4>2 DEF SendNext, SendFails, JoinReturns, Sending, Goto, Announcing,
           SendTask
      <4> QED
        BY <2>2, <2>5, <4>1, <4>2 DEF Broadcast, IteratorFails
    <3> QED
      BY <3>2 DEF Starting, Announcing
  <2> QED
    BY <2>3, <2>4, <2>5
<1> QED
  BY <1>1, <1>2

LEMMA ToldServer ==
  ASSUME TypeInv, IdThreads, GreetInv, NoRefusal, Known, AnnounceInv, NEW t \in Thread,
         ServerStep(t)
  PROVE  StartTold' /\ EndTold'
<1>a. /\ TypeOK /\ Unopened /\ \A u \in Thread : Errand(u) /\ Passed(u)
      /\ pc \in [Thread -> Location] /\ task \in [Thread -> SendTask]
      /\ Acceptor \notin Conn /\ doomed \subseteq doomed' /\ Conn \subseteq Thread
  BY RunningKept, ServerAssumption
     DEF TypeInv, TypeOK, ServerTypeOK, GreetInv, AnnounceInv, Thread
<1>b. Errand(t) /\ Passed(t)
  BY <1>a
<1>c. ASSUME NEW kind, gameState # "LOBBY", \A c \in Conn : Aware(c, kind)
      PROVE  \A c \in Conn : Aware(c, kind)'
  BY <1>c, AwareServer
<1>d. \/ UNCHANGED gameState
      \/ t \in Conn /\ (Begin(t) \/ OpenDeathMatch(t) \/ GameEnds(t))
  BY GameMoves
<1>e. OpenDeathMatch(t) \/ GameEnds(t) => gameState # "LOBBY"
  BY <1>b DEF OpenDeathMatch, GameEnds, AllSent, Errand, Announced
<1>f. Begin(t) => gameState' = "MAIN_GAME" /\ Starting(t)'
  <2> SUFFICES ASSUME Begin(t) PROVE gameState' = "MAIN_GAME" /\ Starting(t)'
    OBVIOUS
  <2>1. pc'[t] = "open" /\ task'[t] = Task(Tell("START", None), "loop")
    BY <1>a DEF Begin, Goto
  <2> QED
    BY <2>1, TaskKind DEF Begin, Starting
<1>1. StartTold'
  <2> SUFFICES ASSUME gameState' # "LOBBY", doomed' = {}, \A u \in Thread : ~Starting(u)'
               PROVE  \A c \in Conn : Aware(c, "START")'
    BY DEF StartTold
  <2>1. gameState # "LOBBY" /\ doomed = {}
    BY <1>a, <1>d, <1>e, <1>f
  <2>2. \A u \in Thread \ {t} : ~Starting(u)
    <3> SUFFICES ASSUME NEW u \in Thread \ {t}, Starting(u) PROVE FALSE
      OBVIOUS
    <3>1. CASE pc'[u] = pc[u] /\ task'[u] = task[u]
      BY <3>1 DEF Starting
    <3>2. CASE \E c \in Conn : t = Acceptor /\ Accept(c)
      <4>1. pc'[u] = pc[u] /\ task'[u] = task[u]
        BY <1>a, <3>2 DEF Accept, IdThreads, Starting
      <4> QED
        BY <3>1, <4>1
    <3> QED
      BY <1>a, <3>1, <3>2, OnlyOwn
  <2>3. \A c \in Conn : Aware(c, "START")
    <3>1. CASE Starting(t)
      <4>1. AllSent(t, "loop") /\ task[t].msg.kind = "START"
        BY <1>a, <1>b, <3>1, StartingEnds
      <4> QED
        BY <1>a, <1>b, <4>1, AllAware DEF Announced
    <3>2. CASE ~Starting(t)
      BY <2>1, <2>2, <3>2 DEF AnnounceInv, StartTold
    <3> QED
      BY <3>1, <3>2
  <2> QED
    BY <1>c, <2>1, <2>3
<1>2. EndTold'
  <2> SUFFICES ASSUME gameState' = "ENDED" PROVE \A c \in Conn : Aware(c, "FINISHED")'
    BY DEF EndTold
  <2>1. CASE gameState = "ENDED"
    BY <1>c, <2>1 DEF AnnounceInv, EndTold
  <2>2. CASE GameEnds(t)
    <3>1. AllSent(t, "ended") /\ task[t].msg.kind = "FINISHED"
      BY <1>b, <2>2 DEF GameEnds, AllSent, Errand
    <3>2. \A c \in Conn : Aware(c, "FINISHED")
      BY <1>a, <1>b, <3>1, AllAware DEF Announced
    <3> QED
      BY <1>c, <1>e, <2>2, <3>2
  <2> QED
    BY <1>d, <1>f, <2>1, <2>2 DEF OpenDeathMatch
<1> QED
  BY <1>1, <1>2

LEMMA AnnouncePhone ==
  ASSUME TypeInv, IdThreads, GreetInv, Known, Refused, Served, UpUsed, UpUsed', AnnounceInv,
         NEW p \in Phones, Connects(p) \/ Hears(p) \/ Plays(p) \/ Fails(p)
  PROVE  AnnounceInv'
<1>1. UNCHANGED <<gameState, clients, pc, task, doomed>>
  BY LinkPhone DEF serverVars, room, threads
<1>2. ASSUME gameState # "LOBBY", NEW c \in Conn, NEW kind \in Announced, Aware(c, kind)
      PROVE  Aware(c, kind)'
  BY <1>2, AwarePhone
<1>a. clients \in Seq(Conn)
  BY DEF TypeInv, TypeOK, ServerTypeOK
<1>3. ASSUME NEW t \in Thread PROVE Errand(t)' /\ Passed(t)'
  <2>1. Errand(t) /\ Passed(t)
    BY DEF AnnounceInv
  <2>2. Errand(t)'
    BY <1>1, <2>1 DEF Errand
  <2>3. PICK kind : kind = task[t].msg.kind
    OBVIOUS
  <2>4. CASE kind \in Announced /\ pc[t] \in {"send", "join"}
    <3>1. gameState # "LOBBY"
      BY <2>1, <2>3, <2>4 DEF Errand
    <3>2. ASSUME NEW i \in DOMAIN clients, Reached(t, i)
          PROVE  \E c \in Conn : c = clients[i] /\ Aware(c, kind)'
      <4>1. PICK c \in Conn : c = clients[i]
        BY <1>a
      <4>2. Aware(c, kind)
        BY <2>1, <2>3, <2>4, <3>2, <4>1 DEF Passed
      <4>3. Aware(c, kind)'
        BY <1>2, <2>4, <3>1, <4>2
      <4> QED
        BY <4>1, <4>3
    <3>3. task'[t].msg.kind = kind /\ clients' = clients
      BY <1>1, <2>3
    <3>4. \A i : Reached(t, i)' => Reached(t, i)
      BY <1>1 DEF Reached
    <3> QED
      BY <2>2, <3>2, <3>3, <3>4 DEF Passed, Aware, Has, Outside, Got
  <2>5. CASE ~(kind \in Announced /\ pc[t] \in {"send", "join"})
    BY <1>1, <2>2, <2>3, <2>5 DEF Passed
  <2> QED
    BY <2>2, <2>4, <2>5
<1>4. StartTold'
  <2> SUFFICES ASSUME gameState # "LOBBY", doomed = {}, \A t \in Thread : ~Starting(t)
               PROVE  \A c \in Conn : Aware(c, "START")'
    BY <1>1 DEF StartTold, Starting
  <2> QED
    BY <1>2 DEF AnnounceInv, StartTold, Announced
<1>5. EndTold'
  <2> SUFFICES ASSUME gameState = "ENDED" PROVE \A c \in Conn : Aware(c, "FINISHED")'
    BY <1>1 DEF EndTold
  <2> QED
    BY <1>2 DEF AnnounceInv, EndTold, Announced
<1> QED
  BY <1>3, <1>4, <1>5 DEF AnnounceInv

LEMMA AnnounceInit == Init => AnnounceInv
<1> SUFFICES ASSUME Init PROVE AnnounceInv
  OBVIOUS
<1>1. gameState = "LOBBY" /\ \A t \in Thread : task[t] = NoTask /\ pc[t] \in {"accept", "off"}
  BY DEF Init, ServerInit
<1>2. NoTask.msg.kind = "none" /\ NoTask.after = "loop"
  BY TaskKind, TaskAfter
<1> QED
  BY <1>1, <1>2 DEF AnnounceInv, Errand, Passed, Announced, StartTold, EndTold

LEMMA AnnounceNext ==
  ASSUME TypeInv, IdInv, JoinInv, CloseInv, ToldInv, StartInv, AnnounceInv, [Next]_vars
  PROVE  AnnounceInv'
<1>a. /\ IdThreads /\ GreetInv /\ NoRefusal /\ Known /\ Refused /\ Served /\ UpUsed /\ Unopened
      /\ TypeOK
  BY DEF TypeInv, IdInv, IdServer, JoinInv, CloseInv, ToldInv, StartInv, GreetInv
<1>b. UpUsed'
  BY <1>a, StartNext DEF StartInv
<1>1. ASSUME NEW t \in Thread, ServerStep(t) PROVE AnnounceInv'
  <2>1. \A u \in Thread : Errand(u) /\ Passed(u)
    BY DEF AnnounceInv
  <2>2. \A u \in Thread : Errand(u)'
    BY <1>a, <1>1, <2>1, ErrandServer
  <2>3. \A u \in Thread : Passed(u)'
    BY <1>a, <1>1, <2>1, PassedServer
  <2>4. StartTold' /\ EndTold'
    BY <1>a, <1>1, ToldServer
  <2> QED
    BY <2>2, <2>3, <2>4 DEF AnnounceInv
<1>2. ASSUME NEW p \in Phones, Connects(p) \/ Hears(p) \/ Plays(p) \/ Fails(p)
      PROVE  AnnounceInv'
  BY <1>a, <1>b, <1>2, AnnouncePhone
<1>3. CASE UNCHANGED <<wire, room, phoneVars, clients, pc, ref, task, doomed>>
  <2> USE <1>3 DEF wire, room, phoneVars
  <2>1. \A c, kind : Aware(c, kind)' <=> Aware(c, kind)
    BY DEF Aware, Has, Outside, Held, Named, Spoken, Got
  <2>2. (\A t \in Thread : Errand(t))'
    BY DEF AnnounceInv, Errand
  <2>3. (\A t \in Thread : Passed(t))'
    BY <2>1 DEF AnnounceInv, Passed, Reached
  <2>4. StartTold' /\ EndTold'
    BY <2>1 DEF AnnounceInv, StartTold, EndTold, Starting
  <2> QED
    BY <2>2, <2>3, <2>4 DEF AnnounceInv
<1> QED
  BY <1>1, <1>2, <1>3 DEF Next, HostStops, StopListening, vars, serverVars, threads

RoomTold ==
  TypeInv /\ IdInv /\ JoinInv /\ CloseInv /\ ToldInv /\ StartInv /\ AnnounceInv

LEMMA RoomToldInit == Init => RoomTold
BY InitType, IdInit, JoinInit, ClosingInit, ToldInit, StartInit, AnnounceInit DEF RoomTold

LEMMA RoomToldNext == RoomTold /\ [Next]_vars => RoomTold'
<1> SUFFICES ASSUME RoomTold, [Next]_vars PROVE RoomTold'
  OBVIOUS
<1>1. TypeInv' /\ IdInv' /\ JoinInv'
  BY NextType, IdNext, JoinNext DEF RoomTold
<1>2. CloseInv' /\ ToldInv' /\ AnnounceInv'
  BY ClosingNext, ToldNext, AnnounceNext DEF RoomTold, JoinInv
<1>3. StartInv'
  BY StartNext DEF RoomTold, IdInv, IdServer, JoinInv
<1> QED
  BY <1>1, <1>2, <1>3 DEF RoomTold

(* A player on the connection by which it joined is no outsider there, so  *)
(* it has what it must be aware of, or has read it.                        *)
LEMMA PlayerAware ==
  ASSUME TypeInv, NEW p \in Phones, myId[p] = Sock(p), link[Sock(p)] = "up",
         NEW kind, \A c \in Conn : Aware(c, kind)
  PROVE  Has(Sock(p), kind) \/ Got(p, kind)
<1>1. Sock(p) \in Conn /\ Owner(Sock(p)) = p /\ None \notin Conn
  <2>1. myId[p] \in Conn \cup {None} /\ None \notin Conn
    BY ProtocolAssumption DEF TypeInv, TypeOK, PhoneTypeOK
  <2>2. Sock(p) # None
    <3>1. tries[p] \in Nat
      BY ProtocolAssumption DEF TypeInv, TypeOK, PhoneTypeOK
    <3> QED
      BY <3>1, ProtocolAssumption DEF Sock
  <2> QED
    BY <2>1, <2>2 DEF Owner, Sock
<1>2. ~Outside(Sock(p))
  BY <1>1 DEF Outside, Named
<1> QED
  BY <1>1, <1>2 DEF Aware

(* Once START has been sent nobody who joined before the game started, and *)
(* whose connection has not broken, is left in the lobby without it        *)
(* (Server.java:112-116, 216-217): a player is created only in the lobby   *)
(* and only by a handler in clients, so that the thread that announces the *)
(* start passes it, unless it dies; a connection accepted too late for     *)
(* that belongs to nobody who has joined by it.                            *)
THEOREM StartReaches == Spec => []StartReachesPlayers
<1>1. RoomTold => StartReachesPlayers
  <2> SUFFICES ASSUME RoomTold, gameState # "LOBBY", doomed = {},
                      \A t \in Thread : ~Starting(t), NEW p \in Phones,
                      myId[p] = Sock(p), link[Sock(p)] = "up", screen[p] = "lobby"
               PROVE  Has(Sock(p), "START")
    BY DEF StartReachesPlayers, Has, Among, Inbox
  <2>1. \A c \in Conn : Aware(c, "START")
    BY DEF RoomTold, AnnounceInv, StartTold
  <2> QED
    BY <2>1, PlayerAware DEF RoomTold, Got
<1> QED
  BY <1>1, RoomToldInit, RoomToldNext, PTL DEF Spec

(* When the game is ENDED every player who is on the connection by which   *)
(* it joined has been told, if that has not broken: gameState = ENDED      *)
(* comes after FINISHED was sent to all (Server.java:240-244, 267-272),    *)
(* and clients that appear in between have no player.                      *)
THEOREM EndAnnounced == Spec => []EndedAnnounced
<1>1. RoomTold => EndedAnnounced
  <2> SUFFICES ASSUME RoomTold, gameState = "ENDED", NEW p \in Phones,
                      myId[p] = Sock(p), link[Sock(p)] = "up"
               PROVE  Has(Sock(p), "FINISHED") \/ podium[p] # None
    BY DEF EndedAnnounced, Told, Has, Among, Inbox
  <2>1. \A c \in Conn : Aware(c, "FINISHED")
    BY DEF RoomTold, AnnounceInv, EndTold
  <2> QED
    BY <2>1, PlayerAware DEF RoomTold, Got
<1> QED
  BY <1>1, RoomToldInit, RoomToldNext, PTL DEF Spec

=============================================================================
