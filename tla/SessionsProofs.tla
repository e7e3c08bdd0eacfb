--------------------------- MODULE SessionsProofs ---------------------------
(* For any devices, networks and orders of events: of two crossing         *)
(* connections one survives, a stranger is told nothing, and a key goes    *)
(* only to the devices of a list it was made for.                          *)
(*                                                                         *)
(* The argument: the table of sessions holds exactly the ones that run on; *)
(* a session is trusted, or pushes, only if the other end has been in a    *)
(* list; and a key in a message, or in a command that waits, was made for  *)
(* a list with the device it goes to.                                      *)
EXTENDS Sessions, WellFoundedInduction, TLAPS

-----------------------------------------------------------------------------
(* What a device may hear. *)

Ever(ls, x) == \E i \in 1..Len(ls) : x \in ls[i]

Inside(ls, k, x) ==
  k \in Nat \ {0} /\ \E i \in k..Len(ls) : KeyOf(ls, i) = k /\ x \in ls[i]

Secret == {"Hello", "Rosters", "KeyShare", "Records"}

GoodMessage(ls, x, m) ==
  /\ m \in Message
  /\ m.type \in Secret => Ever(ls, x)
  /\ m.type \in {"Hello", "Rosters"} => m.at \in 0..Len(ls)
  /\ m.type = "KeyShare" => Inside(ls, m.key, x)

GoodQueue(ls, x, q) ==
  /\ q \in Seq(Message)
  /\ \A i \in 1..Len(q) : GoodMessage(ls, x, q[i])

GoodCommand(ls, x, m) ==
  /\ m \in Command
  /\ m.type = "Rosters" => m.at \in 0..Len(ls)
  /\ m.type = "KeyShare" => Inside(ls, m.key, x)

GoodCommands(ls, x, q) ==
  /\ q \in Seq(Command)
  /\ \A i \in 1..Len(q) : GoodCommand(ls, x, q[i])

-----------------------------------------------------------------------------
(* The ends of the connections and the table. *)

OtherOf(cn, c, d) == IF cn[c].from = d THEN cn[c].to ELSE cn[c].from

Joins(cn, c, d, p) ==
  /\ cn[c] # None /\ d # p
  /\ (cn[c].from = d /\ cn[c].to = p) \/ (cn[c].from = p /\ cn[c].to = d)

InSession(e) == e.pc \in {"up", "asking"}

Closing(e) == \E i \in 1..Len(e.commands) : e.commands[i].type = "Close"

GoodEnd(ls, x, e) ==
  /\ e \in End
  /\ GoodCommands(ls, x, e.commands)
  /\ e.trusted \/ e.pc = "asking" => Ever(ls, x)
  /\ e.pc = "none" => e = NoEnd

(* cn: the connections, ls: the lists, es: the ends. *)
EndsOK(cn, ls, es) ==
  /\ es \in [Conn -> [Device -> End]]
  /\ \A c \in Conn, d \in Device :
       IF \E p \in Device : Joins(cn, c, d, p) THEN GoodEnd(ls, OtherOf(cn, c, d), es[c][d])
       ELSE es[c][d] = NoEnd

(* The table holds exactly the sessions that run on. *)
LinksOK(cn, lk, es) ==
  /\ \A d, p \in Device : lk[d][p] # None =>
       Joins(cn, lk[d][p].conn, d, p) /\ InSession(es[lk[d][p].conn][d])
  /\ \A c \in Conn, d, p \in Device :
       Joins(cn, c, d, p) /\ InSession(es[c][d]) /\ ~Closing(es[c][d]) =>
         lk[d][p] # None /\ lk[d][p].conn = c

WiresOK(ls, ws) ==
  /\ ws \in [Conn -> [Device -> Seq(Message)]]
  /\ \A c \in Conn, d \in Device : GoodQueue(ls, d, ws[c][d])

KeysOK(ls, ks) ==
  /\ ks \in [Device -> SUBSET Nat]
  /\ \A d \in Device : \A k \in ks[d] : Inside(ls, k, d)

ListsOK ==
  /\ list # <<>>
  /\ setup \in Setups /\ list \in Seq(SUBSET Device)
  /\ view \in [Device -> 0..Len(list)]

LinkTable == [Device -> [Device -> Link \cup {None}]]

ConnsOK(cn) ==
  /\ cn \in [Conn -> Pipe \cup {None}]
  /\ \A c \in Conn : cn[c] # None => cn[c].from # cn[c].to

TablesOK ==
  /\ link \in LinkTable /\ ConnsOK(conn)
  /\ dialling \in [Device -> SUBSET Device] /\ known \in [Device -> SUBSET Device]

FeedsOK ==
  /\ seq \in [Device -> Nat] /\ faults \in Nat
  /\ cursor \in [Device -> [Device -> Nat]] /\ applied \in [Device -> [Device -> Nat]]

Inv ==
  /\ ListsOK /\ TablesOK /\ FeedsOK
  /\ EndsOK(conn, list, end) /\ LinksOK(conn, link, end)
  /\ WiresOK(list, wire) /\ KeysOK(list, keys)

-----------------------------------------------------------------------------
(* The key in use. *)

KeyMade(ls, v, i) ==
  /\ i = 1 \/ ls[i - 1] \ ls[i] # {}
  /\ \A j \in (i + 1)..v : ls[j - 1] \subseteq ls[j]

(* Every list has one: the last list that removed a device made it. *)
LEMMA KeyOfExists ==
  ASSUME NEW ls, NEW v \in Nat, v # 0
  PROVE  \E i \in 1..v : KeyMade(ls, v, i)
<1> DEFINE R == OpToRel(<, Nat)
           S == {i \in 1..v : i = 1 \/ ls[i - 1] \ ls[i] # {}}
           T == {v - i : i \in S}
<1>1. \A x, y \in Nat : <<x, y>> \in R <=> x < y
  BY DEF OpToRel
<1>2. IsWellFoundedOn(R, Nat)
  BY NatLessThanWellFounded
<1>3. 1 \in S
  OBVIOUS
<1>4. T \subseteq Nat /\ T # {}
  <2>1. \A i \in S : v - i \in Nat
    OBVIOUS
  <2>2. v - 1 \in T
    BY <1>3
  <2> QED
    BY <2>1, <2>2
<1> HIDE DEF R, T
<1>5. PICK m \in T : \A y \in T : ~(<<y, m>> \in R)
  BY <1>2, <1>4, WFMin
<1>6. PICK i \in S : m = v - i
  BY <1>5 DEF T
<1>7. \A j \in (i + 1)..v : ls[j - 1] \subseteq ls[j]
  <2> TAKE j \in (i + 1)..v
  <2>1. j \in 1..v
    OBVIOUS
  <2>2. CASE j \in S
    <3>1. v - j \in T /\ v - j < v - i
      BY <2>2 DEF T
    <3> QED
      BY <3>1, <1>1, <1>4, <1>5, <1>6
  <2> QED
    BY <2>1, <2>2
<1> QED
  BY <1>7 DEF KeyMade

LEMMA KeyOfIs ==
  ASSUME NEW ls, NEW v \in Nat, v # 0
  PROVE  KeyOf(ls, v) \in 1..v /\ KeyMade(ls, v, KeyOf(ls, v))
<1>1. \E i \in 1..v : KeyMade(ls, v, i)
  BY KeyOfExists
<1>2. KeyOf(ls, v) = CHOOSE i \in 1..v : KeyMade(ls, v, i)
  BY DEF KeyOf, KeyMade
<1> QED
  BY <1>1, <1>2

(* There is only one. *)
LEMMA KeyOfOnly ==
  ASSUME NEW ls, NEW v \in Nat, v # 0, NEW i \in 1..v, KeyMade(ls, v, i)
  PROVE  KeyOf(ls, v) = i
<1>1. ASSUME NEW a \in 1..v, NEW b \in 1..v, KeyMade(ls, v, a), KeyMade(ls, v, b)
      PROVE  ~(a < b)
  <2> SUFFICES ASSUME a < b PROVE FALSE
    OBVIOUS
  <2>1. b # 1 /\ b \in (a + 1)..v
    OBVIOUS
  <2> QED
    BY <1>1, <2>1 DEF KeyMade
<1>2. KeyOf(ls, v) \in 1..v /\ KeyMade(ls, v, KeyOf(ls, v))
  BY KeyOfIs
<1>3. ~(KeyOf(ls, v) < i) /\ ~(i < KeyOf(ls, v))
  BY <1>1, <1>2
<1> QED
  BY <1>2, <1>3

(* A list that is signed leaves the earlier ones alone. *)
LEMMA Signed ==
  ASSUME NEW ls \in Seq(SUBSET Device), NEW S \in SUBSET Device
  PROVE  /\ Append(ls, S) \in Seq(SUBSET Device) /\ Append(ls, S) # <<>>
         /\ Len(ls) \in Nat /\ Len(Append(ls, S)) = Len(ls) + 1
         /\ \A i \in 1..Len(ls) : Append(ls, S)[i] = ls[i]
         /\ Append(ls, S)[Len(ls) + 1] = S
OBVIOUS

LEMMA KeyOfStays ==
  ASSUME NEW ls \in Seq(SUBSET Device), NEW S \in SUBSET Device, NEW v \in 1..Len(ls)
  PROVE  KeyOf(Append(ls, S), v) = KeyOf(ls, v)
<1> DEFINE k == KeyOf(ls, v)
<1>1. Len(ls) \in Nat /\ \A i \in 1..Len(ls) : Append(ls, S)[i] = ls[i]
  BY Signed
<1>2. v \in Nat /\ v # 0
  BY <1>1
<1>3. k \in 1..v /\ KeyMade(ls, v, k)
  BY <1>2, KeyOfIs
<1> HIDE DEF k
<1>4. KeyMade(Append(ls, S), v, k)
  <2>1. Append(ls, S)[k] = ls[k] /\ (k # 1 => Append(ls, S)[k - 1] = ls[k - 1])
    BY <1>1, <1>2, <1>3
  <2>2. \A j \in (k + 1)..v : Append(ls, S)[j] = ls[j] /\ Append(ls, S)[j - 1] = ls[j - 1]
    BY <1>1, <1>2, <1>3
  <2> QED
    BY <1>3, <2>1, <2>2 DEF KeyMade
<1> QED
  BY <1>2, <1>3, <1>4, KeyOfOnly DEF k

(* A list that removes a device makes a key, one that adds one does not.   *)
LEMMA KeyOfNext ==
  ASSUME NEW ls \in Seq(SUBSET Device), NEW S \in SUBSET Device, Len(ls) # 0
  PROVE  LET n == Len(ls) IN
         KeyOf(Append(ls, S), n + 1) = IF ls[n] \ S # {} THEN n + 1 ELSE KeyOf(ls, n)
<1> DEFINE n == Len(ls)
           new == Append(ls, S)
           k == KeyOf(ls, n)
<1>1. n \in Nat /\ n # 0 /\ new[n + 1] = S /\ \A i \in 1..n : new[i] = ls[i]
  BY Signed
<1>2. k \in 1..n /\ KeyMade(ls, n, k)
  BY <1>1, KeyOfIs
<1> HIDE DEF n, new, k
<1>3. CASE ls[n] \ S # {}
  <2>1. new[n] = ls[n] /\ n + 1 - 1 = n
    BY <1>1
  <2>2. KeyMade(new, n + 1, n + 1)
    BY <1>1, <1>3, <2>1 DEF KeyMade
  <2>3. KeyOf(new, n + 1) = n + 1
    BY <1>1, <2>2, KeyOfOnly
  <2> QED
    BY <1>3, <2>3 DEF n, new, k
<1>4. CASE ls[n] \ S = {}
  <2>1. new[n] = ls[n] /\ n + 1 - 1 = n /\ ls[n] \subseteq S
    BY <1>1, <1>4
  <2>2. KeyMade(new, n + 1, k)
    <3>1. new[k] = ls[k] /\ (k # 1 => new[k - 1] = ls[k - 1])
      BY <1>1, <1>2
    <3>2. \A j \in (k + 1)..n : new[j] = ls[j] /\ new[j - 1] = ls[j - 1]
      BY <1>1, <1>2
    <3>3. \A j \in (k + 1)..(n + 1) : j \in (k + 1)..n \/ j = n + 1
      BY <1>1, <1>2
    <3>4. new[n + 1 - 1] \subseteq new[n + 1]
      BY <1>1, <2>1
    <3>5. \A j \in (k + 1)..n : new[j - 1] \subseteq new[j]
      BY <1>2, <3>2 DEF KeyMade
    <3>6. \A j \in (k + 1)..(n + 1) : new[j - 1] \subseteq new[j]
      <4> TAKE j \in (k + 1)..(n + 1)
      <4>1. CASE j \in (k + 1)..n
        BY <3>5, <4>1
      <4>2. CASE j = n + 1
        <5>1. j - 1 = n
          BY <1>1, <4>2
        <5> QED
          BY <1>1, <2>1, <4>2, <5>1
      <4> QED
        BY <3>3, <4>1, <4>2
    <3>7. k = 1 \/ new[k - 1] \ new[k] # {}
      BY <1>2, <3>1 DEF KeyMade
    <3> QED
      BY <3>6, <3>7 DEF KeyMade
  <2>3. KeyOf(new, n + 1) = k
    BY <1>1, <1>2, <2>2, KeyOfOnly
  <2> QED
    BY <1>4, <2>3 DEF n, new, k
<1> QED
  BY <1>3, <1>4

LEMMA EverStays ==
  ASSUME NEW ls \in Seq(SUBSET Device), NEW S \in SUBSET Device, NEW x, Ever(ls, x)
  PROVE  Ever(Append(ls, S), x)
<1>1. PICK i \in 1..Len(ls) : x \in ls[i]
  BY DEF Ever
<1>2. i \in 1..Len(Append(ls, S)) /\ Append(ls, S)[i] = ls[i]
  BY Signed
<1> QED
  BY <1>1, <1>2 DEF Ever

LEMMA InsideStays ==
  ASSUME NEW ls \in Seq(SUBSET Device), NEW S \in SUBSET Device, NEW x, NEW k,
         Inside(ls, k, x)
  PROVE  Inside(Append(ls, S), k, x)
<1>1. k \in Nat \ {0}
  BY DEF Inside
<1>2. PICK i \in k..Len(ls) : KeyOf(ls, i) = k /\ x \in ls[i]
  BY DEF Inside
<1>3. i \in 1..Len(ls)
  BY <1>1, Signed
<1>4. i \in k..Len(Append(ls, S)) /\ Append(ls, S)[i] = ls[i]
  BY <1>1, <1>3, Signed
<1>5. KeyOf(Append(ls, S), i) = k
  BY <1>2, <1>3, KeyOfStays
<1> QED
  BY <1>1, <1>2, <1>4, <1>5 DEF Inside

-----------------------------------------------------------------------------
(* Queues of messages and of commands. *)

LEMMA QueueStays ==
  ASSUME NEW ls \in Seq(SUBSET Device), NEW S \in SUBSET Device, NEW x, NEW q,
         GoodQueue(ls, x, q)
  PROVE  GoodQueue(Append(ls, S), x, q)
<1>1. \A n : n \in 0..Len(ls) => n \in 0..Len(Append(ls, S))
  BY Signed
<1>2. \A m : GoodMessage(ls, x, m) => GoodMessage(Append(ls, S), x, m)
  BY <1>1, EverStays, InsideStays DEF GoodMessage
<1> QED
  BY <1>2 DEF GoodQueue

LEMMA CommandsStay ==
  ASSUME NEW ls \in Seq(SUBSET Device), NEW S \in SUBSET Device, NEW x, NEW q,
         GoodCommands(ls, x, q)
  PROVE  GoodCommands(Append(ls, S), x, q)
<1>1. \A n : n \in 0..Len(ls) => n \in 0..Len(Append(ls, S))
  BY Signed
<1>2. \A m : GoodCommand(ls, x, m) => GoodCommand(Append(ls, S), x, m)
  BY <1>1, InsideStays DEF GoodCommand
<1> QED
  BY <1>2 DEF GoodCommands

LEMMA QueueGrows ==
  ASSUME NEW ls, NEW x, NEW q, NEW r, GoodQueue(ls, x, q), GoodQueue(ls, x, r)
  PROVE  GoodQueue(ls, x, q \o r)
<1>1. q \in Seq(Message) /\ r \in Seq(Message)
  BY DEF GoodQueue
<1>2. q \o r \in Seq(Message)
  BY <1>1
<1>3. ASSUME NEW i \in 1..Len(q \o r) PROVE GoodMessage(ls, x, (q \o r)[i])
  <2>1. CASE i \in 1..Len(q)
    BY <1>1, <2>1 DEF GoodQueue
  <2>2. CASE i \notin 1..Len(q)
    <3>1. i - Len(q) \in 1..Len(r) /\ (q \o r)[i] = r[i - Len(q)]
      BY <1>1, <2>2
    <3> QED
      BY <3>1 DEF GoodQueue
  <2> QED
    BY <2>1, <2>2
<1> QED
  BY <1>2, <1>3 DEF GoodQueue

LEMMA CommandsGrow ==
  ASSUME NEW ls, NEW x, NEW q, NEW r, GoodCommands(ls, x, q), GoodCommands(ls, x, r)
  PROVE  GoodCommands(ls, x, q \o r)
<1>1. q \in Seq(Command) /\ r \in Seq(Command)
  BY DEF GoodCommands
<1>2. q \o r \in Seq(Command)
  BY <1>1
<1>3. ASSUME NEW i \in 1..Len(q \o r) PROVE GoodCommand(ls, x, (q \o r)[i])
  <2>1. CASE i \in 1..Len(q)
    BY <1>1, <2>1 DEF GoodCommands
  <2>2. CASE i \notin 1..Len(q)
    <3>1. i - Len(q) \in 1..Len(r) /\ (q \o r)[i] = r[i - Len(q)]
      BY <1>1, <2>2
    <3> QED
      BY <3>1 DEF GoodCommands
  <2> QED
    BY <2>1, <2>2
<1> QED
  BY <1>2, <1>3 DEF GoodCommands

LEMMA QueueHead ==
  ASSUME NEW ls, NEW x, NEW q, GoodQueue(ls, x, q), q # <<>>
  PROVE  GoodMessage(ls, x, Head(q)) /\ GoodQueue(ls, x, Tail(q))
<1>1. q \in Seq(Message)
  BY DEF GoodQueue
<1>2. Head(q) = q[1] /\ 1 \in 1..Len(q) /\ Tail(q) \in Seq(Message)
  BY <1>1
<1>3. \A i \in 1..Len(Tail(q)) : Tail(q)[i] = q[i + 1] /\ i + 1 \in 1..Len(q)
  BY <1>1
<1> QED
  BY <1>2, <1>3 DEF GoodQueue

LEMMA CommandsHead ==
  ASSUME NEW ls, NEW x, NEW q, GoodCommands(ls, x, q), q # <<>>
  PROVE  GoodCommand(ls, x, Head(q)) /\ GoodCommands(ls, x, Tail(q))
<1>1. q \in Seq(Command)
  BY DEF GoodCommands
<1>2. Head(q) = q[1] /\ 1 \in 1..Len(q) /\ Tail(q) \in Seq(Command)
  BY <1>1
<1>3. \A i \in 1..Len(Tail(q)) : Tail(q)[i] = q[i + 1] /\ i + 1 \in 1..Len(q)
  BY <1>1
<1> QED
  BY <1>2, <1>3 DEF GoodCommands

LEMMA QueueOfNone ==
  ASSUME NEW ls, NEW x
  PROVE  GoodQueue(ls, x, <<>>)
BY DEF GoodQueue

LEMMA QueueOfOne ==
  ASSUME NEW ls, NEW x, NEW m, GoodMessage(ls, x, m)
  PROVE  GoodQueue(ls, x, <<m>>)
<1>1. m \in Message
  BY DEF GoodMessage
<1> QED
  BY <1>1 DEF GoodQueue

LEMMA CommandsOfNone ==
  ASSUME NEW ls, NEW x
  PROVE  GoodCommands(ls, x, <<>>)
BY DEF GoodCommands

LEMMA CommandsOfOne ==
  ASSUME NEW ls, NEW x, NEW m, GoodCommand(ls, x, m)
  PROVE  GoodCommands(ls, x, <<m>>)
<1>1. m \in Command
  BY DEF GoodCommand
<1> QED
  BY <1>1 DEF GoodCommands

(* The messages that anyone may hear. *)
LEMMA OpenMessages ==
  ASSUME NEW ls, NEW x
  PROVE  /\ GoodQueue(ls, x, Fin) /\ GoodQueue(ls, x, ByeFin)
         /\ \A t \in {"KeyRequest", "Applied", "Retry"} : GoodQueue(ls, x, <<[type |-> t]>>)
<1>1. \A t \in {"KeyRequest", "Applied", "Retry", "Bye", "Fin"} : GoodMessage(ls, x, [type |-> t])
  BY DEF GoodMessage, Message, Secret
<1>2. GoodQueue(ls, x, <<[type |-> "Fin"]>>) /\ GoodQueue(ls, x, <<[type |-> "Bye"]>>)
  BY <1>1, QueueOfOne
<1>3. GoodQueue(ls, x, Fin) /\ GoodQueue(ls, x, ByeFin)
  BY <1>2, QueueGrows DEF Fin, ByeFin
<1> QED
  BY <1>1, <1>3, QueueOfOne

(* The ones only a device that was in a list may hear. *)
LEMMA ListMessages ==
  ASSUME NEW ls, NEW x, Ever(ls, x), NEW v \in Nat, v \in 0..Len(ls)
  PROVE  /\ GoodQueue(ls, x, <<[type |-> "Hello", at |-> v]>>)
         /\ GoodQueue(ls, x, <<Chain(v)>>)
<1>1. \A t \in {"Hello", "Rosters"} : GoodMessage(ls, x, [type |-> t, at |-> v])
  BY DEF GoodMessage, Message
<1> QED
  BY <1>1, QueueOfOne DEF Chain

LEMMA RecordsMessage ==
  ASSUME NEW ls, NEW x, Ever(ls, x), NEW k \in Nat, NEW u \in Nat
  PROVE  GoodQueue(ls, x, <<[type |-> "Records", key |-> k, upto |-> u]>>)
<1>1. GoodMessage(ls, x, [type |-> "Records", key |-> k, upto |-> u])
  BY DEF GoodMessage, Message
<1> QED
  BY <1>1, QueueOfOne

LEMMA KeyMessage ==
  ASSUME NEW ls, NEW x, Ever(ls, x), NEW k, Inside(ls, k, x)
  PROVE  GoodQueue(ls, x, <<[type |-> "KeyShare", key |-> k]>>)
<1>1. k \in Nat
  BY DEF Inside
<1>2. GoodMessage(ls, x, [type |-> "KeyShare", key |-> k])
  BY <1>1 DEF GoodMessage, Message
<1> QED
  BY <1>2, QueueOfOne

(* The commands. *)
LEMMA AnyCommands ==
  ASSUME NEW ls, NEW x
  PROVE  GoodCommands(ls, x, Close) /\ GoodCommands(ls, x, <<[type |-> "Nudge"]>>)
<1>1. GoodCommand(ls, x, [type |-> "Close"]) /\ GoodCommand(ls, x, [type |-> "Nudge"])
  BY DEF GoodCommand, Command
<1> QED
  BY <1>1, CommandsOfOne DEF Close

LEMMA ChainCommand ==
  ASSUME NEW ls, NEW x, NEW v \in Nat, v \in 0..Len(ls)
  PROVE  GoodCommands(ls, x, <<Chain(v)>>)
<1>1. GoodCommand(ls, x, Chain(v))
  BY DEF GoodCommand, Command, Chain
<1> QED
  BY <1>1, CommandsOfOne

LEMMA KeyCommand ==
  ASSUME NEW ls, NEW x, NEW k, Inside(ls, k, x)
  PROVE  GoodCommands(ls, x, <<[type |-> "KeyShare", key |-> k]>>)
<1>1. k \in Nat
  BY DEF Inside
<1>2. GoodCommand(ls, x, [type |-> "KeyShare", key |-> k])
  BY <1>1 DEF GoodCommand, Command
<1> QED
  BY <1>2, CommandsOfOne

-----------------------------------------------------------------------------
(* The two sides of a connection. *)

LEMMA JoinsFacts ==
  ASSUME NEW cn, NEW c, NEW d, NEW p, Joins(cn, c, d, p)
  PROVE  /\ cn[c] # None /\ OtherOf(cn, c, d) = p /\ OtherOf(cn, c, p) = d
         /\ Joins(cn, c, p, d)
         /\ \A q : Joins(cn, c, d, q) => q = p
         /\ \A x, q : Joins(cn, c, x, q) => x \in {d, p}
BY DEF Joins, OtherOf

LEMMA TwoSides ==
  ASSUME NEW cn, ConnsOK(cn), NEW c \in Conn, cn[c] # None
  PROVE  /\ cn[c].from \in Device /\ cn[c].to \in Device
         /\ Joins(cn, c, cn[c].from, cn[c].to)
         /\ \A d \in Device : OtherOf(cn, c, d) \in Device
BY DEF ConnsOK, Joins, OtherOf, Pipe

(* A side that is doing something has another side. *)
LEMMA BusySide ==
  ASSUME NEW cn, NEW ls, NEW es, EndsOK(cn, ls, es), NEW c \in Conn, NEW d \in Device,
         es[c][d].pc # "none"
  PROVE  /\ OtherOf(cn, c, d) \in Device /\ Joins(cn, c, d, OtherOf(cn, c, d))
         /\ GoodEnd(ls, OtherOf(cn, c, d), es[c][d])
<1>1. es[c][d] # NoEnd
  BY DEF NoEnd
<1>2. PICK p \in Device : Joins(cn, c, d, p)
  BY <1>1 DEF EndsOK
<1>3. GoodEnd(ls, OtherOf(cn, c, d), es[c][d])
  BY <1>2 DEF EndsOK
<1> QED
  BY <1>2, <1>3, JoinsFacts

(* e2 is in the table if e was, and still runs on only if e did. *)
Follows(e, e2) ==
  /\ InSession(e) => InSession(e2)
  /\ InSession(e2) /\ ~Closing(e2) => InSession(e) /\ ~Closing(e)

LEMMA FollowsItself ==
  ASSUME NEW e
  PROVE  Follows(e, e)
BY DEF Follows

LEMMA FollowsOn ==
  ASSUME NEW a, NEW b, NEW e, Follows(a, b), Follows(b, e)
  PROVE  Follows(a, e)
BY DEF Follows

LEMMA LinksFollow ==
  ASSUME NEW cn, NEW lk \in LinkTable, NEW es, NEW new, LinksOK(cn, lk, es),
         \A c \in Conn, d \in Device : Follows(es[c][d], new[c][d])
  PROVE  LinksOK(cn, lk, new)
<1>1. \A d, p \in Device : lk[d][p] # None => lk[d][p].conn \in Conn
  BY DEF LinkTable, Link
<1>2. ASSUME NEW d \in Device, NEW p \in Device, lk[d][p] # None
      PROVE  Joins(cn, lk[d][p].conn, d, p) /\ InSession(new[lk[d][p].conn][d])
  BY <1>1, <1>2 DEF LinksOK, Follows
<1>3. ASSUME NEW c \in Conn, NEW d \in Device, NEW p \in Device,
             Joins(cn, c, d, p), InSession(new[c][d]), ~Closing(new[c][d])
      PROVE  lk[d][p] # None /\ lk[d][p].conn = c
  BY <1>3 DEF LinksOK, Follows
<1> QED
  BY <1>2, <1>3 DEF LinksOK

(* One side goes on as e. *)
LEMMA SideGoesOn ==
  ASSUME NEW cn, NEW ls, NEW lk \in LinkTable, NEW es, EndsOK(cn, ls, es), LinksOK(cn, lk, es),
         NEW c \in Conn, NEW d \in Device, NEW p \in Device, Joins(cn, c, d, p),
         NEW e, GoodEnd(ls, p, e)
  PROVE  /\ EndsOK(cn, ls, [es EXCEPT ![c][d] = e])
         /\ Follows(es[c][d], e) => LinksOK(cn, lk, [es EXCEPT ![c][d] = e])
<1> PICK new : new = [es EXCEPT ![c][d] = e]
  OBVIOUS
<1>1. es \in [Conn -> [Device -> End]] /\ e \in End
  BY DEF EndsOK, GoodEnd
<1>2. new \in [Conn -> [Device -> End]]
  BY <1>1
<1>3. \A b \in Conn, x \in Device : new[b][x] = IF b = c /\ x = d THEN e ELSE es[b][x]
  BY <1>1
<1>4. OtherOf(cn, c, d) = p
  BY JoinsFacts
<1>5. EndsOK(cn, ls, new)
  <2>1. ASSUME NEW b \in Conn, NEW x \in Device
        PROVE  IF \E q \in Device : Joins(cn, b, x, q) THEN GoodEnd(ls, OtherOf(cn, b, x), new[b][x])
               ELSE new[b][x] = NoEnd
    <3>1. CASE b = c /\ x = d
      <4>1. new[b][x] = e
        BY <1>3, <3>1
      <4> QED
        BY <1>4, <3>1, <4>1
    <3>2. CASE ~(b = c /\ x = d)
      <4>1. new[b][x] = es[b][x]
        BY <1>3, <3>2
      <4> QED
        BY <4>1 DEF EndsOK
    <3> QED
      BY <3>1, <3>2
  <2> QED
    BY <1>2, <2>1 DEF EndsOK
<1>6. ASSUME Follows(es[c][d], e) PROVE LinksOK(cn, lk, new)
  <2>1. \A b \in Conn, x \in Device : Follows(es[b][x], new[b][x])
    BY <1>3, <1>6, FollowsItself
  <2> QED
    BY <2>1, LinksFollow
<1> QED
  BY <1>5, <1>6

(* The same connections join the same devices. *)
SameJoins(cm, cn) ==
  \A c \in Conn, d, p \in Device : Joins(cm, c, d, p) <=> Joins(cn, c, d, p)

(* The table is about who is connected, not whether the connection is open. *)
LEMMA SameConnections ==
  ASSUME NEW cn, NEW cm, NEW ls, NEW lk \in LinkTable, NEW es, EndsOK(cn, ls, es), LinksOK(cn, lk, es),
         SameJoins(cm, cn)
  PROVE  EndsOK(cm, ls, es) /\ LinksOK(cm, lk, es)
<1>1. ASSUME NEW c \in Conn, NEW d \in Device
      PROVE  IF \E p \in Device : Joins(cm, c, d, p) THEN GoodEnd(ls, OtherOf(cm, c, d), es[c][d])
             ELSE es[c][d] = NoEnd
  <2>1. CASE \E p \in Device : Joins(cm, c, d, p)
    <3>1. PICK p \in Device : Joins(cm, c, d, p)
      BY <2>1
    <3>2. Joins(cn, c, d, p)
      BY <3>1 DEF SameJoins
    <3>3. OtherOf(cm, c, d) = p /\ OtherOf(cn, c, d) = p
      BY <3>1, <3>2, JoinsFacts
    <3>4. GoodEnd(ls, OtherOf(cn, c, d), es[c][d])
      BY <3>2 DEF EndsOK
    <3> QED
      BY <2>1, <3>3, <3>4
  <2>2. CASE ~\E p \in Device : Joins(cm, c, d, p)
    <3>1. ~\E p \in Device : Joins(cn, c, d, p)
      BY <2>2 DEF SameJoins
    <3>2. es[c][d] = NoEnd
      BY <3>1 DEF EndsOK
    <3> QED
      BY <2>2, <3>2
  <2> QED
    BY <2>1, <2>2
<1>2. EndsOK(cm, ls, es)
  BY <1>1 DEF EndsOK
<1>3. \A d, p \in Device : lk[d][p] # None => lk[d][p].conn \in Conn
  BY DEF LinkTable, Link
<1>4. LinksOK(cm, lk, es)
  BY <1>3 DEF LinksOK, SameJoins
<1> QED
  BY <1>2, <1>4

(* A list more. *)
LEMMA EndsStay ==
  ASSUME NEW cn, NEW ls \in Seq(SUBSET Device), NEW S \in SUBSET Device, NEW es, EndsOK(cn, ls, es)
  PROVE  EndsOK(cn, Append(ls, S), es)
<1>1. \A x, e : GoodEnd(ls, x, e) => GoodEnd(Append(ls, S), x, e)
  BY EverStays, CommandsStay DEF GoodEnd
<1> QED
  BY <1>1 DEF EndsOK

LEMMA WiresStay ==
  ASSUME NEW ls \in Seq(SUBSET Device), NEW S \in SUBSET Device, NEW ws, WiresOK(ls, ws)
  PROVE  WiresOK(Append(ls, S), ws)
BY QueueStays DEF WiresOK

LEMMA KeysStay ==
  ASSUME NEW ls \in Seq(SUBSET Device), NEW S \in SUBSET Device, NEW ks, KeysOK(ls, ks)
  PROVE  KeysOK(Append(ls, S), ks)
BY InsideStays DEF KeysOK

-----------------------------------------------------------------------------
(* Commands. *)

LEMMA SaysMore ==
  ASSUME NEW e \in End, NEW cs \in Seq(Command), NEW new, new = [e EXCEPT !.commands = @ \o cs]
  PROVE  /\ new \in End /\ new.commands = e.commands \o cs
         /\ new.pc = e.pc /\ new.hello = e.hello /\ new.trusted = e.trusted
         /\ new.want = e.want /\ new.flight = e.flight
         /\ Follows(e, new)
<1>1. e.commands \in Seq(Command) /\ e.commands \o cs \in Seq(Command)
  BY DEF End
<1>2. /\ new.commands = e.commands \o cs /\ new.pc = e.pc /\ new.hello = e.hello
      /\ new.trusted = e.trusted /\ new.want = e.want /\ new.flight = e.flight
  BY DEF End
<1>3. new \in End
  BY <1>1 DEF End
<1>4. Closing(e) => Closing(new)
  <2> SUFFICES ASSUME Closing(e) PROVE Closing(new)
    OBVIOUS
  <2>1. PICK i \in 1..Len(e.commands) : e.commands[i].type = "Close"
    BY DEF Closing
  <2>2. i \in 1..Len(new.commands) /\ new.commands[i] = e.commands[i]
    BY <1>1, <1>2
  <2> QED
    BY <2>1, <2>2 DEF Closing
<1> QED
  BY <1>2, <1>3, <1>4 DEF Follows, InSession

LEMMA IsTold ==
  ASSUME NEW ls, NEW x, NEW e, GoodEnd(ls, x, e), InSession(e), NEW cs, GoodCommands(ls, x, cs),
         NEW new, new = [e EXCEPT !.commands = @ \o cs]
  PROVE  GoodEnd(ls, x, new) /\ Follows(e, new)
<1>1. e \in End /\ cs \in Seq(Command)
  BY DEF GoodEnd, GoodCommands
<1>2. /\ new \in End /\ new.commands = e.commands \o cs
      /\ new.pc = e.pc /\ new.trusted = e.trusted /\ Follows(e, new)
  BY <1>1, SaysMore
<1>3. GoodCommands(ls, x, new.commands)
  BY <1>2, CommandsGrow DEF GoodEnd
<1> QED
  BY <1>2, <1>3 DEF GoodEnd, InSession

(* After d has told its sessions something: they are the sessions they were. *)
OnlyTold(ls, d, new) ==
  /\ EndsOK(conn, ls, new) /\ LinksOK(conn, link, new)
  /\ \A c \in Conn : new[c][d].pc = end[c][d].pc

LEMMA EveryoneIsTold ==
  ASSUME NEW ls, ConnsOK(conn), link \in LinkTable,
         EndsOK(conn, ls, end), LinksOK(conn, link, end),
         NEW d \in Device, NEW cs, \A p \in Device : GoodCommands(ls, p, cs[p]),
         NEW new, new = ToldAll(end, d, cs)
  PROVE  OnlyTold(ls, d, new)
<1> DEFINE Linked(c) == conn[c] # None /\ \E p \in Device : link[d][p] # None /\ link[d][p].conn = c
<1>1. end \in [Conn -> [Device -> End]]
  BY DEF EndsOK
<1>2. ASSUME NEW c \in Conn, Linked(c)
      PROVE  /\ new[c] = [end[c] EXCEPT ![d].commands = @ \o cs[Other(c, d)]]
             /\ \E p \in Device : Joins(conn, c, d, p) /\ Other(c, d) = p /\ OtherOf(conn, c, d) = p
             /\ InSession(end[c][d])
  <2>1. PICK p \in Device : link[d][p] # None /\ link[d][p].conn = c
    BY <1>2
  <2>2. Joins(conn, c, d, p) /\ InSession(end[c][d])
    BY <2>1 DEF LinksOK
  <2>3. Other(c, d) = OtherOf(conn, c, d) /\ OtherOf(conn, c, d) = p
    BY <2>2, JoinsFacts DEF Other, OtherOf
  <2> QED
    BY <1>2, <2>2, <2>3 DEF ToldAll
<1>3. \A c \in Conn : ~Linked(c) => new[c] = end[c]
  BY DEF ToldAll
<1> HIDE DEF Linked
<1>4. ASSUME NEW c \in Conn, NEW x \in Device
      PROVE  /\ new[c][x] \in End
             /\ new[c][x].pc = end[c][x].pc
             /\ Follows(end[c][x], new[c][x])
             /\ IF \E q \in Device : Joins(conn, c, x, q) THEN GoodEnd(ls, OtherOf(conn, c, x), new[c][x])
                ELSE new[c][x] = NoEnd
             /\ new[c] \in [Device -> End]
  <2>1. CASE Linked(c)
    <3>1. PICK p \in Device : Joins(conn, c, d, p) /\ Other(c, d) = p /\ OtherOf(conn, c, d) = p
      BY <1>2, <2>1
    <3>2. new[c] = [end[c] EXCEPT ![d].commands = @ \o cs[p]]
      BY <1>2, <2>1, <3>1
    <3>3. new[c] = [end[c] EXCEPT ![d] = [end[c][d] EXCEPT !.commands = @ \o cs[p]]]
      BY <1>1, <3>2
    <3> PICK e : e = [end[c][d] EXCEPT !.commands = @ \o cs[p]]
      OBVIOUS
    <3>4. GoodEnd(ls, p, end[c][d])
      BY <3>1 DEF EndsOK
    <3>5. GoodEnd(ls, p, e) /\ Follows(end[c][d], e)
      BY <1>2, <2>1, <3>4, IsTold
    <3>6. e \in End /\ end[c][d] \in End /\ e.pc = end[c][d].pc
      BY <3>4, <3>5 DEF GoodEnd, End
    <3>7. new[c] = [end[c] EXCEPT ![d] = e]
      BY <3>3
    <3>8. new[c] \in [Device -> End]
      BY <1>1, <3>6, <3>7
    <3>9. CASE x = d
      <4>1. new[c][x] = e
        BY <1>1, <3>7, <3>9
      <4> QED
        BY <3>1, <3>5, <3>6, <3>8, <3>9, <4>1
    <3>10. CASE x # d
      <4>1. new[c][x] = end[c][x]
        BY <1>1, <3>7, <3>10
      <4>2. IF \E q \in Device : Joins(conn, c, x, q) THEN GoodEnd(ls, OtherOf(conn, c, x), end[c][x])
                ELSE end[c][x] = NoEnd
        BY DEF EndsOK
      <4> QED
        BY <1>1, <3>8, <4>1, <4>2, FollowsItself
    <3> QED
      BY <3>9, <3>10
  <2>2. CASE ~Linked(c)
    <3>1. new[c] = end[c]
      BY <1>3, <2>2
    <3>2. IF \E q \in Device : Joins(conn, c, x, q) THEN GoodEnd(ls, OtherOf(conn, c, x), end[c][x])
              ELSE end[c][x] = NoEnd
      BY DEF EndsOK
    <3> QED
      BY <1>1, <3>1, <3>2, FollowsItself
  <2> QED
    BY <2>1, <2>2
<1>5. new \in [Conn -> [Device -> End]]
  <2>1. \A c \in Conn : new[c] \in [Device -> End]
    <3> TAKE c \in Conn
    <3>1. PICK x \in Device : x = d
      OBVIOUS
    <3> QED
      BY <1>4
  <2>2. new = [c \in Conn |-> new[c]]
    BY DEF ToldAll
  <2> QED
    BY <2>1, <2>2
<1>6. EndsOK(conn, ls, new)
  BY <1>4, <1>5 DEF EndsOK
<1>7. LinksOK(conn, link, new)
  BY <1>4, LinksFollow
<1> QED
  BY <1>4, <1>6, <1>7 DEF OnlyTold

(* The peers of a device are members of its list. *)
LEMMA PeersAreMembers ==
  ASSUME NEW ls \in Seq(SUBSET Device), NEW vs \in [Device -> 0..Len(ls)],
         NEW d \in Device, NEW p \in Device, IsPeer(ls, vs, d, p)
  PROVE  /\ vs[d] \in 1..Len(ls) /\ vs[d] \in Nat /\ Ever(ls, p)
         /\ KeyOf(ls, vs[d]) \in Nat /\ Inside(ls, KeyOf(ls, vs[d]), p)
<1>1. vs[d] # 0 /\ p \in ls[vs[d]]
  BY DEF IsPeer, Members
<1>2. Len(ls) \in Nat /\ vs[d] \in 1..Len(ls) /\ vs[d] \in Nat
  BY <1>1
<1>3. KeyOf(ls, vs[d]) \in 1..vs[d]
  BY <1>1, <1>2, KeyOfIs
<1>4. Ever(ls, p)
  BY <1>1, <1>2 DEF Ever
<1>5. vs[d] \in KeyOf(ls, vs[d])..Len(ls) /\ KeyOf(ls, vs[d]) \in Nat \ {0}
  BY <1>2, <1>3
<1>6. Inside(ls, KeyOf(ls, vs[d]), p)
  BY <1>1, <1>5 DEF Inside
<1> QED
  BY <1>2, <1>4, <1>5, <1>6

LEMMA RosterChangeIsTold ==
  ASSUME NEW ls \in Seq(SUBSET Device), NEW vs \in [Device -> 0..Len(ls)], NEW ks,
         ConnsOK(conn), link \in LinkTable,
         EndsOK(conn, ls, end), LinksOK(conn, link, end),
         NEW d \in Device, NEW newKey \in BOOLEAN,
         NEW new, new = after_roster_change(end, ls, vs, ks, d, newKey)
  PROVE  OnlyTold(ls, d, new)
<1> DEFINE More(p) == IF ~IsPeer(ls, vs, d, p) THEN Close
                      ELSE IF newKey THEN <<[type |-> "KeyShare", key |-> KeyOf(ls, vs[d])]>> ELSE <<>>
<1> PICK cs : cs = [p \in Device |-> <<Chain(vs[d])>> \o More(p)]
  OBVIOUS
<1>1. vs[d] \in Nat
  OBVIOUS
<1>2. ASSUME NEW p \in Device PROVE GoodCommands(ls, p, cs[p])
  <2>1. GoodCommands(ls, p, <<Chain(vs[d])>>) /\ GoodCommands(ls, p, Close)
    BY <1>1, AnyCommands, ChainCommand
  <2>2. IsPeer(ls, vs, d, p) => GoodCommands(ls, p, <<[type |-> "KeyShare", key |-> KeyOf(ls, vs[d])]>>)
    BY PeersAreMembers, KeyCommand
  <2>3. GoodCommands(ls, p, <<>>)
    BY CommandsOfNone
  <2>4. GoodCommands(ls, p, More(p))
    BY <2>1, <2>2, <2>3
  <2> HIDE DEF More
  <2>5. GoodCommands(ls, p, <<Chain(vs[d])>> \o More(p))
    BY <2>1, <2>4, CommandsGrow
  <2> QED
    BY <2>5
<1>3. new = ToldAll(end, d, cs)
  BY DEF after_roster_change
<1>4. \A p \in Device : GoodCommands(ls, p, cs[p])
  BY <1>2
<1> HIDE DEF More
<1> QED
  BY <1>3, <1>4, EveryoneIsTold

-----------------------------------------------------------------------------
(* The life of a session. *)

LEMMA GoodNoEnd ==
  ASSUME NEW ls, NEW x
  PROVE  /\ NoEnd \in End /\ GoodEnd(ls, x, NoEnd) /\ GoodEnd(ls, x, [NoEnd EXCEPT !.pc = "lingering"])
         /\ ~InSession(NoEnd) /\ ~InSession([NoEnd EXCEPT !.pc = "lingering"])
<1>1. NoEnd \in End
  BY DEF NoEnd, End
<1> PICK e : e = [NoEnd EXCEPT !.pc = "lingering"]
  OBVIOUS
<1>2. e \in End /\ e.pc = "lingering" /\ e.trusted = FALSE /\ e.commands = <<>>
  <2>1. e = [pc |-> "lingering", hello |-> FALSE, trusted |-> FALSE, want |-> FALSE,
             flight |-> 0, commands |-> <<>>]
    BY DEF NoEnd
  <2>2. e \in End
    BY <1>1 DEF End
  <2> QED
    BY <2>1, <2>2
<1>3. NoEnd.pc = "none" /\ NoEnd.trusted = FALSE /\ NoEnd.commands = <<>>
  BY DEF NoEnd
<1>4. GoodCommands(ls, x, <<>>)
  BY CommandsOfNone
<1> QED
  BY <1>1, <1>2, <1>3, <1>4 DEF GoodEnd, InSession

(* Looking whether to push. *)
LEMMA TurnGoesOn ==
  ASSUME NEW ls, NEW p, NEW e, GoodEnd(ls, p, e), e.pc = "up",
         NEW ms, NEW vs, NEW ks, NEW d, NEW new, new = Turn(e, ms, vs, ks, d, p)
  PROVE  GoodEnd(ls, p, new) /\ Follows(e, new)
<1>1. CASE e.want /\ e.trusted /\ e.flight = 0
  <2>1. PICK q : q \in {"asking", "up"} /\ new = [e EXCEPT !.want = FALSE, !.pc = q]
    <3>1. PICK q : q = IF CanPush(ms, vs, ks, d, p) THEN "asking" ELSE "up"
      OBVIOUS
    <3>2. new = [e EXCEPT !.want = FALSE, !.pc = q]
      BY <1>1, <3>1 DEF Turn
    <3> QED
      BY <3>1, <3>2
  <2>2. e \in End
    BY DEF GoodEnd
  <2>3. new.pc = q /\ new.trusted = e.trusted /\ new.commands = e.commands
    BY <2>1, <2>2 DEF End
  <2>4. new \in End
    BY <2>1, <2>2 DEF End
  <2>5. GoodEnd(ls, p, new)
    BY <1>1, <2>1, <2>3, <2>4 DEF GoodEnd
  <2> QED
    BY <2>1, <2>3, <2>5 DEF Follows, InSession, Closing
<1>2. CASE ~(e.want /\ e.trusted /\ e.flight = 0)
  BY <1>2, FollowsItself DEF Turn
<1> QED
  BY <1>1, <1>2

(* The session returns and the table forgets it. *)
LEMMA SessionEnds ==
  ASSUME NEW ls, ConnsOK(conn), link \in LinkTable, NEW es,
         EndsOK(conn, ls, es), LinksOK(conn, link, es),
         NEW c \in Conn, NEW d \in Device, NEW p \in Device, Joins(conn, c, d, p),
         Ends(es, c, d)
  PROVE  EndsOK(conn, ls, end') /\ LinksOK(conn, link', end') /\ link' \in LinkTable
<1> PICK e : e = [NoEnd EXCEPT !.pc = "lingering"]
  OBVIOUS
<1> PICK new : new = [es EXCEPT ![c][d] = e]
  OBVIOUS
<1> PICK lk : lk = IF link[d][p] # None /\ link[d][p].conn = c THEN [link EXCEPT ![d][p] = None] ELSE link
  OBVIOUS
<1>1. Other(c, d) = p
  BY JoinsFacts DEF Other, OtherOf
<1>2. end' = new /\ link' = lk
  BY <1>1 DEF Ends
<1>3. GoodEnd(ls, p, e) /\ ~InSession(e)
  BY GoodNoEnd
<1>4. EndsOK(conn, ls, new)
  BY <1>3, SideGoesOn
<1>5. lk \in LinkTable
  BY DEF LinkTable, Link
<1>6. \A x, y \in Device : lk[x][y] =
        IF x = d /\ y = p /\ link[d][p] # None /\ link[d][p].conn = c THEN None ELSE link[x][y]
  BY DEF LinkTable, Link
<1>7. \A b \in Conn, x \in Device : new[b][x] = IF b = c /\ x = d THEN e ELSE es[b][x]
  BY DEF EndsOK
<1>8. \A x, y \in Device : link[x][y] # None => link[x][y].conn \in Conn
  BY DEF LinkTable, Link
<1>9. ASSUME NEW x \in Device, NEW y \in Device, lk[x][y] # None
      PROVE  Joins(conn, lk[x][y].conn, x, y) /\ InSession(new[lk[x][y].conn][x])
  <2>1. lk[x][y] = link[x][y] /\ link[x][y] # None
    BY <1>6, <1>9
  <2>2. Joins(conn, link[x][y].conn, x, y) /\ InSession(es[link[x][y].conn][x])
    BY <2>1 DEF LinksOK
  <2>3. ~(link[x][y].conn = c /\ x = d)
    <3> SUFFICES ASSUME link[x][y].conn = c, x = d PROVE FALSE
      OBVIOUS
    <3>1. y = p
      BY <2>2, JoinsFacts
    <3> QED
      BY <1>6, <1>9, <2>1, <3>1
  <2> QED
    BY <1>7, <1>8, <2>1, <2>2, <2>3
<1>10. ASSUME NEW b \in Conn, NEW x \in Device, NEW y \in Device,
              Joins(conn, b, x, y), InSession(new[b][x]), ~Closing(new[b][x])
       PROVE  lk[x][y] # None /\ lk[x][y].conn = b
  <2>1. ~(b = c /\ x = d)
    BY <1>3, <1>7, <1>10
  <2>2. new[b][x] = es[b][x]
    BY <1>7, <2>1
  <2>3. link[x][y] # None /\ link[x][y].conn = b
    BY <1>10, <2>2 DEF LinksOK
  <2> QED
    BY <1>6, <2>1, <2>3
<1>11. LinksOK(conn, lk, new)
  BY <1>9, <1>10 DEF LinksOK
<1> QED
  BY <1>2, <1>4, <1>5, <1>11

(* What is written. *)
LEMMA SomethingSent ==
  ASSUME NEW ls, ConnsOK(conn), NEW ws, WiresOK(ls, ws),
         NEW c \in Conn, NEW d \in Device, NEW p \in Device, Joins(conn, c, d, p),
         NEW ms, GoodQueue(ls, p, ms)
  PROVE  WiresOK(ls, Sent(ws, c, d, ms))
<1>1. Other(c, d) = p
  BY JoinsFacts DEF Other, OtherOf
<1> PICK q : q = ws[c][p] \o ms
  OBVIOUS
<1>2. ws \in [Conn -> [Device -> Seq(Message)]]
  BY DEF WiresOK
<1>3. GoodQueue(ls, p, ws[c][p])
  BY DEF WiresOK
<1>4. GoodQueue(ls, p, q)
  BY <1>3, QueueGrows
<1>5. Sent(ws, c, d, ms) \in {ws, [ws EXCEPT ![c][p] = q]}
  BY <1>1, <1>2 DEF Sent
<1> PICK new : new = [ws EXCEPT ![c][p] = q]
  OBVIOUS
<1>6. new \in [Conn -> [Device -> Seq(Message)]]
  BY <1>2, <1>4 DEF GoodQueue
<1>7. \A b \in Conn, x \in Device : new[b][x] = IF b = c /\ x = p THEN q ELSE ws[b][x]
  BY <1>2
<1>8. WiresOK(ls, new)
  BY <1>4, <1>6, <1>7 DEF WiresOK
<1> QED
  BY <1>5, <1>8

(* What is read. *)
LEMMA SomethingRead ==
  ASSUME NEW ls, NEW ws, WiresOK(ls, ws), NEW c \in Conn, NEW d \in Device, ws[c][d] # <<>>
  PROVE  GoodMessage(ls, d, Head(ws[c][d])) /\ WiresOK(ls, [ws EXCEPT ![c][d] = Tail(@)])
<1>1. ws \in [Conn -> [Device -> Seq(Message)]] /\ GoodQueue(ls, d, ws[c][d])
  BY DEF WiresOK
<1>2. GoodMessage(ls, d, Head(ws[c][d])) /\ GoodQueue(ls, d, Tail(ws[c][d]))
  BY <1>1, QueueHead
<1> PICK q : q = Tail(ws[c][d])
  OBVIOUS
<1> PICK new : new = [ws EXCEPT ![c][d] = q]
  OBVIOUS
<1>3. new = [ws EXCEPT ![c][d] = Tail(@)]
  BY <1>1
<1>4. new \in [Conn -> [Device -> Seq(Message)]]
  BY <1>1, <1>2 DEF GoodQueue
<1>5. \A b \in Conn, x \in Device : new[b][x] = IF b = c /\ x = d THEN q ELSE ws[b][x]
  BY <1>1
<1>6. WiresOK(ls, new)
  BY <1>2, <1>4, <1>5 DEF WiresOK
<1> QED
  BY <1>2, <1>3, <1>6

(* A connection that is cleared or gone delivers nothing. *)
LEMMA NothingSent ==
  ASSUME NEW ls, NEW ws, WiresOK(ls, ws), NEW c \in Conn
  PROVE  WiresOK(ls, [ws EXCEPT ![c] = [x \in Device |-> <<>>]])
<1> PICK new : new = [ws EXCEPT ![c] = [x \in Device |-> <<>>]]
  OBVIOUS
<1>1. ws \in [Conn -> [Device -> Seq(Message)]]
  BY DEF WiresOK
<1>2. new \in [Conn -> [Device -> Seq(Message)]]
  BY <1>1
<1>3. \A b \in Conn, x \in Device : new[b][x] = IF b = c THEN <<>> ELSE ws[b][x]
  BY <1>1
<1>4. WiresOK(ls, new)
  BY <1>2, <1>3, QueueOfNone DEF WiresOK
<1> QED
  BY <1>4

(* A connection that breaks still joins the two. *)
LEMMA Unplugged ==
  ASSUME NEW cn, ConnsOK(cn), NEW c \in Conn, cn[c] # None,
         NEW cm, cm = [cn EXCEPT ![c].open = FALSE]
  PROVE  ConnsOK(cm) /\ SameJoins(cm, cn)
<1>1. /\ cn \in [Conn -> Pipe \cup {None}]
      /\ cn[c] \in Pipe
  BY DEF ConnsOK
<1> PICK r : r = [cn[c] EXCEPT !.open = FALSE]
  OBVIOUS
<1>2. r \in Pipe /\ r.from = cn[c].from /\ r.to = cn[c].to
  BY <1>1 DEF Pipe
<1>3. cm = [cn EXCEPT ![c] = r]
  BY <1>1 DEF Pipe
<1>4. \A b \in Conn : cm[b] = IF b = c THEN r ELSE cn[b]
  BY <1>1, <1>3
<1>5. cm \in [Conn -> Pipe \cup {None}]
  BY <1>1, <1>2, <1>3
<1>6. r # None
  \* A record is not the model value for no connection.
  BY <1>2, SessionsAssumption
<1>7. ConnsOK(cm)
  BY <1>2, <1>4, <1>5 DEF ConnsOK
<1>8. SameJoins(cm, cn)
  BY <1>2, <1>4, <1>6 DEF Joins, SameJoins
<1> QED
  BY <1>7, <1>8

(* The connection is over for d, which was not in the table with it. *)
LEMMA SideIsGone ==
  ASSUME Inv, NEW c \in Conn, NEW d \in Device, end[c][d].pc \in {"auth", "lingering"},
         end' = [end EXCEPT ![c][d] = NoEnd], Over(c, d)
  PROVE  /\ ConnsOK(conn') /\ dialling' \in [Device -> SUBSET Device]
         /\ EndsOK(conn', list, end') /\ LinksOK(conn', link, end') /\ WiresOK(list, wire')
<1> PICK p : p = OtherOf(conn, c, d)
  OBVIOUS
<1> PICK new : new = [end EXCEPT ![c][d] = NoEnd]
  OBVIOUS
<1>1. /\ ConnsOK(conn) /\ link \in LinkTable /\ dialling \in [Device -> SUBSET Device]
      /\ EndsOK(conn, list, end) /\ LinksOK(conn, link, end) /\ WiresOK(list, wire)
  BY DEF Inv, TablesOK
<1>2. end[c][d].pc # "none"
  OBVIOUS
<1>3. p \in Device /\ Joins(conn, c, d, p) /\ Other(c, d) = p
  BY <1>1, <1>2, BusySide DEF Other, OtherOf
<1>4. dialling' \in [Device -> SUBSET Device]
  BY <1>1, <1>3 DEF Over
<1>5. GoodEnd(list, p, NoEnd) /\ ~InSession(NoEnd) /\ ~InSession(end[c][d])
  BY GoodNoEnd DEF InSession
<1>6. Follows(end[c][d], NoEnd)
  BY <1>5 DEF Follows
<1>7. EndsOK(conn, list, new) /\ LinksOK(conn, link, new)
  BY <1>1, <1>3, <1>5, <1>6, SideGoesOn
<1>8. conn[c] # None /\ conn[c] \in Pipe
  BY <1>1, <1>3 DEF Joins, ConnsOK
<1>9. conn \in [Conn -> Pipe \cup {None}]
  BY <1>1 DEF ConnsOK
<1>10. CASE end[c][p].pc = "none"
  <2> PICK cm : cm = [conn EXCEPT ![c] = None]
    OBVIOUS
  <2>1. conn' = cm /\ wire' = [wire EXCEPT ![c] = [x \in Device |-> <<>>]]
    BY <1>3, <1>10 DEF Over
  <2>2. \A b \in Conn : cm[b] = IF b = c THEN None ELSE conn[b]
    BY <1>9
  <2>3. ConnsOK(cm)
    BY <1>1, <1>9, <2>2 DEF ConnsOK
  <2>4. \A b \in Conn, x, y \in Device : Joins(cm, b, x, y) <=> b # c /\ Joins(conn, b, x, y)
    BY <2>2 DEF Joins
  <2>5. WiresOK(list, wire')
    BY <1>1, <2>1, NothingSent
  <2>6. d # p /\ end \in [Conn -> [Device -> End]]
    BY <1>1, <1>3 DEF Joins, EndsOK
  <2>7. new[c][d] = NoEnd /\ new[c][p] = end[c][p]
    BY <1>3, <2>6
  <2>8. OtherOf(conn, c, p) = d /\ Joins(conn, c, p, d)
    BY <1>3, JoinsFacts
  <2>9. GoodEnd(list, d, end[c][p])
    BY <1>1, <1>3, <2>8 DEF EndsOK
  <2>10. end[c][p] = NoEnd
    BY <1>10, <2>9 DEF GoodEnd
  <2>11. \A x \in Device : new[c][x] = NoEnd
    <3> TAKE x \in Device
    <3>1. CASE x \in {d, p}
      BY <2>7, <2>10, <3>1
    <3>2. CASE x \notin {d, p}
      <4>1. ~\E y \in Device : Joins(conn, c, x, y)
        BY <1>3, <3>2, JoinsFacts
      <4> QED
        BY <1>7, <4>1 DEF EndsOK
    <3> QED
      BY <3>1, <3>2
  <2>12. EndsOK(cm, list, new)
    <3>1. ASSUME NEW b \in Conn, NEW x \in Device
          PROVE  IF \E y \in Device : Joins(cm, b, x, y) THEN GoodEnd(list, OtherOf(cm, b, x), new[b][x])
                 ELSE new[b][x] = NoEnd
      <4>1. CASE b = c
        <5>1. ~\E y \in Device : Joins(cm, b, x, y)
          BY <2>4, <4>1
        <5> QED
          BY <2>11, <4>1, <5>1
      <4>2. CASE b # c
        <5>1. OtherOf(cm, b, x) = OtherOf(conn, b, x)
          BY <2>2, <4>2 DEF OtherOf
        <5>2. (\E y \in Device : Joins(cm, b, x, y)) <=> (\E y \in Device : Joins(conn, b, x, y))
          BY <2>4, <4>2
        <5>3. IF \E y \in Device : Joins(conn, b, x, y) THEN GoodEnd(list, OtherOf(conn, b, x), new[b][x])
              ELSE new[b][x] = NoEnd
          BY <1>7 DEF EndsOK
        <5> QED
          BY <5>1, <5>2, <5>3
      <4> QED
        BY <4>1, <4>2
    <3>2. new \in [Conn -> [Device -> End]]
      BY <1>7 DEF EndsOK
    <3> QED
      BY <3>1, <3>2 DEF EndsOK
  <2>13. LinksOK(cm, link, new)
    <3>1. ASSUME NEW x \in Device, NEW y \in Device, link[x][y] # None
          PROVE  Joins(cm, link[x][y].conn, x, y) /\ InSession(new[link[x][y].conn][x])
      <4>1. link[x][y].conn \in Conn
        BY <1>1, <3>1 DEF LinkTable, Link
      <4>2. Joins(conn, link[x][y].conn, x, y) /\ InSession(new[link[x][y].conn][x])
        BY <1>7, <3>1 DEF LinksOK
      <4>3. link[x][y].conn # c
        BY <1>5, <2>11, <4>2
      <4> QED
        BY <2>4, <4>1, <4>2, <4>3
    <3>2. ASSUME NEW b \in Conn, NEW x \in Device, NEW y \in Device,
                 Joins(cm, b, x, y), InSession(new[b][x]), ~Closing(new[b][x])
          PROVE  link[x][y] # None /\ link[x][y].conn = b
      BY <1>7, <2>4, <3>2 DEF LinksOK
    <3> QED
      BY <3>1, <3>2 DEF LinksOK
  <2> QED
    BY <1>4, <2>1, <2>3, <2>5, <2>12, <2>13
<1>11. CASE end[c][p].pc # "none"
  <2> PICK cm : cm = [conn EXCEPT ![c].open = FALSE]
    OBVIOUS
  <2>1. conn' = cm /\ wire' = wire
    BY <1>3, <1>11 DEF Over
  <2>2. ConnsOK(cm) /\ SameJoins(cm, conn)
    BY <1>1, <1>8, Unplugged
  <2>3. EndsOK(cm, list, new) /\ LinksOK(cm, link, new)
    BY <1>1, <1>7, <2>2, SameConnections
  <2> QED
    BY <1>1, <1>4, <2>1, <2>2, <2>3
<1> QED
  BY <1>10, <1>11

-----------------------------------------------------------------------------
(* The steps. *)

LEMMA InvInit ==
  Init => Inv
<1> SUFFICES ASSUME Init PROVE Inv
  OBVIOUS
<1>1. setup \in Setups /\ setup.founders \in SUBSET Device
  BY SessionsAssumption DEF Init, Setup
<1>2. list = <<setup.founders>> /\ list \in Seq(SUBSET Device) /\ Len(list) = 1 /\ list # <<>>
  BY <1>1 DEF Init
<1>3. view \in [Device -> 0..Len(list)]
  BY <1>2 DEF Init
<1>4. ListsOK
  BY <1>1, <1>2, <1>3 DEF ListsOK
<1>5. FeedsOK
  BY DEF Init, FeedsOK
<1>6. TablesOK
  BY DEF Init, TablesOK, LinkTable, ConnsOK
<1>7. EndsOK(conn, list, end)
  <2>1. end \in [Conn -> [Device -> End]]
    BY GoodNoEnd DEF Init
  <2>2. \A c \in Conn, d \in Device : end[c][d] = NoEnd /\ ~\E p \in Device : Joins(conn, c, d, p)
    BY DEF Init, Joins
  <2> QED
    BY <2>1, <2>2 DEF EndsOK
<1>8. LinksOK(conn, link, end)
  <2>1. \A d, p \in Device : link[d][p] = None
    BY DEF Init
  <2>2. \A c \in Conn, d, p \in Device : ~Joins(conn, c, d, p)
    BY DEF Init, Joins
  <2> QED
    BY <2>1, <2>2 DEF LinksOK
<1>9. WiresOK(list, wire)
  <2>1. wire \in [Conn -> [Device -> Seq(Message)]] /\ \A c \in Conn, d \in Device : wire[c][d] = <<>>
    BY DEF Init
  <2> QED
    BY <2>1, QueueOfNone DEF WiresOK
<1>10. KeysOK(list, keys)
  <2>1. keys \in [Device -> SUBSET Nat]
    BY DEF Init
  <2>2. ASSUME NEW d \in Device, NEW k \in keys[d] PROVE Inside(list, k, d)
    <3>1. k = 1 /\ d \in setup.founders
      BY <2>2 DEF Init
    <3>2. KeyOf(list, 1) \in 1..1
      BY KeyOfIs
    <3>3. 1 \in k..Len(list) /\ KeyOf(list, 1) = k /\ d \in list[1]
      BY <1>2, <3>1, <3>2
    <3> QED
      BY <3>1, <3>3 DEF Inside
  <2> QED
    BY <2>1, <2>2 DEF KeysOK
<1> QED
  BY <1>4, <1>5, <1>6, <1>7, <1>8, <1>9, <1>10 DEF Inv

(* The user removes a device. *)
LEMMA StepRemoveDevice ==
  ASSUME Inv, NEW d \in Device, NEW x \in Device, RemoveDevice(d, x)
  PROVE  Inv'
<1> PICK S : S = list[view[d]] \ {x}
  OBVIOUS
<1> PICK ls : ls = Append(list, S)
  OBVIOUS
<1> PICK vs : vs = [view EXCEPT ![d] = view[d] + 1]
  OBVIOUS
<1> PICK ks : ks = [keys EXCEPT ![d] = keys[d] \cup {view[d] + 1}]
  OBVIOUS
<1>1. /\ setup \in Setups /\ list \in Seq(SUBSET Device) /\ view \in [Device -> 0..Len(list)]
      /\ keys \in [Device -> SUBSET Nat]
  BY DEF Inv, ListsOK, KeysOK
<1>2. view[d] = Len(list) /\ view[d] # 0 /\ d \in list[view[d]] /\ x \in list[view[d]] /\ x # d
  BY DEF RemoveDevice, Newest, is_peer, IsPeer, Members
<1>3. Len(list) \in Nat /\ S \in SUBSET Device /\ d \in S
  BY <1>1, <1>2
<1>4. /\ ls \in Seq(SUBSET Device) /\ ls # <<>> /\ Len(ls) = Len(list) + 1
      /\ ls[Len(list) + 1] = S
  BY <1>1, <1>3, Signed
<1>5. list' = ls /\ view' = vs /\ keys' = ks
  BY <1>1 DEF RemoveDevice
<1>6. vs \in [Device -> 0..Len(ls)]
  BY <1>1, <1>2, <1>3, <1>4
<1>7. ListsOK'
  BY <1>1, <1>4, <1>5, <1>6 DEF ListsOK, RemoveDevice
<1>8. KeysOK(ls, ks)
  <2>1. KeysOK(ls, keys)
    BY <1>1, <1>3, KeysStay DEF Inv
  <2>2. KeyOf(ls, Len(list) + 1) = Len(list) + 1
    BY <1>1, <1>2, <1>3, KeyOfNext
  <2>3. Inside(ls, Len(list) + 1, d)
    BY <1>3, <1>4, <2>2 DEF Inside
  <2>4. ks \in [Device -> SUBSET Nat] /\ \A y \in Device : ks[y] = IF y = d THEN keys[d] \cup {Len(list) + 1} ELSE keys[y]
    BY <1>1, <1>2, <1>3
  <2> QED
    BY <2>1, <2>3, <2>4 DEF KeysOK
<1>9. EndsOK(conn, ls, end) /\ LinksOK(conn, link, end) /\ ConnsOK(conn) /\ link \in LinkTable
  BY <1>1, <1>3, EndsStay DEF Inv, TablesOK
<1>10. EndsOK(conn, ls, end') /\ LinksOK(conn, link, end')
  <2>1. end' = after_roster_change(end, ls, vs, ks, d, TRUE)
    BY <1>5 DEF RemoveDevice
  <2> PICK new : new = after_roster_change(end, ls, vs, ks, d, TRUE)
    OBVIOUS
  <2>2. OnlyTold(ls, d, new)
    BY <1>4, <1>6, <1>9, RosterChangeIsTold
  <2> QED
    BY <2>1, <2>2 DEF OnlyTold
<1>11. WiresOK(ls, wire)
  BY <1>1, <1>3, WiresStay DEF Inv
<1>12. FeedsOK' /\ TablesOK' /\ conn' = conn /\ link' = link /\ wire' = wire
  BY DEF Inv, FeedsOK, TablesOK, RemoveDevice, feedVars, tableVars
<1> QED
  BY <1>5, <1>7, <1>8, <1>10, <1>11, <1>12 DEF Inv

(* The user admits a device. *)
LEMMA StepAdmit ==
  ASSUME Inv, NEW d \in Device, NEW x \in Device, Admit(d, x)
  PROVE  Inv'
<1> PICK S : S = list[view[d]] \cup {x}
  OBVIOUS
<1> PICK ls : ls = Append(list, S)
  OBVIOUS
<1> PICK vs : vs = [view EXCEPT ![d] = @ + 1, ![x] = view[d] + 1]
  OBVIOUS
<1> PICK k : k = KeyOf(list, view[d])
  OBVIOUS
<1> PICK ks : ks = [keys EXCEPT ![x] = {k}]
  OBVIOUS
<1>1. /\ setup \in Setups /\ list \in Seq(SUBSET Device) /\ view \in [Device -> 0..Len(list)]
      /\ keys \in [Device -> SUBSET Nat]
  BY DEF Inv, ListsOK, KeysOK
<1>2. view[d] = Len(list) /\ view[d] # 0
  BY DEF Admit, Newest, has_current_key, HasKey
<1>3. Len(list) \in Nat /\ S \in SUBSET Device /\ list[Len(list)] \subseteq S /\ x \in S
  BY <1>1, <1>2
<1>4. /\ ls \in Seq(SUBSET Device) /\ ls # <<>> /\ Len(ls) = Len(list) + 1
      /\ ls[Len(list) + 1] = S
  BY <1>1, <1>3, Signed
<1>5. list' = ls /\ view' = vs /\ keys' = ks
  BY <1>1 DEF Admit
<1>6. vs \in [Device -> 0..Len(ls)]
  BY <1>1, <1>2, <1>3, <1>4
<1>7. ListsOK'
  BY <1>1, <1>4, <1>5, <1>6 DEF ListsOK, Admit
<1>8. KeysOK(ls, ks)
  <2>1. KeysOK(ls, keys)
    BY <1>1, <1>3, KeysStay DEF Inv
  <2>2. KeyOf(ls, Len(list) + 1) = k
    BY <1>1, <1>2, <1>3, KeyOfNext
  <2>3. k \in 1..Len(list)
    BY <1>2, <1>3, KeyOfIs
  <2>4. Len(list) + 1 \in k..Len(ls) /\ k \in Nat \ {0}
    BY <1>3, <1>4, <2>3
  <2>5. Inside(ls, k, x)
    BY <1>3, <1>4, <2>2, <2>4 DEF Inside
  <2>6. ks \in [Device -> SUBSET Nat] /\ \A y \in Device : ks[y] = IF y = x THEN {k} ELSE keys[y]
    BY <1>1, <2>4
  <2> QED
    BY <2>1, <2>5, <2>6 DEF KeysOK
<1>9. EndsOK(conn, ls, end) /\ LinksOK(conn, link, end) /\ ConnsOK(conn) /\ link \in LinkTable
  BY <1>1, <1>3, EndsStay DEF Inv, TablesOK
<1>10. EndsOK(conn, ls, end') /\ LinksOK(conn, link, end')
  <2>1. end' = after_roster_change(end, ls, vs, ks, d, FALSE)
    BY <1>5 DEF Admit
  <2> PICK new : new = after_roster_change(end, ls, vs, ks, d, FALSE)
    OBVIOUS
  <2>2. OnlyTold(ls, d, new)
    BY <1>4, <1>6, <1>9, RosterChangeIsTold
  <2> QED
    BY <2>1, <2>2 DEF OnlyTold
<1>11. WiresOK(ls, wire)
  BY <1>1, <1>3, WiresStay DEF Inv
<1>12. FeedsOK' /\ TablesOK' /\ conn' = conn /\ link' = link /\ wire' = wire
  BY DEF Inv, FeedsOK, TablesOK, Admit, feedVars, tableVars
<1> QED
  BY <1>5, <1>7, <1>8, <1>10, <1>11, <1>12 DEF Inv

(* panod has something new. *)
LEMMA StepChange ==
  ASSUME Inv, NEW d \in Device, Change(d)
  PROVE  Inv'
<1>1. FeedsOK'
  BY DEF Inv, FeedsOK, Change
<1>2. ListsOK' /\ TablesOK' /\ UNCHANGED <<list, keys, link, conn, end, wire>>
  BY DEF Inv, ListsOK, TablesOK, Change, groupVars, tableVars
<1> QED
  BY <1>1, <1>2 DEF Inv

(* A number was free, so that nothing is left of an earlier connection. *)
LEMMA StepDial ==
  ASSUME Inv, NEW d \in Device, NEW p \in Device, NEW c \in Conn, Dial(d, p, c)
  PROVE  Inv'
<1> PICK r : r = [from |-> d, to |-> p, open |-> TRUE]
  OBVIOUS
<1> PICK cm : cm = [conn EXCEPT ![c] = r]
  OBVIOUS
<1> PICK e : e = [NoEnd EXCEPT !.pc = "auth"]
  OBVIOUS
<1>1. /\ ConnsOK(conn) /\ link \in LinkTable /\ dialling \in [Device -> SUBSET Device]
      /\ EndsOK(conn, list, end) /\ LinksOK(conn, link, end)
  BY DEF Inv, TablesOK
<1>2. d # p
  BY SessionsAssumption DEF Inv, ListsOK, Dial
<1>3. conn[c] = None /\ conn' = cm
  BY DEF Dial
<1>4. r \in Pipe /\ r # None /\ r.from = d /\ r.to = p
  <2>1. r \in Pipe
    BY DEF Pipe
  <2> QED
    BY <2>1, SessionsAssumption
<1>5. /\ conn \in [Conn -> Pipe \cup {None}]
      /\ \A b \in Conn : cm[b] = IF b = c THEN r ELSE conn[b]
  BY <1>1 DEF ConnsOK
<1>6. ConnsOK(cm)
  BY <1>1, <1>2, <1>4, <1>5 DEF ConnsOK
<1>7. \A b \in Conn, x, y \in Device : b # c => (Joins(cm, b, x, y) <=> Joins(conn, b, x, y))
  BY <1>5 DEF Joins
<1>8. \A x, y \in Device : Joins(cm, c, x, y) <=> (x = d /\ y = p) \/ (x = p /\ y = d)
  <2>1. cm[c] = r
    BY <1>5
  <2> QED
    BY <1>2, <1>4, <2>1 DEF Joins
<1>9. \A x \in Device : end[c][x] = NoEnd
  BY <1>1, <1>3 DEF EndsOK, Joins
<1>10. end \in [Conn -> [Device -> End]]
  BY <1>1 DEF EndsOK
<1>11. e \in End /\ e.pc = "auth" /\ e.trusted = FALSE /\ e.commands = <<>> /\ ~InSession(e)
  <2>1. e = [pc |-> "auth", hello |-> FALSE, trusted |-> FALSE, want |-> FALSE,
             flight |-> 0, commands |-> <<>>]
    BY DEF NoEnd
  <2>2. NoEnd \in End
    BY GoodNoEnd
  <2>3. e \in End
    BY <2>2 DEF End
  <2> QED
    BY <2>1, <2>3 DEF InSession
<1>12. \A x : GoodEnd(list, x, e)
  BY <1>11, CommandsOfNone DEF GoodEnd
<1> PICK row : row = [end[c] EXCEPT ![d].pc = "auth", ![p].pc = "auth"]
  OBVIOUS
<1> PICK new : new = [end EXCEPT ![c] = row]
  OBVIOUS
<1>13. end' = new
  BY <1>10 DEF Dial
<1>14. row \in [Device -> End] /\ \A x \in Device : row[x] = IF x \in {d, p} THEN e ELSE NoEnd
  <2>1. end[c] \in [Device -> End]
    BY <1>10
  <2>2. row = [end[c] EXCEPT ![d] = [end[c][d] EXCEPT !.pc = "auth"], ![p] = [end[c][p] EXCEPT !.pc = "auth"]]
    BY <1>2, <2>1
  <2>3. row = [end[c] EXCEPT ![d] = e, ![p] = e]
    BY <1>9, <2>2
  <2> QED
    BY <1>2, <1>9, <1>11, <2>1, <2>3
<1>15. new \in [Conn -> [Device -> End]] /\ \A b \in Conn : new[b] = IF b = c THEN row ELSE end[b]
  BY <1>10, <1>14
<1>16. EndsOK(cm, list, new)
  <2>1. ASSUME NEW b \in Conn, NEW x \in Device
        PROVE  IF \E y \in Device : Joins(cm, b, x, y) THEN GoodEnd(list, OtherOf(cm, b, x), new[b][x])
               ELSE new[b][x] = NoEnd
    <3>1. CASE b = c
      <4>1. CASE x \in {d, p}
        <5>1. \E y \in Device : Joins(cm, b, x, y)
          BY <1>2, <1>8, <3>1, <4>1
        <5>2. new[b][x] = e
          BY <1>14, <1>15, <3>1, <4>1
        <5> QED
          BY <1>12, <5>1, <5>2
      <4>2. CASE x \notin {d, p}
        <5>1. ~\E y \in Device : Joins(cm, b, x, y)
          BY <1>8, <3>1, <4>2
        <5>2. new[b][x] = NoEnd
          BY <1>14, <1>15, <3>1, <4>2
        <5> QED
          BY <5>1, <5>2
      <4> QED
        BY <4>1, <4>2
    <3>2. CASE b # c
      <4>1. OtherOf(cm, b, x) = OtherOf(conn, b, x) /\ new[b][x] = end[b][x]
        BY <1>5, <1>15, <3>2 DEF OtherOf
      <4>2. (\E y \in Device : Joins(cm, b, x, y)) <=> (\E y \in Device : Joins(conn, b, x, y))
        BY <1>7, <3>2
      <4>3. IF \E y \in Device : Joins(conn, b, x, y) THEN GoodEnd(list, OtherOf(conn, b, x), end[b][x])
            ELSE end[b][x] = NoEnd
        BY <1>1 DEF EndsOK
      <4> QED
        BY <4>1, <4>2, <4>3
    <3> QED
      BY <3>1, <3>2
  <2> QED
    BY <1>15, <2>1 DEF EndsOK
<1>17. LinksOK(cm, link, new)
  <2>1. ~InSession(NoEnd)
    BY GoodNoEnd
  <2>2. \A x \in Device : ~InSession(new[c][x])
    BY <1>11, <1>14, <1>15, <2>1
  <2>3. ASSUME NEW x \in Device, NEW y \in Device, link[x][y] # None
        PROVE  Joins(cm, link[x][y].conn, x, y) /\ InSession(new[link[x][y].conn][x])
    <3>1. link[x][y].conn \in Conn
      BY <1>1, <2>3 DEF LinkTable, Link
    <3>2. Joins(conn, link[x][y].conn, x, y) /\ InSession(end[link[x][y].conn][x])
      BY <1>1, <2>3 DEF LinksOK
    <3>3. link[x][y].conn # c
      BY <1>3, <3>2 DEF Joins
    <3> QED
      BY <1>7, <1>15, <3>1, <3>2, <3>3
  <2>4. ASSUME NEW b \in Conn, NEW x \in Device, NEW y \in Device,
               Joins(cm, b, x, y), InSession(new[b][x]), ~Closing(new[b][x])
        PROVE  link[x][y] # None /\ link[x][y].conn = b
    <3>1. b # c
      BY <2>2, <2>4
    <3>2. Joins(conn, b, x, y) /\ new[b][x] = end[b][x]
      BY <1>7, <1>15, <2>4, <3>1
    <3> QED
      BY <1>1, <2>4, <3>2 DEF LinksOK
  <2> QED
    BY <2>3, <2>4 DEF LinksOK
<1>18. TablesOK'
  BY <1>1, <1>3, <1>6 DEF Inv, TablesOK, Dial
<1>19. ListsOK' /\ FeedsOK' /\ UNCHANGED <<list, link, keys, wire>>
  BY DEF Inv, ListsOK, FeedsOK, Dial, groupVars, feedVars
<1> QED
  BY <1>3, <1>13, <1>16, <1>17, <1>18, <1>19 DEF Inv

(* A session told to close is closing. *)
LEMMA LenMore ==
  ASSUME NEW q \in Seq(Command), NEW r \in Seq(Command)
  PROVE  Len(q \o r) = Len(q) + Len(r)
OBVIOUS

LEMMA OneMore ==
  ASSUME NEW q \in Seq(Command), NEW r \in Seq(Command), Len(r) = 1
  PROVE  Len(q) + 1 \in 1..Len(q \o r) /\ (q \o r)[Len(q) + 1] = r[1]
<1>1. Len(q) \in Nat
  OBVIOUS
<1>2. Len(q \o r) = Len(q) + Len(r)
  BY LenMore
<1>3. PICK i \in 1..Len(q \o r) : i = Len(q) + 1
  BY <1>1, <1>2
<1>4. (q \o r)[i] = r[i - Len(q)]
  BY <1>1, <1>3
<1>5. i - Len(q) = 1
  BY <1>1, <1>3
<1> QED
  BY <1>3, <1>4, <1>5

LEMMA ToldToClose ==
  ASSUME NEW e \in End, NEW new, new = [e EXCEPT !.commands = @ \o Close]
  PROVE  Closing(new)
<1>1. Close \in Seq(Command) /\ Len(Close) = 1 /\ Close[1].type = "Close"
  BY DEF Close, Command
<1>2. e.commands \in Seq(Command)
  BY DEF End
<1>3. new.commands = e.commands \o Close
  BY DEF End
<1>4. Len(e.commands) + 1 \in 1..Len(new.commands) /\ new.commands[Len(e.commands) + 1] = Close[1]
  BY <1>1, <1>2, <1>3, OneMore
<1> QED
  BY <1>1, <1>4 DEF Closing

(* The session of d with p, if there is one, has been told to close. *)
Superseded(c, d, p, es) ==
  /\ EndsOK(conn, list, es) /\ LinksOK(conn, link, es)
  /\ es[c][d] = end[c][d]
  /\ link[d][p] # None => Closing(es[link[d][p].conn][d])

(* es: the sides once the older session with p was told to close. *)
OlderTold(d, p, es) == es = Told(end, d, p, Close)

LEMMA OtherSidesStay ==
  ASSUME NEW es \in [Conn -> [Device -> End]], NEW a \in Conn, NEW d \in Device, NEW f,
         NEW c \in Conn, c # a
  PROVE  [es EXCEPT ![a][d] = f][a][d] = f /\ [es EXCEPT ![a][d] = f][c][d] = es[c][d]
OBVIOUS

LEMMA OneSideTold ==
  ASSUME NEW es \in [Conn -> [Device -> End]], NEW a \in Conn, NEW d \in Device, NEW cs
  PROVE  [es EXCEPT ![a][d].commands = @ \o cs]
           = [es EXCEPT ![a][d] = [es[a][d] EXCEPT !.commands = @ \o cs]]
OBVIOUS

LEMMA OlderIsTold ==
  ASSUME NEW c \in Conn, NEW d \in Device, NEW p \in Device,
         EndsOK(conn, list, end), LinksOK(conn, link, end), link \in LinkTable,
         ~InSession(end[c][d]), NEW es, OlderTold(d, p, es)
  PROVE  Superseded(c, d, p, es)
<1>1. CASE link[d][p] = None
  <2>1. es = end
    BY <1>1 DEF OlderTold, Told
  <2> QED
    BY <1>1, <2>1 DEF Superseded
<1>2. CASE link[d][p] # None
  <2>1. PICK a \in Conn : a = link[d][p].conn
    BY <1>2 DEF LinkTable, Link
  <2>2. Joins(conn, a, d, p) /\ InSession(end[a][d])
    BY <1>2, <2>1 DEF LinksOK
  <2>3. a # c
    BY <2>2
  <2>4. GoodEnd(list, p, end[a][d])
    <3>1. OtherOf(conn, a, d) = p
      BY <2>2 DEF Joins, OtherOf
    <3> QED
      BY <2>1, <2>2, <3>1 DEF EndsOK
  <2>5. end \in [Conn -> [Device -> End]]
    BY DEF EndsOK
  <2>6. es = [end EXCEPT ![a][d] = [end[a][d] EXCEPT !.commands = @ \o Close]]
    <3>1. es = [end EXCEPT ![a][d].commands = @ \o Close]
      BY <1>2, <2>1 DEF OlderTold, Told
    <3>2. [end EXCEPT ![a][d].commands = @ \o Close]
            = [end EXCEPT ![a][d] = [end[a][d] EXCEPT !.commands = @ \o Close]]
      BY <2>5, OneSideTold
    <3> QED
      BY <3>1, <3>2, Zenon
  <2>f. PICK f : f = [end[a][d] EXCEPT !.commands = @ \o Close]
    OBVIOUS
  <2>7. es = [end EXCEPT ![a][d] = f]
    BY <2>6, <2>f
  <2>8. GoodCommands(list, p, Close)
    BY AnyCommands
  <2>9. GoodEnd(list, p, f) /\ Follows(end[a][d], f)
    BY <2>2, <2>4, <2>f, <2>8, IsTold
  <2>10. Closing(f)
    <3>1. end[a][d] \in End
      BY <2>4 DEF GoodEnd
    <3> QED
      BY <2>f, <3>1, ToldToClose
  <2>11. [end EXCEPT ![a][d] = f][a][d] = f /\ [end EXCEPT ![a][d] = f][c][d] = end[c][d]
    BY <2>1, <2>3, <2>5, OtherSidesStay
  <2>12. EndsOK(conn, list, [end EXCEPT ![a][d] = f]) /\ LinksOK(conn, link, [end EXCEPT ![a][d] = f])
    BY <2>1, <2>2, <2>9, SideGoesOn
  <2>13. Superseded(c, d, p, [end EXCEPT ![a][d] = f])
    BY <2>1, <2>10, <2>11, <2>12 DEF Superseded
  <2> QED
    BY <2>7, <2>13
<1> QED
  BY <1>1, <1>2

(* The new session takes the place of the one that has to close. *)
LEMMA StepRegister ==
  ASSUME Inv, NEW c \in Conn, NEW d \in Device, Register(c, d)
  PROVE  Inv'
<1> PICK p : p = OtherOf(conn, c, d)
  OBVIOUS
<1> PICK es : es = Told(end, d, p, Close)
  OBVIOUS
<1> PICK e : e = [end[c][d] EXCEPT !.pc = "up", !.want = TRUE, !.hello = is_peer(d, p)]
  OBVIOUS
<1> PICK new : new = [es EXCEPT ![c][d] = e]
  OBVIOUS
<1> PICK r : r = [conn |-> c, canonical |-> Canonical(c, d)]
  OBVIOUS
<1> PICK lk : lk = [link EXCEPT ![d][p] = r]
  OBVIOUS
<1>1. /\ ConnsOK(conn) /\ link \in LinkTable /\ list \in Seq(SUBSET Device)
      /\ view \in [Device -> 0..Len(list)]
      /\ EndsOK(conn, list, end) /\ LinksOK(conn, link, end) /\ WiresOK(list, wire)
  BY DEF Inv, TablesOK, ListsOK
<1>2. end[c][d].pc = "auth" /\ ~InSession(end[c][d]) /\ end \in [Conn -> [Device -> End]]
  BY <1>1 DEF Register, EndsOK, InSession
<1>3. p \in Device /\ Joins(conn, c, d, p) /\ Other(c, d) = p /\ GoodEnd(list, p, end[c][d])
  BY <1>1, <1>2, BusySide DEF Other, OtherOf
<1>4. e \in End /\ e.pc = "up" /\ e.trusted = end[c][d].trusted /\ e.commands = end[c][d].commands
  <2>1. end[c][d] \in End /\ is_peer(d, p) \in BOOLEAN
    BY <1>2 DEF is_peer, IsPeer
  <2> QED
    BY <2>1 DEF End
<1>5. GoodEnd(list, p, e) /\ InSession(e)
  BY <1>2, <1>3, <1>4 DEF GoodEnd, InSession
<1>6. /\ EndsOK(conn, list, es) /\ LinksOK(conn, link, es)
      /\ es[c][d] = end[c][d]
      /\ link[d][p] # None => Closing(es[link[d][p].conn][d])
  <2>1. OlderTold(d, p, es)
    BY DEF OlderTold
  <2>2. Superseded(c, d, p, es)
    BY <1>1, <1>2, <1>3, <2>1, OlderIsTold
  <2> QED
    BY <2>2 DEF Superseded
<1>7. es \in [Conn -> [Device -> End]]
  BY <1>6 DEF EndsOK
<1>8. end' = new /\ link' = lk
  <2>1. link' = lk
    BY <1>3 DEF Register
  <2>2. end' = [es EXCEPT ![c][d] = [es[c][d] EXCEPT !.pc = "up", !.want = TRUE, !.hello = is_peer(d, p)]]
    BY <1>3, <1>7 DEF Register
  <2> QED
    BY <1>6, <2>1, <2>2
<1>9. EndsOK(conn, list, new)
  BY <1>1, <1>3, <1>5, <1>6, SideGoesOn
<1>10. \A b \in Conn, x \in Device : new[b][x] = IF b = c /\ x = d THEN e ELSE es[b][x]
  BY <1>7
<1>11. r \in Link /\ r # None /\ r.conn = c
  <2>1. Canonical(c, d) \in BOOLEAN
    BY DEF Canonical
  <2>2. r \in Link
    BY <2>1 DEF Link
  <2> QED
    BY <2>2, SessionsAssumption
<1>12. lk \in LinkTable /\ \A x, y \in Device : lk[x][y] = IF x = d /\ y = p THEN r ELSE link[x][y]
  BY <1>1, <1>3, <1>11 DEF LinkTable
<1>13. LinksOK(conn, lk, new)
  <2>1. ASSUME NEW x \in Device, NEW y \in Device, lk[x][y] # None
        PROVE  Joins(conn, lk[x][y].conn, x, y) /\ InSession(new[lk[x][y].conn][x])
    <3>1. CASE x = d /\ y = p
      BY <1>3, <1>5, <1>10, <1>11, <1>12, <3>1
    <3>2. CASE ~(x = d /\ y = p)
      <4>1. lk[x][y] = link[x][y] /\ link[x][y] # None
        BY <1>12, <2>1, <3>2
      <4>2. link[x][y].conn \in Conn
        BY <1>1, <4>1 DEF LinkTable, Link
      <4>3. Joins(conn, link[x][y].conn, x, y) /\ InSession(es[link[x][y].conn][x])
        BY <1>6, <4>1 DEF LinksOK
      <4> QED
        BY <1>5, <1>10, <4>1, <4>2, <4>3
    <3> QED
      BY <3>1, <3>2
  <2>2. ASSUME NEW b \in Conn, NEW x \in Device, NEW y \in Device,
               Joins(conn, b, x, y), InSession(new[b][x]), ~Closing(new[b][x])
        PROVE  lk[x][y] # None /\ lk[x][y].conn = b
    <3>1. CASE b = c /\ x = d
      <4>1. y = p
        BY <1>3, <2>2, <3>1, JoinsFacts
      <4> QED
        BY <1>11, <1>12, <3>1, <4>1
    <3>2. CASE ~(b = c /\ x = d)
      <4>1. new[b][x] = es[b][x]
        BY <1>10, <3>2
      <4>2. link[x][y] # None /\ link[x][y].conn = b
        BY <1>6, <2>2, <4>1 DEF LinksOK
      <4>3. ~(x = d /\ y = p)
        BY <1>6, <2>2, <4>1, <4>2
      <4> QED
        BY <1>12, <4>2, <4>3
    <3> QED
      BY <3>1, <3>2
  <2> QED
    BY <2>1, <2>2 DEF LinksOK
<1>14. WiresOK(list, wire')
  <2>1. CASE is_peer(d, p)
    <3> PICK m : m = [type |-> "Hello", at |-> view[d]]
      OBVIOUS
    <3>1. Ever(list, p) /\ view[d] \in Nat /\ view[d] \in 0..Len(list)
      BY <1>1, <1>3, <2>1, PeersAreMembers DEF is_peer
    <3>2. GoodQueue(list, p, <<m>>)
      BY <3>1, ListMessages
    <3>3. GoodQueue(list, p, wire[c][p]) /\ wire \in [Conn -> [Device -> Seq(Message)]]
      BY <1>1, <1>3 DEF WiresOK
    <3> PICK q : q = wire[c][p] \o <<m>>
      OBVIOUS
    <3>4. GoodQueue(list, p, q)
      BY <3>2, <3>3, QueueGrows
    <3>5. m \in Message /\ Append(wire[c][p], m) = q
      <4>1. m \in Message
        BY <3>1 DEF Message
      <4>2. wire[c][p] \in Seq(Message)
        BY <1>3, <3>3
      <4> QED
        BY <4>1, <4>2
    <3> PICK ws : ws = [wire EXCEPT ![c][p] = q]
      OBVIOUS
    <3>6. wire' = [wire EXCEPT ![c][p] = Append(wire[c][p], m)]
      BY <1>3, <2>1, <3>3 DEF Register
    <3>7. wire' = ws
      BY <3>5, <3>6
    <3>8. ws \in [Conn -> [Device -> Seq(Message)]]
      BY <1>3, <3>3, <3>4 DEF GoodQueue
    <3>9. \A b \in Conn, x \in Device : ws[b][x] = IF b = c /\ x = p THEN q ELSE wire[b][x]
      BY <3>3
    <3>10. WiresOK(list, ws)
      BY <1>1, <3>4, <3>8, <3>9 DEF WiresOK
    <3> QED
      BY <3>7, <3>10
  <2>2. CASE ~is_peer(d, p)
    <3>1. wire' = wire
      BY <1>3, <2>2 DEF Register
    <3> QED
      BY <1>1, <3>1
  <2> QED
    BY <2>1, <2>2
<1>15. known' \in [Device -> SUBSET Device]
  BY <1>3 DEF Inv, TablesOK, Register, Known
<1>16. TablesOK'
  BY <1>1, <1>8, <1>12, <1>15 DEF Inv, TablesOK, Register
<1>17. ListsOK' /\ FeedsOK' /\ UNCHANGED <<list, conn, keys>>
  BY DEF Inv, ListsOK, FeedsOK, Register, groupVars, feedVars
<1> QED
  BY <1>8, <1>9, <1>13, <1>14, <1>16, <1>17 DEF Inv

(* The connection that lost, failed or has said its last words. *)
LEMMA StepDuplicate ==
  ASSUME Inv, NEW c \in Conn, NEW d \in Device, Duplicate(c, d)
  PROVE  Inv'
<1>1. /\ end[c][d].pc \in {"auth", "lingering"}
      /\ end' = [end EXCEPT ![c][d] = NoEnd] /\ Over(c, d) /\ Known(c, d)
      /\ UNCHANGED <<groupVars, link, feedVars, faults>>
  BY DEF Duplicate
<1>2. /\ ConnsOK(conn') /\ dialling' \in [Device -> SUBSET Device]
      /\ EndsOK(conn', list, end') /\ LinksOK(conn', link, end') /\ WiresOK(list, wire')
  BY <1>1, SideIsGone
<1>3. OtherOf(conn, c, d) \in Device /\ Other(c, d) = OtherOf(conn, c, d)
  BY <1>1, BusySide DEF Inv, Other, OtherOf
<1>4. known' \in [Device -> SUBSET Device]
  BY <1>1, <1>3 DEF Inv, TablesOK, Known
<1>5. TablesOK'
  BY <1>1, <1>2, <1>4 DEF Inv, TablesOK
<1>6. ListsOK' /\ FeedsOK' /\ UNCHANGED <<list, keys, link>>
  BY <1>1 DEF Inv, ListsOK, FeedsOK, groupVars, feedVars
<1> QED
  BY <1>2, <1>5, <1>6 DEF Inv

LEMMA StepAuthFails ==
  ASSUME Inv, NEW c \in Conn, NEW d \in Device, AuthFails(c, d)
  PROVE  Inv'
<1>1. /\ end[c][d].pc \in {"auth", "lingering"}
      /\ end' = [end EXCEPT ![c][d] = NoEnd] /\ Over(c, d)
      /\ UNCHANGED <<groupVars, link, known, feedVars>>
  BY DEF AuthFails
<1>2. /\ ConnsOK(conn') /\ dialling' \in [Device -> SUBSET Device]
      /\ EndsOK(conn', list, end') /\ LinksOK(conn', link, end') /\ WiresOK(list, wire')
  BY <1>1, SideIsGone
<1>3. faults' \in Nat
  BY DEF Inv, FeedsOK, AuthFails, Fault
<1>4. TablesOK'
  BY <1>1, <1>2 DEF Inv, TablesOK
<1>5. ListsOK' /\ FeedsOK' /\ UNCHANGED <<list, keys, link>>
  BY <1>1, <1>3 DEF Inv, ListsOK, FeedsOK, groupVars, feedVars
<1> QED
  BY <1>2, <1>4, <1>5 DEF Inv

LEMMA StepHangUp ==
  ASSUME Inv, NEW c \in Conn, NEW d \in Device, HangUp(c, d)
  PROVE  Inv'
<1>1. /\ end[c][d].pc \in {"auth", "lingering"}
      /\ end' = [end EXCEPT ![c][d] = NoEnd] /\ Over(c, d)
      /\ UNCHANGED <<groupVars, link, known, feedVars, faults>>
  BY DEF HangUp
<1>2. /\ ConnsOK(conn') /\ dialling' \in [Device -> SUBSET Device]
      /\ EndsOK(conn', list, end') /\ LinksOK(conn', link, end') /\ WiresOK(list, wire')
  BY <1>1, SideIsGone
<1>3. TablesOK'
  BY <1>1, <1>2 DEF Inv, TablesOK
<1>4. ListsOK' /\ FeedsOK' /\ UNCHANGED <<list, keys, link>>
  BY <1>1 DEF Inv, ListsOK, FeedsOK, groupVars, feedVars
<1> QED
  BY <1>2, <1>3, <1>4 DEF Inv

(* The network drops a connection. *)
LEMMA StepLost ==
  ASSUME Inv, NEW c \in Conn, Lost(c)
  PROVE  Inv'
<1> PICK cm : cm = [conn EXCEPT ![c].open = FALSE]
  OBVIOUS
<1>1. /\ ConnsOK(conn) /\ link \in LinkTable
      /\ EndsOK(conn, list, end) /\ LinksOK(conn, link, end) /\ WiresOK(list, wire)
  BY DEF Inv, TablesOK
<1>2. conn' = cm /\ conn[c] # None
  BY DEF Lost
<1>3. ConnsOK(cm) /\ SameJoins(cm, conn)
  BY <1>1, <1>2, Unplugged
<1>4. EndsOK(cm, list, end) /\ LinksOK(cm, link, end)
  BY <1>1, <1>3, SameConnections
<1>5. WiresOK(list, wire')
  BY <1>1, NothingSent DEF Lost
<1>6. faults' \in Nat
  BY DEF Inv, FeedsOK, Lost, Fault
<1>7. ListsOK' /\ FeedsOK' /\ UNCHANGED <<list, keys, link, end>>
  BY <1>6 DEF Inv, ListsOK, FeedsOK, Lost, groupVars, tableVars, feedVars
<1>8. TablesOK'
  BY <1>2, <1>3 DEF Inv, TablesOK, Lost, tableVars
<1> QED
  BY <1>2, <1>4, <1>5, <1>7, <1>8 DEF Inv

-----------------------------------------------------------------------------
(* The steps of a running session. *)

LEMMA InSessionFacts ==
  ASSUME Inv, NEW c \in Conn, NEW d \in Device, InSession(end[c][d])
  PROVE  /\ Other(c, d) \in Device /\ Joins(conn, c, d, Other(c, d))
         /\ GoodEnd(list, Other(c, d), end[c][d])
<1>1. Other(c, d) = OtherOf(conn, c, d)
  BY DEF Other, OtherOf
<1>2. end[c][d].pc # "none"
  BY DEF InSession
<1> QED
  BY <1>1, <1>2, BusySide DEF Inv

LEMMA InvFacts ==
  ASSUME Inv
  PROVE  /\ setup \in Setups /\ list \in Seq(SUBSET Device) /\ view \in [Device -> 0..Len(list)]
         /\ ConnsOK(conn) /\ link \in LinkTable
         /\ EndsOK(conn, list, end) /\ end \in [Conn -> [Device -> End]]
         /\ LinksOK(conn, link, end) /\ WiresOK(list, wire) /\ KeysOK(list, keys)
         /\ keys \in [Device -> SUBSET Nat]
BY DEF Inv, ListsOK, TablesOK, EndsOK, KeysOK

(* The session goes on as e. *)
LEMMA SessionGoesOn ==
  ASSUME Inv, NEW c \in Conn, NEW d \in Device, InSession(end[c][d]),
         NEW e, GoodEnd(list, Other(c, d), e), e.pc = "up", Follows(end[c][d], e), Goes(c, d, e)
  PROVE  EndsOK(conn, list, end') /\ LinksOK(conn, link, end')
<1> PICK p : p = Other(c, d)
  OBVIOUS
<1> PICK f : f = Turn(e, list, view, keys, d, p)
  OBVIOUS
<1>1. p \in Device /\ Joins(conn, c, d, p)
  BY InSessionFacts
<1>2. GoodEnd(list, p, f) /\ Follows(e, f)
  BY TurnGoesOn
<1>3. Follows(end[c][d], f)
  BY <1>2, FollowsOn
<1>4. EndsOK(conn, list, [end EXCEPT ![c][d] = f]) /\ LinksOK(conn, link, [end EXCEPT ![c][d] = f])
  BY <1>1, <1>2, <1>3, InvFacts, SideGoesOn
<1>5. end' = [end EXCEPT ![c][d] = f]
  BY DEF Goes
<1> QED
  BY <1>4, <1>5

LEMMA StepQuits ==
  ASSUME Inv, NEW c \in Conn, NEW d \in Device, InSession(end[c][d]),
         NEW rest, WiresOK(list, rest), NEW ms, GoodQueue(list, Other(c, d), ms),
         Quits(c, d, rest, ms), UNCHANGED <<dialling, known, conn>>, faults' \in Nat
  PROVE  Inv'
<1>1. Other(c, d) \in Device /\ Joins(conn, c, d, Other(c, d))
  BY InSessionFacts
<1>2. EndsOK(conn, list, end') /\ LinksOK(conn, link', end') /\ link' \in LinkTable
  BY <1>1, InvFacts, SessionEnds DEF Quits
<1>3. WiresOK(list, wire')
  BY <1>1, InvFacts, SomethingSent DEF Quits
<1>4. ListsOK' /\ FeedsOK' /\ TablesOK' /\ UNCHANGED <<list, keys, conn>>
  BY <1>2 DEF Quits, Inv, ListsOK, FeedsOK, TablesOK, groupVars, feedVars
<1> QED
  BY <1>2, <1>3, <1>4 DEF Inv

LEMMA StepProbation ==
  ASSUME Inv, NEW c \in Conn, NEW d \in Device, Probation(c, d)
  PROVE  Inv'
<1>1. InSession(end[c][d])
  BY DEF Probation, Up, InSession
<1>2. WiresOK(list, wire) /\ GoodQueue(list, Other(c, d), ByeFin)
  BY InvFacts, OpenMessages
<1>3. faults' \in Nat
  BY DEF Inv, FeedsOK, Probation, Fault
<1> QED
  BY <1>1, <1>2, <1>3, StepQuits DEF Probation

LEMMA StepClosed ==
  ASSUME Inv, NEW c \in Conn, NEW d \in Device, Closed(c, d)
  PROVE  Inv'
<1>1. InSession(end[c][d])
  BY DEF Closed, Up, InSession
<1>2. WiresOK(list, wire) /\ GoodQueue(list, Other(c, d), <<>>)
  BY InvFacts, QueueOfNone
<1>3. faults' \in Nat
  BY DEF Inv, FeedsOK, Closed
<1> QED
  BY <1>1, <1>2, <1>3, StepQuits DEF Closed

LEMMA StepTick ==
  ASSUME Inv, NEW c \in Conn, NEW d \in Device, Tick(c, d)
  PROVE  Inv'
<1> PICK e : e = [end[c][d] EXCEPT !.want = TRUE]
  OBVIOUS
<1>1. InSession(end[c][d]) /\ end[c][d].pc = "up" /\ Goes(c, d, e)
  BY DEF Tick, Up, InSession
<1>2. GoodEnd(list, Other(c, d), end[c][d]) /\ end[c][d] \in End
  BY <1>1, InSessionFacts DEF GoodEnd
<1>3. e \in End /\ e.pc = "up" /\ e.trusted = end[c][d].trusted /\ e.commands = end[c][d].commands
  BY <1>1, <1>2 DEF End
<1>4. GoodEnd(list, Other(c, d), e) /\ Follows(end[c][d], e)
  BY <1>1, <1>2, <1>3 DEF GoodEnd, Follows, InSession, Closing
<1>5. EndsOK(conn, list, end') /\ LinksOK(conn, link, end')
  BY <1>1, <1>3, <1>4, SessionGoesOn
<1>6. ListsOK' /\ FeedsOK' /\ TablesOK' /\ UNCHANGED <<list, keys, conn, link, wire>>
  BY DEF Tick, Inv, ListsOK, FeedsOK, TablesOK, groupVars, tableVars, feedVars
<1> QED
  BY <1>5, <1>6 DEF Inv

LEMMA StepPush ==
  ASSUME Inv, NEW c \in Conn, NEW d \in Device, Push(c, d)
  PROVE  Inv'
<1> PICK p : p = Other(c, d)
  OBVIOUS
<1> PICK e : e = [end[c][d] EXCEPT !.pc = "up"]
  OBVIOUS
<1>1. InSession(end[c][d]) /\ end[c][d].pc = "asking"
  BY DEF Push, InSession
<1>2. p \in Device /\ Joins(conn, c, d, p) /\ GoodEnd(list, p, end[c][d]) /\ end[c][d] \in End
  BY <1>1, InSessionFacts DEF GoodEnd
<1>3. e \in End /\ e.pc = "up" /\ e.trusted = end[c][d].trusted /\ e.commands = end[c][d].commands
  BY <1>2 DEF End
<1>4. GoodEnd(list, p, e) /\ Follows(end[c][d], e)
  BY <1>1, <1>2, <1>3 DEF GoodEnd, Follows, InSession, Closing
<1>5. ASSUME Goes(c, d, e)
      PROVE  EndsOK(conn, list, end') /\ LinksOK(conn, link, end')
  BY <1>1, <1>3, <1>4, <1>5, SessionGoesOn
<1>6. WiresOK(list, wire)
  BY InvFacts
<1>7. seq[d] \in Nat /\ faults \in Nat
  BY DEF Inv, FeedsOK
<1>8. /\ EndsOK(conn, list, end') /\ LinksOK(conn, link, end') /\ WiresOK(list, wire')
      /\ faults' \in Nat
  <2>1. CASE Goes(c, d, e) /\ UNCHANGED <<wire, faults>>
    BY <1>5, <1>6, <1>7, <2>1
  <2>2. CASE Fault /\ Goes(c, d, e) /\ UNCHANGED wire
    BY <1>5, <1>6, <1>7, <2>2 DEF Fault
  <2>3. CASE /\ has_current_key(d)
             /\ end' = [end EXCEPT ![c][d] = [e EXCEPT !.flight = seq[d]]]
             /\ Sends(c, d, <<[type |-> "Records", key |-> KeyOf(list, view[d]), upto |-> seq[d]]>>)
             /\ UNCHANGED faults
    <3> PICK f : f = [e EXCEPT !.flight = seq[d]]
      OBVIOUS
    <3>1. f \in End /\ f.pc = "up" /\ f.trusted = e.trusted /\ f.commands = e.commands
      BY <1>3, <1>7 DEF End
    <3>2. GoodEnd(list, p, f) /\ Follows(end[c][d], f)
      BY <1>3, <1>4, <3>1 DEF GoodEnd, Follows, InSession, Closing
    <3>3. EndsOK(conn, list, [end EXCEPT ![c][d] = f]) /\ LinksOK(conn, link, [end EXCEPT ![c][d] = f])
      BY <1>2, <3>2, InvFacts, SideGoesOn
    <3>4. EndsOK(conn, list, end') /\ LinksOK(conn, link, end')
      BY <2>3, <3>3
    <3>5. view[d] \in Nat /\ view[d] # 0
      <4>1. view[d] \in 0..Len(list)
        BY InvFacts
      <4>2. view[d] # 0
        BY <2>3 DEF has_current_key, HasKey
      <4> QED
        BY <4>1, <4>2
    <3>6. KeyOf(list, view[d]) \in Nat
      BY <3>5, KeyOfIs
    <3>7. Ever(list, p)
      BY <1>1, <1>2 DEF GoodEnd
    <3>8. GoodQueue(list, p, <<[type |-> "Records", key |-> KeyOf(list, view[d]), upto |-> seq[d]]>>)
      BY <1>7, <3>6, <3>7, RecordsMessage
    <3>9. WiresOK(list, wire')
      BY <1>2, <2>3, <3>8, InvFacts, SomethingSent DEF Sends
    <3> QED
      BY <1>7, <2>3, <3>4, <3>9
  <2> QED
    BY <2>1, <2>2, <2>3 DEF Push
<1>9. UNCHANGED <<groupVars, tableVars, conn, feedVars>>
  BY DEF Push
<1>10. ListsOK' /\ FeedsOK' /\ TablesOK' /\ UNCHANGED <<list, keys, conn, link>>
  BY <1>8, <1>9 DEF Inv, ListsOK, FeedsOK, TablesOK, groupVars, tableVars, feedVars
<1> QED
  BY <1>8, <1>10 DEF Inv

(* The command that was obeyed is gone, the order to close is not. *)
LEMMA NextCommand ==
  ASSUME NEW ls, NEW x, NEW e, GoodEnd(ls, x, e), InSession(e), e.commands # <<>>,
         NEW new, new = [e EXCEPT !.commands = Tail(@)]
  PROVE  /\ GoodCommand(ls, x, Head(e.commands)) /\ GoodEnd(ls, x, new)
         /\ new.pc = e.pc /\ new.trusted = e.trusted
         /\ Head(e.commands).type # "Close" => Follows(e, new)
<1>1. e \in End /\ e.commands \in Seq(Command) /\ GoodCommands(ls, x, e.commands)
  BY DEF GoodEnd, End
<1>2. GoodCommand(ls, x, Head(e.commands)) /\ GoodCommands(ls, x, Tail(e.commands))
  BY <1>1, CommandsHead
<1>3. /\ new.commands = Tail(e.commands) /\ new.pc = e.pc /\ new.trusted = e.trusted
  BY <1>1 DEF End
<1>4. new \in End
  <2>1. Tail(e.commands) \in Seq(Command)
    BY <1>1
  <2> QED
    BY <1>1, <2>1 DEF End
<1>5. GoodEnd(ls, x, new)
  BY <1>2, <1>3, <1>4 DEF GoodEnd, InSession
<1>6. ASSUME Head(e.commands).type # "Close", Closing(e) PROVE Closing(new)
  <2>1. PICK i \in 1..Len(e.commands) : e.commands[i].type = "Close"
    BY <1>6 DEF Closing
  <2>2. Head(e.commands) = e.commands[1] /\ Len(e.commands) \in Nat
    BY <1>1
  <2>3. i # 1
    BY <1>6, <2>1, <2>2
  <2>4. i - 1 \in 1..Len(Tail(e.commands)) /\ Tail(e.commands)[i - 1] = e.commands[i]
    BY <1>1, <2>2, <2>3
  <2> QED
    BY <1>3, <2>1, <2>4 DEF Closing
<1> QED
  BY <1>2, <1>3, <1>5, <1>6 DEF Follows, InSession

LEMMA StepObey ==
  ASSUME Inv, NEW c \in Conn, NEW d \in Device, Obey(c, d)
  PROVE  Inv'
<1> PICK p : p = Other(c, d)
  OBVIOUS
<1> PICK m : m = Head(end[c][d].commands)
  OBVIOUS
<1> PICK e : e = [end[c][d] EXCEPT !.commands = Tail(@)]
  OBVIOUS
<1>1. InSession(end[c][d]) /\ end[c][d].pc = "up" /\ end[c][d].commands # <<>>
  BY DEF Obey, Up, InSession
<1>2. p \in Device /\ Joins(conn, c, d, p) /\ GoodEnd(list, p, end[c][d]) /\ end[c][d] \in End
  BY <1>1, InSessionFacts DEF GoodEnd
<1>3. /\ GoodCommand(list, p, m) /\ GoodEnd(list, p, e)
      /\ e.pc = end[c][d].pc /\ e.trusted = end[c][d].trusted
      /\ m.type # "Close" => Follows(end[c][d], e)
  BY <1>1, <1>2, NextCommand
<1>4. /\ EndsOK(conn, list, end') /\ LinksOK(conn, link', end') /\ link' \in LinkTable
      /\ WiresOK(list, wire')
  <2>1. CASE m.type = "Close"
    <3>1. Ends([end EXCEPT ![c][d] = e], c, d) /\ Sends(c, d, Fin)
      BY <2>1 DEF Obey
    <3>2. Ends(end, c, d)
      <4>1. end \in [Conn -> [Device -> End]]
        BY InvFacts
      <4>2. \A f : [[end EXCEPT ![c][d] = e] EXCEPT ![c][d] = f] = [end EXCEPT ![c][d] = f]
        BY <4>1
      <4> QED
        BY <3>1, <4>2 DEF Ends
    <3>3. EndsOK(conn, list, end') /\ LinksOK(conn, link', end') /\ link' \in LinkTable
      BY <1>2, <3>2, InvFacts, SessionEnds
    <3>4. GoodQueue(list, p, Fin)
      BY OpenMessages
    <3>5. WiresOK(list, wire')
      BY <1>2, <3>1, <3>4, InvFacts, SomethingSent DEF Sends
    <3> QED
      BY <3>3, <3>5
  <2>2. CASE m.type # "Close"
    <3>f. PICK f : f = IF m.type = "Nudge" THEN [e EXCEPT !.want = TRUE] ELSE e
      OBVIOUS
    <3>1. link' = link /\ Goes(c, d, f)
      BY <2>2, <3>f DEF Obey
    <3>2. f \in End /\ f.pc = "up" /\ f.trusted = e.trusted /\ f.commands = e.commands
      <4>1. e \in End
        BY <1>3 DEF GoodEnd
      <4> QED
        BY <1>1, <1>3, <3>f, <4>1 DEF End
    <3>3. GoodEnd(list, p, f) /\ Follows(e, f)
      BY <1>1, <1>3, <3>2 DEF GoodEnd, Follows, InSession, Closing
    <3>4. Follows(end[c][d], f)
      <4>1. Follows(end[c][d], e)
        BY <1>3, <2>2
      <4>2. Follows(e, f)
        BY <3>3
      <4> QED
        BY <4>1, <4>2, FollowsOn
    <3>5. EndsOK(conn, list, end') /\ LinksOK(conn, link, end')
      BY <1>1, <3>1, <3>2, <3>3, <3>4, SessionGoesOn
    <3>6. WiresOK(list, wire')
      <4>1. CASE wire' = wire
        BY <4>1, InvFacts
      <4>2. CASE e.trusted /\ m.type \in {"Rosters", "KeyShare"} /\ Sends(c, d, <<m>>)
        <5>1. Ever(list, p)
          BY <1>3, <4>2 DEF GoodEnd
        <5>2. m \in Message
          BY <1>3, <4>2 DEF GoodCommand, Command, Message
        <5>3. GoodMessage(list, p, m)
          BY <1>3, <4>2, <5>1, <5>2 DEF GoodMessage, GoodCommand
        <5>4. GoodQueue(list, p, <<m>>)
          BY <5>3, QueueOfOne
        <5> QED
          BY <1>2, <4>2, <5>4, InvFacts, SomethingSent DEF Sends
      <4> QED
        BY <2>2, <4>1, <4>2 DEF Obey
    <3> QED
      BY <3>1, <3>5, <3>6, InvFacts
  <2> QED
    BY <2>1, <2>2
<1>5. UNCHANGED <<groupVars, dialling, known, conn, feedVars, faults>>
  BY DEF Obey
<1>6. ListsOK' /\ FeedsOK' /\ TablesOK' /\ UNCHANGED <<list, keys, conn>>
  BY <1>4, <1>5 DEF Inv, ListsOK, FeedsOK, TablesOK, groupVars, feedVars
<1> QED
  BY <1>4, <1>6 DEF Inv

(* receive_rosters takes a list that was signed, if it is newer. *)
LEMMA ListsReceived ==
  ASSUME Inv, NEW d \in Device, NEW m, m.at \in 0..Len(list)
  PROVE  LET w == receive_rosters(d, m) IN
         /\ w.view \in [Device -> 0..Len(list)]
         /\ KeysOK(list, w.keys)
         /\ OnlyTold(list, d, w.end)
<1> PICK w : w = receive_rosters(d, m)
  OBVIOUS
<1> PICK vs : vs = [view EXCEPT ![d] = m.at]
  OBVIOUS
<1>1. vs \in [Device -> 0..Len(list)] /\ view \in [Device -> 0..Len(list)] /\ keys \in [Device -> SUBSET Nat]
  BY InvFacts
<1>2. CASE w = [view |-> view, keys |-> keys, end |-> end]
  <2>1. OnlyTold(list, d, end)
    BY InvFacts DEF OnlyTold
  <2>2. w.view = view /\ w.keys = keys /\ w.end = end
    BY <1>2
  <2>3. KeysOK(list, keys)
    BY InvFacts
  <2> QED
    BY <1>1, <2>1, <2>2, <2>3
<1>3. CASE w = [view |-> vs, keys |-> keys,
                end |-> after_roster_change(end, list, vs, keys, d, FALSE)]
  <2> PICK new : new = after_roster_change(end, list, vs, keys, d, FALSE)
    OBVIOUS
  <2>1. OnlyTold(list, d, new)
    BY <1>1, InvFacts, RosterChangeIsTold
  <2>2. w.view = vs /\ w.keys = keys /\ w.end = new
    BY <1>3
  <2>3. KeysOK(list, keys)
    BY InvFacts
  <2> QED
    BY <1>1, <2>1, <2>2, <2>3
<1>4. CASE w = [view |-> vs, keys |-> [keys EXCEPT ![d] = {}],
                end |-> ToldAll(end, d, [p \in Device |-> Close])]
  <2> PICK cs : cs = [p \in Device |-> Close]
    OBVIOUS
  <2> PICK new : new = ToldAll(end, d, cs)
    OBVIOUS
  <2> PICK ks : ks = [keys EXCEPT ![d] = {}]
    OBVIOUS
  <2>1. \A p \in Device : GoodCommands(list, p, cs[p])
    BY AnyCommands
  <2>2. OnlyTold(list, d, new)
    BY <2>1, InvFacts, EveryoneIsTold
  <2>3. w.view = vs /\ w.keys = ks /\ w.end = new
    BY <1>4
  <2>4. ks \in [Device -> SUBSET Nat] /\ \A y \in Device : ks[y] \subseteq keys[y]
    BY <1>1
  <2>5. KeysOK(list, ks)
    BY <2>4, InvFacts DEF KeysOK
  <2> QED
    BY <1>1, <2>2, <2>3, <2>5
<1> QED
  BY <1>2, <1>3, <1>4 DEF receive_rosters

LEMMA StepReceiveRosters ==
  ASSUME Inv, NEW c \in Conn, NEW d \in Device, end[c][d].pc = "up",
         NEW m, m.at \in 0..Len(list), NEW rest, WiresOK(list, rest),
         ReceiveRosters(c, d, m, rest), UNCHANGED <<dialling, known, conn>>
  PROVE  Inv'
<1> PICK p : p = Other(c, d)
  OBVIOUS
<1> PICK w : w = receive_rosters(d, m)
  OBVIOUS
<1>1. InSession(end[c][d])
  BY DEF InSession
<1>2. p \in Device /\ Joins(conn, c, d, p)
  BY <1>1, InSessionFacts
<1>3. w.view \in [Device -> 0..Len(list)] /\ KeysOK(list, w.keys) /\ OnlyTold(list, d, w.end)
  BY ListsReceived
<1>4. EndsOK(conn, list, w.end) /\ LinksOK(conn, link, w.end) /\ w.end[c][d].pc = "up"
  BY <1>3 DEF OnlyTold
<1>5. view' = w.view /\ keys' = w.keys
  BY DEF ReceiveRosters
<1>6. /\ EndsOK(conn, list, end') /\ LinksOK(conn, link', end') /\ link' \in LinkTable
      /\ WiresOK(list, wire')
  <2>1. CASE IsPeer(list, w.view, d, p)
    <3> PICK e : e = IF m.type = "Rosters" THEN w.end[c][d]
                     ELSE [w.end[c][d] EXCEPT !.trusted = TRUE, !.hello = TRUE, !.want = TRUE]
      OBVIOUS
    <3> PICK f : f = Turn(e, list, w.view, w.keys, d, p)
      OBVIOUS
    <3> PICK hello : hello = IF m.type = "Hello" /\ ~end[c][d].hello
                             THEN <<[type |-> "Hello", at |-> w.view[d]]>> ELSE <<>>
      OBVIOUS
    <3> PICK ask : ask = IF HasKey(list, w.view, w.keys, d) THEN <<>> ELSE <<[type |-> "KeyRequest"]>>
      OBVIOUS
    <3>1. Ever(list, p) /\ w.view[d] \in Nat /\ w.view[d] \in 0..Len(list)
      BY <1>2, <1>3, <2>1, InvFacts, PeersAreMembers
    <3>2. GoodEnd(list, p, w.end[c][d])
      <4>1. OtherOf(conn, c, d) = p
        BY DEF Other, OtherOf
      <4> QED
        BY <1>2, <1>4, <4>1 DEF EndsOK
    <3>3. e \in End /\ e.pc = "up" /\ e.commands = w.end[c][d].commands
      <4>1. w.end[c][d] \in End
        BY <3>2 DEF GoodEnd
      <4>2. CASE m.type = "Rosters"
        BY <1>4, <4>1, <4>2
      <4>3. CASE m.type # "Rosters"
        BY <1>4, <4>1, <4>3 DEF End
      <4> QED
        BY <4>2, <4>3
    <3>4. GoodEnd(list, p, e) /\ Follows(w.end[c][d], e)
      BY <1>4, <3>1, <3>2, <3>3 DEF GoodEnd, Follows, InSession, Closing
    <3>5. GoodEnd(list, p, f) /\ Follows(e, f)
      BY <3>3, <3>4, TurnGoesOn
    <3>6. Follows(w.end[c][d], f)
      BY <3>4, <3>5, FollowsOn
    <3>7. /\ EndsOK(conn, list, [w.end EXCEPT ![c][d] = f])
          /\ LinksOK(conn, link, [w.end EXCEPT ![c][d] = f])
      <4>1. link \in LinkTable
        BY InvFacts
      <4> QED
        BY <1>2, <1>4, <3>5, <3>6, <4>1, SideGoesOn
    <3>8. /\ end' = [w.end EXCEPT ![c][d] = f] /\ link' = link
          /\ wire' = Sent(rest, c, d, hello \o ask)
      BY <2>1 DEF ReceiveRosters
    <3>9. GoodQueue(list, p, hello) /\ GoodQueue(list, p, ask)
      <4>1. GoodQueue(list, p, <<>>)
        BY QueueOfNone
      <4>2. GoodQueue(list, p, <<[type |-> "Hello", at |-> w.view[d]]>>)
        BY <3>1, ListMessages
      <4>3. GoodQueue(list, p, <<[type |-> "KeyRequest"]>>)
        BY OpenMessages
      <4> QED
        BY <4>1, <4>2, <4>3
    <3>10. GoodQueue(list, p, hello \o ask)
      BY <3>9, QueueGrows
    <3>11. WiresOK(list, wire')
      BY <1>2, <3>8, <3>10, InvFacts, SomethingSent
    <3> QED
      BY <3>7, <3>8, <3>11, InvFacts
  <2>2. CASE ~IsPeer(list, w.view, d, p)
    <3>1. Ends(w.end, c, d) /\ wire' = Sent(rest, c, d, ByeFin)
      BY <2>2 DEF ReceiveRosters
    <3>2. EndsOK(conn, list, end') /\ LinksOK(conn, link', end') /\ link' \in LinkTable
      BY <1>2, <1>4, <3>1, InvFacts, SessionEnds
    <3>3. GoodQueue(list, p, ByeFin)
      BY OpenMessages
    <3>4. WiresOK(list, wire')
      BY <1>2, <3>1, <3>3, InvFacts, SomethingSent
    <3> QED
      BY <3>2, <3>4
  <2> QED
    BY <2>1, <2>2
<1>7. UNCHANGED <<setup, list, feedVars, faults>>
  BY DEF ReceiveRosters
<1>8. ListsOK' /\ FeedsOK' /\ TablesOK' /\ KeysOK(list, keys') /\ UNCHANGED <<list, conn>>
  BY <1>3, <1>5, <1>6, <1>7 DEF Inv, ListsOK, FeedsOK, TablesOK, feedVars
<1> QED
  BY <1>6, <1>8 DEF Inv

LEMMA StepReceiveKey ==
  ASSUME Inv, NEW c \in Conn, NEW d \in Device,
         NEW m, m.type = "KeyShare", GoodMessage(list, d, m), NEW rest, WiresOK(list, rest),
         ReceiveKey(c, d, m, rest), UNCHANGED <<dialling, known, conn>>
  PROVE  Inv'
<1>1. Inside(list, m.key, d)
  BY DEF GoodMessage
<1>2. m.key \in Nat
  BY <1>1 DEF Inside
<1>3. KeysOK(list, keys')
  <2>1. CASE keys' = keys
    BY <2>1, InvFacts
  <2>2. CASE keys' = [keys EXCEPT ![d] = @ \cup {m.key}]
    <3> PICK ks : ks = [keys EXCEPT ![d] = keys[d] \cup {m.key}]
      OBVIOUS
    <3>1. keys \in [Device -> SUBSET Nat]
      BY InvFacts
    <3>2. keys' = ks
      BY <2>2, <3>1
    <3>3. ks \in [Device -> SUBSET Nat] /\ \A y \in Device : ks[y] = IF y = d THEN keys[d] \cup {m.key} ELSE keys[y]
      BY <1>2, <3>1
    <3>4. KeysOK(list, ks)
      BY <1>1, <3>3, InvFacts DEF KeysOK
    <3> QED
      BY <3>2, <3>4
  <2> QED
    BY <2>1, <2>2 DEF ReceiveKey
<1>4. EndsOK(conn, list, end') /\ LinksOK(conn, link, end')
  <2> PICK cs : cs = [p \in Device |-> <<[type |-> "Nudge"]>>]
    OBVIOUS
  <2> PICK new : new = ToldAll(end, d, cs)
    OBVIOUS
  <2>1. \A p \in Device : GoodCommands(list, p, cs[p])
    BY AnyCommands
  <2>2. OnlyTold(list, d, new)
    BY <2>1, InvFacts, EveryoneIsTold
  <2>3. end' \in {end, new}
    BY DEF ReceiveKey
  <2> QED
    BY <2>2, <2>3, InvFacts DEF OnlyTold
<1>5. UNCHANGED <<setup, list, view, link, feedVars, faults>> /\ wire' = rest
  BY DEF ReceiveKey
<1>6. ListsOK' /\ FeedsOK' /\ TablesOK' /\ UNCHANGED <<list, conn, link>> /\ wire' = rest
  BY <1>5 DEF Inv, ListsOK, FeedsOK, TablesOK, feedVars
<1> QED
  BY <1>3, <1>4, <1>6 DEF Inv

LEMMA StepReceiveRecords ==
  ASSUME Inv, NEW c \in Conn, NEW d \in Device, InSession(end[c][d]),
         NEW m, m.type = "Records", m \in Message, NEW rest, WiresOK(list, rest),
         ReceiveRecords(c, d, m, rest), UNCHANGED <<dialling, known, conn>>
  PROVE  Inv'
<1> PICK p : p = Other(c, d)
  OBVIOUS
<1> PICK ask : ask = IF has_current_key(d) THEN <<>> ELSE <<[type |-> "KeyRequest"]>>
  OBVIOUS
<1>1. p \in Device /\ Joins(conn, c, d, p)
  BY InSessionFacts
<1>2. m.upto \in Nat
  BY DEF Message
<1>3. WiresOK(list, wire')
  <2>1. GoodQueue(list, p, <<[type |-> "Applied"]>>) /\ GoodQueue(list, p, <<[type |-> "Retry"]>>)
    BY OpenMessages
  <2>2. GoodQueue(list, p, ask)
    BY OpenMessages, QueueOfNone
  <2>3. GoodQueue(list, p, ask \o <<[type |-> "Retry"]>>)
    BY <2>1, <2>2, QueueGrows
  <2>4. \/ wire' = Sent(rest, c, d, <<[type |-> "Applied"]>>)
        \/ wire' = Sent(rest, c, d, ask \o <<[type |-> "Retry"]>>)
    BY DEF ReceiveRecords
  <2> QED
    BY <1>1, <2>1, <2>3, <2>4, InvFacts, SomethingSent
<1>4. applied' \in [Device -> [Device -> Nat]] /\ faults' \in Nat
  <2>1. applied \in [Device -> [Device -> Nat]] /\ faults \in Nat
    BY DEF Inv, FeedsOK
  <2> PICK n : n = IF m.upto > applied[d][p] THEN m.upto ELSE applied[d][p]
    OBVIOUS
  <2>2. n \in Nat
    BY <1>1, <1>2, <2>1
  <2>3. applied' = applied \/ applied' = [applied EXCEPT ![d][p] = n]
    BY <1>1, <2>1 DEF ReceiveRecords
  <2>4. [applied EXCEPT ![d][p] = n] \in [Device -> [Device -> Nat]]
    BY <1>1, <2>1, <2>2
  <2>5. faults' \in Nat
    BY <2>1 DEF ReceiveRecords, Fault
  <2> QED
    BY <2>1, <2>3, <2>4, <2>5
<1>5. UNCHANGED <<groupVars, link, end, seq, cursor>>
  BY DEF ReceiveRecords
<1>6. ListsOK' /\ FeedsOK' /\ TablesOK' /\ UNCHANGED <<list, keys, conn, link, end>>
  BY <1>4, <1>5 DEF Inv, ListsOK, FeedsOK, TablesOK, groupVars
<1> QED
  BY <1>3, <1>6 DEF Inv

LEMMA StepReceiveAnswer ==
  ASSUME Inv, NEW c \in Conn, NEW d \in Device, end[c][d].pc = "up",
         NEW m, NEW rest, WiresOK(list, rest),
         ReceiveAnswer(c, d, m, rest), UNCHANGED <<dialling, known, conn>>
  PROVE  Inv'
<1> PICK p : p = Other(c, d)
  OBVIOUS
<1> PICK e : e = [end[c][d] EXCEPT !.flight = 0]
  OBVIOUS
<1>1. InSession(end[c][d])
  BY DEF InSession
<1>2. p \in Device /\ GoodEnd(list, p, end[c][d]) /\ end[c][d] \in End
  BY <1>1, InSessionFacts DEF GoodEnd
<1>3. e \in End /\ e.pc = "up" /\ e.trusted = end[c][d].trusted /\ e.commands = end[c][d].commands
  BY <1>2 DEF End
<1>4. GoodEnd(list, p, e) /\ Follows(end[c][d], e)
  BY <1>1, <1>2, <1>3 DEF GoodEnd, Follows, InSession, Closing
<1>5. EndsOK(conn, list, end') /\ LinksOK(conn, link, end')
  BY <1>1, <1>3, <1>4, SessionGoesOn DEF ReceiveAnswer
<1>6. cursor' \in [Device -> [Device -> Nat]]
  <2>1. cursor \in [Device -> [Device -> Nat]] /\ end[c][d].flight \in Nat
    BY <1>2 DEF Inv, FeedsOK, End
  <2> QED
    BY <1>2, <2>1 DEF ReceiveAnswer
<1>7. UNCHANGED <<groupVars, link, seq, applied, faults>> /\ wire' = rest
  BY DEF ReceiveAnswer
<1>8. ListsOK' /\ FeedsOK' /\ TablesOK' /\ UNCHANGED <<list, keys, conn, link>> /\ wire' = rest
  BY <1>6, <1>7 DEF Inv, ListsOK, FeedsOK, TablesOK, groupVars
<1> QED
  BY <1>5, <1>8 DEF Inv

LEMMA StepReceiveKeyRequest ==
  ASSUME Inv, NEW c \in Conn, NEW d \in Device, InSession(end[c][d]), is_peer(d, Other(c, d)),
         NEW rest, WiresOK(list, rest),
         ReceiveKeyRequest(c, d, rest), UNCHANGED <<dialling, known, conn>>
  PROVE  Inv'
<1> PICK p : p = Other(c, d)
  OBVIOUS
<1>1. p \in Device /\ Joins(conn, c, d, p)
  BY InSessionFacts
<1>2. Ever(list, p) /\ Inside(list, KeyOf(list, view[d]), p)
  BY <1>1, InvFacts, PeersAreMembers DEF is_peer
<1>3. /\ GoodQueue(list, p, <<>>)
      /\ GoodQueue(list, p, <<[type |-> "KeyShare", key |-> KeyOf(list, view[d])]>>)
  BY <1>2, KeyMessage, QueueOfNone
<1>4. \/ wire' = Sent(rest, c, d, <<>>)
      \/ wire' = Sent(rest, c, d, <<[type |-> "KeyShare", key |-> KeyOf(list, view[d])]>>)
  BY DEF ReceiveKeyRequest
<1>5. WiresOK(list, wire')
  BY <1>1, <1>3, <1>4, InvFacts, SomethingSent
<1>6. UNCHANGED <<groupVars, link, end, feedVars, faults>>
  BY DEF ReceiveKeyRequest
<1>7. ListsOK' /\ FeedsOK' /\ TablesOK' /\ UNCHANGED <<list, keys, conn, link, end>>
  BY <1>6 DEF Inv, ListsOK, FeedsOK, TablesOK, groupVars, feedVars
<1> QED
  BY <1>5, <1>7 DEF Inv

LEMMA StepReceive ==
  ASSUME Inv, NEW c \in Conn, NEW d \in Device, Receive(c, d)
  PROVE  Inv'
<1> PICK m : m = Head(wire[c][d])
  OBVIOUS
<1> PICK rest : rest = [wire EXCEPT ![c][d] = Tail(@)]
  OBVIOUS
<1>1. end[c][d].pc = "up" /\ InSession(end[c][d]) /\ wire[c][d] # <<>>
  BY DEF Receive, Up, InSession
<1>2. WiresOK(list, rest) /\ GoodMessage(list, d, m) /\ m \in Message
  BY <1>1, InvFacts, SomethingRead DEF GoodMessage
<1>3. UNCHANGED <<dialling, known, conn>>
  BY DEF Receive
<1>4. faults \in Nat
  BY DEF Inv, FeedsOK
<1>5. CASE Quits(c, d, rest, Fin) /\ UNCHANGED faults
  <2>1. GoodQueue(list, Other(c, d), Fin)
    BY OpenMessages
  <2> QED
    BY <1>1, <1>2, <1>3, <1>4, <1>5, <2>1, StepQuits
<1>6. CASE Quits(c, d, rest, ByeFin) /\ UNCHANGED faults
  <2>1. GoodQueue(list, Other(c, d), ByeFin)
    BY OpenMessages
  <2> QED
    BY <1>1, <1>2, <1>3, <1>4, <1>6, <2>1, StepQuits
<1>7. CASE m.type \in {"Hello", "Rosters"} /\ ReceiveRosters(c, d, m, rest)
  <2>1. m.at \in 0..Len(list)
    BY <1>2, <1>7 DEF GoodMessage
  <2> QED
    BY <1>1, <1>2, <1>3, <1>7, <2>1, StepReceiveRosters
<1>8. CASE StillMember(c, d) /\ ReceiveKeyRequest(c, d, rest)
  <2>1. is_peer(d, Other(c, d))
    BY <1>8 DEF StillMember
  <2> QED
    BY <1>1, <1>2, <1>3, <1>8, <2>1, StepReceiveKeyRequest
<1>9. CASE m.type = "KeyShare" /\ ReceiveKey(c, d, m, rest)
  BY <1>2, <1>3, <1>9, StepReceiveKey
<1>10. CASE m.type = "Records" /\ ReceiveRecords(c, d, m, rest)
  BY <1>1, <1>2, <1>3, <1>10, StepReceiveRecords
<1>11. CASE ReceiveAnswer(c, d, m, rest)
  BY <1>1, <1>2, <1>3, <1>11, StepReceiveAnswer
<1> QED
  BY <1>5, <1>6, <1>7, <1>8, <1>9, <1>10, <1>11 DEF Receive

LEMMA StepStutter ==
  ASSUME Inv, UNCHANGED vars
  PROVE  Inv'
BY DEF Inv, ListsOK, TablesOK, FeedsOK, vars, groupVars, tableVars, feedVars

-----------------------------------------------------------------------------
(* The theorems. *)

(* The invariant: the table of sessions (Shared.peers) holds exactly the   *)
(* sessions that run on, and whatever is on its way or waits to be sent is *)
(* for a device of the list it belongs to.                                 *)
THEOREM InvHolds == Spec => []Inv
<1>1. Inv /\ [Next]_vars => Inv'
  <2> SUFFICES ASSUME Inv, [Next]_vars PROVE Inv'
    OBVIOUS
  <2>1. ASSUME NEW d \in Device, NEW x \in Device, RemoveDevice(d, x) \/ Admit(d, x)
        PROVE  Inv'
    BY <2>1, StepRemoveDevice, StepAdmit
  <2>2. ASSUME NEW d \in Device, Change(d) PROVE Inv'
    BY <2>2, StepChange
  <2>3. ASSUME NEW d \in Device, NEW p \in Device, NEW c \in Conn, Dial(d, p, c) PROVE Inv'
    BY <2>3, StepDial
  <2>4. ASSUME NEW c \in Conn, Lost(c) PROVE Inv'
    BY <2>4, StepLost
  <2>5. ASSUME NEW c \in Conn, NEW d \in Device, SessionNext(c, d) PROVE Inv'
    BY <2>5, StepRegister, StepDuplicate, StepAuthFails, StepReceive, StepObey, StepTick,
       StepPush, StepProbation, StepClosed, StepHangUp DEF SessionNext
  <2>6. CASE UNCHANGED vars
    BY <2>6, StepStutter
  <2> QED
    BY <2>1, <2>2, <2>3, <2>4, <2>5, <2>6 DEF Next
<1> QED
  BY <1>1, InvInit, PTL DEF Spec

(* Type correctness, and that an entry of the table has a task that will   *)
(* take it out again (register and unregister in node.rs).                 *)
THEOREM TypeCorrect == Spec => []TypeOK
<1>1. Inv => TypeOK
  <2> SUFFICES ASSUME Inv PROVE TypeOK
    OBVIOUS
  <2>1. \A d, p \in Device : link[d][p] # None => end[link[d][p].conn][d].pc \in {"up", "asking"}
    BY DEF Inv, LinksOK, InSession
  <2>2. wire \in [Conn -> [Device -> Seq(Message)]] /\ conn \in [Conn -> Pipe \cup {None}]
    BY DEF Inv, WiresOK, TablesOK, ConnsOK
  <2>3. link \in [Device -> [Device -> Link \cup {None}]]
    BY DEF Inv, TablesOK, LinkTable
  <2> QED
    BY <2>1, <2>2, <2>3, InvFacts DEF Inv, TablesOK, FeedsOK, TypeOK
<1> QED
  BY <1>1, InvHolds, PTL

(* Of two connections that cross, register keeps one: no two sessions with *)
(* one peer run on without one of them being told to close, for any number *)
(* of devices and connections.                                             *)
THEOREM OneSessionEach == Spec => []OneLiveSession
<1>1. Inv => OneLiveSession
  <2> SUFFICES ASSUME Inv, NEW d \in Device, NEW a \in Conn, NEW b \in Conn,
                      a # b, Running(a, d), Running(b, d), Other(a, d) = Other(b, d)
               PROVE  FALSE
    BY DEF OneLiveSession
  <2>1. ASSUME NEW c \in Conn, Running(c, d)
        PROVE  Other(c, d) \in Device /\ link[d][Other(c, d)].conn = c
    <3>1. InSession(end[c][d]) /\ ~Closing(end[c][d])
      BY <2>1 DEF Running, Up, InSession, Closing
    <3>2. Other(c, d) \in Device /\ Joins(conn, c, d, Other(c, d))
      BY <3>1, InSessionFacts
    <3> QED
      BY <3>1, <3>2, InvFacts DEF LinksOK
  <2> QED
    BY <2>1
<1> QED
  BY <1>1, InvHolds, PTL

(* A device that was in no list hears neither a list, nor a key, nor a     *)
(* record (session.rs tells only members, and its commands only those that *)
(* have shown they are).                                                   *)
THEOREM StrangersAreToldNothing == Spec => []StrangersHearNothing
<1>1. Inv => StrangersHearNothing
  <2> SUFFICES ASSUME Inv, NEW d \in Device,
                      Hears(d, {"Hello", "Rosters", "KeyShare", "Records"}) # {}
               PROVE  \E i \in 1..Len(list) : d \in list[i]
    BY DEF StrangersHearNothing
  <2>1. PICK c \in Conn : \E i \in 1..Len(wire[c][d]) :
          wire[c][d][i].type \in {"Hello", "Rosters", "KeyShare", "Records"}
    BY DEF Hears
  <2>2. PICK i \in 1..Len(wire[c][d]) :
          wire[c][d][i].type \in {"Hello", "Rosters", "KeyShare", "Records"}
    BY <2>1
  <2>3. GoodMessage(list, d, wire[c][d][i])
    BY DEF Inv, WiresOK, GoodQueue
  <2> QED
    BY <2>2, <2>3 DEF GoodMessage, Secret, Ever
<1> QED
  BY <1>1, InvHolds, PTL

(* A key is held by, or on its way to, only devices of a list it was made  *)
(* for, whatever is removed while a request for it waits (key_for_peer     *)
(* in group.rs, for the KeyRequest of session.rs).                         *)
THEOREM KeysAreForMembers == Spec => []KeysStayInside
<1>1. Inv => KeysStayInside
  <2> SUFFICES ASSUME Inv, NEW d \in Device,
                      NEW k \in keys[d] \cup {m.key : m \in Hears(d, {"KeyShare"})}
               PROVE  \E i \in k..Len(list) : KeyOf(list, i) = k /\ d \in list[i]
    BY DEF KeysStayInside
  <2>1. Inside(list, k, d)
    <3>1. CASE k \in keys[d]
      BY <3>1 DEF Inv, KeysOK
    <3>2. CASE k \in {m.key : m \in Hears(d, {"KeyShare"})}
      <4>1. PICK m \in Hears(d, {"KeyShare"}) : k = m.key
        BY <3>2
      <4>2. PICK c \in Conn : \E i \in 1..Len(wire[c][d]) : m = wire[c][d][i] /\ m.type = "KeyShare"
        BY <4>1 DEF Hears
      <4>3. PICK i \in 1..Len(wire[c][d]) : m = wire[c][d][i] /\ m.type = "KeyShare"
        BY <4>2
      <4>4. GoodMessage(list, d, m)
        BY <4>3 DEF Inv, WiresOK, GoodQueue
      <4> QED
        BY <4>1, <4>3, <4>4 DEF GoodMessage
    <3> QED
      BY <3>1, <3>2
  <2> QED
    BY <2>1 DEF Inside
<1> QED
  BY <1>1, InvHolds, PTL
=============================================================================
