----------------------------- MODULE Sessions -------------------------------
(* The connections between the devices of a group: dialling and accepting, *)
(* which of two crossing connections is kept, and the session protocol on  *)
(* the one that is (panora-sync: node.rs, session.rs, transport.rs).       *)
(*                                                                         *)
(* A stream delivers in order until its connection ends. A session is one  *)
(* task: it handles one message, command or tick at a time and then looks  *)
(* whether to push. The group's device lists follow one another here       *)
(* (forks are SyncGroup's). A key is named by the list that introduced it, *)
(* a record by its place in its sender's feed (what becomes of it is       *)
(* HistorySync's).                                                         *)
EXTENDS Naturals, Sequences, FiniteSets

CONSTANTS
  Device,                        \* identities, as numbers in their order
  Conn,                          \* numbers for the connections of one time
  None,
  Setups                         \* the groups and networks to look at

(* A setup: the first members, the devices someone uses, <<d, p>> where d  *)
(* finds an address of p, and bounds on the lists signed, the records a    *)
(* device makes, and the broken connections and failed calls. A device     *)
(* that finds its own address gets no further than the proof of identity.  *)
Setup == [founders : SUBSET Device, active : SUBSET Device, reach : SUBSET (Device \X Device),
          MAX_CONNECTIONS_PER_ADDRESS : Nat,
          MAX_LISTS : Nat, MAX_SEQ : Nat, MAX_FAULTS : Nat]

Pipe == [from : Device, to : Device, open : BOOLEAN]
Link == [conn : Conn, canonical : BOOLEAN]

ASSUME SessionsAssumption ==
  /\ Device \subseteq Nat /\ Conn \subseteq Nat
  /\ None \notin Pipe \cup Link
  /\ Setups \subseteq Setup
  /\ \A s \in Setups, d \in Device : <<d, d>> \notin s.reach

VARIABLES
  setup,      \* which of them this is
  list,       \* the device lists signed so far, oldest first
  view,       \* the newest of them each device holds, 0: it has no group
  keys,       \* the group keys each device holds
  link,       \* Shared.peers: the connection each device keeps per peer
  dialling,   \* Shared.dialling: addresses each device is dialling
  known,      \* Shared.addr_of: addresses each device has got through to
  conn,       \* who dialled whom, and whether the connection is open
  end,        \* what each side's task does with a connection
  wire,       \* what is on its way to each side
  seq,        \* the newest record of each device
  cursor,     \* what each peer has confirmed
  applied,    \* history: the newest record of each peer a device has
  faults

groupVars == <<setup, list, view, keys>>
tableVars == <<link, dialling, known>>
feedVars == <<seq, cursor, applied>>
vars == <<groupVars, tableVars, conn, end, wire, feedVars, faults>>

Message ==
  [type : {"Hello", "Rosters"}, at : Nat]
    \cup [type : {"KeyShare"}, key : Nat]
    \cup [type : {"Records"}, key : Nat, upto : Nat]
    \cup [type : {"KeyRequest", "Applied", "Retry", "Bye", "Fin"}]

Command ==
  [type : {"Rosters"}, at : Nat] \cup [type : {"KeyShare"}, key : Nat]
    \cup [type : {"Nudge", "Close"}]

End == [pc : {"none", "auth", "up", "asking", "lingering"},
        hello : BOOLEAN, trusted : BOOLEAN, want : BOOLEAN,
        flight : Nat, commands : Seq(Command)]

NoEnd == [pc |-> "none", hello |-> FALSE, trusted |-> FALSE, want |-> FALSE,
          flight |-> 0, commands |-> <<>>]

TypeOK ==
  /\ setup \in Setups /\ list \in Seq(SUBSET Device)
  /\ view \in [Device -> 0..Len(list)]
  /\ keys \in [Device -> SUBSET Nat]
  /\ link \in [Device -> [Device -> Link \cup {None}]]
  /\ dialling \in [Device -> SUBSET Device] /\ known \in [Device -> SUBSET Device]
  /\ conn \in [Conn -> Pipe \cup {None}]
  /\ end \in [Conn -> [Device -> End]]
  /\ wire \in [Conn -> [Device -> Seq(Message)]]
  /\ seq \in [Device -> Nat] /\ faults \in Nat
  /\ cursor \in [Device -> [Device -> Nat]] /\ applied \in [Device -> [Device -> Nat]]
  \* An entry of the table has a task that will take it out again.
  /\ \A d, p \in Device : link[d][p] # None =>
       end[link[d][p].conn][d].pc \in {"up", "asking"}

Init ==
  /\ setup \in Setups
  /\ list = <<setup.founders>>
  /\ view = [d \in Device |-> IF d \in setup.founders THEN 1 ELSE 0]
  /\ keys = [d \in Device |-> IF d \in setup.founders THEN {1} ELSE {}]
  /\ link = [d \in Device |-> [p \in Device |-> None]]
  /\ dialling = [d \in Device |-> {}] /\ known = [d \in Device |-> {}]
  /\ conn = [c \in Conn |-> None]
  /\ end = [c \in Conn |-> [d \in Device |-> NoEnd]]
  /\ wire = [c \in Conn |-> [d \in Device |-> <<>>]]
  /\ seq = [d \in Device |-> 0] /\ faults = 0
  /\ cursor = [d \in Device |-> [p \in Device |-> 0]]
  /\ applied = [d \in Device |-> [p \in Device |-> 0]]

-----------------------------------------------------------------------------
(* A device's view of its group, given the lists and the views.            *)
Members(ls, v) == IF v = 0 THEN {} ELSE ls[v]

IsPeer(ls, vs, d, p) == d # p /\ {d, p} \subseteq Members(ls, vs[d])

is_peer(d, p) == IsPeer(list, view, d, p)

(* The list that introduced the key in use: the last that removed someone. *)
KeyOf(ls, v) ==
  CHOOSE i \in 1..v :
    /\ i = 1 \/ ls[i - 1] \ ls[i] # {}
    /\ \A j \in (i + 1)..v : ls[j - 1] \subseteq ls[j]

HasKey(ls, vs, ks, d) == vs[d] # 0 /\ KeyOf(ls, vs[d]) \in ks[d]

has_current_key(d) == HasKey(list, view, keys, d)

CanPush(ls, vs, ks, d, p) == IsPeer(ls, vs, d, p) /\ HasKey(ls, vs, ks, d)

Chain(v) == [type |-> "Rosters", at |-> v]

(* The other end of a connection. *)
Other(c, d) == IF conn[c].from = d THEN conn[c].to ELSE conn[c].from

Fault == faults < setup.MAX_FAULTS /\ faults' = faults + 1

-----------------------------------------------------------------------------
(* Commands to sessions go through the table. es is the state of all ends. *)
Told(es, d, p, cs) ==
  IF link[d][p] = None THEN es
  ELSE [es EXCEPT ![link[d][p].conn][d].commands = @ \o cs]

(* cs is what d tells each peer it has a session with. *)
ToldAll(es, d, cs) ==
  [c \in Conn |-> IF conn[c] # None /\ \E p \in Device : link[d][p] # None /\ link[d][p].conn = c
     THEN [es[c] EXCEPT ![d].commands = @ \o cs[Other(c, d)]] ELSE es[c]]

Close == <<[type |-> "Close"]>>

(* after_roster_change: the new list to everybody, the new key to members, *)
(* and the sessions with others close.                                     *)
after_roster_change(es, ls, vs, ks, d, newKey) ==
  ToldAll(es, d, [p \in Device |->
    <<Chain(vs[d])>> \o
    (IF ~IsPeer(ls, vs, d, p) THEN Close
     ELSE IF newKey THEN <<[type |-> "KeyShare", key |-> KeyOf(ls, vs[d])]>> ELSE <<>>)])

(* The user removes a device or admits one, which starts with the list and *)
(* the key of its welcome.                                                 *)
Newest(d) == d \in setup.active /\ view[d] = Len(list)

RemoveDevice(d, x) ==
  /\ Newest(d) /\ is_peer(d, x) /\ view[d] < setup.MAX_LISTS
  /\ list' = Append(list, list[view[d]] \ {x})
  /\ view' = [view EXCEPT ![d] = @ + 1]
  /\ keys' = [keys EXCEPT ![d] = @ \cup {view[d] + 1}]
  /\ end' = after_roster_change(end, list', view', keys', d, TRUE)
  /\ UNCHANGED <<setup, tableVars, conn, wire, feedVars, faults>>

Admit(d, x) ==
  /\ Newest(d) /\ d \in Members(list, view[d]) /\ has_current_key(d)
  /\ view[d] < setup.MAX_LISTS /\ view[x] = 0
  /\ list' = Append(list, list[view[d]] \cup {x})
  /\ view' = [view EXCEPT ![d] = @ + 1, ![x] = view[d] + 1]
  /\ keys' = [keys EXCEPT ![x] = {KeyOf(list, view[d])}]
  /\ end' = after_roster_change(end, list', view', keys', d, FALSE)
  /\ UNCHANGED <<setup, tableVars, conn, wire, feedVars, faults>>

(* panod has something new. *)
Change(d) ==
  /\ d \in setup.active /\ seq[d] < setup.MAX_SEQ
  /\ seq' = [seq EXCEPT ![d] = @ + 1]
  /\ UNCHANGED <<groupVars, tableVars, conn, end, wire, cursor, applied, faults>>

-----------------------------------------------------------------------------
(* Dialling and accepting. *)
FromAddress(d, p) == {c \in Conn : conn[c] # None /\ conn[c].from = d /\ conn[c].to = p}

(* dial_loop finds an address it is not connected to, and the other side   *)
(* has a place for it (claim_connection).                                  *)
Dial(d, p, c) ==
  /\ <<d, p>> \in setup.reach /\ d \in Members(list, view[d])
  /\ ~(p \in known[d] /\ link[d][p] # None)
  /\ p \notin dialling[d]
  /\ Cardinality(FromAddress(d, p)) < setup.MAX_CONNECTIONS_PER_ADDRESS
  /\ conn[c] = None /\ \A b \in Conn : b < c => conn[b] # None
  /\ conn' = [conn EXCEPT ![c] = [from |-> d, to |-> p, open |-> TRUE]]
  /\ end' = [end EXCEPT ![c] = [@ EXCEPT ![d].pc = "auth", ![p].pc = "auth"]]
  /\ dialling' = [dialling EXCEPT ![d] = @ \cup {p}]
  /\ UNCHANGED <<groupVars, link, known, wire, feedVars, faults>>

(* The task of d on c is over: the dialler may dial again, and what is     *)
(* left of the connection goes with its last task.                         *)
Over(c, d) ==
  /\ dialling' = IF conn[c].from = d
       THEN [dialling EXCEPT ![d] = @ \ {Other(c, d)}] ELSE dialling
  /\ IF end[c][Other(c, d)].pc = "none"
     THEN /\ conn' = [conn EXCEPT ![c] = None]
          /\ wire' = [wire EXCEPT ![c] = [x \in Device |-> <<>>]]
     ELSE /\ conn' = [conn EXCEPT ![c].open = FALSE]
          /\ UNCHANGED wire

(* The session the lower identity dialled is the one to keep. *)
Canonical(c, d) == (conn[c].from = d) = (d < Other(c, d))

Known(c, d) == known' =
  IF conn[c].from = d THEN [known EXCEPT ![d] = @ \cup {Other(c, d)}] ELSE known

(* Mutant: the older session is not told. *)
Register_Both(c, d) ==
  LET p == Other(c, d)
  IN  /\ end[c][d].pc = "auth"
      /\ link[d][p] # None => ~link[d][p].canonical /\ Canonical(c, d)
      /\ link' = [link EXCEPT ![d][p] = [conn |-> c, canonical |-> Canonical(c, d)]]
      /\ end' = [end EXCEPT ![c][d] =
           [@ EXCEPT !.pc = "up", !.want = TRUE, !.hello = is_peer(d, p)]]
      /\ wire' = IF is_peer(d, p) THEN [wire EXCEPT ![c][p] = Append(@,
           [type |-> "Hello", at |-> view[d]])] ELSE wire
      /\ Known(c, d)
      /\ UNCHANGED <<groupVars, dialling, conn, feedVars, faults>>

(* register, after both have proved who they are, and the opening of the   *)
(* session: only a device known as a member is told the list.              *)
Register(c, d) ==
  LET p == Other(c, d)
  IN  /\ end[c][d].pc = "auth"
      /\ link[d][p] # None => ~link[d][p].canonical /\ Canonical(c, d)
      /\ link' = [link EXCEPT ![d][p] = [conn |-> c, canonical |-> Canonical(c, d)]]
      /\ end' = [Told(end, d, p, Close) EXCEPT ![c][d] =
           [@ EXCEPT !.pc = "up", !.want = TRUE, !.hello = is_peer(d, p)]]
      /\ wire' = IF is_peer(d, p) THEN [wire EXCEPT ![c][p] = Append(@,
           [type |-> "Hello", at |-> view[d]])] ELSE wire
      /\ Known(c, d)
      /\ UNCHANGED <<groupVars, dialling, conn, feedVars, faults>>

(* Another session with that peer wins: this connection is closed. *)
Duplicate(c, d) ==
  LET p == Other(c, d)
  IN  /\ end[c][d].pc = "auth"
      /\ link[d][p] # None /\ (link[d][p].canonical \/ ~Canonical(c, d))
      /\ end' = [end EXCEPT ![c][d] = NoEnd]
      /\ Over(c, d)
      /\ Known(c, d)
      /\ UNCHANGED <<groupVars, link, feedVars, faults>>

(* The other side never proves who it is, or has closed the connection. *)
AuthFails(c, d) ==
  /\ end[c][d].pc = "auth"
  /\ IF conn[c].open THEN Fault ELSE UNCHANGED faults
  /\ end' = [end EXCEPT ![c][d] = NoEnd]
  /\ Over(c, d)
  /\ UNCHANGED <<groupVars, link, known, feedVars>>

(* The network drops a connection. *)
Lost(c) ==
  /\ conn[c] # None /\ conn[c].open
  /\ conn' = [conn EXCEPT ![c].open = FALSE]
  /\ wire' = [wire EXCEPT ![c] = [x \in Device |-> <<>>]]
  /\ Fault
  /\ UNCHANGED <<groupVars, tableVars, end, feedVars>>

-----------------------------------------------------------------------------
(* A running session. *)
Up(c, d) == conn[c] # None /\ end[c][d].pc = "up"

(* Write to the other side. *)
Sent(ws, c, d, ms) ==
  IF conn[c].open THEN [ws EXCEPT ![c][Other(c, d)] = @ \o ms] ELSE ws

Sends(c, d, ms) == wire' = Sent(wire, c, d, ms)

(* The top of the loop, after every event: push when it is time to.        *)
Turn(e, ls, vs, ks, d, p) ==
  IF e.want /\ e.trusted /\ e.flight = 0
  THEN [e EXCEPT !.want = FALSE, !.pc = IF CanPush(ls, vs, ks, d, p) THEN "asking" ELSE "up"]
  ELSE e

(* The session goes on with e, in a world where nothing else has changed.  *)
Goes(c, d, e) == end' = [end EXCEPT ![c][d] = Turn(e, list, view, keys, d, Other(c, d))]

(* session_loop returns, and the table forgets the session unless another  *)
(* one has taken its place (unregister). What was last written gets two    *)
(* seconds to arrive.                                                      *)
Ends(es, c, d) ==
  LET p == Other(c, d)
  IN  /\ end' = [es EXCEPT ![c][d] = [NoEnd EXCEPT !.pc = "lingering"]]
      /\ link' = IF link[d][p] # None /\ link[d][p].conn = c
                 THEN [link EXCEPT ![d][p] = None] ELSE link

Fin == <<[type |-> "Fin"]>>
ByeFin == <<[type |-> "Bye"]>> \o Fin

(* receive_rosters: the views and keys afterwards, and the ends with the    *)
(* commands it has given them.                                             *)
receive_rosters(d, m) ==
  LET v == view[d]
      World(vs, ks, es) == [view |-> vs, keys |-> ks, end |-> es]
      vs == [view EXCEPT ![d] = m.at]
  IN  IF v = 0 \/ m.at <= v THEN World(view, keys, end)
      ELSE IF d \in list[m.at]
      THEN World(vs, keys, after_roster_change(end, list, vs, keys, d, FALSE))
      ELSE World(vs, [keys EXCEPT ![d] = {}], ToldAll(end, d, [p \in Device |-> Close]))

(* Hello and Rosters: apply the list, then look whether the sender is in   *)
(* it. A Hello opens the session for everything else.                      *)
ReceiveRosters(c, d, m, rest) ==
  LET p == Other(c, d)
      w == receive_rosters(d, m)
      e == IF m.type = "Rosters" THEN w.end[c][d]
           ELSE [w.end[c][d] EXCEPT !.trusted = TRUE, !.hello = TRUE, !.want = TRUE]
      hello == IF m.type = "Hello" /\ ~end[c][d].hello
               THEN <<[type |-> "Hello", at |-> w.view[d]]>> ELSE <<>>
      ask == IF HasKey(list, w.view, w.keys, d) THEN <<>> ELSE <<[type |-> "KeyRequest"]>>
  IN  /\ view' = w.view /\ keys' = w.keys
      /\ IF IsPeer(list, w.view, d, p)
         THEN /\ end' = [w.end EXCEPT ![c][d] = Turn(e, list, w.view, w.keys, d, p)]
              /\ wire' = Sent(rest, c, d, hello \o ask)
              /\ UNCHANGED link
         ELSE Ends(w.end, c, d) /\ wire' = Sent(rest, c, d, ByeFin)
      /\ UNCHANGED <<setup, list, feedVars, faults>>

(* accept_key, then every session is nudged to push. *)
ReceiveKey(c, d, m, rest) ==
  LET ok == /\ d \in Members(list, view[d]) /\ m.key <= view[d]
            /\ m.key \notin keys[d]
      ks == IF ok THEN [keys EXCEPT ![d] = @ \cup {m.key}] ELSE keys
      es == IF ok THEN ToldAll(end, d, [p \in Device |-> <<[type |-> "Nudge"]>>]) ELSE end
  IN  /\ keys' = ks
      /\ end' = es /\ wire' = rest
      /\ UNCHANGED <<setup, list, view, link, feedVars, faults>>

(* receive_records: needs the current key, and a daemon that takes it.     *)
ReceiveRecords(c, d, m, rest) ==
  LET p == Other(c, d)
      readable == has_current_key(d) /\ KeyOf(list, view[d]) = m.key
      ask == IF has_current_key(d) THEN <<>> ELSE <<[type |-> "KeyRequest"]>>
  IN  /\ \/ /\ readable
            /\ applied' = [applied EXCEPT ![d][p] = IF m.upto > @ THEN m.upto ELSE @]
            /\ wire' = Sent(rest, c, d, <<[type |-> "Applied"]>>)
            /\ UNCHANGED faults
         \/ /\ IF readable THEN Fault ELSE UNCHANGED faults
            /\ wire' = Sent(rest, c, d, ask \o <<[type |-> "Retry"]>>)
            /\ UNCHANGED applied
      /\ UNCHANGED <<groupVars, link, end, seq, cursor>>

(* Mutant: after a Retry the batch stays in flight. *)
ReceiveAnswer_Kept(c, d, m, rest) ==
  LET p == Other(c, d)
      e == end[c][d]
  IN  /\ e.flight # 0
      /\ IF m.type = "Applied"
         THEN /\ cursor' = [cursor EXCEPT ![d][p] = e.flight]
              /\ Goes(c, d, [e EXCEPT !.flight = 0])
         ELSE UNCHANGED <<cursor, end>>
      /\ wire' = rest
      /\ UNCHANGED <<groupVars, link, seq, applied, faults>>

(* The answer to the one batch in flight. After a Retry it is sent again   *)
(* with the next tick or change.                                           *)
ReceiveAnswer(c, d, m, rest) ==
  LET p == Other(c, d)
      e == end[c][d]
  IN  /\ e.flight # 0
      /\ IF m.type = "Applied"
         THEN cursor' = [cursor EXCEPT ![d][p] = e.flight]
         ELSE UNCHANGED cursor
      /\ Goes(c, d, [e EXCEPT !.flight = 0])
      /\ wire' = rest
      /\ UNCHANGED <<groupVars, link, seq, applied, faults>>

ReceiveKeyRequest(c, d, rest) ==
  /\ wire' = Sent(rest, c, d, IF ~has_current_key(d) THEN <<>>
                              ELSE <<[type |-> "KeyShare", key |-> KeyOf(list, view[d])]>>)
  /\ UNCHANGED <<groupVars, link, end, feedVars, faults>>

Quits(c, d, rest, ms) ==
  /\ Ends(end, c, d)
  /\ wire' = Sent(rest, c, d, ms)
  /\ UNCHANGED <<groupVars, feedVars>>

(* Mutant: it was a member when it said hello. *)
StillMember_Once(c, d) == end[c][d].trusted

(* Everything but a list needs a member at the other end now. *)
StillMember(c, d) == is_peer(d, Other(c, d))

(* The next message. *)
Receive(c, d) ==
  /\ Up(c, d) /\ wire[c][d] # <<>>
  /\ LET m == Head(wire[c][d])
         rest == [wire EXCEPT ![c][d] = Tail(@)]
     IN  IF m.type \in {"Bye", "Fin"} THEN Quits(c, d, rest, Fin) /\ UNCHANGED faults
         ELSE IF m.type # "Hello" /\ ~end[c][d].trusted THEN Quits(c, d, rest, ByeFin) /\ UNCHANGED faults
         ELSE IF m.type \in {"Hello", "Rosters"} THEN ReceiveRosters(c, d, m, rest)
         ELSE IF ~StillMember(c, d) THEN Quits(c, d, rest, ByeFin) /\ UNCHANGED faults
         ELSE \/ m.type = "KeyRequest" /\ ReceiveKeyRequest(c, d, rest)
              \/ m.type = "KeyShare" /\ ReceiveKey(c, d, m, rest)
              \/ m.type = "Records" /\ ReceiveRecords(c, d, m, rest)
              \/ m.type \in {"Applied", "Retry"} /\ ReceiveAnswer(c, d, m, rest)
  /\ UNCHANGED <<dialling, known, conn>>

(* Mutant: also to a device that has not shown it is a member. *)
Obey_Anyone(c, d) ==
  /\ Up(c, d) /\ end[c][d].commands # <<>>
  /\ LET m == Head(end[c][d].commands)
         e == [end[c][d] EXCEPT !.commands = Tail(@)]
     IN  IF m.type = "Close" THEN Ends([end EXCEPT ![c][d] = e], c, d) /\ Sends(c, d, Fin)
         ELSE /\ UNCHANGED link
              /\ Goes(c, d, IF m.type = "Nudge" THEN [e EXCEPT !.want = TRUE] ELSE e)
              /\ IF m.type = "Rosters" \/ (m.type = "KeyShare" /\ is_peer(d, Other(c, d)))
                 THEN Sends(c, d, <<m>>) ELSE UNCHANGED wire
  /\ UNCHANGED <<groupVars, dialling, known, conn, feedVars, faults>>

(* The next command. Lists and keys go only to a device that has shown it  *)
(* is a member; one removed just now gets the list that removes it.        *)
Obey(c, d) ==
  /\ Up(c, d) /\ end[c][d].commands # <<>>
  /\ LET m == Head(end[c][d].commands)
         e == [end[c][d] EXCEPT !.commands = Tail(@)]
     IN  IF m.type = "Close" THEN Ends([end EXCEPT ![c][d] = e], c, d) /\ Sends(c, d, Fin)
         ELSE /\ UNCHANGED link
              /\ Goes(c, d, IF m.type = "Nudge" THEN [e EXCEPT !.want = TRUE] ELSE e)
              /\ IF /\ e.trusted
                    /\ m.type = "Rosters" \/ (m.type = "KeyShare" /\ is_peer(d, Other(c, d)))
                 THEN Sends(c, d, <<m>>) ELSE UNCHANGED wire
  /\ UNCHANGED <<groupVars, dialling, known, conn, feedVars, faults>>

(* The tick, or panod's note of a change. Without news it does nothing. *)
Tick(c, d) ==
  /\ Up(c, d) /\ end[c][d].flight = 0 /\ seq[d] # cursor[d][Other(c, d)]
  /\ Goes(c, d, [end[c][d] EXCEPT !.want = TRUE])
  /\ UNCHANGED <<groupVars, tableVars, conn, wire, feedVars, faults>>

(* panod has answered push with the feed after the cursor: the key is the  *)
(* one of now. Or it has not, or the key is gone.                          *)
Push(c, d) ==
  LET p == Other(c, d)
      e == [end[c][d] EXCEPT !.pc = "up"]
  IN  /\ conn[c] # None /\ end[c][d].pc = "asking"
      /\ \/ /\ seq[d] = cursor[d][p] \/ ~has_current_key(d)
            /\ Goes(c, d, e)
            /\ UNCHANGED <<wire, faults>>
         \/ /\ seq[d] # cursor[d][p] /\ has_current_key(d)
            /\ end' = [end EXCEPT ![c][d] = [e EXCEPT !.flight = seq[d]]]
            /\ Sends(c, d, <<[type |-> "Records", key |-> KeyOf(list, view[d]), upto |-> seq[d]]>>)
            /\ UNCHANGED faults
         \/ Fault /\ Goes(c, d, e) /\ UNCHANGED wire
      /\ UNCHANGED <<groupVars, tableVars, conn, feedVars>>

(* The other side has not shown in time that it is a member: it does not   *)
(* mean to, or the network is very slow.                                   *)
Expected(c, d) ==
  LET p == Other(c, d)
  IN  \/ wire[c][d] # <<>> \/ end[c][p].pc = "auth"
      \/ Up(c, p) /\ \E i \in 1..Len(wire[c][p]) : wire[c][p][i].type = "Hello"

Probation(c, d) ==
  /\ Up(c, d) /\ ~end[c][d].trusted
  /\ IF Expected(c, d) THEN Fault ELSE UNCHANGED faults
  /\ Quits(c, d, wire, ByeFin)
  /\ UNCHANGED <<dialling, known, conn>>

Closed(c, d) ==
  /\ Up(c, d) /\ ~conn[c].open
  /\ Quits(c, d, wire, <<>>) /\ UNCHANGED faults
  /\ UNCHANGED <<dialling, known, conn>>

(* The other side has hung up, or had two seconds to read the last words.  *)
HangUp(c, d) ==
  /\ conn[c] # None /\ end[c][d].pc = "lingering"
  /\ end' = [end EXCEPT ![c][d] = NoEnd]
  /\ Over(c, d)
  /\ UNCHANGED <<groupVars, link, known, feedVars, faults>>

-----------------------------------------------------------------------------
SessionNext(c, d) ==
  \/ Register(c, d) \/ Duplicate(c, d) \/ AuthFails(c, d)
  \/ Receive(c, d) \/ Obey(c, d) \/ Tick(c, d) \/ Push(c, d)
  \/ Probation(c, d) \/ Closed(c, d) \/ HangUp(c, d)

Next ==
  \/ \E d, x \in Device : RemoveDevice(d, x) \/ Admit(d, x)
  \/ \E d \in Device : Change(d)
  \/ \E d, p \in Device, c \in Conn : Dial(d, p, c)
  \/ \E c \in Conn : Lost(c) \/ \E d \in Device : SessionNext(c, d)

(* Every task of a session gets its turn, timers fire, and the dial loop   *)
(* comes round; nobody has to change anything, and nothing has to break.   *)
(* select! picks among the ready branches at random, so that a command     *)
(* that is ready again and again is taken in the end.                      *)
Fairness ==
  /\ \A d, p \in Device : WF_vars(\E c \in Conn : Dial(d, p, c))
  /\ \A c \in Conn, d \in Device :
       /\ WF_vars(Register(c, d)) /\ WF_vars(Duplicate(c, d))
       /\ WF_vars(AuthFails(c, d) /\ UNCHANGED faults)
       /\ WF_vars(Receive(c, d)) /\ SF_vars(Obey(c, d)) /\ WF_vars(Tick(c, d))
       /\ WF_vars(Push(c, d)) /\ WF_vars(Probation(c, d) /\ UNCHANGED faults) /\ WF_vars(Closed(c, d))
       /\ WF_vars(HangUp(c, d))

Spec == Init /\ [][Next]_vars /\ Fairness

-----------------------------------------------------------------------------
Hears(d, type) == UNION {{m \in {wire[c][d][i] : i \in 1..Len(wire[c][d])} : m.type \in type} : c \in Conn}

(* A device that was never in the list hears neither the list, nor a key,  *)
(* nor a record, whatever changes while its connection is open.            *)
StrangersHearNothing ==
  \A d \in Device : Hears(d, {"Hello", "Rosters", "KeyShare", "Records"}) # {} =>
    \E i \in 1..Len(list) : d \in list[i]

(* A key is held by, or on its way to, only devices of a list it was made  *)
(* for: one removed while its request waits does not get the next one.     *)
KeysStayInside ==
  \A d \in Device : \A k \in keys[d] \cup {m.key : m \in Hears(d, {"KeyShare"})} :
    \E i \in k..Len(list) : KeyOf(list, i) = k /\ d \in list[i]

(* Of two crossing connections both sides keep the same one: no two        *)
(* sessions with one peer run on without one of them being told to close.  *)
Running(c, d) ==
  /\ Up(c, d) \/ (conn[c] # None /\ end[c][d].pc = "asking")
  /\ \A i \in 1..Len(end[c][d].commands) : end[c][d].commands[i].type # "Close"

OneLiveSession ==
  \A d \in Device : \A a, b \in Conn :
    (a # b /\ Running(a, d) /\ Running(b, d)) => Other(a, d) # Other(b, d)

(* Where both sides have said hello and no list is on its way, each has    *)
(* the other's one (after_roster_change tells every session). It fails    *)
(* where a change falls between a device's own hello and the other's.      *)
NoListIn(q) == \A i \in 1..Len(q) : q[i].type \notin {"Hello", "Rosters"}

ToldInSession ==
  \A c \in Conn : conn[c] # None =>
    LET d == conn[c].from
        p == conn[c].to
    IN  (\A x \in {d, p} : /\ Running(c, x) /\ end[c][x].trusted
                            /\ NoListIn(wire[c][x]) /\ NoListIn(end[c][x].commands))
        => view[d] = view[p]

(* In the end any two members that can reach each other share a session,   *)
(* the newest list and key, and have all of each other's records, unless a *)
(* change has fallen into that gap.                                        *)
Settled(d, p) ==
  {d, p} \subseteq list[Len(list)] =>
    /\ view[d] = Len(list) /\ has_current_key(d)
    /\ link[d][p] # None /\ link[p][d] # None /\ link[d][p].conn = link[p][d].conn
    /\ applied[p][d] = seq[d] /\ cursor[d][p] = seq[d]

InStep ==
  \/ <>[](\A r \in setup.reach : Settled(r[1], r[2]) /\ Settled(r[2], r[1]))
  \/ <>~ToldInSession
=============================================================================
