-------------------------- MODULE ClipboardProofs ---------------------------
(* For any copies, formats, desktops and orders of events: what the second *)
(* look keeps out, that only the last change is ever put back, when a      *)
(* delayed clear can be undone, and which content it spares.               *)
(*                                                                         *)
(* The argument: every event that waits, or is being read, says what the   *)
(* selection offered at its turn, and a selection never goes back to a     *)
(* turn.  So bytes of an owner the event does not speak of were read at a  *)
(* later turn; at the second look the selection either still is at that    *)
(* turn, and its list tells, or has changed again.                         *)
EXTENDS Clipboard, SequenceTheorems, TLAPS

-----------------------------------------------------------------------------
(* Values. *)

Entry == (SUBSET Parts) \ {None}

Kinds == {"set", "gone", "null", "cleared"}

Selected == [by : Copies \cup {"nobody", "panod"}, parts : SUBSET Parts, turn : Nat]

Note == [kind : Kinds, of : Selected, since : Nat]

ChangedEvent ==
    [kind : {"changed"}, targets : SUBSET (Formats \cup {"recall"}), shut : BOOLEAN,
     turn : Nat, parts : SUBSET Parts]

GoneEvent == [kind : {"gone"}, turn : Nat, why : Kinds, since : Nat]

Event == ChangedEvent \cup GoneEvent

Task == [at : {"sleeping", "clearing", "lapsed", "failed"}, to : Selections, base : Nat,
         counted : Nat, turn : Nat, armed : Nat, fired : Nat, seen : Nat]

(* A capture of the Shell extension. *)
Glance(r) ==
    /\ r = [targets |-> r.targets, todo |-> r.todo, got |-> r.got, turn |-> r.turn]
    /\ r.targets \subseteq Formats \cup {"recall"} /\ r.todo # <<>>
    /\ r.got \subseteq Parts /\ r.turn \in Nat

(* Targets, with the backend as a parameter. *)
ListOf(b, x) ==
    CASE x.by = "nobody" -> {}
      [] x.by = "panod"  -> FormatsOf(x.parts)
                              \cup IF b \in {"wayland", "keeper"} THEN {"recall"} ELSE {}
      [] OTHER           -> TargetsOf[x.by]

(* No part of it is of a marked secret, or cut short. *)
Fits(parts) == \A p \in parts : ~Unfit(p)

(* A selection is at a turn only once. *)
Later(x, y) == y = x \/ y.turn > x.turn

-----------------------------------------------------------------------------
(* The invariant. *)

(* What an owner offers is what it copied. *)
GoodSelected(x) ==
    /\ x.by = "nobody" => x.parts = {}
    /\ x.by \in Copies => x.parts = PartsOf(x.by)

SelOK ==
    /\ sel \in [Selections -> Selected]
    /\ \A s \in Selections : GoodSelected(sel[s])

GoodNote(x, n) == n.of.turn <= x.turn /\ (n.of.turn = x.turn => n.of = x)

NoticesOK ==
    /\ notices \in [Selections -> Seq(Note)]
    /\ \A s \in Selections : \A i \in 1..Len(notices[s]) : GoodNote(sel[s], notices[s][i])

GoodChange(b, x, e) ==
    /\ b # "bridge" => e.targets # {} /\ (e.turn = x.turn => e.targets = ListOf(b, x))
    /\ b = "bridge" => e.parts # {}

GoodEvent(b, x, e) ==
    /\ e.turn <= x.turn
    /\ e.kind = "changed" => GoodChange(b, x, e)
    /\ e.kind = "gone" => b # "bridge"

QueueOK ==
    /\ queue \in [Selections -> Seq(Event)]
    /\ \A s \in Selections : \A i \in 1..Len(queue[s]) : GoodEvent(backend, sel[s], queue[s][i])

IsReading(l) ==
    /\ l = [at |-> "reading", of |-> l.of, event |-> l.event, todo |-> l.todo, got |-> l.got,
            fresh |-> l.fresh]
    /\ l.of \in Selections /\ l.event \in ChangedEvent
    /\ l.got \subseteq Parts /\ l.fresh \subseteq Parts
    /\ l.todo = <<>> => l.got # {}

(* What was read from an owner the event does not speak of was read at a   *)
(* later turn, and shows, or the selection has changed again.              *)
GoodReading(b, x, l) ==
    /\ b # "bridge"
    /\ l.event.targets \cap Hints = {} /\ l.event.targets # {}
    /\ l.event.turn <= x.turn
    /\ l.event.turn = x.turn => l.event.targets = ListOf(b, x)
    /\ ~Fits(l.fresh) => \/ x.turn >= l.event.turn + 2
                         \/ x.turn = l.event.turn + 1 /\ ListOf(b, x) # l.event.targets

GoodStoring(b, l) ==
    /\ l.of \in Selections /\ l.got \in Entry
    /\ b # "bridge" /\ ~Fits(l.fresh) => l.turns >= 2 \/ ~l.looked

GoodRefill(b, l) == l.entry \in Entry /\ b # "bridge"

LoopOK ==
    /\ loop.at \in {"idle", "reading", "storing", "refilling"}
    /\ loop.at = "reading" => IsReading(loop) /\ GoodReading(backend, sel[loop.of], loop)
    /\ loop.at = "storing" => GoodStoring(backend, loop)
    /\ loop.at = "refilling" => GoodRefill(backend, loop)

SlotOK ==
    /\ lastStored \in [Selections -> [entry : SUBSET Parts, turn : Nat]]
    /\ heard \in [Selections -> Nat]
    /\ \A s \in Selections : heard[s] <= sel[s].turn
    /\ RestoresOnlyTheLast

HistoryOK == history \subseteq Entry

(* The extension is not ahead of the clipboard. *)
ShellOK ==
    /\ \A r \in shell : Glance(r) /\ r.turn <= sel["clipboard"].turn
    /\ shell # {} => backend = "bridge"

Offering == {"offering", "offered"}

ClientOK ==
    /\ client.at \in Offering \cup {"idle", "pasting", "putting"}
    /\ client.at \in Offering =>
          /\ client = [at |-> client.at, entry |-> client.entry, to |-> client.to, turn |-> client.turn]
          /\ client.to \in Selections /\ client.turn \in Nat
    /\ client.at \in Offering \cup {"putting"} =>
          client.entry \in Entry

(* A clear that has not been overtaken by a change has heard of none. *)
GoodTask(b, g, h, t) ==
    /\ t.base <= g
    /\ b # "bridge" /\ t.at = "sleeping" /\ g = t.base => h = t.armed
    /\ b # "bridge" /\ t.at = "clearing" => t.fired = t.armed

ClearsOK ==
    /\ clears \subseteq Task
    /\ \A t \in clears : GoodTask(backend, generation, heard[t.to], t)

RestOK ==
    /\ backend \in Desktops /\ focus \in Copies
    /\ generation \in Nat /\ clearing \in BOOLEAN /\ paused \in BOOLEAN /\ gones \in Nat

Inv ==
    /\ RestOK /\ SelOK /\ NoticesOK /\ QueueOK /\ LoopOK /\ SlotOK /\ HistoryOK /\ ClientOK
    /\ ClearsOK /\ ShellOK

-----------------------------------------------------------------------------
(* Facts about values. *)

LEMMA TargetsIs ==
  ASSUME NEW x
  PROVE  Targets(x) = ListOf(backend, x)
BY DEF Targets, ListOf, Wayland

LEMMA CopyParts ==
  ASSUME NEW c \in Copies
  PROVE  /\ PartsOf(c) \subseteq Parts
         /\ TargetsOf[c] \subseteq Formats
         /\ TargetsOf[c] \cap Hints = {} => Fits(PartsOf(c))
         /\ TargetsOf[c] \cap Hints # {} => \A p \in PartsOf(c) : Unfit(p)
<1>1. TargetsOf[c] \subseteq Formats
  BY DEF Formats
<1>2. \A p \in PartsOf(c) : p[2] = c /\ p \in Parts
  BY <1>1 DEF PartsOf, Parts
<1>3. c # "cut"
  BY CopiesAssumption
<1> QED
  BY <1>1, <1>2, <1>3 DEF Fits, Unfit

LEMMA FormatsIn ==
  ASSUME NEW parts \in SUBSET Parts
  PROVE  FormatsOf(parts) \subseteq Formats
BY DEF FormatsOf, Parts

LEMMA ListType ==
  ASSUME NEW b, NEW x \in Selected
  PROVE  ListOf(b, x) \subseteq Formats \cup {"recall"}
<1>1. x.parts \in SUBSET Parts /\ x.by \in Copies \cup {"nobody", "panod"}
  BY DEF Selected
<1>2. FormatsOf(x.parts) \subseteq Formats
  BY <1>1, FormatsIn
<1>3. x.by \in Copies => TargetsOf[x.by] \subseteq Formats
  BY CopyParts
<1> QED
  BY <1>1, <1>2, <1>3 DEF ListOf

LEMMA BestIsPart ==
  ASSUME NEW e
  PROVE  best_payload(e) \subseteq e
BY DEF best_payload

LEMMA EventFacts ==
  ASSUME NEW e \in Event
  PROVE  /\ e.turn \in Nat /\ e.kind \in {"changed", "gone"}
         /\ e.kind = "changed" => e \in ChangedEvent
         /\ e.kind = "gone" => e \in GoneEvent
BY DEF Event, ChangedEvent, GoneEvent

-----------------------------------------------------------------------------
(* Time goes on. *)

Onward ==
    /\ backend' = backend
    /\ \A s \in Selections : Later(sel[s], sel'[s])

LEMMA EventLasts ==
  ASSUME NEW b, NEW x \in Selected, NEW y \in Selected, Later(x, y), NEW e \in Event,
         GoodEvent(b, x, e)
  PROVE  GoodEvent(b, y, e)
<1>1. e.turn \in Nat /\ x.turn \in Nat /\ y.turn \in Nat
  BY EventFacts DEF Selected
<1> QED
  BY <1>1 DEF Later, GoodEvent, GoodChange

LEMMA ReadingLasts ==
  ASSUME NEW b, NEW x \in Selected, NEW y \in Selected, Later(x, y), NEW l, IsReading(l),
         GoodReading(b, x, l)
  PROVE  GoodReading(b, y, l)
<1>1. l.event.turn \in Nat /\ x.turn \in Nat /\ y.turn \in Nat
  BY DEF Selected, IsReading, ChangedEvent
<1> QED
  BY <1>1 DEF Later, GoodReading

LEMMA QueueLasts ==
  ASSUME Inv, Onward, SelOK', UNCHANGED queue
  PROVE  QueueOK'
<1>1. \A s \in Selections : sel[s] \in Selected /\ sel'[s] \in Selected /\ Later(sel[s], sel'[s])
  BY DEF Inv, SelOK, Onward
<1>2. \A s \in Selections : \A i \in 1..Len(queue[s]) :
         queue[s][i] \in Event /\ GoodEvent(backend, sel[s], queue[s][i])
  BY DEF Inv, QueueOK
<1>3. \A s \in Selections : \A i \in 1..Len(queue[s]) : GoodEvent(backend, sel'[s], queue[s][i])
  BY <1>1, <1>2, EventLasts
<1> QED
  BY <1>3 DEF Inv, QueueOK, Onward

LEMMA LoopLasts ==
  ASSUME Inv, Onward, SelOK', UNCHANGED loop
  PROVE  LoopOK'
<1>1. \A s \in Selections : sel[s] \in Selected /\ sel'[s] \in Selected /\ Later(sel[s], sel'[s])
  BY DEF Inv, SelOK, Onward
<1>2. loop.at = "reading" => IsReading(loop) /\ GoodReading(backend, sel[loop.of], loop)
                               /\ loop.of \in Selections
  BY DEF Inv, LoopOK, IsReading
<1>3. loop.at = "reading" => GoodReading(backend, sel'[loop.of], loop)
  BY <1>1, <1>2, ReadingLasts
<1> QED
  BY <1>2, <1>3 DEF Inv, LoopOK, Onward

LEMMA ShellLasts ==
  ASSUME Inv, Onward, SelOK', UNCHANGED shell
  PROVE  ShellOK'
<1>1. "clipboard" \in Selections
  BY CopiesAssumption
<1>2. sel["clipboard"].turn \in Nat /\ sel'["clipboard"].turn \in Nat
      /\ Later(sel["clipboard"], sel'["clipboard"])
  BY <1>1 DEF Inv, SelOK, Onward, Selected
<1>3. \A r \in shell : r.turn \in Nat /\ r.turn <= sel["clipboard"].turn
  BY DEF Inv, ShellOK, Glance
<1>4. \A r \in shell : r.turn <= sel'["clipboard"].turn
  BY <1>2, <1>3 DEF Later
<1> QED
  BY <1>4 DEF Inv, ShellOK, Onward

LEMMA SlotLasts ==
  ASSUME Inv, Onward, SelOK', UNCHANGED <<lastStored, heard>>
  PROVE  SlotOK'
<1>1. \A s \in Selections : sel[s].turn \in Nat /\ sel'[s].turn \in Nat /\ Later(sel[s], sel'[s])
  BY DEF Inv, SelOK, Onward, Selected
<1>2. \A s \in Selections : sel'[s].turn >= sel[s].turn
  BY <1>1 DEF Later
<1>3. \A s \in Selections : heard[s] \in Nat /\ heard[s] <= sel[s].turn
  BY DEF Inv, SlotOK
<1>4. \A s \in Selections : heard[s] <= sel'[s].turn
  BY <1>1, <1>2, <1>3
<1> QED
  BY <1>4 DEF Inv, SlotOK, Onward, RestoresOnlyTheLast

(* What a step leaves alone stays good. *)
LEMMA Frame ==
  ASSUME Inv, Onward, SelOK'
  PROVE  /\ UNCHANGED queue => QueueOK'
         /\ UNCHANGED loop => LoopOK'
         /\ UNCHANGED <<lastStored, heard>> => SlotOK'
         /\ UNCHANGED history => HistoryOK'
         /\ UNCHANGED client => ClientOK'
         /\ UNCHANGED <<clears, generation, heard>> => ClearsOK'
         /\ UNCHANGED <<focus, generation, clearing, paused, gones>> => RestOK'
         /\ UNCHANGED shell => ShellOK'
<1>1. backend' = backend
  BY DEF Onward
<1>2. UNCHANGED history => HistoryOK'
  BY <1>1 DEF Inv, HistoryOK
<1>3. UNCHANGED client => ClientOK'
  BY <1>1 DEF Inv, ClientOK
<1>4. UNCHANGED <<clears, generation, heard>> => ClearsOK'
  BY <1>1 DEF Inv, ClearsOK
<1>5. UNCHANGED <<focus, generation, clearing, paused, gones>> => RestOK'
  BY <1>1 DEF Inv, RestOK
<1> QED
  BY <1>2, <1>3, <1>4, <1>5, QueueLasts, LoopLasts, SlotLasts, ShellLasts

LEMMA Still ==
  ASSUME Inv, UNCHANGED <<backend, sel>>
  PROVE  Onward /\ SelOK' /\ (UNCHANGED notices => NoticesOK')
BY DEF Inv, SelOK, NoticesOK, Onward, Later

LEMMA ChangeStep ==
  ASSUME Inv, NEW s \in Selections, NEW x \in Selected, NEW kind \in Kinds, NEW since \in Nat,
         GoodSelected(x), ChangeSince(s, x, kind, since), backend' = backend
  PROVE  /\ Onward /\ SelOK' /\ NoticesOK'
         /\ sel'[s] = [x EXCEPT !.turn = sel[s].turn + 1]
         /\ sel'[s].turn = sel[s].turn + 1
<1> DEFINE y == [x EXCEPT !.turn = sel[s].turn + 1]
<1>1. sel \in [Selections -> Selected] /\ notices \in [Selections -> Seq(Note)]
  BY DEF Inv, SelOK, NoticesOK
<1>2. sel[s].turn \in Nat /\ sel[s] \in Selected
  BY <1>1 DEF Selected
<1>3. y \in Selected /\ y.turn = sel[s].turn + 1 /\ y.by = x.by /\ y.parts = x.parts
  BY <1>2 DEF Selected
<1>4. sel' = [sel EXCEPT ![s] = y]
      /\ notices' = [notices EXCEPT ![s] = Append(@, [kind |-> kind, of |-> y, since |-> since])]
  BY DEF ChangeSince
<1> HIDE DEF y
<1>5. sel' \in [Selections -> Selected] /\ sel'[s] = y
      /\ \A q \in Selections : q # s => sel'[q] = sel[q]
  BY <1>1, <1>3, <1>4
<1>6. Onward
  BY <1>2, <1>3, <1>5 DEF Onward, Later
<1>7. GoodSelected(y)
  BY <1>3 DEF GoodSelected
<1>8. SelOK'
  BY <1>5, <1>7 DEF Inv, SelOK
<1> DEFINE n == [kind |-> kind, of |-> y, since |-> since]
<1>9. n \in Note /\ n.of = y
  BY <1>3 DEF Note
<1> HIDE DEF n
<1>10. notices' \in [Selections -> Seq(Note)] /\ notices'[s] = Append(notices[s], n)
       /\ \A q \in Selections : q # s => notices'[q] = notices[q]
  BY <1>1, <1>4, <1>9 DEF n
<1>11. \A i \in 1..Len(notices[s]) : GoodNote(sel[s], notices[s][i]) /\ notices[s][i].of.turn \in Nat
  <2>1. \A i \in 1..Len(notices[s]) : notices[s][i] \in Note
    BY <1>1
  <2>2. \A m \in Note : m.of.turn \in Nat
    BY DEF Note, Selected
  <2> QED
    BY <2>1, <2>2 DEF Inv, NoticesOK
<1>12. \A i \in 1..Len(notices[s]) : GoodNote(y, notices[s][i])
  BY <1>2, <1>3, <1>11 DEF GoodNote
<1>13. GoodNote(y, n)
  BY <1>2, <1>3, <1>9 DEF GoodNote
<1>14. notices[s] \in Seq(Note)
  BY <1>1
<1>15. Len(notices'[s]) = Len(notices[s]) + 1
       /\ \A i \in 1..Len(notices'[s]) :
             notices'[s][i] = IF i <= Len(notices[s]) THEN notices[s][i] ELSE n
  BY <1>9, <1>10, <1>14
<1>16. \A i \in 1..Len(notices'[s]) : GoodNote(y, notices'[s][i])
  BY <1>12, <1>13, <1>14, <1>15
<1>17. NoticesOK'
  BY <1>5, <1>10, <1>16 DEF Inv, NoticesOK
<1> QED
  BY <1>3, <1>5, <1>6, <1>8, <1>17 DEF y

-----------------------------------------------------------------------------
(* What applications do. *)

LEMMA EmptyFits == Empty(0) \in Selected /\ GoodSelected(Empty(0))
<1>1. Empty(0).by = "nobody" /\ Empty(0).parts = {} /\ Empty(0) \in Selected
  BY DEF Empty, Selected
<1>2. "nobody" \notin Copies
  BY CopiesAssumption
<1> QED
  BY <1>1, <1>2 DEF GoodSelected

LEMMA StepCopy ==
  ASSUME Inv, NEW s \in Selections, NEW c \in Copies, Copy(s, c)
  PROVE  Inv'
<1> DEFINE x == [by |-> c, parts |-> PartsOf(c), turn |-> 0]
<1>1. x \in Selected /\ x.by = c /\ x.parts = PartsOf(c)
  BY CopyParts DEF Selected
<1>2. c \notin {"nobody", "panod"}
  BY CopiesAssumption
<1>3. GoodSelected(x)
  BY <1>1, <1>2 DEF GoodSelected
<1>4. Change(s, x, "set") /\ focus' = c
      /\ UNCHANGED <<backend, shell, gones, queue, loop, history, lastStored, generation,
                     clearing, lastRecall, client, clears, paused, heard, recalls, whims>>
  BY DEF Copy
<1> HIDE DEF x
<1>5. Onward /\ SelOK' /\ NoticesOK'
  BY <1>1, <1>3, <1>4, ChangeStep DEF Kinds, Change
<1>6. RestOK'
  BY <1>4 DEF Inv, RestOK
<1> QED
  BY <1>4, <1>5, <1>6, Frame DEF Inv

LEMMA StepEmptied ==
  ASSUME Inv, NEW s \in Selections, Exit(s) \/ Empties(s)
  PROVE  Inv'
<1>1. /\ Change(s, Empty(0), "gone") \/ Change(s, Empty(0), "null")
      /\ UNCHANGED <<backend, shell, gones, focus, queue, loop, history, lastStored, generation,
                     clearing, lastRecall, client, clears, paused, heard, recalls, whims>>
  BY DEF Exit, Empties
<1>2. Onward /\ SelOK' /\ NoticesOK'
  BY <1>1, EmptyFits, ChangeStep DEF Kinds, Change
<1> QED
  BY <1>1, <1>2, Frame DEF Inv

-----------------------------------------------------------------------------
(* The watchers. *)

LEMMA OfferedGood ==
  ASSUME NEW b, NEW x \in Selected, NEW y \in Selected, b = backend, b # "bridge",
         y.turn <= x.turn, y.turn = x.turn => y = x, focus \in Copies,
         NEW es, es = Offers(y)
  PROVE  /\ es \in Seq(Event) /\ Len(es) \in 0..1
         /\ Len(es) = 1 => GoodEvent(b, x, es[1])
<1> DEFINE e == Changed(y)
<1>1. Targets(y) = ListOf(b, y) /\ ListOf(b, y) \subseteq Formats \cup {"recall"}
  BY TargetsIs, ListType
<1>2. e = [kind |-> "changed", targets |-> ListOf(b, y), shut |-> FocusShut, turn |-> y.turn,
           parts |-> {}]
  BY <1>1 DEF Changed
<1>3. y.turn \in Nat /\ x.turn \in Nat /\ FocusShut \in BOOLEAN
  BY DEF Selected, FocusShut
<1>4. e \in ChangedEvent /\ e.kind = "changed" /\ e.targets = ListOf(b, y) /\ e.turn = y.turn
  BY <1>1, <1>2, <1>3 DEF ChangedEvent
<1>5. e \in Event
  BY <1>4 DEF Event
<1>6. es = IF ListOf(b, y) = {} THEN <<>> ELSE <<e>>
  BY <1>1 DEF Offers
<1> HIDE DEF e
<1>7. ListOf(b, y) # {} => GoodEvent(b, x, e)
  BY <1>3, <1>4 DEF GoodEvent, GoodChange
<1> QED
  BY <1>5, <1>6, <1>7

LEMMA GoneGood ==
  ASSUME NEW b, NEW x \in Selected, NEW n \in Note, b # "bridge",
         n.of.turn <= x.turn,
         NEW es, es = <<OwnerGone(n)>>
  PROVE  /\ es \in Seq(Event) /\ Len(es) \in 0..1
         /\ Len(es) = 1 => GoodEvent(b, x, es[1])
<1> DEFINE e == OwnerGone(n)
<1>1. e = [kind |-> "gone", turn |-> n.of.turn, why |-> n.kind, since |-> n.since]
  BY DEF OwnerGone
<1>2. n.of.turn \in Nat /\ n.kind \in Kinds /\ n.since \in Nat
  BY DEF Note, Selected
<1>3. e \in GoneEvent /\ e.kind = "gone" /\ e.turn = n.of.turn /\ e.why = n.kind
  BY <1>1, <1>2 DEF GoneEvent
<1>4. e \in Event
  BY <1>3 DEF Event
<1> HIDE DEF e
<1>5. GoodEvent(b, x, e)
  BY <1>3 DEF GoodEvent
<1> QED
  BY <1>4, <1>5 DEF e

LEMMA NothingGood ==
  ASSUME NEW b, NEW x, NEW es, es = <<>>
  PROVE  /\ es \in Seq(Event) /\ Len(es) \in 0..1
         /\ Len(es) = 1 => GoodEvent(b, x, es[1])
OBVIOUS

LEMMA NoticeTaken ==
  ASSUME Inv, NEW s \in Selections, notices[s] # <<>>,
         notices' = [notices EXCEPT ![s] = Tail(@)], UNCHANGED sel
  PROVE  NoticesOK'
<1>1. notices \in [Selections -> Seq(Note)] /\ notices[s] \in Seq(Note)
  BY DEF Inv, NoticesOK
<1>2. notices' \in [Selections -> Seq(Note)] /\ notices'[s] = Tail(notices[s])
      /\ \A q \in Selections : q # s => notices'[q] = notices[q]
  BY <1>1
<1>3. \A i \in 1..Len(notices'[s]) : i + 1 \in 1..Len(notices[s]) /\ notices'[s][i] = notices[s][i + 1]
  BY <1>1, <1>2
<1>4. \A i \in 1..Len(notices'[s]) : GoodNote(sel[s], notices'[s][i])
  BY <1>3 DEF Inv, NoticesOK
<1> QED
  BY <1>2, <1>4 DEF Inv, NoticesOK

LEMMA Queued ==
  ASSUME Inv, NEW s \in Selections, NEW e \in Event, GoodEvent(backend, sel[s], e),
         queue' = [queue EXCEPT ![s] = Append(@, e)], UNCHANGED <<backend, sel>>
  PROVE  QueueOK'
<1>1. queue \in [Selections -> Seq(Event)] /\ queue[s] \in Seq(Event)
      /\ \A q \in Selections : \A i \in 1..Len(queue[q]) : GoodEvent(backend, sel[q], queue[q][i])
  BY DEF Inv, QueueOK
<1>2. queue' \in [Selections -> Seq(Event)] /\ queue'[s] = Append(queue[s], e)
      /\ \A q \in Selections : q # s => queue'[q] = queue[q]
  BY <1>1
<1>3. \A i \in 1..Len(queue'[s]) :
         (i \in 1..Len(queue[s]) /\ queue'[s][i] = queue[s][i]) \/ queue'[s][i] = e
  BY <1>1, <1>2
<1>4. \A i \in 1..Len(queue'[s]) : GoodEvent(backend, sel[s], queue'[s][i])
  BY <1>1, <1>3
<1> QED
  BY <1>1, <1>2, <1>4 DEF QueueOK

LEMMA StepWatch ==
  ASSUME Inv, NEW s \in Selections, Watch(s)
  PROVE  Inv'
<1>0. /\ notices[s] # <<>> /\ notices' = [notices EXCEPT ![s] = Tail(@)]
      /\ UNCHANGED <<backend, shell, gones, sel, focus, loop, history, lastStored, generation,
                     clearing, lastRecall, client, clears, paused, heard, recalls, whims>>
  BY DEF Watch
<1>n. PICK n : n = Head(notices[s])
  OBVIOUS
<1>1. PICK es : /\ \/ backend = "x11" /\ es \in X11Event(s, n)
                   \/ backend \notin {"x11", "bridge"} /\ es \in WaylandEvent(n)
                /\ queue' = [queue EXCEPT ![s] = @ \o es]
  BY <1>n DEF Watch
<1>2. /\ sel \in [Selections -> Selected] /\ GoodSelected(sel[s]) /\ sel[s] \in Selected
      /\ notices \in [Selections -> Seq(Note)] /\ notices[s] \in Seq(Note)
      /\ focus \in Copies /\ backend \in Desktops
  BY DEF Inv, SelOK, NoticesOK, RestOK
<1>3. /\ n \in Note /\ GoodNote(sel[s], n)
      /\ 1 \in 1..Len(notices[s])
  BY <1>0, <1>2, <1>n DEF Inv, NoticesOK
<1>4. n.kind \in Kinds /\ n.of \in Selected /\ n.of.turn \in Nat /\ sel[s].turn \in Nat
  BY <1>2, <1>3 DEF Note, Selected
<1>5. backend \in {"x11", "wayland", "keeper", "bridge"}
  BY <1>2, CopiesAssumption
<1>6. ASSUME backend = "x11", es \in X11Event(s, n)
      PROVE  es = <<>> \/ (n.kind = "gone" /\ es = <<OwnerGone(n)>>) \/ es = Offers(sel[s])
  BY <1>6 DEF X11Event
<1>8. ASSUME es \in WaylandEvent(n)
      PROVE  es = <<>> \/ es = <<OwnerGone(n)>> \/ es = Offers(n.of)
  BY <1>8 DEF WaylandEvent
<1>9. /\ es \in Seq(Event) /\ Len(es) \in 0..1
      /\ Len(es) = 1 => GoodEvent(backend, sel[s], es[1])
  <2>1. CASE es = <<>>
    BY <2>1, NothingGood
  <2>2. CASE backend = "x11" /\ n.kind = "gone" /\ es = <<OwnerGone(n)>>
    BY <1>2, <1>3, <2>2, GoneGood DEF GoodNote
  <2>3. CASE backend = "x11" /\ es = Offers(sel[s])
    <3>y. PICK y : y = sel[s]
      OBVIOUS
    <3>1. y.turn <= sel[s].turn /\ backend # "bridge" /\ y \in Selected /\ es = Offers(y)
      BY <1>2, <1>4, <2>3, <3>y
    <3>2. y.turn = sel[s].turn => y = sel[s]
      BY <3>y
    <3>3. sel[s] \in Selected /\ focus \in Copies
      BY <1>2
    <3> QED
      BY <3>1, <3>2, <3>3, OfferedGood
  <2>4. CASE backend \in {"wayland", "keeper"} /\ es = <<OwnerGone(n)>>
    BY <1>2, <1>3, <2>4, GoneGood DEF GoodNote
  <2>5. CASE backend \in {"wayland", "keeper"} /\ es = Offers(n.of)
    BY <1>2, <1>3, <1>4, <2>5, OfferedGood DEF GoodNote
  <2> QED
    BY <1>1, <1>5, <1>6, <1>8, <2>1, <2>2, <2>3, <2>4, <2>5
<1>10. Onward /\ SelOK'
  BY <1>0, Still
<1>11. NoticesOK'
  BY <1>0, NoticeTaken
<1>12. QueueOK'
  <2>1. queue \in [Selections -> Seq(Event)] /\ queue[s] \in Seq(Event)
        /\ \A q \in Selections : \A i \in 1..Len(queue[q]) : GoodEvent(backend, sel[q], queue[q][i])
    BY DEF Inv, QueueOK
  <2>2. queue' \in [Selections -> Seq(Event)] /\ queue'[s] = queue[s] \o es
        /\ \A q \in Selections : q # s => queue'[q] = queue[q]
    BY <1>1, <1>9, <2>1
  <2>3. \A i \in 1..Len(queue'[s]) :
           \/ i \in 1..Len(queue[s]) /\ queue'[s][i] = queue[s][i]
           \/ Len(es) = 1 /\ queue'[s][i] = es[1]
    BY <1>9, <2>1, <2>2
  <2>4. \A i \in 1..Len(queue'[s]) : GoodEvent(backend, sel[s], queue'[s][i])
    BY <1>9, <2>1, <2>3
  <2> QED
    BY <1>0, <2>1, <2>2, <2>4 DEF QueueOK
<1> QED
  BY <1>0, <1>10, <1>11, <1>12, Frame DEF Inv

-----------------------------------------------------------------------------
(* The Shell extension. *)

LEMMA StepBridgeCapture ==
  ASSUME Inv, NEW s \in Selections, BridgeCapture(s)
  PROVE  Inv'
<1>r. PICK r : r = [targets |-> Targets(sel[s]), todo |-> bridge_wanted(Targets(sel[s])),
                    got |-> {}, turn |-> sel[s].turn]
  OBVIOUS
<1>0. /\ backend = "bridge" /\ notices[s] # <<>> /\ notices' = [notices EXCEPT ![s] = Tail(@)]
      /\ UNCHANGED <<backend, gones, sel, focus, queue, loop, history, lastStored, generation,
                     clearing, lastRecall, client, clears, paused, heard, recalls, whims>>
  BY DEF BridgeCapture
<1>1. \/ UNCHANGED shell
      \/ s = "clipboard" /\ bridge_wanted(Targets(sel[s])) # <<>> /\ shell' = shell \cup {r}
  BY <1>r DEF BridgeCapture
<1>2. sel[s] \in Selected /\ Targets(sel[s]) \subseteq Formats \cup {"recall"}
  BY TargetsIs, ListType DEF Inv, SelOK
<1>3. sel[s].turn \in Nat
  BY <1>2 DEF Selected
<1>4. bridge_wanted(Targets(sel[s])) # <<>> => Glance(r)
  BY <1>2, <1>3, <1>r DEF Glance
<1>5. r.turn = sel[s].turn /\ r.turn <= sel[s].turn
  BY <1>3, <1>r
<1>6. ShellOK'
  <2>1. \A q \in shell : Glance(q) /\ q.turn <= sel["clipboard"].turn
    BY DEF Inv, ShellOK
  <2> QED
    BY <1>0, <1>1, <1>4, <1>5, <2>1 DEF ShellOK
<1>7. Onward /\ SelOK'
  BY <1>0, Still
<1>8. NoticesOK'
  BY <1>0, NoticeTaken
<1> QED
  BY <1>0, <1>6, <1>7, <1>8, Frame DEF Inv

LEMMA StepBridgeRead ==
  ASSUME Inv, NEW r \in shell, BridgeRead(r)
  PROVE  Inv'
<1>p. PICK part : /\ part = convert("clipboard", Head(r.todo)) \/ part = {}
                  /\ shell' = (shell \ {r}) \cup
                        {x \in {[r EXCEPT !.todo = Tail(r.todo), !.got = r.got \cup part]} :
                            Tail(r.todo) # <<>>}
                  /\ \/ queue' = queue
                     \/ /\ r.got \cup part # {}
                        /\ queue' = [queue EXCEPT !["clipboard"] =
                                        Append(@, Pushed(r, r.got \cup part))]
  BY DEF BridgeRead
<1>0. UNCHANGED <<backend, gones, sel, focus, notices, loop, history, lastStored, generation,
                  clearing, lastRecall, client, clears, paused, heard, recalls, whims>>
  BY DEF BridgeRead
<1>c. "clipboard" \in Selections
  BY CopiesAssumption
<1>1. Glance(r) /\ r.turn <= sel["clipboard"].turn /\ backend = "bridge"
  BY DEF Inv, ShellOK
<1>2. sel["clipboard"] \in Selected /\ sel["clipboard"].turn \in Nat
  BY <1>c DEF Inv, SelOK, Selected
<1>g. PICK got : got = r.got \cup part
  OBVIOUS
<1>3. got \subseteq Parts
  BY <1>1, <1>2, <1>g, <1>p DEF Glance, convert, Selected
<1>4. ShellOK'
  <2>x. PICK x : x = [r EXCEPT !.todo = Tail(r.todo), !.got = got]
    OBVIOUS
  <2>1. /\ x = [targets |-> r.targets, todo |-> Tail(r.todo), got |-> got, turn |-> r.turn]
        /\ x.turn = r.turn
    BY <1>1, <2>x DEF Glance
  <2>2. Tail(r.todo) # <<>> => Glance(x)
    BY <1>1, <1>3, <2>1 DEF Glance
  <2>3. \A q \in shell : Glance(q) /\ q.turn <= sel["clipboard"].turn
    BY DEF Inv, ShellOK
  <2>4. \A q \in shell' : q \in shell \/ (q = x /\ Tail(r.todo) # <<>>)
    BY <1>g, <1>p, <2>x
  <2> QED
    BY <1>0, <1>1, <2>1, <2>2, <2>3, <2>4 DEF ShellOK
<1>5. QueueOK'
  <2>1. CASE queue' = queue
    BY <1>0, <2>1 DEF Inv, QueueOK
  <2>2. CASE got # {} /\ queue' = [queue EXCEPT !["clipboard"] = Append(@, Pushed(r, got))]
    <3>e. PICK e : e = Pushed(r, got)
      OBVIOUS
    <3>1. /\ e = [kind |-> "changed", targets |-> r.targets, shut |-> FocusShut,
                  turn |-> r.turn, parts |-> got]
          /\ FocusShut \in BOOLEAN
      BY <3>e DEF Pushed, FocusShut
    <3>2. e \in ChangedEvent /\ e.kind = "changed" /\ e.turn = r.turn /\ e.parts = got
      BY <1>1, <1>3, <3>1 DEF ChangedEvent, Glance
    <3>3. e \in Event
      BY <3>2 DEF Event
    <3>4. GoodEvent(backend, sel["clipboard"], e)
      BY <1>1, <2>2, <3>2 DEF GoodEvent, GoodChange
    <3>5. queue' = [queue EXCEPT !["clipboard"] = Append(@, e)]
      BY <2>2, <3>e
    <3> QED
      BY <1>0, <1>c, <3>3, <3>4, <3>5, Queued
  <2> QED
    BY <1>g, <1>p, <2>1, <2>2
<1>6. Onward /\ SelOK' /\ NoticesOK'
  BY <1>0, Still
<1> QED
  BY <1>0, <1>4, <1>5, <1>6, Frame DEF Inv

-----------------------------------------------------------------------------
(* The capture loop. *)

LEMMA Taken ==
  ASSUME Inv, NEW s \in Selections, Take(s), UNCHANGED <<backend, sel>>
  PROVE  /\ Head(queue[s]) \in Event /\ GoodEvent(backend, sel[s], Head(queue[s]))
         /\ QueueOK'
         /\ heard' \in [Selections -> Nat] /\ heard'[s] = Head(queue[s]).turn
         /\ \A q \in Selections : heard'[q] <= sel[q].turn
         /\ \A q \in Selections : q # s => heard'[q] = heard[q]
<1>0. loop = Idle /\ queue[s] # <<>> /\ queue' = [queue EXCEPT ![s] = Tail(@)]
      /\ heard' = [heard EXCEPT ![s] = Head(queue[s]).turn]
  BY DEF Take
<1>1. queue \in [Selections -> Seq(Event)] /\ queue[s] \in Seq(Event)
      /\ \A q \in Selections : \A i \in 1..Len(queue[q]) : GoodEvent(backend, sel[q], queue[q][i])
  BY DEF Inv, QueueOK
<1>e. PICK e : e = Head(queue[s])
  OBVIOUS
<1>2. e \in Event /\ 1 \in 1..Len(queue[s]) /\ e = queue[s][1]
  BY <1>0, <1>1, <1>e
<1>3. GoodEvent(backend, sel[s], e)
  BY <1>1, <1>2
<1>4. e.turn \in Nat /\ e.turn <= sel[s].turn
  BY <1>2, <1>3, EventFacts DEF GoodEvent
<1>5. heard \in [Selections -> Nat] /\ \A q \in Selections : heard[q] <= sel[q].turn
  BY DEF Inv, SlotOK
<1>6. heard' \in [Selections -> Nat] /\ heard'[s] = e.turn
      /\ \A q \in Selections : q # s => heard'[q] = heard[q]
  BY <1>0, <1>4, <1>5, <1>e
<1>7. queue' \in [Selections -> Seq(Event)] /\ queue'[s] = Tail(queue[s])
      /\ \A q \in Selections : q # s => queue'[q] = queue[q]
  BY <1>0, <1>1
<1>8. \A i \in 1..Len(queue'[s]) : i + 1 \in 1..Len(queue[s]) /\ queue'[s][i] = queue[s][i + 1]
  BY <1>0, <1>1, <1>7
<1>9. \A i \in 1..Len(queue'[s]) : GoodEvent(backend, sel[s], queue'[s][i])
  BY <1>1, <1>8
<1>10. QueueOK'
  BY <1>1, <1>7, <1>9 DEF QueueOK
<1> QED
  BY <1>2, <1>3, <1>4, <1>5, <1>6, <1>10, <1>e

LEMMA Forgotten ==
  ASSUME Inv, NEW s \in Selections
  PROVE  /\ forget_last_stored(s) \in [Selections -> [entry : SUBSET Parts, turn : Nat]]
         /\ forget_last_stored(s)[s] = Free
         /\ \A q \in Selections : q # s => forget_last_stored(s)[q] = lastStored[q]
<1>1. Free \in [entry : SUBSET Parts, turn : Nat]
  BY DEF Free, Slot, None
<1>2. lastStored \in [Selections -> [entry : SUBSET Parts, turn : Nat]]
  BY DEF Inv, SlotOK
<1> QED
  BY <1>1, <1>2 DEF forget_last_stored

(* A change that counts overtakes every clear. *)
LEMMA Overtaken ==
  ASSUME Inv, UNCHANGED <<backend, clears>>, generation' = generation + 1
  PROVE  ClearsOK'
<1>1. generation \in Nat /\ clears \subseteq Task
      /\ \A t \in clears : GoodTask(backend, generation, heard[t.to], t)
  BY DEF Inv, RestOK, ClearsOK
<1>2. \A t \in clears : t.base \in Nat
  BY <1>1 DEF Task
<1>3. \A t \in clears : GoodTask(backend, generation', heard'[t.to], t)
  BY <1>1, <1>2 DEF GoodTask
<1> QED
  BY <1>1, <1>3 DEF ClearsOK

LEMMA StepHandleChanged ==
  ASSUME Inv, NEW s \in Selections, HandleChanged(s)
  PROVE  Inv'
<1>e. PICK e : e = Head(queue[s])
  OBVIOUS
<1>f. PICK fs : fs = wanted_order(e.targets)
  OBVIOUS
<1>0. /\ Take(s) /\ backend # "bridge" /\ e.kind = "changed"
      /\ generation' = generation + 1 /\ lastStored' = forget_last_stored(s)
      /\ UNCHANGED <<backend, shell, gones, sel, focus, notices, history, clearing, lastRecall,
                     client, clears, paused, recalls, whims>>
  BY <1>e DEF HandleChanged
<1>1. loop' = IF Allowed(e.targets, e.shut) /\ fs # <<>>
              THEN [at |-> "reading", of |-> s, event |-> e, todo |-> fs, got |-> {}, fresh |-> {}]
              ELSE Idle
  BY <1>e, <1>f DEF HandleChanged
<1>2. /\ e \in ChangedEvent /\ GoodEvent(backend, sel[s], e) /\ QueueOK'
      /\ heard' \in [Selections -> Nat]
      /\ \A q \in Selections : heard'[q] <= sel[q].turn
      /\ \A q \in Selections : q # s => heard'[q] = heard[q]
  BY <1>0, <1>e, Taken, EventFacts
<1>3. Onward /\ SelOK' /\ NoticesOK'
  BY <1>0, Still
<1>4. LoopOK'
  <2>1. CASE loop' = Idle
    BY <2>1 DEF LoopOK, Idle
  <2>2. CASE Allowed(e.targets, e.shut) /\ fs # <<>>
    <3>1. loop' = [at |-> "reading", of |-> s, event |-> e, todo |-> fs, got |-> {}, fresh |-> {}]
      BY <1>1, <2>2
    <3>2. IsReading(loop') /\ loop'.of = s /\ loop'.at = "reading" /\ loop'.event = e /\ loop'.fresh = {}
      BY <1>2, <2>2, <3>1 DEF IsReading
    <3>3. e.targets \cap Hints = {}
      BY <2>2 DEF Allowed
    <3>4. GoodReading(backend, sel[s], loop')
      BY <1>0, <1>2, <3>2, <3>3 DEF GoodReading, GoodEvent, GoodChange, Fits
    <3> QED
      BY <1>0, <3>2, <3>4 DEF LoopOK
  <2> QED
    BY <1>1, <2>1, <2>2
<1>5. SlotOK'
  <2>1. lastStored' \in [Selections -> [entry : SUBSET Parts, turn : Nat]]
        /\ lastStored'[s] = Free /\ \A q \in Selections : q # s => lastStored'[q] = lastStored[q]
    BY <1>0, Forgotten
  <2>2. RestoresOnlyTheLast'
    BY <1>0, <1>2, <2>1, CopiesAssumption DEF Inv, SlotOK, RestoresOnlyTheLast
  <2> QED
    BY <1>0, <1>2, <2>1, <2>2 DEF SlotOK
<1>6. ClearsOK'
  BY <1>0, Overtaken
<1>7. RestOK'
  BY <1>0 DEF Inv, RestOK
<1> QED
  BY <1>0, <1>2, <1>3, <1>4, <1>5, <1>6, <1>7, Frame DEF Inv

LEMMA StepHandleOwnerGone ==
  ASSUME Inv, NEW s \in Selections, HandleOwnerGone(s)
  PROVE  Inv'
<1>e. PICK e : e = Head(queue[s])
  OBVIOUS
<1>0. /\ Take(s) /\ e.kind = "gone"
      /\ generation' = generation + 1 /\ clearing' = FALSE /\ gones' = gones + 1
      /\ lastStored' = IF Restores /\ s = "primary" THEN lastStored ELSE forget_last_stored(s)
      /\ loop' = IF Restores /\ s = "clipboard" /\ lastStored[s].entry \in history
                 THEN [at |-> "refilling", entry |-> lastStored[s].entry, why |-> e.why, since |-> e.since]
                 ELSE Idle
      /\ UNCHANGED <<backend, shell, sel, focus, notices, history, lastRecall, client,
                     clears, paused, recalls, whims>>
  BY <1>e DEF HandleOwnerGone
<1>2. /\ e \in GoneEvent /\ GoodEvent(backend, sel[s], e) /\ QueueOK'
      /\ heard' \in [Selections -> Nat]
      /\ \A q \in Selections : heard'[q] <= sel[q].turn
      /\ \A q \in Selections : q # s => heard'[q] = heard[q]
  BY <1>0, <1>e, Taken, EventFacts
<1>3. Onward /\ SelOK' /\ NoticesOK'
  BY <1>0, Still
<1>4. LoopOK'
  <2>1. CASE loop' = Idle
    BY <2>1 DEF LoopOK, Idle
  <2>2. CASE Restores /\ s = "clipboard" /\ lastStored[s].entry \in history
    <3>1. loop' = [at |-> "refilling", entry |-> lastStored[s].entry, why |-> e.why, since |-> e.since]
      BY <1>0, <2>2
    <3>2. lastStored[s].entry \in Entry
      BY <2>2 DEF Inv, HistoryOK
    <3>3. backend # "keeper" /\ backend \in {"x11", "wayland", "keeper", "bridge"}
      BY <2>2, CopiesAssumption DEF Restores, persistence_enabled, keeps_selection, Inv, RestOK
    <3>4. GoodRefill(backend, loop')
      BY <1>0, <1>2, <3>1, <3>2, <3>3 DEF GoodRefill, GoodEvent
    <3> QED
      BY <1>0, <3>1, <3>4 DEF LoopOK
  <2> QED
    BY <1>0, <2>1, <2>2
<1>5. SlotOK'
  <2>1. /\ lastStored' \in [Selections -> [entry : SUBSET Parts, turn : Nat]]
        /\ s # "primary" => lastStored'[s] = Free
        /\ \A q \in Selections : q # s => lastStored'[q] = lastStored[q]
    BY <1>0, Forgotten DEF Inv, SlotOK
  <2>2. s = "clipboard" \/ s = "primary"
    BY CopiesAssumption
  <2>3. RestoresOnlyTheLast'
    BY <1>0, <1>2, <2>1, <2>2, CopiesAssumption DEF Inv, SlotOK, RestoresOnlyTheLast
  <2> QED
    BY <1>0, <1>2, <2>1, <2>3 DEF SlotOK
<1>6. ClearsOK'
  BY <1>0, Overtaken
<1>7. RestOK'
  <2>1. generation' = generation + 1 /\ clearing' = FALSE /\ gones' = gones + 1
        /\ UNCHANGED <<backend, focus, paused>>
    BY <1>0
  <2>2. clearing' \in BOOLEAN
    BY <2>1
  <2> QED
    BY <2>1, <2>2 DEF Inv, RestOK
<1> QED
  BY <1>0, <1>2, <1>3, <1>4, <1>5, <1>6, <1>7, Frame DEF Inv

LEMMA StepHandleGnomeData ==
  ASSUME Inv, HandleGnomeData
  PROVE  Inv'
<1> DEFINE s == "clipboard"
<1>s. s \in Selections
  BY CopiesAssumption
<1>e. PICK e : e = Head(queue[s])
  OBVIOUS
<1>0. /\ backend = "bridge" /\ Take(s)
      /\ UNCHANGED <<backend, shell, gones, sel, focus, notices, history, lastStored, clearing,
                     lastRecall, client, clears, paused, recalls, whims>>
  BY DEF HandleGnomeData
<1>g. generation' \in {generation, generation + 1}
  <2>1. generation \in Nat
    BY DEF Inv, RestOK
  <2>2. generation' = generation + 0 \/ generation' = generation + 1
    BY DEF HandleGnomeData
  <2> QED
    BY <2>1, <2>2
<1>1. \/ loop' = Idle
      \/ /\ Allowed(e.targets, e.shut)
         /\ loop' = [at |-> "storing", of |-> s, got |-> e.parts, looked |-> FALSE,
                     fresh |-> e.parts, turns |-> sel[s].turn - e.turn]
  BY <1>e DEF HandleGnomeData
<1> HIDE DEF s
<1>2. /\ e \in Event /\ GoodEvent(backend, sel[s], e) /\ QueueOK'
      /\ heard' \in [Selections -> Nat]
      /\ \A q \in Selections : heard'[q] <= sel[q].turn
  BY <1>0, <1>e, <1>s, Taken
<1>3. Onward /\ SelOK' /\ NoticesOK'
  BY <1>0, Still
<1>4. e \in ChangedEvent /\ e.parts \subseteq Parts /\ e.parts # {}
  BY <1>0, <1>2, EventFacts DEF GoodEvent, GoodChange, ChangedEvent
<1>5. LoopOK'
  <2>1. CASE loop' = Idle
    BY <2>1 DEF LoopOK, Idle
  <2>2. CASE /\ Allowed(e.targets, e.shut)
             /\ loop' = [at |-> "storing", of |-> s, got |-> e.parts, looked |-> FALSE,
                         fresh |-> e.parts, turns |-> sel[s].turn - e.turn]
    <3>2. GoodStoring(backend, loop')
      <4>1. e.parts \in Entry
        BY <1>4 DEF Entry, None
      <4>2. loop'.of = s /\ loop'.got = e.parts /\ loop'.fresh = e.parts
        BY <2>2
      <4> QED
        BY <1>0, <1>s, <4>1, <4>2 DEF GoodStoring
    <3> QED
      BY <1>0, <2>2, <3>2 DEF LoopOK
  <2> QED
    BY <1>1, <2>1, <2>2
<1>6. SlotOK'
  BY <1>0, <1>2 DEF Inv, SlotOK, RestoresOnlyTheLast
<1>7. ClearsOK'
  <2>1. generation \in Nat /\ clears \subseteq Task
        /\ \A t \in clears : GoodTask(backend, generation, heard[t.to], t)
    BY DEF Inv, RestOK, ClearsOK
  <2>2. \A t \in clears : t.base \in Nat
    BY <2>1 DEF Task
  <2>3. \A t \in clears : GoodTask(backend, generation', heard'[t.to], t)
    BY <1>0, <1>g, <2>1, <2>2 DEF GoodTask
  <2> QED
    BY <1>0, <2>1, <2>3 DEF ClearsOK
<1>8. RestOK'
  BY <1>0, <1>g DEF Inv, RestOK
<1> QED
  BY <1>0, <1>2, <1>3, <1>5, <1>6, <1>7, <1>8, Frame DEF Inv

(* What is left of a capture after a format of it has been read. *)
LEMMA AfterIs ==
  ASSUME NEW l
  PROVE  After(l) = IF l.todo = <<>> /\ l.got = {} THEN Idle ELSE l
BY DEF After

(* Reading from an owner with a hint in its list shows at once. *)
LEMMA FreshShows ==
  ASSUME NEW b, NEW x \in Selected, GoodSelected(x), x.by \notin {"nobody", "panod"},
         NEW l, IsReading(l), GoodReading(b, x, l), NEW part \in SUBSET x.parts, ~Fits(l.fresh \cup part)
  PROVE  \/ x.turn >= l.event.turn + 2
         \/ x.turn = l.event.turn + 1 /\ ListOf(b, x) # l.event.targets
<1>0. x.by \in Copies /\ x.turn \in Nat /\ l.event.turn \in Nat
  BY DEF Selected, IsReading, ChangedEvent
<1>1. x.parts = PartsOf(x.by) /\ ListOf(b, x) = TargetsOf[x.by]
  BY <1>0 DEF GoodSelected, ListOf
<1>2. CASE ~Fits(l.fresh)
  BY <1>2 DEF GoodReading
<1>3. CASE Fits(l.fresh)
  <2>1. ~Fits(x.parts)
    BY <1>3 DEF Fits
  <2>2. TargetsOf[x.by] \cap Hints # {}
    BY <1>0, <1>1, <2>1, CopyParts
  <2>3. ListOf(b, x) # l.event.targets
    BY <1>1, <2>2 DEF GoodReading
  <2>4. l.event.turn <= x.turn /\ l.event.turn # x.turn
    BY <2>3 DEF GoodReading
  <2> QED
    BY <1>0, <2>3, <2>4
<1> QED
  BY <1>2, <1>3

LEMMA StepRead ==
  ASSUME Inv, Read
  PROVE  Inv'
<1>s. PICK s : s = loop.of
  OBVIOUS
<1>r. PICK rest : rest = [loop EXCEPT !.todo = Tail(@)]
  OBVIOUS
<1>p. PICK part : part = convert(loop.of, Head(loop.todo))
  OBVIOUS
<1>n. PICK new : new = IF Held(loop.of) THEN part ELSE {}
  OBVIOUS
<1>m. PICK more : more = [rest EXCEPT !.got = @ \cup part, !.fresh = @ \cup new]
  OBVIOUS
<1>0. /\ loop.at = "reading"
      /\ UNCHANGED <<backend, shell, gones, sel, focus, notices, queue, history, lastStored,
                     generation, clearing, lastRecall, client, clears, paused, heard, recalls,
                     whims>>
      /\ loop' = After(rest) \/ loop' = After(more)
  BY <1>r, <1>p, <1>n, <1>m DEF Read
<1>1. IsReading(loop) /\ GoodReading(backend, sel[s], loop) /\ s \in Selections
  BY <1>0, <1>s DEF Inv, LoopOK, IsReading
<1>2. sel[s] \in Selected /\ GoodSelected(sel[s])
  BY <1>1 DEF Inv, SelOK
<1>3. part \in SUBSET sel[s].parts /\ part \subseteq Parts /\ new \subseteq part
  BY <1>2, <1>n, <1>p, <1>s DEF convert, Selected
<1>4. /\ rest = [at |-> "reading", of |-> s, event |-> loop.event, todo |-> Tail(loop.todo),
                 got |-> loop.got, fresh |-> loop.fresh]
      /\ more = [at |-> "reading", of |-> s, event |-> loop.event, todo |-> Tail(loop.todo),
                 got |-> loop.got \cup part, fresh |-> loop.fresh \cup new]
  <2>1. rest = [at |-> "reading", of |-> s, event |-> loop.event, todo |-> Tail(loop.todo),
                got |-> loop.got, fresh |-> loop.fresh]
    <3>1. PICK e, t, g, f : loop = [at |-> "reading", of |-> s, event |-> e, todo |-> t, got |-> g, fresh |-> f]
      BY <1>1, <1>s DEF IsReading
    <3>2. rest = [at |-> "reading", of |-> s, event |-> e, todo |-> Tail(t), got |-> g, fresh |-> f]
      BY <1>r, <3>1
    <3> QED
      BY <3>1, <3>2
  <2>2. rest.got = loop.got /\ rest.fresh = loop.fresh
    BY <2>1
  <2>3. more = [rest EXCEPT !.got = loop.got \cup part, !.fresh = loop.fresh \cup new]
    BY <1>m, <2>2
  <2> QED
    BY <2>1, <2>3
<1>5. ASSUME NEW l, l \in {rest, more}
      PROVE  /\ l.at = "reading" /\ l.of = s
             /\ (l.todo = <<>> => l.got # {}) => IsReading(l)
             /\ GoodReading(backend, sel[s], l)
  <2>1. /\ l.at = "reading" /\ l.of = s /\ l.event = loop.event
        /\ l.fresh = loop.fresh \/ l.fresh = loop.fresh \cup new
        /\ l.got = loop.got \/ l.got = loop.got \cup part
        /\ l = [at |-> "reading", of |-> l.of, event |-> l.event, todo |-> l.todo, got |-> l.got,
                fresh |-> l.fresh]
    BY <1>4, <1>5
  <2>2. (l.todo = <<>> => l.got # {}) => IsReading(l)
    BY <1>1, <1>3, <2>1 DEF IsReading
  <2>3. ASSUME ~Fits(l.fresh)
        PROVE  \/ sel[s].turn >= l.event.turn + 2
               \/ sel[s].turn = l.event.turn + 1 /\ ListOf(backend, sel[s]) # l.event.targets
    <3>1. CASE ~Fits(loop.fresh)
      BY <1>1, <2>1, <3>1 DEF GoodReading
    <3>2. CASE Fits(loop.fresh)
      <4>1. l.fresh = loop.fresh \cup new /\ ~Fits(new)
        BY <2>1, <2>3, <3>2 DEF Fits
      <4>2. Held(s) /\ new = part
        BY <1>n, <1>s, <4>1 DEF Fits
      <4>3. sel[s].by \notin {"nobody", "panod"} /\ ~Fits(loop.fresh \cup part)
        BY <2>3, <4>1, <4>2 DEF Held
      <4>4. \/ sel[s].turn >= loop.event.turn + 2
            \/ sel[s].turn = loop.event.turn + 1 /\ ListOf(backend, sel[s]) # loop.event.targets
        BY <1>1, <1>2, <1>3, <4>3, FreshShows
      <4> QED
        BY <2>1, <4>4
    <3> QED
      BY <3>1, <3>2
  <2> QED
    BY <1>1, <2>1, <2>2, <2>3 DEF GoodReading
<1>6. LoopOK'
  <2>1. PICK l \in {rest, more} : loop' = After(l)
    BY <1>0
  <2>2. CASE loop' = Idle
    BY <2>2 DEF LoopOK, Idle
  <2>3. CASE loop' = l /\ (l.todo = <<>> => l.got # {})
    <3>1. loop'.at = "reading" /\ loop'.of = s /\ IsReading(loop') /\ GoodReading(backend, sel[s], loop')
      BY <1>5, <2>3
    <3> QED
      BY <1>0, <3>1 DEF LoopOK
  <2> QED
    BY <2>1, <2>2, <2>3, AfterIs
<1>7. Onward /\ SelOK' /\ NoticesOK'
  BY <1>0, Still
<1> QED
  BY <1>0, <1>6, <1>7, Frame DEF Inv

LEMMA StepReadCut ==
  ASSUME Inv, ReadCut
  PROVE  Inv'
<1>s. PICK s : s = loop.of
  OBVIOUS
<1>t. PICK torso : torso = {<<Head(loop.todo), "cut">>}
  OBVIOUS
<1>0. /\ loop.at = "reading" /\ backend = "wayland" /\ Change(s, Empty(0), "gone")
      /\ Head(loop.todo) \in FormatsOf(sel[s].parts)
      /\ UNCHANGED <<backend, shell, gones, focus, queue, history, lastStored, generation,
                     clearing, lastRecall, client, clears, paused, heard, recalls, whims>>
      /\ loop' = [loop EXCEPT !.todo = Tail(@), !.got = @ \cup torso, !.fresh = @ \cup torso]
  BY <1>s, <1>t DEF ReadCut
<1>1. IsReading(loop) /\ GoodReading(backend, sel[s], loop) /\ s \in Selections
  BY <1>0, <1>s DEF Inv, LoopOK, IsReading
<1>2. sel[s] \in Selected
  BY <1>1 DEF Inv, SelOK
<1>3. /\ Onward /\ SelOK' /\ NoticesOK'
      /\ sel'[s] = [Empty(0) EXCEPT !.turn = sel[s].turn + 1]
      /\ sel'[s].turn = sel[s].turn + 1
  BY <1>0, <1>1, EmptyFits, ChangeStep DEF Kinds, Change
<1>4. torso \subseteq Parts /\ torso # {}
  <2>1. FormatsOf(sel[s].parts) \subseteq Formats
    BY <1>2, FormatsIn DEF Selected
  <2> QED
    BY <1>0, <1>t, <2>1 DEF Parts
<1>5. loop' = [at |-> "reading", of |-> s, event |-> loop.event, todo |-> Tail(loop.todo),
               got |-> loop.got \cup torso, fresh |-> loop.fresh \cup torso]
  BY <1>0, <1>1, <1>s DEF IsReading
<1>6. IsReading(loop') /\ loop'.event = loop.event /\ loop'.of = s /\ loop'.at = "reading"
  BY <1>1, <1>4, <1>5 DEF IsReading
<1>7. ListOf(backend, sel'[s]) = {}
  <2>1. sel'[s].by = "nobody"
    BY <1>3 DEF Empty
  <2> QED
    BY <2>1 DEF ListOf
<1>8. GoodReading(backend, sel'[s], loop')
  <2>1. sel[s].turn \in Nat /\ loop.event.turn \in Nat
    BY <1>1, <1>2 DEF Selected, IsReading, ChangedEvent
  <2> QED
    BY <1>1, <1>3, <1>6, <1>7, <2>1 DEF GoodReading
<1>9. LoopOK'
  BY <1>0, <1>6, <1>8 DEF LoopOK
<1> QED
  BY <1>0, <1>3, <1>9, Frame DEF Inv

LEMMA StepRecheck ==
  ASSUME Inv, Recheck
  PROVE  Inv'
<1>s. PICK s : s = loop.of
  OBVIOUS
<1>0. /\ loop.at = "reading" /\ loop.todo = <<>>
      /\ UNCHANGED <<backend, shell, gones, sel, focus, notices, queue, history, lastStored,
                     generation, clearing, lastRecall, client, clears, paused, heard, recalls,
                     whims>>
  BY DEF Recheck
<1>1. PICK answers \in BOOLEAN :
         \/ loop' = Idle
         \/ /\ answers => Targets(sel[s]) = loop.event.targets
            /\ loop' = [at |-> "storing", of |-> s, got |-> loop.got, looked |-> answers,
                        fresh |-> loop.fresh, turns |-> sel[s].turn - loop.event.turn]
  BY <1>s DEF Recheck, same_targets
<1>2. IsReading(loop) /\ GoodReading(backend, sel[s], loop) /\ s \in Selections
  BY <1>0, <1>s DEF Inv, LoopOK, IsReading
<1>3. LoopOK'
  <2>1. CASE loop' = Idle
    BY <2>1 DEF LoopOK, Idle
  <2>2. CASE /\ answers => Targets(sel[s]) = loop.event.targets
             /\ loop' = [at |-> "storing", of |-> s, got |-> loop.got, looked |-> answers,
                         fresh |-> loop.fresh, turns |-> sel[s].turn - loop.event.turn]
    <3>1. sel[s].turn \in Nat /\ loop.event.turn \in Nat /\ loop.event.turn <= sel[s].turn
      BY <1>2 DEF Inv, SelOK, Selected, IsReading, ChangedEvent, GoodReading
    <3>2. loop.got \in Entry
      BY <1>0, <1>2 DEF IsReading, Entry, None
    <3>3. answers => ListOf(backend, sel[s]) = loop.event.targets
      BY <2>2, TargetsIs
    <3>4. ~Fits(loop.fresh) /\ answers => sel[s].turn - loop.event.turn >= 2
      BY <1>2, <3>1, <3>3 DEF GoodReading
    <3>5. /\ loop'.of = s /\ loop'.got = loop.got /\ loop'.fresh = loop.fresh
          /\ loop'.turns = sel[s].turn - loop.event.turn /\ loop'.at = "storing"
      BY <2>2
    <3>6. loop'.looked => answers
      BY <2>2
    <3>7. GoodStoring(backend, loop')
      BY <1>2, <3>2, <3>4, <3>5, <3>6 DEF GoodStoring, GoodReading
    <3> QED
      BY <1>0, <3>5, <3>7 DEF LoopOK
  <2> QED
    BY <1>1, <2>1, <2>2
<1>4. Onward /\ SelOK' /\ NoticesOK'
  BY <1>0, Still
<1> QED
  BY <1>0, <1>3, <1>4, Frame DEF Inv

LEMMA StepStore ==
  ASSUME Inv, Store
  PROVE  Inv'
<1>0. /\ loop.at = "storing" /\ history' = history \cup {loop.got}
      /\ lastStored' = [lastStored EXCEPT ![loop.of] = Slot(loop.got, heard[loop.of])]
      /\ loop' = Idle
      /\ UNCHANGED <<backend, shell, gones, sel, focus, notices, queue, generation, clearing,
                     lastRecall, client, clears, paused, heard, recalls, whims>>
  BY DEF Store
<1>1. GoodStoring(backend, loop)
  BY <1>0 DEF Inv, LoopOK
<1>2. HistoryOK'
  BY <1>0, <1>1 DEF Inv, HistoryOK, GoodStoring
<1>3. LoopOK'
  BY <1>0 DEF LoopOK, Idle
<1>4. SlotOK'
  <2>1. loop.of \in Selections /\ heard \in [Selections -> Nat] /\ loop.got \in SUBSET Parts
        /\ lastStored \in [Selections -> [entry : SUBSET Parts, turn : Nat]]
    BY <1>1 DEF Inv, SlotOK, GoodStoring, Entry
  <2>2. /\ Slot(loop.got, heard[loop.of]) \in [entry : SUBSET Parts, turn : Nat]
        /\ Slot(loop.got, heard[loop.of]).turn = heard[loop.of]
    BY <2>1 DEF Slot
  <2>3. lastStored' \in [Selections -> [entry : SUBSET Parts, turn : Nat]]
        /\ lastStored'[loop.of].turn = heard[loop.of]
        /\ \A q \in Selections : q # loop.of => lastStored'[q] = lastStored[q]
    BY <1>0, <2>1, <2>2
  <2>4. RestoresOnlyTheLast'
    BY <1>0, <2>1, <2>3, CopiesAssumption DEF Inv, SlotOK, RestoresOnlyTheLast
  <2> QED
    BY <1>0, <2>1, <2>3, <2>4 DEF Inv, SlotOK
<1>5. Onward /\ SelOK' /\ NoticesOK'
  BY <1>0, Still
<1> QED
  BY <1>0, <1>2, <1>3, <1>4, <1>5, Frame DEF Inv

(* An offer of ours. *)
LEMMA OfferStep ==
  ASSUME Inv, NEW s \in Selections, NEW e \in Entry,
         Offer(s, e), backend' = backend
  PROVE  Onward /\ SelOK' /\ NoticesOK' /\ sel'[s].turn \in Nat
<1>p. PICK parts : parts = IF backend = "bridge" THEN best_payload(e) ELSE e
  OBVIOUS
<1>x. PICK x : x = [by |-> "panod", turn |-> 0, parts |-> parts]
  OBVIOUS
<1>1. Change(s, x, "set")
  BY <1>p, <1>x DEF Offer
<1>2. parts \subseteq e /\ parts \in SUBSET Parts
  BY <1>p, BestIsPart DEF Entry
<1>3. x \in Selected /\ x.by = "panod" /\ x.parts = parts
  BY <1>2, <1>x DEF Selected
<1>4. "panod" \notin Copies
  BY CopiesAssumption
<1>5. GoodSelected(x)
  BY <1>2, <1>3, <1>4 DEF GoodSelected
<1>6. Onward /\ SelOK' /\ NoticesOK'
  BY <1>1, <1>3, <1>5, ChangeStep DEF Kinds, Change
<1> QED
  BY <1>6 DEF SelOK, Selected

LEMMA StepRefill ==
  ASSUME Inv, Refill
  PROVE  Inv'
<1>0. /\ loop.at = "refilling" /\ loop' = Idle
      /\ Offer("clipboard", loop.entry) \/ UNCHANGED <<sel, notices>>
      /\ UNCHANGED <<backend, shell, gones, focus, queue, history, lastStored, generation,
                     clearing, lastRecall, client, clears, paused, heard, recalls, whims>>
  BY DEF Refill
<1>1. loop.entry \in Entry /\ backend # "bridge" /\ "clipboard" \in Selections
  BY <1>0, CopiesAssumption DEF Inv, LoopOK, GoodRefill
<1>2. Onward /\ SelOK' /\ NoticesOK'
  BY <1>0, <1>1, OfferStep, Still
<1>3. LoopOK'
  BY <1>0 DEF LoopOK, Idle
<1> QED
  BY <1>0, <1>2, <1>3, Frame DEF Inv

-----------------------------------------------------------------------------
(* The clients. *)

LEMMA StepRecall ==
  ASSUME Inv, NEW s \in Selections, NEW e \in history, Recall(e, s)
  PROVE  Inv'
<1>0. /\ client' = [at |-> "offering", entry |-> e, to |-> s, turn |-> 0]
      /\ UNCHANGED <<backend, shell, gones, sel, focus, notices, queue, loop, history,
                     lastStored, generation, clearing, lastRecall, clears, paused, heard,
                     whims>>
  BY DEF Recall
<1>1. e \in Entry
  BY DEF Inv, HistoryOK
<1>2. ClientOK'
  BY <1>0, <1>1 DEF ClientOK, Offering
<1>3. Onward /\ SelOK' /\ NoticesOK'
  BY <1>0, Still
<1> QED
  BY <1>0, <1>2, <1>3, Frame DEF Inv

LEMMA IdleClient ==
  ASSUME client' = [at |-> "idle"] \/ client' = [at |-> "pasting"]
  PROVE  ClientOK'
BY DEF ClientOK, Offering

LEMMA StepRecallOffer ==
  ASSUME Inv, RecallOffer
  PROVE  Inv'
<1>0. /\ client.at = "offering"
      /\ \/ /\ Offer(client.to, client.entry)
            /\ client' = [client EXCEPT !.at = "offered", !.turn = sel'[client.to].turn]
         \/ client' = [at |-> "idle"] /\ UNCHANGED <<sel, notices>>
      /\ UNCHANGED <<backend, shell, gones, focus, queue, loop, history, lastStored, generation,
                     clearing, lastRecall, clears, paused, heard, recalls, whims>>
  BY DEF RecallOffer
<1>1. /\ client = [at |-> client.at, entry |-> client.entry, to |-> client.to, turn |-> client.turn]
      /\ client.to \in Selections
      /\ client.entry \in Entry
  BY <1>0 DEF Inv, ClientOK, Offering
<1>2. CASE client' = [at |-> "idle"] /\ UNCHANGED <<sel, notices>>
  <2>1. Onward /\ SelOK' /\ NoticesOK'
    BY <1>0, <1>2, Still
  <2> QED
    BY <1>0, <1>2, <2>1, IdleClient, Frame DEF Inv
<1>3. CASE /\ Offer(client.to, client.entry)
           /\ client' = [client EXCEPT !.at = "offered", !.turn = sel'[client.to].turn]
  <2>1. Onward /\ SelOK' /\ NoticesOK' /\ sel'[client.to].turn \in Nat
    BY <1>0, <1>1, <1>3, OfferStep
  <2>n. PICK n : n = sel'[client.to].turn
    OBVIOUS
  <2>2. client' = [at |-> "offered", entry |-> client.entry, to |-> client.to, turn |-> n]
    BY <1>1, <1>3, <2>n
  <2>3. ClientOK'
    BY <1>0, <1>1, <2>1, <2>2, <2>n DEF ClientOK, Offering
  <2> QED
    BY <1>0, <2>1, <2>3, Frame DEF Inv
<1> QED
  BY <1>0, <1>2, <1>3

LEMMA StepRecallCounted ==
  ASSUME Inv, RecallCounted
  PROVE  Inv'
<1>t. PICK t : t = [at |-> "sleeping", to |-> client.to, base |-> generation + 1,
                    counted |-> generation + 1, turn |-> client.turn,
                    armed |-> heard[client.to], fired |-> 0, seen |-> 0]
  OBVIOUS
<1>0. /\ client.at = "offered" /\ generation' = generation + 1
      /\ clears' = clears \/ clears' = clears \cup {t}
      /\ client' = [at |-> "idle"] \/ client' = [at |-> "pasting"]
      /\ UNCHANGED <<backend, shell, gones, sel, focus, notices, queue, loop, history,
                     lastStored, clearing, paused, heard, recalls, whims>>
  BY <1>t DEF RecallCounted, Baseline
<1>1. generation \in Nat /\ client.to \in Selections /\ client.turn \in Nat
      /\ heard \in [Selections -> Nat]
  BY <1>0 DEF Inv, RestOK, ClientOK, Offering, SlotOK
<1>2. /\ t \in Task /\ t.base = generation + 1 /\ t.at = "sleeping" /\ t.to = client.to
      /\ t.armed = heard[client.to]
  BY <1>1, <1>t DEF Task
<1>3. GoodTask(backend, generation', heard[t.to], t)
  BY <1>0, <1>1, <1>2 DEF GoodTask
<1>4. clears \subseteq Task /\ \A u \in clears : GoodTask(backend, generation, heard[u.to], u)
  BY DEF Inv, ClearsOK
<1>5. \A u \in clears : u.base \in Nat
  BY <1>4 DEF Task
<1>6. \A u \in clears : GoodTask(backend, generation', heard[u.to], u)
  BY <1>0, <1>1, <1>4, <1>5 DEF GoodTask
<1>7. ClearsOK'
  BY <1>0, <1>2, <1>3, <1>4, <1>6 DEF ClearsOK
<1>8. RestOK'
  BY <1>0 DEF Inv, RestOK
<1>9. Onward /\ SelOK' /\ NoticesOK'
  BY <1>0, Still
<1> QED
  BY <1>0, <1>7, <1>8, <1>9, IdleClient, Frame DEF Inv

LEMMA StepPaste ==
  ASSUME Inv, Paste \/ EchoWindowEnds
  PROVE  Inv'
<1>0. /\ client' = [at |-> "idle"] \/ client' = client
      /\ UNCHANGED <<backend, shell, gones, sel, focus, notices, queue, loop, history,
                     lastStored, generation, clearing, clears, paused, heard, recalls, whims>>
  BY DEF Paste, EchoWindowEnds
<1>1. Onward /\ SelOK' /\ NoticesOK'
  BY <1>0, Still
<1> QED
  BY <1>0, <1>1, IdleClient, Frame DEF Inv

LEMMA StepPause ==
  ASSUME Inv, Pause
  PROVE  Inv'
<1>0. /\ paused' = ~paused
      /\ UNCHANGED <<backend, shell, gones, sel, focus, notices, queue, loop, history,
                     lastStored, generation, clearing, lastRecall, client, clears, heard,
                     recalls>>
  BY DEF Pause
<1>1. Onward /\ SelOK' /\ NoticesOK'
  BY <1>0, Still
<1>2. paused' \in BOOLEAN
  BY <1>0
<1>3. RestOK'
  BY <1>0, <1>2 DEF Inv, RestOK
<1> QED
  BY <1>0, <1>1, <1>3, Frame DEF Inv

LEMMA StepStoreExternal ==
  ASSUME Inv, NEW c \in Copies, NEW copy \in BOOLEAN, StoreExternal(c, copy)
  PROVE  Inv'
<1>0. /\ PartsOf(c) # {} /\ Allowed(TargetsOf[c], FALSE)
      /\ history' = history \cup {PartsOf(c)}
      /\ client' = [at |-> "putting", entry |-> PartsOf(c)] \/ client' = client
      /\ UNCHANGED <<backend, shell, gones, sel, focus, notices, queue, loop, lastStored,
                     generation, clearing, lastRecall, clears, paused, heard, whims>>
  BY DEF StoreExternal
<1>1. PartsOf(c) \in Entry
  BY <1>0, CopyParts DEF Entry, None
<1>2. HistoryOK'
  BY <1>0, <1>1 DEF Inv, HistoryOK
<1>3. ClientOK'
  BY <1>0, <1>1 DEF Inv, ClientOK, Offering
<1>4. Onward /\ SelOK' /\ NoticesOK'
  BY <1>0, Still
<1> QED
  BY <1>0, <1>2, <1>3, <1>4, Frame DEF Inv

LEMMA StepPutExternal ==
  ASSUME Inv, PutExternal
  PROVE  Inv'
<1>0. /\ client.at = "putting" /\ client' = [at |-> "idle"]
      /\ \/ /\ Offer("clipboard", client.entry)
            /\ lastStored' = [lastStored EXCEPT !["clipboard"] = Slot(client.entry, heard["clipboard"])]
         \/ UNCHANGED <<sel, notices, lastStored>>
      /\ UNCHANGED <<backend, shell, gones, focus, queue, loop, history, generation, clearing,
                     lastRecall, clears, paused, heard, recalls, whims>>
  BY DEF PutExternal
<1>1. client.entry \in Entry /\ "clipboard" \in Selections
  BY <1>0, CopiesAssumption DEF Inv, ClientOK
<1>2. Onward /\ SelOK' /\ NoticesOK'
  BY <1>0, <1>1, OfferStep, Still
<1>3. SlotOK'
  <2>1. CASE UNCHANGED lastStored
    BY <1>0, <1>2, <2>1, Frame
  <2>2. CASE lastStored' = [lastStored EXCEPT !["clipboard"] = Slot(client.entry, heard["clipboard"])]
    <3>1. heard \in [Selections -> Nat] /\ client.entry \in SUBSET Parts
          /\ lastStored \in [Selections -> [entry : SUBSET Parts, turn : Nat]]
      BY <1>1 DEF Inv, SlotOK, Entry
    <3>2. /\ Slot(client.entry, heard["clipboard"]) \in [entry : SUBSET Parts, turn : Nat]
          /\ Slot(client.entry, heard["clipboard"]).turn = heard["clipboard"]
      BY <1>1, <3>1 DEF Slot
    <3>3. lastStored' \in [Selections -> [entry : SUBSET Parts, turn : Nat]]
          /\ lastStored'["clipboard"].turn = heard["clipboard"]
      BY <1>1, <2>2, <3>1, <3>2
    <3>4. \A s \in Selections : heard[s] <= sel'[s].turn
      <4>1. \A s \in Selections : sel[s].turn \in Nat /\ sel'[s].turn \in Nat /\ Later(sel[s], sel'[s])
        BY <1>2 DEF Inv, SelOK, Onward, Selected
      <4>2. \A s \in Selections : heard[s] \in Nat /\ heard[s] <= sel[s].turn
        BY DEF Inv, SlotOK
      <4> QED
        BY <4>1, <4>2 DEF Later
    <3> QED
      BY <1>0, <3>1, <3>3, <3>4 DEF SlotOK, RestoresOnlyTheLast
  <2> QED
    BY <1>0, <2>1, <2>2
<1> QED
  BY <1>0, <1>2, <1>3, IdleClient, Frame DEF Inv

LEMMA StepDelete ==
  ASSUME Inv, NEW e, Delete(e)
  PROVE  Inv'
<1>0. /\ history' = history \ {e}
      /\ UNCHANGED <<backend, shell, gones, sel, focus, notices, queue, loop, lastStored,
                     generation, clearing, lastRecall, client, clears, paused, heard, recalls>>
  BY DEF Delete
<1>1. Onward /\ SelOK' /\ NoticesOK'
  BY <1>0, Still
<1>2. HistoryOK'
  BY <1>0 DEF Inv, HistoryOK
<1> QED
  BY <1>0, <1>1, <1>2, Frame DEF Inv

-----------------------------------------------------------------------------
(* The delayed clears. *)

LEMMA TaskFacts ==
  ASSUME Inv, NEW t \in clears
  PROVE  /\ t \in Task /\ t.to \in Selections /\ GoodTask(backend, generation, heard[t.to], t)
         /\ t = [at |-> t.at, to |-> t.to, base |-> t.base, counted |-> t.counted, turn |-> t.turn,
                 armed |-> t.armed, fired |-> t.fired, seen |-> t.seen]
         /\ heard[t.to] \in Nat
<1>1. t \in Task /\ GoodTask(backend, generation, heard[t.to], t) /\ heard \in [Selections -> Nat]
  BY DEF Inv, ClearsOK, SlotOK
<1>2. t.to \in Selections
  BY <1>1 DEF Task
<1> QED
  BY <1>1, <1>2 DEF Task

LEMMA StepClearWakes ==
  ASSUME Inv, NEW t \in clears, ClearWakes(t)
  PROVE  Inv'
<1>u. PICK u : u = IF Untouched(t) THEN [t EXCEPT !.at = "clearing", !.fired = heard[t.to],
                                                  !.seen = gones]
                   ELSE [t EXCEPT !.at = "lapsed"]
  OBVIOUS
<1>0. /\ t.at = "sleeping" /\ clears' = (clears \ {t}) \cup {u}
      /\ clearing' = (clearing \/ Untouched(t))
      /\ UNCHANGED <<backend, shell, gones, sel, focus, notices, queue, loop, history,
                     lastStored, generation, lastRecall, client, paused, heard, recalls, whims>>
  BY <1>u DEF ClearWakes
<1>1. /\ t \in Task /\ t.to \in Selections /\ GoodTask(backend, generation, heard[t.to], t)
      /\ t = [at |-> t.at, to |-> t.to, base |-> t.base, counted |-> t.counted, turn |-> t.turn,
              armed |-> t.armed, fired |-> t.fired, seen |-> t.seen]
      /\ heard[t.to] \in Nat
  BY TaskFacts
<1>g. gones \in Nat
  BY DEF Inv, RestOK
<1>2. u \in Task /\ u.to = t.to /\ u.base = t.base /\ u.armed = t.armed
  BY <1>1, <1>g, <1>u DEF Task
<1>3. /\ u.at = "clearing" => Untouched(t) /\ u.fired = heard[t.to]
      /\ u.at # "sleeping"
  BY <1>1, <1>u DEF Task
<1>4. GoodTask(backend, generation, heard[u.to], u)
  BY <1>0, <1>1, <1>2, <1>3 DEF GoodTask, Untouched
<1>5. ClearsOK'
  BY <1>0, <1>2, <1>4 DEF Inv, ClearsOK
<1>6. clearing' \in BOOLEAN
  BY <1>0
<1>7. RestOK'
  BY <1>0, <1>6 DEF Inv, RestOK
<1>8. Onward /\ SelOK' /\ NoticesOK'
  BY <1>0, Still
<1> QED
  BY <1>0, <1>5, <1>7, <1>8, Frame DEF Inv

LEMMA StepClear ==
  ASSUME Inv, NEW t \in clears, Clear(t)
  PROVE  Inv'
<1>0. /\ clears' = clears \ {t}
      /\ \/ UNCHANGED <<sel, notices>>
         \/ ChangeSince(t.to, Empty(0), "cleared", t.seen)
         \/ ChangeSince(t.to, Empty(0), "null", t.seen)
      /\ UNCHANGED <<backend, shell, gones, focus, queue, loop, history, lastStored, generation,
                     clearing, lastRecall, client, paused, heard, recalls, whims>>
  BY DEF Clear
<1>1. t.to \in Selections /\ t.seen \in Nat
  BY TaskFacts DEF Task
<1>2. Onward /\ SelOK' /\ NoticesOK'
  BY <1>0, <1>1, EmptyFits, ChangeStep, Still DEF Kinds
<1>3. ClearsOK'
  BY <1>0 DEF Inv, ClearsOK
<1> QED
  BY <1>0, <1>2, <1>3, Frame DEF Inv

LEMMA StepClearFails ==
  ASSUME Inv, NEW t \in clears, ClearFails(t)
  PROVE  Inv'
<1>u. PICK u : u = [t EXCEPT !.at = "failed"]
  OBVIOUS
<1>0. /\ clears' = (clears \ {t}) \cup {u} /\ clearing' = FALSE
      /\ UNCHANGED <<backend, shell, gones, sel, focus, notices, queue, loop, history,
                     lastStored, generation, lastRecall, client, paused, heard, recalls, whims>>
  BY <1>u DEF ClearFails
<1>1. t \in Task /\ GoodTask(backend, generation, heard[t.to], t)
  BY TaskFacts
<1>2. u \in Task /\ u.to = t.to /\ u.base = t.base /\ u.at = "failed"
  BY <1>1, <1>u DEF Task
<1>3. GoodTask(backend, generation, heard[u.to], u)
  BY <1>1, <1>2 DEF GoodTask
<1>4. ClearsOK'
  BY <1>0, <1>2, <1>3 DEF Inv, ClearsOK
<1>5. clearing' \in BOOLEAN
  BY <1>0
<1>6. RestOK'
  BY <1>0, <1>5 DEF Inv, RestOK
<1>7. Onward /\ SelOK' /\ NoticesOK'
  BY <1>0, Still
<1> QED
  BY <1>0, <1>4, <1>6, <1>7, Frame DEF Inv

-----------------------------------------------------------------------------
(* The theorems. *)

LEMMA InvInit == Init => Inv
<1> SUFFICES ASSUME Init PROVE Inv
  OBVIOUS
<1>0. /\ backend \in Desktops /\ sel = [s \in Selections |-> Empty(0)]
      /\ focus = CHOOSE c \in Copies : c \notin Excluded
      /\ notices = [s \in Selections |-> <<>>] /\ queue = notices
      /\ loop = Idle /\ history = {} /\ lastStored = [s \in Selections |-> Free]
      /\ generation = 0 /\ clearing = FALSE /\ client = [at |-> "idle"] /\ clears = {}
      /\ paused = FALSE /\ heard = [s \in Selections |-> 0] /\ shell = {} /\ gones = 0
  BY DEF Init, InitWith
<1>1. focus \in Copies
  <2>1. \E c \in Copies : c \notin Excluded
    BY CopiesAssumption
  <2> QED
    BY <1>0, <2>1
<1>2. clearing \in BOOLEAN /\ paused \in BOOLEAN
  BY <1>0
<1>3. RestOK
  BY <1>0, <1>1, <1>2 DEF RestOK
<1>4. SelOK
  BY <1>0, EmptyFits DEF SelOK
<1>5. NoticesOK /\ QueueOK
  BY <1>0 DEF NoticesOK, QueueOK
<1>6. LoopOK
  BY <1>0 DEF LoopOK, Idle
<1>7. SlotOK
  <2>1. Free \in [entry : SUBSET Parts, turn : Nat]
    BY DEF Free, Slot, None
  <2>2. \A s \in Selections : sel[s].turn = 0 /\ heard[s] = 0
    BY <1>0 DEF Empty
  <2>3. RestoresOnlyTheLast
    BY <1>0, CopiesAssumption DEF RestoresOnlyTheLast
  <2> QED
    BY <1>0, <2>1, <2>2, <2>3 DEF SlotOK
<1>8. HistoryOK /\ ClearsOK /\ ShellOK
  BY <1>0 DEF HistoryOK, ClearsOK, ShellOK
<1>9. ClientOK
  BY <1>0 DEF ClientOK, Offering
<1> QED
  BY <1>3, <1>4, <1>5, <1>6, <1>7, <1>8, <1>9 DEF Inv

LEMMA InvStep == Inv /\ [Next]_vars => Inv'
<1> SUFFICES ASSUME Inv, [Next]_vars PROVE Inv'
  OBVIOUS
<1>1. ASSUME NEW s \in Selections, NEW c \in Copies, Copy(s, c) PROVE Inv'
  BY <1>1, StepCopy
<1>2. ASSUME NEW s \in Selections, Exit(s) \/ Empties(s) \/ Watch(s) \/ BridgeCapture(s)
      PROVE  Inv'
  BY <1>2, StepEmptied, StepWatch, StepBridgeCapture
<1>b. ASSUME NEW r \in shell, BridgeRead(r) PROVE Inv'
  BY <1>b, StepBridgeRead
<1>3. ASSUME NEW s \in Selections, HandleChanged(s) \/ HandleOwnerGone(s) PROVE Inv'
  BY <1>3, StepHandleChanged, StepHandleOwnerGone
<1>4. ASSUME NEW s \in Selections, NEW e \in history, Recall(e, s) PROVE Inv'
  BY <1>4, StepRecall
<1>5. CASE Read \/ ReadCut \/ Recheck \/ Store \/ Refill \/ HandleGnomeData
  BY <1>5, StepRead, StepReadCut, StepRecheck, StepStore, StepRefill, StepHandleGnomeData
<1>6. CASE RecallOffer \/ RecallCounted \/ Paste \/ EchoWindowEnds \/ Pause \/ PutExternal
  BY <1>6, StepRecallOffer, StepRecallCounted, StepPaste, StepPause, StepPutExternal
<1>7. ASSUME NEW c \in Copies, NEW copy \in BOOLEAN, StoreExternal(c, copy) PROVE Inv'
  BY <1>7, StepStoreExternal
<1>8. ASSUME NEW t \in clears, ClearWakes(t) \/ Clear(t) \/ ClearFails(t) PROVE Inv'
  BY <1>8, StepClearWakes, StepClear, StepClearFails
<1>9. ASSUME NEW e \in history, Delete(e) PROVE Inv'
  BY <1>9, StepDelete
<1>10. CASE UNCHANGED vars
  <2>1. UNCHANGED <<backend, shell, gones, sel, focus, notices, queue, loop, history, lastStored,
                    generation, clearing, client, clears, paused, heard>>
    BY <1>10 DEF vars
  <2>2. Onward /\ SelOK' /\ NoticesOK'
    BY <2>1, Still
  <2> QED
    BY <2>1, <2>2, Frame DEF Inv
<1> QED
  BY <1>1, <1>2, <1>3, <1>4, <1>5, <1>6, <1>7, <1>8, <1>9, <1>10, <1>b DEF Next

(* The invariant: every event that waits or is being read says what the    *)
(* selection offered at its turn, whatever applications, watchers and      *)
(* clients do in between.                                                  *)
THEOREM InvHolds == Spec => []Inv
BY InvInit, InvStep, PTL DEF Spec

(* Type correctness: no entry is stored empty (handle_event and            *)
(* store_external return before), and no event is ahead of the clipboard.  *)
THEOREM TypeCorrect == Spec => []TypeOK
<1>1. Inv => TypeOK
  <2> SUFFICES ASSUME Inv PROVE TypeOK
    OBVIOUS
  <2>1. /\ backend \in Desktops /\ focus \in Copies
        /\ generation \in Nat /\ clearing \in BOOLEAN /\ paused \in BOOLEAN /\ gones \in Nat
    BY DEF Inv, RestOK
  <2>2. ASSUME NEW s \in Selections
        PROVE  /\ sel[s].by \in Copies \cup {"nobody", "panod"} /\ sel[s].parts \subseteq Parts
               /\ sel[s].by = "nobody" => sel[s].parts = {}
               /\ sel[s].turn \in Nat /\ heard[s] \in 0 .. sel[s].turn
               /\ lastStored[s].entry \subseteq Parts
    <3>1. sel[s] \in Selected /\ GoodSelected(sel[s])
      BY DEF Inv, SelOK
    <3>2. lastStored[s] \in [entry : SUBSET Parts, turn : Nat] /\ heard[s] \in Nat
          /\ heard[s] <= sel[s].turn
      BY DEF Inv, SlotOK
    <3> QED
      BY <3>1, <3>2 DEF Selected, GoodSelected
  <2>3. history \subseteq (SUBSET Parts) \ {None}
    BY DEF Inv, HistoryOK, Entry
  <2>4. /\ loop.at \in {"idle", "reading", "storing", "refilling"}
        /\ loop.at = "storing" => loop.got # {}
    BY DEF Inv, LoopOK, GoodStoring, Entry, None
  <2>5. client.at \in {"idle", "offering", "offered", "pasting", "putting"}
    BY DEF Inv, ClientOK, Offering
  <2>6. \A t \in clears : t.at \in {"sleeping", "clearing", "lapsed", "failed"}
    BY DEF Inv, ClearsOK, Task
  <2>7. \A r \in shell : r.todo # <<>> /\ r.got \subseteq Parts
    BY DEF Inv, ShellOK, Glance
  <2> QED
    BY <2>1, <2>2, <2>3, <2>4, <2>5, <2>6, <2>7 DEF TypeOK
<1> QED
  BY <1>1, InvHolds, PTL

(* The second look at the MIME list (handle_event, on X11 and Wayland): of *)
(* a marked secret, or of a payload cut short, nothing is stored unless    *)
(* the owner changed twice within the capture or the list could not be     *)
(* read again.                                                             *)
THEOREM SecondLookSuffices == Spec => []SecondLook
<1>1. Inv => SecondLook
  BY DEF Inv, LoopOK, GoodStoring, Fits, SecondLook
<1> QED
  BY <1>1, InvHolds, PTL

(* persist_after_owner_gone puts back nothing but the entry of the very    *)
(* last change the daemon was told of.                                     *)
THEOREM OnlyTheLastIsRestored == Spec => []RestoresOnlyTheLast
<1>1. Inv => RestoresOnlyTheLast
  BY DEF Inv, SlotOK
<1> QED
  BY <1>1, InvHolds, PTL

-----------------------------------------------------------------------------
(* The mark of a delayed clear.  It stands until the daemon handles an     *)
(* emptied selection or a clear fails, and every clear under way, every    *)
(* report of one and every event of one was marked before.                 *)

Failed == \E t \in clears : t.at = "failed"

Covers(g, c, f, n) == n <= g /\ (c \/ g > n \/ f)

Covered(n) == Covers(gones, clearing, Failed, n)

CoveredNext(n) == Covers(gones', clearing', Failed', n)

MarksOK ==
    /\ \A t \in clears : t.at = "clearing" => Covered(t.seen)
    /\ \A s \in Selections : \A i \in 1..Len(notices[s]) :
          notices[s][i].kind = "cleared" => Covered(notices[s][i].since)
    /\ \A s \in Selections : \A i \in 1..Len(queue[s]) :
          queue[s][i].kind = "gone" /\ queue[s][i].why = "cleared" => Covered(queue[s][i].since)
    /\ ClearIsFinal

(* Where the clears, notices, events and the refill of the next state come *)
(* from.                                                                   *)
OldTasks == \A t \in clears' : t.at = "clearing" => t \in clears

OldNotices ==
    \A s \in Selections : \A i \in 1..Len(notices'[s]) :
        notices'[s][i].kind = "cleared" =>
            \/ \E j \in 1..Len(notices[s]) : notices[s][j] = notices'[s][i]
            \/ \E t \in clears : t.at = "clearing" /\ t.seen = notices'[s][i].since

OldEvents ==
    \A s \in Selections : \A i \in 1..Len(queue'[s]) :
        queue'[s][i].kind = "gone" /\ queue'[s][i].why = "cleared" =>
            \/ \E j \in 1..Len(queue[s]) : queue[s][j] = queue'[s][i]
            \/ \E j \in 1..Len(notices[s]) : /\ notices[s][j].kind = "cleared"
                                             /\ notices[s][j].since = queue'[s][i].since

LEMMA NoteFacts ==
  ASSUME Inv, NEW s \in Selections
  PROVE  /\ notices[s] \in Seq(Note) /\ queue[s] \in Seq(Event)
         /\ \A i \in 1..Len(notices[s]) : notices[s][i] \in Note /\ notices[s][i].since \in Nat
         /\ \A i \in 1..Len(queue[s]) :
               queue[s][i] \in Event /\ (queue[s][i].kind = "gone" => queue[s][i].since \in Nat)
<1>1. notices[s] \in Seq(Note) /\ queue[s] \in Seq(Event)
  BY DEF Inv, NoticesOK, QueueOK
<1>2. \A n \in Note : n.since \in Nat
  BY DEF Note
<1>3. \A e \in Event : e.kind = "gone" => e.since \in Nat
  BY EventFacts DEF GoneEvent
<1> QED
  BY <1>1, <1>2, <1>3

LEMMA TaskSeen ==
  ASSUME Inv, NEW t \in clears
  PROVE  t.seen \in Nat
BY TaskFacts DEF Task

(* What is covered stays so, and all that has to be covered was before. *)
LEMMA MarksLast ==
  ASSUME Inv, MarksOK, \A n \in Nat : Covered(n) => CoveredNext(n),
         \A t \in clears' : t.at = "clearing" => t \in clears \/ CoveredNext(t.seen),
         OldNotices, OldEvents, ClearIsFinal'
  PROVE  MarksOK'
<1>1. \A t \in clears' : t.at = "clearing" => CoveredNext(t.seen)
  BY TaskSeen DEF MarksOK
<1>2. ASSUME NEW s \in Selections, NEW i \in 1..Len(notices'[s]), notices'[s][i].kind = "cleared"
      PROVE  CoveredNext(notices'[s][i].since)
  <2>n. PICK n : n = notices'[s][i].since
    OBVIOUS
  <2>1. n \in Nat /\ Covered(n)
    BY <1>2, <2>n, NoteFacts, TaskSeen DEF MarksOK, OldNotices
  <2> QED
    BY <2>1, <2>n
<1>3. ASSUME NEW s \in Selections, NEW i \in 1..Len(queue'[s]),
             queue'[s][i].kind = "gone", queue'[s][i].why = "cleared"
      PROVE  CoveredNext(queue'[s][i].since)
  <2>n. PICK n : n = queue'[s][i].since
    OBVIOUS
  <2>1. \/ \E j \in 1..Len(queue[s]) : queue[s][j] = queue'[s][i]
        \/ \E j \in 1..Len(notices[s]) : notices[s][j].kind = "cleared" /\ notices[s][j].since = n
    BY <1>3, <2>n DEF OldEvents
  <2>2. ASSUME NEW j \in 1..Len(queue[s]), queue[s][j] = queue'[s][i]
        PROVE  n \in Nat /\ Covered(n)
    BY <1>3, <2>2, <2>n, NoteFacts DEF MarksOK
  <2>3. ASSUME NEW j \in 1..Len(notices[s]), notices[s][j].kind = "cleared",
               notices[s][j].since = n
        PROVE  n \in Nat /\ Covered(n)
    BY <2>3, NoteFacts DEF MarksOK
  <2>4. n \in Nat /\ Covered(n)
    BY <2>1, <2>2, <2>3
  <2> QED
    BY <2>4, <2>n
<1> QED
  BY <1>1, <1>2, <1>3 DEF MarksOK, Covered, CoveredNext

LEMMA QuietStep ==
  ASSUME Inv, MarksOK, Failed => Failed', UNCHANGED <<gones, clearing>>, OldTasks,
         OldNotices, OldEvents, UNCHANGED loop \/ loop'.at # "refilling"
  PROVE  MarksOK'
<1>1. \A n \in Nat : Covered(n) => CoveredNext(n)
  BY DEF Covered, CoveredNext, Covers
<1>2. ClearIsFinal'
  BY DEF MarksOK, ClearIsFinal, Failed
<1> QED
  BY <1>1, <1>2, MarksLast DEF OldTasks

LEMMA SameTasks ==
  ASSUME UNCHANGED clears
  PROVE  OldTasks /\ (Failed => Failed')
BY DEF OldTasks, Failed

LEMMA SameNotices ==
  ASSUME UNCHANGED notices
  PROVE  OldNotices
BY DEF OldNotices

LEMMA SameEvents ==
  ASSUME UNCHANGED queue
  PROVE  OldEvents
BY DEF OldEvents

LEMMA FewerNotices ==
  ASSUME Inv, NEW s \in Selections, notices[s] # <<>>, notices' = [notices EXCEPT ![s] = Tail(@)]
  PROVE  OldNotices
<1>1. notices \in [Selections -> Seq(Note)] /\ notices[s] \in Seq(Note)
  BY DEF Inv, NoticesOK
<1>2. notices'[s] = Tail(notices[s]) /\ \A q \in Selections : q # s => notices'[q] = notices[q]
  BY <1>1
<1>3. \A i \in 1..Len(notices'[s]) : i + 1 \in 1..Len(notices[s]) /\ notices'[s][i] = notices[s][i + 1]
  BY <1>1, <1>2
<1> QED
  BY <1>2, <1>3 DEF OldNotices

LEMMA FewerEvents ==
  ASSUME Inv, NEW s \in Selections, Take(s)
  PROVE  OldEvents
<1>0. queue[s] # <<>> /\ queue' = [queue EXCEPT ![s] = Tail(@)]
  BY DEF Take
<1>1. queue \in [Selections -> Seq(Event)] /\ queue[s] \in Seq(Event)
  BY DEF Inv, QueueOK
<1>2. queue'[s] = Tail(queue[s]) /\ \A q \in Selections : q # s => queue'[q] = queue[q]
  BY <1>0, <1>1
<1>3. \A i \in 1..Len(queue'[s]) : i + 1 \in 1..Len(queue[s]) /\ queue'[s][i] = queue[s][i + 1]
  BY <1>0, <1>1, <1>2
<1>4. ASSUME NEW q \in Selections, NEW i \in 1..Len(queue'[q])
      PROVE  \E j \in 1..Len(queue[q]) : queue[q][j] = queue'[q][i]
  BY <1>2, <1>3
<1> QED
  BY <1>4 DEF OldEvents

LEMMA ChangeNotices ==
  ASSUME Inv, NEW s \in Selections, NEW x, NEW kind, NEW since, ChangeSince(s, x, kind, since),
         kind = "cleared" => \E t \in clears : t.at = "clearing" /\ t.seen = since
  PROVE  OldNotices
<1>n. PICK n : n = [kind |-> kind, of |-> [x EXCEPT !.turn = sel[s].turn + 1], since |-> since]
  OBVIOUS
<1>0. notices' = [notices EXCEPT ![s] = Append(@, n)] /\ n.kind = kind /\ n.since = since
  BY <1>n DEF ChangeSince
<1>1. notices \in [Selections -> Seq(Note)] /\ notices[s] \in Seq(Note)
  BY DEF Inv, NoticesOK
<1>2. notices'[s] = Append(notices[s], n)
      /\ \A q \in Selections : q # s => notices'[q] = notices[q]
  BY <1>0, <1>1
<1>3. \A i \in 1..Len(notices'[s]) :
         (i \in 1..Len(notices[s]) /\ notices'[s][i] = notices[s][i]) \/ notices'[s][i] = n
  BY <1>1, <1>2
<1> QED
  BY <1>0, <1>2, <1>3 DEF OldNotices

LEMMA OfferNotices ==
  ASSUME Inv, NEW s \in Selections, NEW e, Offer(s, e)
  PROVE  OldNotices
<1>1. \E x : ChangeSince(s, x, "set", 0)
  BY DEF Offer, Change
<1> QED
  BY <1>1, ChangeNotices

LEMMA MarkWatch ==
  ASSUME Inv, MarksOK, NEW s \in Selections, Watch(s)
  PROVE  MarksOK'
<1>0. /\ notices[s] # <<>> /\ notices' = [notices EXCEPT ![s] = Tail(@)]
      /\ UNCHANGED <<gones, clearing, clears, loop>>
  BY DEF Watch
<1>n. PICK n : n = Head(notices[s])
  OBVIOUS
<1>1. PICK es : /\ es \in X11Event(s, n) \/ es \in WaylandEvent(n)
                /\ queue' = [queue EXCEPT ![s] = @ \o es]
  BY <1>n DEF Watch
<1>2. queue \in [Selections -> Seq(Event)] /\ queue[s] \in Seq(Event)
      /\ notices[s] \in Seq(Note)
  BY DEF Inv, QueueOK, NoticesOK
<1>3. 1 \in 1..Len(notices[s]) /\ notices[s][1] = n
  BY <1>0, <1>2, <1>n
<1>4. \/ es = <<>>
      \/ \E e : es = <<e>> /\ (e.kind = "gone" => e.why = n.kind /\ e.since = n.since)
  <2>1. es = <<>> \/ es = <<OwnerGone(n)>> \/ \E x : es = <<Changed(x)>>
    BY <1>1 DEF X11Event, WaylandEvent, Offers
  <2>2. OwnerGone(n).why = n.kind /\ OwnerGone(n).since = n.since
    BY DEF OwnerGone
  <2>3. \A x : Changed(x).kind # "gone"
    BY DEF Changed
  <2> QED
    BY <2>1, <2>2, <2>3
<1>5. OldEvents
  <2>1. CASE es = <<>>
    <3>1. queue' = queue
      BY <1>1, <1>2, <2>1
    <3> QED
      BY <3>1, SameEvents
  <2>2. ASSUME NEW e, es = <<e>>, e.kind = "gone" => e.why = n.kind /\ e.since = n.since
        PROVE  OldEvents
    <3>1. queue'[s] = queue[s] \o <<e>> /\ \A q \in Selections : q # s => queue'[q] = queue[q]
      BY <1>1, <1>2, <2>2
    <3>2. \A i \in 1..Len(queue'[s]) :
             (i \in 1..Len(queue[s]) /\ queue'[s][i] = queue[s][i]) \/ queue'[s][i] = e
      BY <1>2, <3>1
    <3>3. ASSUME NEW q \in Selections, NEW i \in 1..Len(queue'[q]),
                 queue'[q][i].kind = "gone", queue'[q][i].why = "cleared"
          PROVE  \/ \E j \in 1..Len(queue[q]) : queue[q][j] = queue'[q][i]
                 \/ \E j \in 1..Len(notices[q]) : /\ notices[q][j].kind = "cleared"
                                                  /\ notices[q][j].since = queue'[q][i].since
      <4>1. CASE q # s
        BY <3>1, <4>1
      <4>2. CASE q = s /\ queue'[s][i] = e
        BY <1>3, <2>2, <3>3, <4>2
      <4>3. CASE q = s /\ i \in 1..Len(queue[s]) /\ queue'[s][i] = queue[s][i]
        BY <4>3
      <4> QED
        BY <3>2, <4>1, <4>2, <4>3
    <3> QED
      BY <3>3 DEF OldEvents
  <2> QED
    BY <1>4, <2>1, <2>2
<1> QED
  BY <1>0, <1>5, FewerNotices, SameTasks, QuietStep

LEMMA MarkOwnerGone ==
  ASSUME Inv, MarksOK, NEW s \in Selections, HandleOwnerGone(s)
  PROVE  MarksOK'
<1>e. PICK e : e = Head(queue[s])
  OBVIOUS
<1>0. /\ Take(s) /\ e.kind = "gone" /\ gones' = gones + 1 /\ UNCHANGED <<notices, clears>>
      /\ \/ loop' = Idle
         \/ ~clearing /\ \E x : loop' = [at |-> "refilling", entry |-> x, why |-> e.why,
                                         since |-> e.since]
  BY <1>e DEF HandleOwnerGone, Restores
<1>1. gones \in Nat
  BY DEF Inv, RestOK
<1>2. \A n \in Nat : Covered(n) => CoveredNext(n)
  BY <1>0, <1>1 DEF Covered, CoveredNext, Covers
<1>3. 1 \in 1..Len(queue[s]) /\ queue[s][1] = e /\ e.since \in Nat
  <2>1. queue[s] # <<>> /\ queue[s] \in Seq(Event)
    BY <1>0, NoteFacts DEF Take
  <2>2. 1 \in 1..Len(queue[s]) /\ queue[s][1] = e
    BY <1>e, <2>1
  <2> QED
    BY <1>0, <2>2, NoteFacts
<1>4. e.why = "cleared" => Covered(e.since)
  BY <1>0, <1>3 DEF MarksOK
<1>5. ClearIsFinal'
  <2>1. CASE loop' = Idle
    BY <2>1 DEF ClearIsFinal, Idle
  <2>2. CASE ~clearing /\ \E x : loop' = [at |-> "refilling", entry |-> x, why |-> e.why,
                                           since |-> e.since]
    <3>1. loop'.why = e.why /\ loop'.since = e.since
      BY <2>2
    <3>2. e.why = "cleared" => gones + 1 > e.since + 1 \/ Failed
      BY <1>1, <1>3, <1>4, <2>2 DEF Covered, CoveredNext, Covers
    <3> QED
      BY <1>0, <3>1, <3>2 DEF ClearIsFinal, Failed
  <2> QED
    BY <1>0, <2>1, <2>2
<1> QED
  BY <1>0, <1>2, <1>5, MarksLast, FewerEvents, SameNotices

LEMMA MarkClearWakes ==
  ASSUME Inv, MarksOK, NEW t \in clears, ClearWakes(t)
  PROVE  MarksOK'
<1>u. PICK u : u = IF Untouched(t) THEN [t EXCEPT !.at = "clearing", !.fired = heard[t.to],
                                                  !.seen = gones]
                   ELSE [t EXCEPT !.at = "lapsed"]
  OBVIOUS
<1>0. /\ t.at = "sleeping" /\ clears' = (clears \ {t}) \cup {u}
      /\ clearing' = (clearing \/ Untouched(t))
      /\ UNCHANGED <<gones, notices, queue, loop>>
  BY <1>u DEF ClearWakes
<1>1. gones \in Nat
  BY DEF Inv, RestOK
<1>2. t = [at |-> t.at, to |-> t.to, base |-> t.base, counted |-> t.counted, turn |-> t.turn,
           armed |-> t.armed, fired |-> t.fired, seen |-> t.seen]
  BY TaskFacts
<1>3. u.at = "clearing" => Untouched(t) /\ u.seen = gones
  BY <1>2, <1>u
<1>4. Failed => Failed'
  BY <1>0 DEF Failed
<1>5. \A n \in Nat : Covered(n) => CoveredNext(n)
  BY <1>0, <1>4 DEF Covered, CoveredNext, Covers
<1>6. u.at = "clearing" => CoveredNext(u.seen)
  <2>1. ASSUME u.at = "clearing" PROVE clearing' /\ u.seen = gones'
    BY <1>0, <1>3, <2>1
  <2> QED
    BY <1>0, <1>1, <2>1 DEF Covered, CoveredNext, Covers
<1>7. ClearIsFinal'
  BY <1>0, <1>4 DEF MarksOK, ClearIsFinal, Failed
<1> QED
  BY <1>0, <1>5, <1>6, <1>7, MarksLast, SameNotices, SameEvents

LEMMA MarkClear ==
  ASSUME Inv, MarksOK, NEW t \in clears, Clear(t)
  PROVE  MarksOK'
<1>0. /\ t.at = "clearing" /\ clears' = clears \ {t}
      /\ \/ UNCHANGED notices
         \/ \E kind : ChangeSince(t.to, Empty(0), kind, t.seen)
      /\ UNCHANGED <<gones, clearing, queue, loop>>
  BY DEF Clear
<1>1. t.to \in Selections
  BY TaskFacts
<1>2. OldTasks /\ (Failed => Failed')
  BY <1>0 DEF OldTasks, Failed
<1>3. OldNotices
  BY <1>0, <1>1, ChangeNotices, SameNotices
<1> QED
  BY <1>0, <1>2, <1>3, QuietStep, SameEvents

LEMMA MarkClearFails ==
  ASSUME Inv, MarksOK, NEW t \in clears, ClearFails(t)
  PROVE  MarksOK'
<1>u. PICK u : u = [t EXCEPT !.at = "failed"]
  OBVIOUS
<1>0. /\ clears' = (clears \ {t}) \cup {u} /\ UNCHANGED <<gones, notices, queue, loop>>
  BY <1>u DEF ClearFails
<1>1. u.at = "failed"
  BY <1>u, TaskFacts DEF Task
<1>2. Failed'
  BY <1>0, <1>1 DEF Failed
<1>3. \A n \in Nat : Covered(n) => CoveredNext(n)
  BY <1>0, <1>2 DEF Covered, CoveredNext, Covers
<1>4. ClearIsFinal'
  BY <1>2 DEF ClearIsFinal, Failed
<1>5. \A q \in clears' : q.at = "clearing" => q \in clears
  BY <1>0, <1>1
<1> QED
  BY <1>0, <1>3, <1>4, <1>5, MarksLast, SameNotices, SameEvents

(* Steps that change a selection and nothing of the clears. *)
LEMMA MarkChange ==
  ASSUME Inv, MarksOK, NEW s \in Selections,
         \E c \in Copies : Copy(s, c) \/ Exit(s) \/ Empties(s)
  PROVE  MarksOK'
<1>1. /\ UNCHANGED <<gones, clearing, clears, queue, loop>>
      /\ \E x, kind : kind # "cleared" /\ ChangeSince(s, x, kind, 0)
  BY DEF Copy, Exit, Empties, Change
<1>2. OldNotices
  BY <1>1, ChangeNotices
<1> QED
  BY <1>1, <1>2, QuietStep, SameTasks, SameEvents

LEMMA MarkReadCut ==
  ASSUME Inv, MarksOK, ReadCut
  PROVE  MarksOK'
<1>1. /\ loop.at = "reading" /\ UNCHANGED <<gones, clearing, clears, queue>>
      /\ ChangeSince(loop.of, Empty(0), "gone", 0)
      /\ \E g, f : loop' = [loop EXCEPT !.todo = Tail(@), !.got = g, !.fresh = f]
  BY DEF ReadCut, Change
<1>2. IsReading(loop) /\ loop.of \in Selections
  BY <1>1 DEF Inv, LoopOK, IsReading
<1>3. loop'.at = "reading"
  BY <1>1, <1>2 DEF IsReading
<1>4. OldNotices
  BY <1>1, <1>2, ChangeNotices
<1> QED
  BY <1>1, <1>3, <1>4, QuietStep, SameTasks, SameEvents

LEMMA MarkRead ==
  ASSUME Inv, MarksOK, Read \/ Recheck \/ Store
  PROVE  MarksOK'
<1>1. UNCHANGED <<gones, clearing, clears, queue, notices>>
  BY DEF Read, Recheck, Store
<1>2. loop'.at # "refilling"
  <2>1. CASE Read
    <3>1. loop.at = "reading" /\ IsReading(loop)
      BY <2>1 DEF Read, Inv, LoopOK
    <3>2. \E g, f : loop' = Idle \/ loop' = [loop EXCEPT !.todo = Tail(@)]
                    \/ loop' = [[loop EXCEPT !.todo = Tail(@)] EXCEPT !.got = g, !.fresh = f]
      BY <2>1 DEF Read, After
    <3>3. PICK o, e, t, a, b : loop = [at |-> "reading", of |-> o, event |-> e, todo |-> t,
                                       got |-> a, fresh |-> b]
      BY <3>1 DEF IsReading
    <3>r. PICK rest : rest = [loop EXCEPT !.todo = Tail(@)]
      OBVIOUS
    <3>4. rest = [at |-> "reading", of |-> o, event |-> e, todo |-> Tail(t), got |-> a, fresh |-> b]
      BY <3>3, <3>r
    <3>5. rest.at = "reading"
      BY <3>4
    <3>7. ASSUME NEW g, NEW f, loop' = [rest EXCEPT !.got = g, !.fresh = f]
          PROVE  loop'.at = "reading"
      BY <3>4, <3>7
    <3>6. loop' = Idle \/ loop' = rest \/ \E g, f : loop' = [rest EXCEPT !.got = g, !.fresh = f]
      BY <3>2, <3>r
    <3>8. loop' = Idle \/ loop' = rest \/ loop'.at = "reading"
      BY <3>6, <3>7
    <3> QED
      BY <3>5, <3>8 DEF Idle
  <2>2. CASE Recheck
    BY <2>2 DEF Recheck, Idle
  <2>3. CASE Store
    BY <2>3 DEF Store, Idle
  <2> QED
    BY <2>1, <2>2, <2>3
<1> QED
  BY <1>1, <1>2, QuietStep, SameTasks, SameNotices, SameEvents

LEMMA MarkOffer ==
  ASSUME Inv, MarksOK, Refill \/ RecallOffer \/ PutExternal
  PROVE  MarksOK'
<1>1. /\ UNCHANGED <<gones, clearing, clears, queue>> /\ (UNCHANGED loop \/ loop' = Idle)
      /\ \/ \E e : Offer("clipboard", e)
         \/ client.at = "offering" /\ \E e : Offer(client.to, e)
         \/ UNCHANGED notices
  BY DEF Refill, RecallOffer, PutExternal
<1>2. /\ "clipboard" \in Selections
      /\ client.at = "offering" => client.to \in Selections
  BY CopiesAssumption DEF Inv, ClientOK, Offering
<1>3. OldNotices
  BY <1>1, <1>2, OfferNotices, SameNotices
<1>4. UNCHANGED loop \/ loop'.at # "refilling"
  BY <1>1 DEF Idle
<1> QED
  BY <1>1, <1>3, <1>4, QuietStep, SameTasks, SameEvents

LEMMA MarkTake ==
  ASSUME Inv, MarksOK, NEW s \in Selections, HandleChanged(s) \/ HandleGnomeData
  PROVE  MarksOK'
<1>1. /\ Take(s) \/ Take("clipboard")
      /\ UNCHANGED <<gones, clearing, clears, notices>>
      /\ loop'.at # "refilling"
  BY DEF HandleChanged, HandleGnomeData, Idle
<1>2. OldEvents
  BY <1>1, FewerEvents, CopiesAssumption
<1> QED
  BY <1>1, <1>2, QuietStep, SameTasks, SameNotices

LEMMA MarkBridge ==
  ASSUME Inv, MarksOK, \/ \E s \in Selections : BridgeCapture(s)
                       \/ \E r \in shell : BridgeRead(r)
  PROVE  MarksOK'
<1>1. ASSUME NEW s \in Selections, BridgeCapture(s) PROVE MarksOK'
  <2>1. /\ notices[s] # <<>> /\ notices' = [notices EXCEPT ![s] = Tail(@)]
        /\ UNCHANGED <<gones, clearing, clears, queue, loop>>
    BY <1>1 DEF BridgeCapture
  <2> QED
    BY <2>1, FewerNotices, QuietStep, SameTasks, SameEvents
<1>2. ASSUME NEW r \in shell, BridgeRead(r) PROVE MarksOK'
  <2>1. /\ UNCHANGED <<gones, clearing, clears, notices, loop>>
        /\ \/ UNCHANGED queue
           \/ \E g : queue' = [queue EXCEPT !["clipboard"] = Append(@, Pushed(r, g))]
    BY <1>2 DEF BridgeRead
  <2>2. ASSUME NEW e, e.kind = "changed", queue' = [queue EXCEPT !["clipboard"] = Append(@, e)]
        PROVE  OldEvents
    <3>1. "clipboard" \in Selections /\ queue \in [Selections -> Seq(Event)]
      BY CopiesAssumption DEF Inv, QueueOK
    <3>2. queue'["clipboard"] = Append(queue["clipboard"], e)
          /\ \A q \in Selections : q # "clipboard" => queue'[q] = queue[q]
      BY <2>2, <3>1
    <3>3. \A i \in 1..Len(queue'["clipboard"]) :
             \/ i \in 1..Len(queue["clipboard"]) /\ queue'["clipboard"][i] = queue["clipboard"][i]
             \/ queue'["clipboard"][i] = e
      BY <3>1, <3>2
    <3> QED
      BY <2>2, <3>2, <3>3 DEF OldEvents
  <2>3. \A g : Pushed(r, g).kind = "changed"
    BY DEF Pushed
  <2>4. OldEvents
    BY <2>1, <2>2, <2>3, SameEvents
  <2> QED
    BY <2>1, <2>4, QuietStep, SameTasks, SameNotices
<1> QED
  BY <1>1, <1>2

LEMMA MarkRest ==
  ASSUME Inv, MarksOK,
         \/ RecallCounted \/ Paste \/ EchoWindowEnds \/ Pause \/ UNCHANGED vars
         \/ \E s \in Selections, e \in history : Recall(e, s)
         \/ \E c \in Copies, copy \in BOOLEAN : StoreExternal(c, copy)
         \/ \E e \in history : Delete(e)
  PROVE  MarksOK'
<1>1. /\ UNCHANGED <<gones, clearing, queue, notices, loop>>
      /\ clears' = clears \/ \E u : u.at = "sleeping" /\ clears' = clears \cup {u}
  BY DEF RecallCounted, Paste, EchoWindowEnds, Pause, vars, Recall, StoreExternal, Delete
<1>2. OldTasks /\ (Failed => Failed')
  BY <1>1 DEF OldTasks, Failed
<1> QED
  BY <1>1, <1>2, QuietStep, SameNotices, SameEvents

LEMMA MarksStep == Inv /\ MarksOK /\ [Next]_vars => MarksOK'
<1> SUFFICES ASSUME Inv, MarksOK, [Next]_vars PROVE MarksOK'
  OBVIOUS
<1>c. "clipboard" \in Selections
  BY CopiesAssumption
<1>1. ASSUME NEW s \in Selections, NEW c \in Copies, Copy(s, c) PROVE MarksOK'
  BY <1>1, MarkChange
<1>2. ASSUME NEW s \in Selections, Exit(s) \/ Empties(s) PROVE MarksOK'
  <2>1. \E c \in Copies : TRUE
    BY CopiesAssumption
  <2> QED
    BY <1>2, <2>1, MarkChange
<1>3. ASSUME NEW s \in Selections, Watch(s) \/ BridgeCapture(s) \/ HandleChanged(s)
                                    \/ HandleOwnerGone(s)
      PROVE  MarksOK'
  BY <1>3, MarkWatch, MarkBridge, MarkTake, MarkOwnerGone
<1>4. ASSUME NEW r \in shell, BridgeRead(r) PROVE MarksOK'
  BY <1>4, MarkBridge
<1>5. CASE Read \/ ReadCut \/ Recheck \/ Store
  BY <1>5, MarkRead, MarkReadCut
<1>6. CASE Refill \/ HandleGnomeData \/ RecallOffer \/ PutExternal
  BY <1>6, <1>c, MarkOffer, MarkTake
<1>7. ASSUME NEW t \in clears, ClearWakes(t) \/ Clear(t) \/ ClearFails(t) PROVE MarksOK'
  BY <1>7, MarkClearWakes, MarkClear, MarkClearFails
<1>8. CASE RecallCounted \/ Paste \/ EchoWindowEnds \/ Pause \/ UNCHANGED vars
  BY <1>8, MarkRest
<1>9. ASSUME NEW s \in Selections, NEW e \in history, Recall(e, s) PROVE MarksOK'
  BY <1>9, MarkRest
<1>10. ASSUME NEW c \in Copies, NEW copy \in BOOLEAN, StoreExternal(c, copy) PROVE MarksOK'
  BY <1>10, MarkRest
<1>11. ASSUME NEW e \in history, Delete(e) PROVE MarksOK'
  BY <1>11, MarkRest
<1> QED
  BY <1>1, <1>2, <1>3, <1>4, <1>5, <1>6, <1>7, <1>8, <1>9, <1>10, <1>11 DEF Next

(* The delayed clear sets clearing_deliberately before it clears: as long  *)
(* as the daemon handles no other emptied selection in between, and no     *)
(* other clear fails, what was cleared is not put back, on any backend.    *)
THEOREM ClearsStayCleared == Spec => []ClearIsFinal
<1>1. Init => MarksOK
  <2> SUFFICES ASSUME Init PROVE MarksOK
    OBVIOUS
  <2>1. clears = {} /\ loop = Idle /\ notices = [s \in Selections |-> <<>>] /\ queue = notices
    BY DEF Init, InitWith
  <2> QED
    BY <2>1 DEF MarksOK, ClearIsFinal, Idle
<1>2. MarksOK => ClearIsFinal
  BY DEF MarksOK
<1> QED
  BY <1>1, <1>2, MarksStep, InvHolds, PTL DEF Spec

-----------------------------------------------------------------------------
(* schedule_clipboard_clear: a change that was handled after the recall    *)
(* and before the comparison keeps the clear from happening.               *)
THEOREM ClearsSpareWhatWasHeard == Spec => ClearSparesHeard
<1>1. Inv /\ [Next]_vars =>
        [\A s \in Selections :
            Held(s) /\ (\E t \in clears : t.at = "clearing" /\ t.to = s /\ Clear(t))
                => \E t \in clears : /\ t.at = "clearing" /\ t.to = s /\ Clear(t)
                                     /\ \/ sel[s].turn <= t.armed
                                        \/ sel[s].turn > t.fired]_vars
  <2> SUFFICES ASSUME Inv, NEW s \in Selections, NEW t \in clears,
                      t.at = "clearing", t.to = s, Clear(t)
               PROVE  sel[s].turn <= t.armed \/ sel[s].turn > t.fired
    OBVIOUS
  <2>1. t.fired = t.armed
    BY TaskFacts DEF GoodTask, Clear
  <2>2. t.armed \in Nat /\ sel[s].turn \in Nat
    BY TaskFacts DEF Task, Inv, SelOK, Selected
  <2> QED
    BY <2>1, <2>2
<1> QED
  BY <1>1, InvHolds, PTL DEF Spec, ClearSparesHeard
=============================================================================
